----------------------------- MODULE Bootloader -----------------------------
(***************************************************************************)
(* The bootloader KeyDU.BL: the boot decision of bl_main.c, the flash      *)
(* commands of usb_vendor.c with their page buffer, and flash.c; of the    *)
(* application, the two keys that reset the device.  Power may fail        *)
(* between any two steps, and inside a flash or EEPROM operation.          *)
(*                                                                         *)
(* An address counts chunks: page p starts at p * CHUNKS_PER_PAGE.         *)
(***************************************************************************)
EXTENDS Integers, FiniteSets

CONSTANTS
  AppStart,           \* APP_START, as a page
  FlashPages,         \* pages of flash, the bootloader's included
  CHUNKS_PER_PAGE,
  MaxCode             \* the largest page-count code of VCMD_ERASE

ASSUME FlashAssumption ==
  /\ FlashPages \in Nat
  /\ AppStart \in 1..(FlashPages - 1)
  /\ CHUNKS_PER_PAGE \in Nat \ {0}
  /\ MaxCode \in Nat

VARIABLES
  pc,                 \* where the CPU is
  rstfr,              \* reset flags of RSTCTRL.RSTFR
  seen_rstfr,         \* the flags that main() has read
  mark,               \* the EEPROM byte at BOOT_MAGIC_EEPROM_ADDR
  magic_valid,        \* the local variable of main()
  flash,              \* the content of each chunk of the application pages
  s_page_buf,
  s_chunk_count,
  s_page_addr,        \* as a page
  s_status,
  s_reset_pending,
  asked,              \* ghost: SYS_BOOT was pressed and not yet acted upon
  received,           \* ghost: offsets received since the page was begun
  committed           \* ghost: those of the page last written to flash

bootVars == <<pc, rstfr, seen_rstfr, mark, magic_valid, asked>>
bufferVars == <<s_page_buf, s_chunk_count, s_page_addr, received>>
deviceVars == <<bootVars, flash, bufferVars, s_status, s_reset_pending,
                committed>>

Offset  == 0..(CHUNKS_PER_PAGE - 1)
AppPage == AppStart..(FlashPages - 1)
Image   == 0..(CHUNKS_PER_PAGE * (FlashPages - AppStart) - 1)

(* A chunk of flash holds a chunk of the new image, the old application,   *)
(* nothing, or bits that belong to no one.                                 *)
Old   == -1
Blank == -2
Junk  == -3
Content == Image \cup {Old, Blank, Junk}

BlankPage == [k \in Offset |-> Blank]
JunkPage  == [k \in Offset |-> Junk]

BootTypeOK ==
  /\ pc \in {"flags", "mark", "decide", "bootloader", "app", "swrr"}
  /\ rstfr \in SUBSET {"PORF", "EXTRF", "WDRF", "SWRF"}
  /\ seen_rstfr \in SUBSET {"PORF", "EXTRF", "WDRF", "SWRF"}
  /\ mark \in {"BOOT_MAGIC", "clear", "other"}
  /\ magic_valid \in BOOLEAN
  /\ flash \in [AppPage -> [Offset -> Content]]
  /\ s_page_buf \in [Offset -> Content]
  /\ s_chunk_count \in 0..(CHUNKS_PER_PAGE - 1)
  /\ s_page_addr \in 0..(FlashPages - 1)
  /\ s_status \in {"STATUS_OK", "STATUS_ERROR"}
  /\ s_reset_pending \in BOOLEAN
  /\ asked \in BOOLEAN
  /\ received \subseteq Offset
  /\ committed \subseteq Offset

BootInit ==
  /\ pc = "flags"
  /\ rstfr = {"PORF"}
  /\ seen_rstfr = {}
  /\ mark = "clear"
  /\ magic_valid = FALSE
  /\ flash = [p \in AppPage |-> [k \in Offset |-> Old]]
  /\ s_page_buf = BlankPage
  /\ s_chunk_count = 0
  /\ s_page_addr = 0
  /\ s_status = "STATUS_OK"
  /\ s_reset_pending = FALSE
  /\ asked = FALSE
  /\ received = {}
  /\ committed = Offset

-----------------------------------------------------------------------------
(* Every reset restarts main() of the bootloader; the flags accumulate     *)
(* until they are cleared, and a power-on clears the others.               *)
EnterReset(flags) ==
  /\ pc' = "flags"
  /\ rstfr' = flags
  /\ seen_rstfr' = {}
  /\ magic_valid' = FALSE
  /\ s_page_buf' = BlankPage
  /\ s_chunk_count' = 0
  /\ s_page_addr' = 0
  /\ received' = {}
  /\ s_status' = "STATUS_OK"
  /\ s_reset_pending' = FALSE
  /\ UNCHANGED committed

(* Mutants: the EEPROM mark, or the reset flag, is believed alone. *)
MarkIsEnough == magic_valid
SoftIsEnough == "SWRF" \in seen_rstfr

(* Both conditions of the boot decision. *)
EntersBootloader == "SWRF" \in seen_rstfr /\ magic_valid

(* The EEPROM byte while it is being written has any value if power fails: in
   SYS_BOOT, in main() and, where it is neither clear nor the mark, in
   jump_to_application().  SYS_RST and the bootloader's own reset find it
   clear and write nothing. *)
MarkBeingWritten ==
  \/ pc = "swrr"
  \/ pc = "mark" /\ mark = "BOOT_MAGIC"
  \/ pc = "decide" /\ ~EntersBootloader /\ mark # "clear"

PowerLoss ==
  /\ EnterReset({"PORF"})
  /\ mark' \in IF MarkBeingWritten THEN {"BOOT_MAGIC", "clear", "other"}
               ELSE {mark}
  /\ asked' = FALSE
  /\ UNCHANGED flash

ResetPin ==
  /\ EnterReset(rstfr \cup {"EXTRF"})
  /\ UNCHANGED <<mark, asked, flash>>

ReadFlags ==
  /\ pc = "flags"
  /\ pc' = "mark"
  /\ seen_rstfr' = rstfr
  /\ rstfr' = {}
  /\ UNCHANGED <<mark, magic_valid, asked, flash, bufferVars, s_status,
                 s_reset_pending, committed>>

ReadMark ==
  /\ pc = "mark"
  /\ pc' = "decide"
  /\ magic_valid' = (mark = "BOOT_MAGIC")
  /\ mark' = IF mark = "BOOT_MAGIC" THEN "clear" ELSE mark
  /\ UNCHANGED <<rstfr, seen_rstfr, asked, flash, bufferVars, s_status,
                 s_reset_pending, committed>>

(* usb_vendor_init() or jump_to_application(); RAM is as after the reset.  *)
Decide ==
  /\ pc = "decide"
  /\ \/ EntersBootloader /\ pc' = "bootloader" /\ UNCHANGED mark
     \/ ~EntersBootloader /\ pc' = "app" /\ mark' = "clear"
  /\ asked' = FALSE
  /\ UNCHANGED <<rstfr, seen_rstfr, magic_valid, flash, bufferVars, s_status,
                 s_reset_pending, committed>>

(* An application whose pages are whole answers its keys. *)
SysBoot(app_runs) ==
  /\ pc = "app" /\ app_runs
  /\ mark' = "BOOT_MAGIC"
  /\ pc' = "swrr"
  /\ asked' = TRUE
  /\ UNCHANGED <<rstfr, seen_rstfr, magic_valid, flash, bufferVars, s_status,
                 s_reset_pending, committed>>

SoftwareReset ==
  /\ pc = "swrr"
  /\ EnterReset(rstfr \cup {"SWRF"})
  /\ UNCHANGED <<mark, asked, flash>>

SysRst(app_runs) ==
  /\ pc = "app" /\ app_runs
  /\ EnterReset(rstfr \cup {"WDRF"})
  /\ mark' = "clear"
  /\ UNCHANGED <<asked, flash>>

-----------------------------------------------------------------------------
addr_valid(addr) == addr >= AppStart * CHUNKS_PER_PAGE
page_base(addr)  == addr \div CHUNKS_PER_PAGE

decode_page_count(code) == IF code > MaxCode THEN 1 ELSE 2 ^ code

(* The pages that the hardware erases: the whole aligned group around the  *)
(* page addressed, less the boot section, which it protects.               *)
ErasedPages(page, n) ==
  {p \in AppPage : p \div n = page \div n}

(* Programming clears bits: a chunk comes out as sent if it was blank. *)
Programmed(before, new) ==
  IF before = Blank \/ before = new THEN new
  ELSE IF new = Blank THEN before
  ELSE Junk

flash_erase_pages(page, n) ==
  flash' = [p \in AppPage |-> IF p \in ErasedPages(page, n)
                              THEN BlankPage ELSE flash[p]]

handle_erase(code, addr) ==
  /\ s_status' = IF addr_valid(addr) THEN "STATUS_OK" ELSE "STATUS_ERROR"
  /\ IF addr_valid(addr)
     THEN flash_erase_pages(page_base(addr), decode_page_count(code))
     ELSE UNCHANGED flash
  /\ UNCHANGED <<bootVars, bufferVars, s_reset_pending, committed>>

(* Mutant: a chunk of another page joins the page in progress. *)
BeginsIfEmpty(addr) == s_chunk_count = 0

(* The chunk starts a page: nothing is in progress, or another page is. *)
BeginsPage(addr) == s_chunk_count = 0 \/ page_base(addr) # s_page_addr

(* The buffer, the count and the chunks received once chunk has been       *)
(* taken in; a page begun anew starts blank.                               *)
Buffered(addr, chunk) ==
  [IF BeginsPage(addr) THEN BlankPage ELSE s_page_buf
     EXCEPT ![addr % CHUNKS_PER_PAGE] = chunk]
CountAfter(addr) == IF BeginsPage(addr) THEN 1 ELSE s_chunk_count + 1
(* Mutant: the count is not reset when a page is written. *)
CountKept(addr) == CountAfter(addr)
CountLeft(addr) ==
  IF CountAfter(addr) >= CHUNKS_PER_PAGE THEN 0 ELSE CountAfter(addr)
ReceivedAfter(addr) ==
  (IF BeginsPage(addr) THEN {} ELSE received) \cup {addr % CHUNKS_PER_PAGE}

flash_write_page(page, buf) ==
  flash' = [flash EXCEPT ![page] = [k \in Offset |->
                                      Programmed(flash[page][k], buf[k])]]

(* page_base() of an address inside the flash; the code tests only the     *)
(* lower end of it.                                                        *)
handle_write(addr, chunk) ==
  /\ IF addr_valid(addr)
     THEN /\ s_status' = "STATUS_OK"
          /\ s_page_buf' = Buffered(addr, chunk)
          /\ s_page_addr' = IF BeginsPage(addr) THEN page_base(addr)
                            ELSE s_page_addr
          /\ received' = ReceivedAfter(addr)
          /\ s_chunk_count' = CountLeft(addr)
          /\ IF CountAfter(addr) >= CHUNKS_PER_PAGE
             THEN /\ flash_write_page(s_page_addr', s_page_buf')
                  /\ committed' = received'
             ELSE UNCHANGED <<flash, committed>>
     ELSE /\ s_status' = "STATUS_ERROR"
          /\ UNCHANGED <<flash, bufferVars, committed>>
  /\ UNCHANGED <<bootVars, s_reset_pending>>

handle_reset ==
  /\ s_reset_pending' = TRUE
  /\ UNCHANGED <<bootVars, flash, bufferVars, s_status, committed>>

(* The end of usb_vendor_task(). *)
LeaveBootloader ==
  /\ pc = "bootloader"
  /\ s_reset_pending
  /\ EnterReset(rstfr \cup {"SWRF"})
  /\ mark' = "clear"
  /\ UNCHANGED <<asked, flash>>

(* Power fails, or the reset pin is pulled, during the erase or the        *)
(* programming of pages: their content is undefined.                       *)
TornFlash(pages) ==
  /\ \/ EnterReset({"PORF"})
     \/ EnterReset(rstfr \cup {"EXTRF"})
  /\ flash' = [p \in AppPage |-> IF p \in pages THEN JunkPage ELSE flash[p]]
  /\ UNCHANGED <<mark, asked>>

CpuStep ==
  ReadFlags \/ ReadMark \/ Decide \/ SoftwareReset \/ LeaveBootloader
=============================================================================
