---------------------------- MODULE Flasher_proofs ----------------------------
(***************************************************************************)
(* The bootloader and the flasher, for every size of flash, page and image:*)
(* the bootloader runs only when it was asked for; a run that reports      *)
(* success has written the image, if what it writes to was erased; no      *)
(* variable leaves its range; and which images are erased.                 *)
(***************************************************************************)
EXTENDS Flasher, FiniteSetTheorems, FunctionTheorems, TLAPS

(* When nobody asked, no reset leaves both the mark and the flag behind. *)
BootInv ==
  /\ pc \in {"flags", "mark", "decide", "bootloader", "app", "swrr"}
  /\ pc = "swrr" => asked
  /\ pc = "bootloader" => ~asked
  /\ pc \in {"decide", "bootloader", "app"} => mark # "BOOT_MAGIC"
  /\ pc \in {"flags", "mark"} => ~magic_valid
  /\ (pc \in {"flags", "mark", "decide"} /\ ~asked /\ "SWRF" \in rstfr \cup seen_rstfr) =>
       mark # "BOOT_MAGIC" /\ ~magic_valid

LEMMA BootInit0 == Init => BootInv
  BY DEF Init, BootInit, BootInv

(* Where the CPU, the reset flags and the mark are left alone. *)
LEMMA BootKept == BootInv /\ UNCHANGED bootVars => BootInv'
  BY DEF BootInv, bootVars

LEMMA BootStep == BootInv /\ [Next]_vars => BootInv'
<1> SUFFICES ASSUME BootInv, [Next]_vars PROVE BootInv'
  OBVIOUS
<1>1. CASE UNCHANGED vars
  BY <1>1, BootKept DEF vars, deviceVars
<1>2. CASE DeviceStep
  <2>1. CASE ReadFlags
    BY <2>1 DEF ReadFlags, BootInv
  <2>2. CASE ReadMark
    BY <2>2 DEF ReadMark, BootInv
  <2>3. CASE Decide
    BY <2>3 DEF Decide, EntersBootloader, BootInv
  <2>4. CASE SoftwareReset
    BY <2>4 DEF SoftwareReset, EnterReset, BootInv
  <2>5. CASE LeaveBootloader
    BY <2>5 DEF LeaveBootloader, EnterReset, BootInv
  <2>6. CASE SysBoot(AppRuns)
    BY <2>6 DEF SysBoot, BootInv
  <2>7. CASE SysRst(AppRuns)
    BY <2>7 DEF SysRst, EnterReset, BootInv
  <2>8. CASE PowerLoss
    BY <2>8 DEF PowerLoss, EnterReset, BootInv
  <2>9. CASE ResetPin
    BY <2>9 DEF ResetPin, EnterReset, BootInv
  <2>10. QED
    BY <1>2, <2>1, <2>2, <2>3, <2>4, <2>5, <2>6, <2>7, <2>8, <2>9 DEF DeviceStep, CpuStep
<1>3. CASE HostStep
  <2>1. CASE Start \/ TransferFails
    BY <2>1, BootKept DEF Start, TransferFails, deviceVars
  <2>2. CASE reset_device
    BY <2>2, BootKept DEF reset_device, handle_reset, deviceVars
  <2>3. ASSUME NEW pages, pc = "bootloader", TornFlash(pages) PROVE BootInv'
    BY <2>3 DEF TornFlash, EnterReset, BootInv
  <2>4. CASE erase_flash_multi
    BY <2>3, <2>4, BootKept DEF erase_flash_multi, handle_erase, Listens
  <2>5. CASE write_chunk
    BY <2>3, <2>5, BootKept DEF write_chunk, handle_write, Listens
  <2>6. QED
    BY <1>3, <2>1, <2>2, <2>4, <2>5 DEF HostStep
<1>4. QED
  BY <1>1, <1>2, <1>3 DEF Next

LEMMA BootInvHolds == Spec => []BootInv
  BY BootInit0, BootStep, PTL DEF Spec

(* Only the boot decision enters the bootloader. *)
LEMMA OnlyDecideEnters ==
  ASSUME BootInv, Next, pc # "bootloader", pc' = "bootloader"
  PROVE  asked
<1>1. CASE DeviceStep
  BY <1>1 DEF DeviceStep, CpuStep, ReadFlags, ReadMark, Decide, EntersBootloader, SoftwareReset,
     LeaveBootloader, SysBoot, SysRst, PowerLoss, ResetPin, EnterReset, BootInv
<1>2. CASE HostStep
  BY <1>2 DEF HostStep, Start, TransferFails, reset_device, handle_reset, erase_flash_multi,
     handle_erase, write_chunk, handle_write, Listens, deviceVars, bootVars, TornFlash, EnterReset
<1>3. QED
  BY <1>1, <1>2 DEF Next

(* The bootloader runs only for a SYS_BOOT that no power loss has come between,
   for every size of flash and image (bl_main.c:66-92). *)
THEOREM BootloaderOnRequest == Spec => EntersOnRequest
<1>1. BootInv /\ [Next]_vars => [pc # "bootloader" /\ pc' = "bootloader" => asked]_vars
  BY OnlyDecideEnters DEF vars, deviceVars, bootVars
<1>2. QED
  BY <1>1, BootInvHolds, PTL DEF Spec, EntersOnRequest

------------------------------------------------------------------------------
(* Addresses and pages. *)

LEMMA Split ==
  ASSUME NEW q \in Nat, NEW r \in Offset
  PROVE  /\ q * CHUNKS_PER_PAGE + r \in Nat
         /\ (q * CHUNKS_PER_PAGE + r) \div CHUNKS_PER_PAGE = q
         /\ (q * CHUNKS_PER_PAGE + r) % CHUNKS_PER_PAGE = r
  BY FlashAssumption DEF Offset

LEMMA Ahead ==
  ASSUME NEW p \in Nat, NEW q \in Nat, p < q
  PROVE  p * CHUNKS_PER_PAGE + CHUNKS_PER_PAGE <= q * CHUNKS_PER_PAGE
  BY FlashAssumption

(* The pages of the image, its last one being reached by its last chunk. *)
Pages == PagesFor(image_size)
LastPage == AppStart + (Pages - 1)

LEMMA PagesOfImage ==
  ASSUME image_size \in ImageSizes
  PROVE  /\ image_size \in Nat \ {0}
         /\ Pages \in 1..(FlashPages - AppStart)
         /\ (Pages - 1) * CHUNKS_PER_PAGE < image_size
         /\ image_size <= Pages * CHUNKS_PER_PAGE
<1> DEFINE C == CHUNKS_PER_PAGE
           room == FlashPages - AppStart
<1>1. C \in Nat \ {0} /\ room \in Nat \ {0}
  BY FlashAssumption
<1>2. image_size \in Nat \ {0} /\ image_size <= C * room
  BY <1>1, ImageAssumption
<1>3. Pages = (image_size + C - 1) \div C
  BY DEF Pages, PagesFor
<1>4. /\ Pages \in Nat /\ (image_size + C - 1) % C \in 0..(C - 1)
      /\ image_size + C - 1 = Pages * C + ((image_size + C - 1) % C)
  BY <1>1, <1>2, <1>3
<1>5. Pages * C < image_size + C /\ image_size <= Pages * C
  BY <1>1, <1>2, <1>4
<1>6. Pages # 0
  BY <1>1, <1>2, <1>5
<1>7. (Pages - 1) * C = Pages * C - C
  BY <1>1, <1>4
<1>8. Pages <= room
  <2>1. SUFFICES ASSUME Pages > room PROVE FALSE
    BY <1>1, <1>4
  <2>2. room * C + C <= Pages * C
    BY <2>1, <1>1, <1>4, Ahead
  <2>3. room * C = C * room
    BY <1>1
  <2>4. QED
    BY <1>1, <1>2, <1>4, <1>5, <2>2, <2>3
<1>9. QED
  BY <1>1, <1>2, <1>4, <1>5, <1>6, <1>7, <1>8

------------------------------------------------------------------------------
(* A run that has got to a chunk: the pages before it hold their chunks, it
   and the pages behind are blank, and the buffer holds what its page has got
   so far. *)
At(page, r) ==
  /\ page \in 0..(Pages - 1) /\ r \in Offset
  /\ chunks_written = page * CHUNKS_PER_PAGE + r
  /\ \A p \in 0..(page - 1), k \in Offset :
       flash[AppStart + p][k] = ImageChunk(p * CHUNKS_PER_PAGE + k)
  /\ \A p \in page..(Pages - 1) : flash[AppStart + p] = BlankPage
  /\ r = 0 => s_chunk_count = 0 \/ s_page_addr # AppStart + page
  /\ r # 0 =>
       /\ s_chunk_count = r /\ s_page_addr = AppStart + page
       /\ s_page_buf = [k \in Offset |-> IF k < r THEN ImageChunk(page * CHUNKS_PER_PAGE + k)
                                         ELSE Blank]

(* While a run writes, the bootloader cannot be left and entered again: there
   is no application that could ask for it. *)
Writing ==
  /\ flash[LastPage] = BlankPage
  /\ IF pc = "bootloader" THEN \E page \in 0..(Pages - 1), r \in Offset : At(page, r)
     ELSE ~asked

UploadInv ==
  /\ BootInv
  /\ image_size \in ImageSizes
  /\ DOMAIN flash = AppPage /\ flash = [p \in AppPage |-> flash[p]]
  /\ phase \in {"erase", "write", "reset"} => ~s_reset_pending
  /\ phase = "erase" => chunks_written = 0 /\ (clean => NoUnfinishedFirstPage)
  /\ phase = "write" /\ clean => Writing
  /\ phase \in {"reset", "done"} /\ clean => Flashed

(* With its last page blank, the application area holds neither the old nor
   the new application. *)
LEMMA NoApplication ==
  ASSUME image_size \in ImageSizes, flash[LastPage] = BlankPage
  PROVE  ~AppRuns
<1> DEFINE C == CHUNKS_PER_PAGE
           k == image_size - 1 - (Pages - 1) * C
<1>1. C \in Nat \ {0} /\ AppStart \in Nat /\ FlashPages \in Nat
  BY FlashAssumption
<1>2. /\ image_size \in Nat \ {0} /\ Pages \in 1..(FlashPages - AppStart)
      /\ (Pages - 1) * C < image_size /\ image_size <= Pages * C
  BY PagesOfImage
<1>3. (Pages - 1) * C \in Nat /\ Pages * C = (Pages - 1) * C + C
  BY <1>1, <1>2
<1>4. k \in Offset /\ 0 \in Offset
  BY <1>1, <1>2, <1>3 DEF Offset
<1>5. LastPage \in AppPage /\ LastPage \in ImagePage /\ LastPage - AppStart = Pages - 1
  BY <1>1, <1>2 DEF LastPage, AppPage, ImagePage, Pages
<1>6. flash[LastPage][0] # Old
  BY <1>4 DEF BlankPage, Blank, Old
<1>7. ImageChunk((LastPage - AppStart) * C + k) = image_size - 1
  <2>1. (LastPage - AppStart) * C + k = image_size - 1
    BY <1>1, <1>2, <1>3, <1>5
  <2>2. QED
    BY <1>2, <2>1 DEF ImageChunk
<1>8. flash[LastPage][k] = Blank
  BY <1>4 DEF BlankPage
<1>9. flash[LastPage][k] # ImageChunk((LastPage - AppStart) * C + k)
  BY <1>2, <1>7, <1>8 DEF Blank
<1>10. QED
  BY <1>4, <1>5, <1>6, <1>9 DEF AppRuns, Untouched, Flashed

(* The device alone leaves the flash as it is, and a run that writes cannot
   meet the bootloader again. *)
LEMMA UploadDevice ==
  ASSUME UploadInv, BootInv', DeviceStep
  PROVE  UploadInv'
<1>1. UNCHANGED <<flash, flasherVars>> /\ image_size \in ImageSizes
  BY DEF UploadInv, DeviceStep, CpuStep, ReadFlags, ReadMark, Decide, SoftwareReset, LeaveBootloader,
     SysBoot, SysRst, PowerLoss, ResetPin
<1>2. \/ UNCHANGED <<s_chunk_count, s_page_addr, s_page_buf, s_reset_pending>>
      \/ s_chunk_count' = 0 /\ s_reset_pending' = FALSE
  BY DEF DeviceStep, CpuStep, ReadFlags, ReadMark, Decide, SoftwareReset, LeaveBootloader,
     SysBoot, SysRst, PowerLoss, ResetPin, EnterReset, bufferVars
<1>3. NoUnfinishedFirstPage => NoUnfinishedFirstPage'
  BY <1>2 DEF NoUnfinishedFirstPage
<1>4. Flashed => Flashed'
  BY <1>1 DEF Flashed, flasherVars, ImagePage, ImageChunk
<1>5. (phase = "write" /\ clean => Writing)'
  <2>1. SUFFICES ASSUME phase = "write", clean PROVE Writing'
    BY <1>1 DEF flasherVars
  <2>2. Writing /\ ~s_reset_pending /\ flash[LastPage] = BlankPage
    BY <2>1 DEF UploadInv, Writing
  <2>3. ~AppRuns
    BY <1>1, <2>2, NoApplication
  <2>4. pc = "bootloader" => ~asked
    BY DEF UploadInv, BootInv
  <2>5. pc' # "bootloader" /\ ~asked'
    BY <2>2, <2>3, <2>4 DEF Writing, UploadInv, BootInv, DeviceStep, CpuStep, ReadFlags, ReadMark,
       Decide, EntersBootloader, SoftwareReset, LeaveBootloader, SysBoot, SysRst, PowerLoss, ResetPin,
       EnterReset
  <2>6. (flash[LastPage] = BlankPage)'
    BY <1>1, <2>2 DEF LastPage, Pages, PagesFor, BlankPage, flasherVars
  <2>7. QED
    BY <2>5, <2>6 DEF Writing
<1>6. QED
  BY <1>1, <1>2, <1>3, <1>4, <1>5 DEF UploadInv, flasherVars

(* What is left of the invariant when a run has failed. *)
LEMMA UploadFailed ==
  ASSUME UploadInv, BootInv', Fail, DOMAIN flash' = AppPage, flash' = [p \in AppPage |-> flash'[p]]
  PROVE  UploadInv'
  BY DEF UploadInv, Fail

LEMMA UploadErase ==
  ASSUME UploadInv, BootInv', ErasedBeforeWrite', erase_flash_multi
  PROVE  UploadInv'
<1> DEFINE code == EraseCode(pages_to_erase)
<1>1. CASE Fail
  <2>1. flash' = flash \/ (DOMAIN flash' = AppPage /\ flash' = [p \in AppPage |-> flash'[p]])
    BY DEF erase_flash_multi, handle_erase, flash_erase_pages, TornFlash
  <2>2. QED
    BY <1>1, <2>1, UploadFailed DEF UploadInv
<1>2. CASE handle_erase(code, erase_addr) /\ NextRound(2 ^ code)
  <2>1. /\ phase = "erase" /\ phase' \in {"erase", "write"}
        /\ UNCHANGED <<chunks_written, image_size, clean, bootVars, bufferVars, s_reset_pending>>
        /\ pc = "bootloader"
    BY <1>2 DEF erase_flash_multi, NextRound, handle_erase, Listens
  <2>2. chunks_written' = 0 /\ (clean' => NoUnfinishedFirstPage')
    BY <2>1 DEF UploadInv, NoUnfinishedFirstPage, bufferVars
  <2>3. DOMAIN flash' = AppPage /\ flash' = [p \in AppPage |-> flash'[p]]
    BY <1>2 DEF handle_erase, flash_erase_pages, UploadInv
  <2>4. (phase = "write" /\ clean => Writing)'
    <3>1. SUFFICES ASSUME phase' = "write", clean' PROVE Writing'
      OBVIOUS
    <3>2. Pages \in 1..(FlashPages - AppStart) /\ AppStart \in Nat /\ FlashPages \in Nat
      BY PagesOfImage, FlashAssumption DEF UploadInv
    <3>3. Pages' = Pages /\ LastPage' = LastPage /\ BlankPage' = BlankPage
      BY <2>1 DEF Pages, LastPage, PagesFor, BlankPage
    <3>4. \A p \in 0..(Pages - 1) : flash'[AppStart + p] = BlankPage
      <4>1. \A p \in ImagePage' : flash'[p] = BlankPage
        BY <2>2, <3>1, <3>3 DEF ErasedBeforeWrite
      <4>2. ImagePage' = AppStart..(AppStart + Pages - 1)
        BY <3>3 DEF ImagePage, Pages
      <4>3. \A p \in 0..(Pages - 1) : AppStart + p \in ImagePage'
        BY <3>2, <4>2
      <4>4. QED
        BY <4>1, <4>3
    <3>5. flash'[LastPage'] = BlankPage'
      BY <3>2, <3>3, <3>4 DEF LastPage
    <3>6. At(0, 0)'
      <4>1. 0 \in 0..(Pages - 1) /\ 0 \in Offset
        BY <3>2, FlashAssumption DEF Offset
      <4>2. chunks_written' = 0 * CHUNKS_PER_PAGE + 0
        BY <2>2, FlashAssumption
      <4>3. s_chunk_count' = 0 \/ s_page_addr' # AppStart + 0
        BY <2>2, <3>1, <3>2 DEF NoUnfinishedFirstPage
      <4>4. 0..(0 - 1) = {}
        OBVIOUS
      <4>5. QED
        BY <3>3, <3>4, <4>1, <4>2, <4>3, <4>4 DEF At
    <3>7. pc' = "bootloader"
      BY <2>1 DEF bootVars
    <3>8. 0 \in 0..(Pages' - 1) /\ 0 \in Offset
      BY <3>2, <3>3, FlashAssumption DEF Offset
    <3>9. QED
      BY <3>5, <3>6, <3>7, <3>8 DEF Writing, Offset
  <2>5. QED
    BY <2>1, <2>2, <2>3, <2>4 DEF UploadInv
<1>3. QED
  BY <1>1, <1>2 DEF erase_flash_multi

------------------------------------------------------------------------------
(* The address of the next chunk is its offset in its page of the image. *)
LEMMA AddressOfChunk ==
  ASSUME image_size \in ImageSizes, NEW page \in Nat, NEW r \in Nat, At(page, r)
  PROVE  /\ page \in 0..(Pages - 1) /\ r \in Offset
         /\ chunks_written \in Nat
         /\ addr_valid(WriteAddr)
         /\ page_base(WriteAddr) = AppStart + page
         /\ WriteAddr % CHUNKS_PER_PAGE = r
         /\ AppStart + page \in AppPage /\ AppStart + page \in ImagePage
<1>1. /\ page \in 0..(Pages - 1) /\ r \in Offset
      /\ chunks_written = page * CHUNKS_PER_PAGE + r
  BY DEF At
<1>2. /\ AppStart \in Nat /\ FlashPages \in Nat /\ CHUNKS_PER_PAGE \in Nat \ {0}
      /\ Pages \in 1..(FlashPages - AppStart)
  BY FlashAssumption, PagesOfImage
<1>3. AppStart + page \in Nat /\ r \in Nat
  BY <1>1, <1>2 DEF Offset
<1>4. page * CHUNKS_PER_PAGE \in Nat /\ AppStart * CHUNKS_PER_PAGE \in Nat
  BY <1>2
<1>5. (AppStart + page) * CHUNKS_PER_PAGE = AppStart * CHUNKS_PER_PAGE + page * CHUNKS_PER_PAGE
  BY <1>2
<1>6. WriteAddr = (AppStart + page) * CHUNKS_PER_PAGE + r
  BY <1>1, <1>3, <1>4, <1>5 DEF WriteAddr
<1>7. WriteAddr \div CHUNKS_PER_PAGE = AppStart + page /\ WriteAddr % CHUNKS_PER_PAGE = r
  BY <1>1, <1>3, <1>6, Split
<1>8. addr_valid(WriteAddr)
  BY <1>3, <1>4, <1>5, <1>6 DEF addr_valid
<1>9. AppStart + page \in AppPage /\ AppStart + page \in ImagePage
  BY <1>1, <1>2 DEF AppPage, ImagePage, Pages
<1>10. QED
  BY <1>1, <1>3, <1>4, <1>7, <1>8, <1>9 DEF page_base

(* The buffer with one chunk more. *)
LEMMA BufferGrows ==
  ASSUME image_size \in ImageSizes, NEW page \in Nat, NEW r \in Nat, At(page, r)
  PROVE  /\ CountAfter(WriteAddr) = r + 1
         /\ (IF BeginsPage(WriteAddr) THEN page_base(WriteAddr) ELSE s_page_addr) = AppStart + page
         /\ Buffered(WriteAddr, ImageChunk(chunks_written))
              = [k \in Offset |-> IF k < r + 1 THEN ImageChunk(page * CHUNKS_PER_PAGE + k)
                                  ELSE Blank]
<1>1. /\ page_base(WriteAddr) = AppStart + page /\ WriteAddr % CHUNKS_PER_PAGE = r
      /\ r \in Offset /\ chunks_written = page * CHUNKS_PER_PAGE + r
  BY AddressOfChunk DEF At
<1>2. Offset \subseteq Nat
  BY FlashAssumption DEF Offset
<1>3. CASE r = 0
  <2>1. BeginsPage(WriteAddr)
    BY <1>1, <1>3 DEF BeginsPage, At
  <2>2. Buffered(WriteAddr, ImageChunk(chunks_written))
          = [BlankPage EXCEPT ![0] = ImageChunk(page * CHUNKS_PER_PAGE + 0)]
    BY <1>1, <1>3, <2>1 DEF Buffered
  <2>3. \A k \in Offset : k < 0 + 1 <=> k = 0
    BY <1>2
  <2>4. Buffered(WriteAddr, ImageChunk(chunks_written))
          = [k \in Offset |-> IF k < 0 + 1 THEN ImageChunk(page * CHUNKS_PER_PAGE + k) ELSE Blank]
    BY <2>2, <2>3 DEF BlankPage
  <2>5. CountAfter(WriteAddr) = 0 + 1
    BY <2>1 DEF CountAfter
  <2>6. QED
    BY <1>1, <1>3, <2>1, <2>4, <2>5
<1>4. CASE r # 0
  <2>1. /\ s_chunk_count = r /\ s_page_addr = AppStart + page
        /\ s_page_buf = [k \in Offset |-> IF k < r THEN ImageChunk(page * CHUNKS_PER_PAGE + k)
                                          ELSE Blank]
    BY <1>4 DEF At
  <2>2. ~BeginsPage(WriteAddr)
    BY <1>1, <1>4, <2>1 DEF BeginsPage
  <2>3. Buffered(WriteAddr, ImageChunk(chunks_written))
          = [s_page_buf EXCEPT ![r] = ImageChunk(page * CHUNKS_PER_PAGE + r)]
    BY <1>1, <2>2 DEF Buffered
  <2>4. \A k \in Offset : k < r + 1 <=> k < r \/ k = r
    BY <1>2
  <2>5. QED
    BY <1>1, <2>1, <2>2, <2>3, <2>4 DEF CountAfter
<1>5. QED
  BY <1>3, <1>4

(* A chunk that the device takes in brings the run from one position to the
   next, and the last chunk brings it to the end. *)
LEMMA ChunkWritten ==
  ASSUME UploadInv, NEW page \in Nat, NEW r \in Nat, At(page, r),
         handle_write(WriteAddr, ImageChunk(chunks_written)),
         chunks_written' = chunks_written + 1, image_size' = image_size
  PROVE  IF chunks_written' = CHUNKS_PER_PAGE * Pages THEN Flashed'
         ELSE /\ \E p \in 0..(Pages - 1), q \in Offset : At(p, q)'
              /\ flash'[LastPage] = BlankPage
<1> DEFINE C == CHUNKS_PER_PAGE
           here == AppStart + page
           buffer == [k \in Offset |-> IF k < r + 1 THEN ImageChunk(page * C + k) ELSE Blank]
<1>1. image_size \in ImageSizes /\ DOMAIN flash = AppPage /\ flash = [p \in AppPage |-> flash[p]]
  BY DEF UploadInv
<1>2. /\ page \in 0..(Pages - 1) /\ r \in Offset
      /\ addr_valid(WriteAddr) /\ here \in AppPage
      /\ page_base(WriteAddr) = here
  BY <1>1, AddressOfChunk
<1>3. /\ s_page_buf' = buffer
      /\ s_page_addr' = here
      /\ s_chunk_count' = IF r + 1 >= C THEN 0 ELSE r + 1
      /\ IF r + 1 >= C
         THEN flash' = [flash EXCEPT ![here] = [k \in Offset |-> Programmed(flash[here][k], buffer[k])]]
         ELSE flash' = flash
  <2>1. /\ CountAfter(WriteAddr) = r + 1
        /\ (IF BeginsPage(WriteAddr) THEN page_base(WriteAddr) ELSE s_page_addr) = here
        /\ Buffered(WriteAddr, ImageChunk(chunks_written)) = buffer
    BY <1>1, BufferGrows
  <2>2. QED
    BY <1>2, <2>1 DEF handle_write, CountLeft, flash_write_page
<1>4. /\ C \in Nat \ {0} /\ AppStart \in Nat /\ FlashPages \in Nat
      /\ Pages \in 1..(FlashPages - AppStart)
  BY <1>1, FlashAssumption, PagesOfImage
<1>5. /\ Pages' = Pages /\ BlankPage' = BlankPage /\ ImagePage' = ImagePage
      /\ \A i : (ImageChunk(i))' = ImageChunk(i)
  BY DEF Pages, PagesFor, BlankPage, ImagePage, ImageChunk
<1>6. /\ chunks_written = page * C + r
      /\ \A p \in 0..(page - 1), k \in Offset : flash[AppStart + p][k] = ImageChunk(p * C + k)
      /\ \A p \in page..(Pages - 1) : flash[AppStart + p] = BlankPage
  BY DEF At
<1>7. page * C \in Nat /\ C * Pages = Pages * C
  BY <1>2, <1>4
<1>8. \A p \in 0..(Pages - 1) : AppStart + p \in AppPage
  BY <1>4 DEF AppPage
<1>9. CASE r + 1 < C
  <2>1. /\ r + 1 \in Offset /\ chunks_written' = page * C + (r + 1)
    BY <1>2, <1>4, <1>6, <1>7, <1>9 DEF Offset
  <2>2. flash' = flash /\ s_chunk_count' = r + 1 /\ s_page_addr' = here /\ s_page_buf' = buffer
    BY <1>2, <1>3, <1>4, <1>9 DEF Offset
  <2>3. At(page, r + 1)'
    BY <1>2, <1>4, <1>5, <1>6, <2>1, <2>2 DEF At, Offset
  <2>4. chunks_written' # C * Pages
    <3>1. page * C + C <= Pages * C
      BY <1>2, <1>4, Ahead
    <3>2. QED
      BY <1>2, <1>4, <1>6, <1>7, <1>9, <3>1 DEF Offset
  <2>5. flash'[LastPage] = BlankPage
    BY <1>2, <1>4, <1>6, <2>2 DEF LastPage
  <2>6. QED
    BY <1>2, <2>1, <2>3, <2>4, <2>5
<1>10. CASE r + 1 >= C
  <2>1. r + 1 = C
    BY <1>2, <1>4, <1>10 DEF Offset
  <2>2. chunks_written' = (page + 1) * C + 0
    <3>1. (page + 1) * C = page * C + C
      BY <1>4
    <3>2. QED
      BY <1>2, <1>4, <1>6, <1>7, <2>1, <3>1 DEF Offset
  <2>3. s_chunk_count' = 0
    BY <1>3, <1>10
  <2>4. flash' = [flash EXCEPT ![here] = [k \in Offset |-> Programmed(flash[here][k], buffer[k])]]
    BY <1>3, <1>10
  <2>5. \A k \in Offset : flash'[here][k] = ImageChunk(page * C + k)
    <3>1. \A k \in Offset : flash[here][k] = Blank
      BY <1>2, <1>4, <1>6 DEF BlankPage
    <3>2. \A k \in Offset : buffer[k] = ImageChunk(page * C + k)
      BY <1>4, <2>1 DEF Offset
    <3>3. flash'[here] = [k \in Offset |-> Programmed(flash[here][k], buffer[k])]
      BY <1>1, <1>2, <2>4
    <3>4. QED
      BY <3>1, <3>2, <3>3 DEF Programmed
  <2>6. \A p \in 0..(Pages - 1) : p # page => flash'[AppStart + p] = flash[AppStart + p]
    BY <1>1, <1>2, <1>4, <1>8, <2>4
  <2>7. \A p \in 0..page, k \in Offset : flash'[AppStart + p][k] = ImageChunk(p * C + k)
    BY <1>2, <1>4, <1>6, <2>5, <2>6
  <2>8. CASE page + 1 = Pages
    <3>1. ASSUME NEW p \in ImagePage, NEW k \in Offset
          PROVE  flash'[p][k] = ImageChunk((p - AppStart) * C + k)
      <4>1. p - AppStart \in 0..page /\ AppStart + (p - AppStart) = p
        BY <1>2, <1>4, <2>8 DEF ImagePage, Pages
      <4>2. QED
        BY <2>7, <4>1
    <3>2. Flashed'
      BY <1>5, <3>1 DEF Flashed, Offset
    <3>3. chunks_written' = C * Pages
      BY <1>4, <1>7, <2>2, <2>8
    <3>4. QED
      BY <3>2, <3>3
  <2>9. CASE page + 1 # Pages
    <3>1. page + 1 \in 0..(Pages - 1)
      BY <1>2, <1>4, <2>9
    <3>2. \A p \in (page + 1)..(Pages - 1) : flash'[AppStart + p] = BlankPage
      BY <1>2, <1>4, <1>6, <2>6
    <3>3. 0 \in Offset /\ (page + 1) - 1 = page
      BY <1>4 DEF Offset
    <3>4. At(page + 1, 0)'
      BY <1>5, <2>2, <2>3, <2>7, <3>1, <3>2, <3>3 DEF At
    <3>5. flash'[LastPage] = BlankPage
      BY <1>4, <3>1, <3>2 DEF LastPage
    <3>6. chunks_written' # C * Pages
      <4>1. (page + 1) * C + C <= Pages * C
        BY <1>4, <3>1, Ahead
      <4>2. (page + 1) * C \in Nat
        BY <1>4
      <4>3. QED
        BY <1>4, <1>7, <2>2, <4>1, <4>2
    <3>7. QED
      BY <3>1, <3>3, <3>4, <3>5, <3>6
  <2>10. QED
    BY <2>8, <2>9
<1>11. QED
  BY <1>2, <1>4, <1>9, <1>10 DEF Offset

LEMMA UploadWrite ==
  ASSUME UploadInv, BootInv', write_chunk
  PROVE  UploadInv'
<1>1. CASE Fail
  <2>1. ASSUME NEW chunk, handle_write(WriteAddr, chunk)
        PROVE  DOMAIN flash' = AppPage /\ flash' = [p \in AppPage |-> flash'[p]]
    BY <2>1 DEF handle_write, flash_write_page, UploadInv
  <2>2. DOMAIN flash' = AppPage /\ flash' = [p \in AppPage |-> flash'[p]]
    BY <2>1 DEF write_chunk, TornFlash
  <2>3. QED
    BY <1>1, <2>2, UploadFailed
<1>2. CASE /\ handle_write(WriteAddr, ImageChunk(chunks_written))
           /\ chunks_written' = chunks_written + 1
           /\ phase' = IF chunks_written' = CHUNKS_PER_PAGE * PagesFor(image_size)
                       THEN "reset" ELSE "write"
           /\ UNCHANGED <<erase_addr, pages_to_erase, image_size, clean>>
  <2>1. phase = "write" /\ pc = "bootloader" /\ ~s_reset_pending
    BY DEF write_chunk, Listens
  <2>2. pc' = pc /\ s_reset_pending' = s_reset_pending
    BY <1>2 DEF handle_write, bootVars
  <2>3. DOMAIN flash' = AppPage /\ flash' = [p \in AppPage |-> flash'[p]]
    BY <1>2 DEF handle_write, flash_write_page, UploadInv
  <2>4. ASSUME clean
        PROVE  IF phase' = "reset" THEN Flashed' ELSE Writing'
    <3>1. PICK page \in Nat, r \in Nat : At(page, r)
      <4>1. PICK page \in 0..(Pages - 1), r \in Offset : At(page, r)
        BY <2>1, <2>4 DEF UploadInv, Writing
      <4>2. page \in Nat /\ r \in Nat
        BY <4>1, FlashAssumption DEF Offset
      <4>3. QED
        BY <4>1, <4>2
    <3>2. IF chunks_written' = CHUNKS_PER_PAGE * Pages THEN Flashed'
          ELSE /\ \E p \in 0..(Pages - 1), q \in Offset : At(p, q)'
               /\ flash'[LastPage] = BlankPage
      BY <1>2, <3>1, ChunkWritten
    <3>3. LastPage' = LastPage /\ BlankPage' = BlankPage /\ Pages' = Pages
      BY <1>2 DEF LastPage, Pages, PagesFor, BlankPage
    <3>4. QED
      BY <1>2, <2>1, <2>2, <3>2, <3>3 DEF Writing, Pages
  <2>5. QED
    BY <1>2, <2>1, <2>2, <2>3, <2>4 DEF UploadInv
<1>3. QED
  BY <1>1, <1>2 DEF write_chunk

(* The steps of the host that write nothing. *)
LEMMA UploadOther ==
  ASSUME UploadInv, BootInv', Start \/ TransferFails \/ reset_device
  PROVE  UploadInv'
<1>1. CASE Start
  BY <1>1 DEF Start, UploadInv, Listens, NoUnfinishedFirstPage, deviceVars, bufferVars
<1>2. CASE TransferFails
  BY <1>2, UploadFailed DEF TransferFails, UploadInv, deviceVars
<1>3. CASE reset_device
  <2>1. phase = "reset" /\ phase' = "done" /\ UNCHANGED <<flash, image_size, clean>>
    BY <1>3 DEF reset_device, handle_reset, deviceVars
  <2>2. Flashed => Flashed'
    BY <2>1 DEF Flashed, ImagePage, ImageChunk
  <2>3. QED
    BY <2>1, <2>2 DEF UploadInv
<1>4. QED
  BY <1>1, <1>2, <1>3

LEMMA UploadInit == Init => UploadInv
  BY BootInit0 DEF Init, BootInit, UploadInv

LEMMA UploadStep == UploadInv /\ ErasedBeforeWrite' /\ [Next]_vars => UploadInv'
<1> SUFFICES ASSUME UploadInv, ErasedBeforeWrite', [Next]_vars PROVE UploadInv'
  OBVIOUS
<1>1. BootInv'
  BY BootStep DEF UploadInv
<1>2. CASE UNCHANGED vars
  <2>1. /\ (Flashed => Flashed') /\ (NoUnfinishedFirstPage => NoUnfinishedFirstPage')
    BY <1>2 DEF vars, deviceVars, bufferVars, flasherVars, Flashed, ImagePage, ImageChunk,
       NoUnfinishedFirstPage
  <2>2. /\ Pages' = Pages /\ LastPage' = LastPage /\ BlankPage' = BlankPage
        /\ \A i : (ImageChunk(i))' = ImageChunk(i)
    BY <1>2 DEF vars, flasherVars, Pages, LastPage, PagesFor, BlankPage, ImageChunk
  <2>3. \A page, r : At(page, r) => At(page, r)'
    BY <1>2, <2>2 DEF vars, deviceVars, bufferVars, flasherVars, At
  <2>4. Writing => Writing'
    BY <1>2, <2>2, <2>3 DEF vars, deviceVars, bootVars, Writing
  <2>5. QED
    BY <1>1, <1>2, <2>1, <2>4 DEF UploadInv, vars, deviceVars, flasherVars
<1>3. QED
  BY <1>1, <1>2, UploadDevice, UploadErase, UploadWrite, UploadOther DEF Next, HostStep

(* When the flasher reports success the image is in the flash, for every size
   of flash, page and image, whatever failed in earlier runs, if every run
   erased what it writes (ErasedBeforeWrite, keydu_flasher.c:119-137, which is
   a matter of how the image lies in the groups that are erased). *)
THEOREM SuccessMeansFlashed == Spec /\ []ErasedBeforeWrite => []UploadIsExact
<1>1. UploadInv => UploadIsExact
  BY DEF UploadInv, UploadIsExact
<1>2. QED
  BY <1>1, UploadInit, UploadStep, PTL DEF Spec

------------------------------------------------------------------------------
(* Powers of two, by counting subsets: a subset of two disjoint sets is a
   subset of each. *)

LEMMA PowerSum ==
  ASSUME NEW a \in Nat, NEW b \in Nat
  PROVE  2 ^ a \in Nat /\ 2 ^ (a + b) = 2 ^ a * 2 ^ b
<1> DEFINE A == 1..a
           B == (a + 1)..(a + b)
           f == [x \in (SUBSET A) \X (SUBSET B) |-> x[1] \cup x[2]]
<1>1. /\ IsFiniteSet(A) /\ Cardinality(A) = a
      /\ IsFiniteSet(B) /\ Cardinality(B) = b
  <2>1. A = 1..a /\ (1 > a => a = 0) /\ a - 1 + 1 = a
    OBVIOUS
  <2>2. (a + 1 > a + b => b = 0) /\ (a + b) - (a + 1) + 1 = b
    OBVIOUS
  <2>3. QED
    BY <2>1, <2>2, FS_Interval
<1>2. IsFiniteSet(A \cup B) /\ Cardinality(A \cup B) = a + b
  <2>1. A \cup B = 1..(a + b)
    OBVIOUS
  <2>2. a + b \in Int /\ (1 > a + b => a + b = 0) /\ (a + b) - 1 + 1 = a + b
    OBVIOUS
  <2>3. IsFiniteSet(1..(a + b)) /\ Cardinality(1..(a + b)) = a + b
    <3> DEFINE n == a + b
    <3>1. n \in Int /\ (1 > n => n = 0) /\ n - 1 + 1 = n
      BY <2>2
    <3> HIDE DEF n
    <3>2. IsFiniteSet(1..n) /\ Cardinality(1..n) = n
      BY <3>1, FS_Interval
    <3>3. QED
      BY <3>2 DEF n
  <2> HIDE DEF A, B
  <2>4. QED
    BY <2>1, <2>3
<1>3. \A i \in A : i \notin B
  OBVIOUS
<1> HIDE DEF A, B
<1>4. /\ IsFiniteSet(SUBSET A) /\ Cardinality(SUBSET A) = 2 ^ a
      /\ IsFiniteSet(SUBSET B) /\ Cardinality(SUBSET B) = 2 ^ b
      /\ Cardinality(SUBSET (A \cup B)) = 2 ^ (a + b)
  BY <1>1, <1>2, FS_SUBSET
<1>5. f \in Bijection((SUBSET A) \X (SUBSET B), SUBSET (A \cup B))
  <2>1. f \in [(SUBSET A) \X (SUBSET B) -> SUBSET (A \cup B)]
    OBVIOUS
  <2>2. ASSUME NEW x \in (SUBSET A) \X (SUBSET B), NEW y \in (SUBSET A) \X (SUBSET B), f[x] = f[y]
        PROVE  x = y
    <3>1. x[1] \cup x[2] = y[1] \cup y[2]
      BY <2>2
    <3>2. x[1] = y[1] /\ x[2] = y[2]
      BY <1>3, <3>1
    <3>3. QED
      BY <3>2
  <2>3. ASSUME NEW t \in SUBSET (A \cup B)
        PROVE  \E x \in (SUBSET A) \X (SUBSET B) : f[x] = t
    <3>1. <<t \cap A, t \cap B>> \in (SUBSET A) \X (SUBSET B)
      OBVIOUS
    <3>2. f[<<t \cap A, t \cap B>>] = t
      BY <3>1
    <3>3. QED
      BY <3>1, <3>2
  <2> HIDE DEF f
  <2>4. QED
    BY <2>1, <2>2, <2>3, Fun_IsBij
<1> HIDE DEF f
<1>6. Cardinality((SUBSET A) \X (SUBSET B)) = 2 ^ a * 2 ^ b
  BY <1>4, FS_Product
<1>7. IsFiniteSet((SUBSET A) \X (SUBSET B))
  BY <1>4, FS_Product
<1>8. Cardinality(SUBSET (A \cup B)) = Cardinality((SUBSET A) \X (SUBSET B))
  BY <1>5, <1>7, FS_Bijection DEF ExistsBijection
<1>9. 2 ^ a \in Nat
  BY <1>4, FS_CardinalityType
<1>10. QED
  BY <1>4, <1>6, <1>8, <1>9

(* The next power of two. *)
LEMMA PowerNext ==
  ASSUME NEW a \in Nat
  PROVE  2 ^ a \in Nat \ {0} /\ 2 ^ (a + 1) = 2 * 2 ^ a
<1>1. 2 ^ 1 = 2 /\ 2 ^ a \in Nat
  BY PowerSum
<1>2. 2 ^ (a + 1) = 2 ^ a * 2 ^ 1
  BY PowerSum
<1>3. 2 ^ a # 0
  <2>1. IsFiniteSet(1..a) /\ Cardinality(1..a) = a
    <3>1. (1 > a => a = 0) /\ a - 1 + 1 = a
      OBVIOUS
    <3>2. QED
      BY <3>1, FS_Interval
  <2>2. IsFiniteSet(SUBSET (1..a)) /\ Cardinality(SUBSET (1..a)) = 2 ^ a
    BY <2>1, FS_SUBSET
  <2>3. QED
    BY <2>2, FS_EmptySet
<1>4. QED
  BY <1>1, <1>2, <1>3

(* A smaller power of two divides a larger one. *)
LEMMA PowerDivides ==
  ASSUME NEW a \in Nat, NEW b \in Nat, a <= b, NEW n \in Nat, n % 2 ^ b = 0
  PROVE  n % 2 ^ a = 0
<1>1. 2 ^ a \in Nat \ {0} /\ 2 ^ b \in Nat \ {0} /\ b - a \in Nat /\ 2 ^ (b - a) \in Nat
  BY PowerNext
<1>2. 2 ^ b = 2 ^ a * 2 ^ (b - a)
  <2>1. b = a + (b - a)
    OBVIOUS
  <2>2. QED
    BY <1>1, <2>1, PowerSum
<1>3. n \div 2 ^ b \in Nat /\ n = 2 ^ b * (n \div 2 ^ b)
  BY <1>1
<1> DEFINE m == 2 ^ (b - a) * (n \div 2 ^ b)
<1>4. m \in Nat
  BY <1>1, <1>3
<1>5. n = 2 ^ a * m
  BY <1>1, <1>2, <1>3
<1> HIDE DEF m
<1>6. QED
  BY <1>1, <1>4, <1>5

(* Powers of two grow. *)
LEMMA PowerMonotone ==
  ASSUME NEW a \in Nat, NEW b \in Nat, a <= b
  PROVE  2 ^ a <= 2 ^ b
<1>1. 2 ^ a \in Nat \ {0} /\ b - a \in Nat /\ 2 ^ (b - a) \in Nat \ {0}
  BY PowerNext
<1>2. 2 ^ b = 2 ^ a * 2 ^ (b - a)
  <2>1. b = a + (b - a)
    OBVIOUS
  <2>2. QED
    BY <1>1, <2>1, PowerSum
<1>3. QED
  BY <1>1, <1>2

(* The largest group that is not larger than what is left. *)
LEMMA CodeOfGroup ==
  ASSUME NEW left \in Nat \ {0}
  PROVE  /\ EraseCode(left) \in 0..MaxCode
         /\ 2 ^ EraseCode(left) \in 1..left
         /\ decode_page_count(EraseCode(left)) = 2 ^ EraseCode(left)
         /\ \A d \in 0..MaxCode : 2 ^ d <= left => d <= EraseCode(left)
<1> DEFINE Fits == {c \in 0..MaxCode : 2 ^ c <= left}
           back == {MaxCode - c : c \in Fits}
           R    == {ss \in Nat \X Nat : ss[1] < ss[2]}
<1>1. MaxCode \in Nat
  BY FlashAssumption
<1>2. 0 \in Fits
  <2>1. 2 ^ 0 = 1
    OBVIOUS
  <2>2. QED
    BY <1>1, <2>1
<1>3. \A c \in Fits : c \in 0..MaxCode /\ MaxCode - c \in Nat
  BY <1>1
<1>4. back \in SUBSET Nat /\ MaxCode - 0 \in back
  BY <1>2, <1>3
<1>5. IsWellFoundedOn(R, Nat)
  BY NatLessThanWellFounded, Zenon DEF OpToRel
<1>6. \A x, y \in Nat : <<y, x>> \in R <=> y < x
  OBVIOUS
<1>7. \A c \in 0..MaxCode : c \in Fits <=> 2 ^ c <= left
  OBVIOUS
<1>8. \A x \in back : \E c \in Fits : x = MaxCode - c
  OBVIOUS
<1>9. \A c \in Fits : MaxCode - c \in back
  OBVIOUS
<1> HIDE DEF R, Fits, back
<1>10. PICK x \in back : \A y \in back : ~(<<y, x>> \in R)
  BY <1>4, <1>5, WFMin
<1>11. PICK c \in Fits : x = MaxCode - c
  BY <1>8
<1>12. ASSUME NEW d \in Fits
       PROVE  d <= c
  <2>1. MaxCode - d \in back /\ MaxCode - d \in Nat /\ x \in Nat
    BY <1>3, <1>4, <1>9
  <2>2. ~(MaxCode - d < x)
    BY <1>6, <1>10, <2>1, Zenon
  <2>3. QED
    BY <1>1, <1>3, <1>11, <2>1, <2>2
<1>13. c \in 0..MaxCode /\ 2 ^ c <= left /\ \A d \in 0..MaxCode : 2 ^ d <= left => d <= c
  BY <1>3, <1>7, <1>12
<1>14. /\ EraseCode(left) \in 0..MaxCode
       /\ 2 ^ EraseCode(left) <= left
       /\ \A d \in 0..MaxCode : 2 ^ d <= left => d <= EraseCode(left)
  BY <1>13, Zenon DEF EraseCode
<1>15. EraseCode(left) \in Nat /\ ~(EraseCode(left) > MaxCode)
  BY <1>1, <1>14
<1>16. 2 ^ EraseCode(left) \in Nat \ {0}
  BY <1>15, PowerNext
<1>17. QED
  BY <1>14, <1>15, <1>16 DEF decode_page_count

------------------------------------------------------------------------------
(* Where the erase loop and the write loop of a run stand: what is erased and
   what is left add up to the image. *)
Progress ==
  /\ pages_to_erase \in 0..Pages
  /\ erase_addr = 0 \/ erase_addr = (AppStart + (Pages - pages_to_erase)) * CHUNKS_PER_PAGE
  /\ phase = "erase" =>
       /\ pages_to_erase # 0 /\ chunks_written = 0
       /\ erase_addr = (AppStart + (Pages - pages_to_erase)) * CHUNKS_PER_PAGE
  /\ chunks_written \in 0..(Pages * CHUNKS_PER_PAGE)
  /\ phase = "write" => chunks_written < Pages * CHUNKS_PER_PAGE

FlasherInv == FlasherTypeOK /\ Progress

(* The pages of the image lie in the application area. *)
LEMMA Sizes ==
  ASSUME image_size \in ImageSizes
  PROVE  /\ CHUNKS_PER_PAGE \in Nat \ {0} /\ AppStart \in Nat \ {0} /\ FlashPages \in Nat
         /\ Pages \in Nat \ {0} /\ AppStart + Pages <= FlashPages
         /\ Pages * CHUNKS_PER_PAGE \in Nat \ {0}
         /\ Pages * CHUNKS_PER_PAGE <= FlashPages * CHUNKS_PER_PAGE
         /\ \A p \in 0..Pages : (AppStart + p) * CHUNKS_PER_PAGE \in
                                  0..(FlashPages * CHUNKS_PER_PAGE)
<1>1. /\ CHUNKS_PER_PAGE \in Nat \ {0} /\ AppStart \in Nat \ {0} /\ FlashPages \in Nat
      /\ Pages \in 1..(FlashPages - AppStart)
  BY FlashAssumption, PagesOfImage
<1>2. ASSUME NEW p \in Nat, p <= FlashPages
      PROVE  p * CHUNKS_PER_PAGE \in 0..(FlashPages * CHUNKS_PER_PAGE)
  <2>1. CASE p = FlashPages
    BY <1>1, <2>1
  <2>2. CASE p < FlashPages
    <3>1. p * CHUNKS_PER_PAGE + CHUNKS_PER_PAGE <= FlashPages * CHUNKS_PER_PAGE
      BY <1>1, <2>2, Ahead
    <3>2. p * CHUNKS_PER_PAGE \in Nat /\ FlashPages * CHUNKS_PER_PAGE \in Nat
      BY <1>1
    <3>3. QED
      BY <1>1, <3>1, <3>2
  <2>3. QED
    BY <1>1, <1>2, <2>1, <2>2
<1>3. Pages * CHUNKS_PER_PAGE \in 0..(FlashPages * CHUNKS_PER_PAGE)
  BY <1>1, <1>2
<1>4. \A p \in 0..Pages : AppStart + p \in Nat /\ AppStart + p <= FlashPages
  BY <1>1
<1>5. \A p \in 0..Pages : (AppStart + p) * CHUNKS_PER_PAGE \in 0..(FlashPages * CHUNKS_PER_PAGE)
  BY <1>2, <1>4
<1>6. Pages * CHUNKS_PER_PAGE \in Nat \ {0}
  BY <1>1
<1>7. QED
  BY <1>1, <1>3, <1>5, <1>6

(* Every chunk that is sent belongs to a page of the application. *)
LEMMA SentInside ==
  ASSUME FlasherInv, phase = "write"
  PROVE  /\ addr_valid(WriteAddr) /\ page_base(WriteAddr) \in AppPage
         /\ page_base(WriteAddr) \in 0..(FlashPages - 1)
         /\ WriteAddr % CHUNKS_PER_PAGE \in Offset
         /\ ImageChunk(chunks_written) \in Content
<1> DEFINE C == CHUNKS_PER_PAGE
           q == chunks_written \div C
           r == chunks_written % C
<1>1. /\ C \in Nat \ {0} /\ AppStart \in Nat \ {0} /\ FlashPages \in Nat
      /\ Pages \in Nat \ {0} /\ AppStart + Pages <= FlashPages
  BY Sizes DEF FlasherInv, FlasherTypeOK
<1>2. chunks_written \in Nat /\ chunks_written < Pages * C
  BY DEF FlasherInv, Progress
<1>3. q \in Nat /\ r \in Offset /\ chunks_written = q * C + r
  BY <1>1, <1>2 DEF Offset
<1> HIDE DEF q, r
<1>4. r \in Nat /\ q * C \in Nat /\ AppStart * C \in Nat
  BY <1>1, <1>3 DEF Offset
<1>5. q < Pages
  <2>1. SUFFICES ASSUME Pages <= q PROVE FALSE
    BY <1>1, <1>3
  <2>2. Pages * C <= q * C
    <3>1. CASE Pages = q
      BY <3>1, <1>4
    <3>2. CASE Pages < q
      <4>1. Pages * C + C <= q * C
        BY <1>1, <1>3, <3>2, Ahead
      <4>2. Pages * C \in Nat
        BY <1>1
      <4>3. QED
        BY <1>1, <1>4, <4>1, <4>2
    <3>3. QED
      BY <1>1, <1>3, <2>1, <3>1, <3>2
  <2>3. Pages * C \in Nat
    BY <1>1
  <2>4. QED
    BY <1>2, <1>3, <1>4, <2>2, <2>3
<1>6. (AppStart + q) * C = AppStart * C + q * C /\ AppStart + q \in Nat
  BY <1>1, <1>3
<1>7. WriteAddr = (AppStart + q) * C + r
  BY <1>3, <1>4, <1>6 DEF WriteAddr
<1>8. WriteAddr \div C = AppStart + q /\ WriteAddr % C = r
  BY <1>3, <1>6, <1>7, Split
<1>9. addr_valid(WriteAddr)
  BY <1>4, <1>6, <1>7 DEF addr_valid
<1>10. AppStart + q \in AppPage /\ AppStart + q \in 0..(FlashPages - 1)
  BY <1>1, <1>3, <1>5 DEF AppPage
<1>11. ImageChunk(chunks_written) \in Content
  <2>1. image_size \in ImageSizes
    BY DEF FlasherInv, FlasherTypeOK
  <2>2. image_size \in 1..(C * (FlashPages - AppStart)) /\ FlashPages - AppStart \in Nat
    BY <1>1, <2>1, ImageAssumption
  <2>3. C * (FlashPages - AppStart) \in Nat
    BY <1>1, <2>2
  <2>4. chunks_written < image_size => chunks_written \in Image
    BY <1>2, <2>2, <2>3 DEF Image
  <2>5. QED
    BY <2>4 DEF ImageChunk, Content
<1>12. QED
  BY <1>3, <1>8, <1>9, <1>10, <1>11 DEF page_base

(* What a reset and a torn operation leave of the types. *)
LEMMA TypesReset ==
  ASSUME BootTypeOK, NEW flags \in SUBSET {"PORF", "EXTRF", "WDRF", "SWRF"}, EnterReset(flags),
         mark' \in {"BOOT_MAGIC", "clear", "other"}, asked' \in BOOLEAN,
         flash' \in [AppPage -> [Offset -> Content]]
  PROVE  BootTypeOK'
<1>1. 0 \in 0..(CHUNKS_PER_PAGE - 1) /\ 0 \in 0..(FlashPages - 1)
  BY FlashAssumption
<1>2. BlankPage \in [Offset -> Content] /\ {} \subseteq Offset
  BY DEF BlankPage, Content
<1>3. /\ pc' \in {"flags", "mark", "decide", "bootloader", "app", "swrr"}
      /\ rstfr' \in SUBSET {"PORF", "EXTRF", "WDRF", "SWRF"}
      /\ seen_rstfr' \in SUBSET {"PORF", "EXTRF", "WDRF", "SWRF"}
      /\ magic_valid' \in BOOLEAN
      /\ s_status' \in {"STATUS_OK", "STATUS_ERROR"} /\ s_reset_pending' \in BOOLEAN
  BY DEF EnterReset
<1>4. /\ s_page_buf' \in [Offset -> Content]
      /\ s_chunk_count' \in 0..(CHUNKS_PER_PAGE - 1)
      /\ s_page_addr' \in 0..(FlashPages - 1)
      /\ received' \subseteq Offset
      /\ committed' \subseteq Offset
  BY <1>1, <1>2 DEF EnterReset, BootTypeOK
<1>5. QED
  BY <1>3, <1>4 DEF BootTypeOK, Offset

(* A torn operation leaves a reset device and undefined pages. *)
LEMMA TypesTorn ==
  ASSUME BootTypeOK, NEW pages, TornFlash(pages)
  PROVE  BootTypeOK'
<1>1. flash' = [p \in AppPage |-> IF p \in pages THEN JunkPage ELSE flash[p]]
  BY DEF TornFlash
<1>2. JunkPage \in [Offset -> Content]
  BY DEF JunkPage, Content
<1>3. flash' \in [AppPage -> [Offset -> Content]]
  BY <1>1, <1>2 DEF BootTypeOK
<1>4. /\ mark' \in {"BOOT_MAGIC", "clear", "other"} /\ asked' \in BOOLEAN
      /\ rstfr \cup {"EXTRF"} \in SUBSET {"PORF", "EXTRF", "WDRF", "SWRF"}
      /\ {"PORF"} \in SUBSET {"PORF", "EXTRF", "WDRF", "SWRF"}
  BY DEF TornFlash, BootTypeOK
<1>5. EnterReset({"PORF"}) \/ EnterReset(rstfr \cup {"EXTRF"})
  BY DEF TornFlash
<1>6. QED
  BY <1>3, <1>4, <1>5, TypesReset

(* The types of the device, command by command. *)
LEMMA TypesErase ==
  ASSUME BootTypeOK, NEW code, NEW addr, handle_erase(code, addr)
  PROVE  BootTypeOK'
<1>1. BlankPage \in [Offset -> Content]
  BY DEF BlankPage, Content
<1>2. flash' \in [AppPage -> [Offset -> Content]]
  BY <1>1 DEF handle_erase, flash_erase_pages, BootTypeOK
<1>3. QED
  BY <1>2 DEF handle_erase, bootVars, bufferVars, BootTypeOK

LEMMA TypesWrite ==
  ASSUME BootTypeOK, NEW addr, NEW chunk \in Content, handle_write(addr, chunk),
         addr_valid(addr), page_base(addr) \in 0..(FlashPages - 1),
         addr % CHUNKS_PER_PAGE \in Offset
  PROVE  BootTypeOK'
<1>1. /\ s_page_buf' = Buffered(addr, chunk) /\ received' = ReceivedAfter(addr)
      /\ s_page_addr' = IF BeginsPage(addr) THEN page_base(addr) ELSE s_page_addr
      /\ s_chunk_count' = CountLeft(addr) /\ s_status' = "STATUS_OK"
  BY DEF handle_write
<1>2. s_page_buf' \in [Offset -> Content]
  <2>1. BlankPage \in [Offset -> Content] /\ s_page_buf \in [Offset -> Content]
    BY DEF BlankPage, Content, BootTypeOK
  <2>2. QED
    BY <1>1, <2>1 DEF Buffered
<1>3. received' \subseteq Offset
  BY <1>1 DEF ReceivedAfter, BootTypeOK
<1>4. s_chunk_count' \in 0..(CHUNKS_PER_PAGE - 1)
  BY <1>1, FlashAssumption DEF CountLeft, CountAfter, BootTypeOK
<1>5. s_page_addr' \in 0..(FlashPages - 1)
  BY <1>1 DEF BootTypeOK
<1>6. flash' \in [AppPage -> [Offset -> Content]]
  <2>1. CASE CountAfter(addr) >= CHUNKS_PER_PAGE
    <3>1. flash' = [flash EXCEPT ![s_page_addr'] =
                      [k \in Offset |-> Programmed(flash[s_page_addr'][k], s_page_buf'[k])]]
      BY <2>1 DEF handle_write, flash_write_page
    <3>2. flash \in [AppPage -> [Offset -> Content]]
      BY DEF BootTypeOK
    <3>3. ASSUME s_page_addr' \in AppPage
          PROVE  [k \in Offset |-> Programmed(flash[s_page_addr'][k], s_page_buf'[k])]
                   \in [Offset -> Content]
      BY <1>2, <3>2, <3>3 DEF Programmed, Content
    <3>4. QED
      BY <3>1, <3>2, <3>3
  <2>2. CASE ~(CountAfter(addr) >= CHUNKS_PER_PAGE)
    BY <2>2 DEF handle_write, BootTypeOK
  <2>3. QED
    BY <2>1, <2>2
<1>7. committed' \subseteq Offset
  BY <1>3 DEF handle_write, BootTypeOK
<1>8. UNCHANGED <<pc, rstfr, seen_rstfr, mark, magic_valid, asked, s_reset_pending>>
  BY DEF handle_write, bootVars
<1>9. QED
  BY <1>1, <1>2, <1>3, <1>4, <1>5, <1>6, <1>7, <1>8 DEF BootTypeOK

LEMMA TypesDevice ==
  ASSUME BootTypeOK, DeviceStep
  PROVE  BootTypeOK'
<1> DEFINE Flags == {"PORF", "EXTRF", "WDRF", "SWRF"}
<1>1. CASE ReadFlags \/ ReadMark \/ Decide \/ SysBoot(AppRuns)
  BY <1>1 DEF ReadFlags, ReadMark, Decide, SysBoot, bufferVars, BootTypeOK
<1>2. /\ rstfr \cup {"SWRF"} \in SUBSET Flags /\ rstfr \cup {"WDRF"} \in SUBSET Flags
      /\ rstfr \cup {"EXTRF"} \in SUBSET Flags /\ {"PORF"} \in SUBSET Flags
  BY DEF BootTypeOK
<1>3. /\ flash \in [AppPage -> [Offset -> Content]] /\ asked \in BOOLEAN
      /\ mark \in {"BOOT_MAGIC", "clear", "other"}
  BY DEF BootTypeOK
<1>4. CASE SoftwareReset
  BY <1>2, <1>3, <1>4, TypesReset DEF SoftwareReset
<1>5. CASE LeaveBootloader
  BY <1>2, <1>3, <1>5, TypesReset DEF LeaveBootloader
<1>6. CASE SysRst(AppRuns)
  BY <1>2, <1>3, <1>6, TypesReset DEF SysRst
<1>7. CASE PowerLoss
  BY <1>2, <1>3, <1>7, TypesReset DEF PowerLoss
<1>8. CASE ResetPin
  BY <1>2, <1>3, <1>8, TypesReset DEF ResetPin
<1>9. QED
  BY <1>1, <1>4, <1>5, <1>6, <1>7, <1>8 DEF DeviceStep, CpuStep

(* What Progress and the types say of the flasher is left as it is. *)
LEMMA ProgressKept ==
  ASSUME FlasherInv, BootTypeOK', UNCHANGED <<image_size, erase_addr, pages_to_erase, clean>>,
         UNCHANGED <<phase, chunks_written>> \/ (phase' \in {"reset", "done", "failed"}
                                                 /\ UNCHANGED chunks_written)
  PROVE  FlasherInv'
<1>1. Pages' = Pages
  BY DEF Pages, PagesFor
<1>2. QED
  BY <1>1 DEF FlasherInv, FlasherTypeOK, Progress

LEMMA InvErase ==
  ASSUME FlasherInv, erase_flash_multi
  PROVE  FlasherInv'
<1> DEFINE code == EraseCode(pages_to_erase)
           n == 2 ^ code
<1>1. CASE Fail
  <2>1. BootTypeOK'
    BY TypesErase, TypesTorn DEF erase_flash_multi, FlasherInv, FlasherTypeOK
  <2>2. QED
    BY <1>1, <2>1, ProgressKept DEF Fail
<1>2. CASE handle_erase(code, erase_addr) /\ NextRound(n)
  <2>1. BootTypeOK'
    BY <1>2, TypesErase DEF FlasherInv, FlasherTypeOK
  <2>2. /\ phase = "erase" /\ pages_to_erase \in 1..Pages /\ Pages \in Nat /\ chunks_written = 0
        /\ erase_addr = (AppStart + (Pages - pages_to_erase)) * CHUNKS_PER_PAGE
        /\ image_size \in ImageSizes
    BY Sizes DEF erase_flash_multi, FlasherInv, FlasherTypeOK, Progress
  <2>3. n \in 1..pages_to_erase
    BY <2>2, CodeOfGroup
  <2> HIDE DEF n
  <2>4. /\ erase_addr' = erase_addr + n * CHUNKS_PER_PAGE
        /\ pages_to_erase' = pages_to_erase - n
        /\ phase' = IF pages_to_erase' = 0 THEN "write" ELSE "erase"
        /\ chunks_written' = chunks_written /\ image_size' = image_size /\ clean' = clean
    BY <1>2 DEF NextRound
  <2>5. /\ CHUNKS_PER_PAGE \in Nat \ {0} /\ AppStart \in Nat \ {0} /\ FlashPages \in Nat
        /\ Pages \in Nat \ {0} /\ AppStart + Pages <= FlashPages
        /\ Pages * CHUNKS_PER_PAGE \in Nat \ {0}
        /\ Pages * CHUNKS_PER_PAGE <= FlashPages * CHUNKS_PER_PAGE
        /\ \A p \in 0..Pages : (AppStart + p) * CHUNKS_PER_PAGE \in
                                 0..(FlashPages * CHUNKS_PER_PAGE)
    BY <2>2, Sizes
  <2>6. pages_to_erase' \in 0..Pages /\ Pages - pages_to_erase' \in 0..Pages
    BY <2>2, <2>3, <2>4
  <2>7. erase_addr' = (AppStart + (Pages - pages_to_erase')) * CHUNKS_PER_PAGE
    <3>1. /\ AppStart + (Pages - pages_to_erase) \in Nat /\ n \in Nat
          /\ AppStart + (Pages - pages_to_erase') = (AppStart + (Pages - pages_to_erase)) + n
      BY <2>2, <2>3, <2>4, <2>5
    <3>2. (AppStart + (Pages - pages_to_erase) + n) * CHUNKS_PER_PAGE
            = (AppStart + (Pages - pages_to_erase)) * CHUNKS_PER_PAGE + n * CHUNKS_PER_PAGE
      BY <2>5, <3>1
    <3>3. QED
      BY <2>2, <2>4, <3>1, <3>2
  <2>8. Pages' = Pages
    BY <2>4 DEF Pages, PagesFor
  <2>9. erase_addr' \in 0..(FlashPages * CHUNKS_PER_PAGE)
    BY <2>5, <2>6, <2>7
  <2>10. 0 \in 0..(FlashPages * CHUNKS_PER_PAGE) /\ 0 \in 0..(Pages * CHUNKS_PER_PAGE)
    BY <2>5
  <2>11. pages_to_erase' \in 0..FlashPages
    BY <2>5, <2>6
  <2>12. phase' \in {"erase", "write"} /\ (phase' = "erase" => pages_to_erase' # 0)
    BY <2>4
  <2>13. clean' \in BOOLEAN
    BY <2>4 DEF FlasherInv, FlasherTypeOK
  <2>14. FlasherTypeOK'
    BY <2>1, <2>2, <2>4, <2>9, <2>10, <2>11, <2>12, <2>13 DEF FlasherTypeOK
  <2>15. Progress'
    BY <2>2, <2>4, <2>5, <2>6, <2>7, <2>8, <2>10, <2>12 DEF Progress
  <2>16. QED
    BY <2>14, <2>15 DEF FlasherInv
<1>3. QED
  BY <1>1, <1>2 DEF erase_flash_multi

LEMMA InvWrite ==
  ASSUME FlasherInv, write_chunk
  PROVE  FlasherInv'
<1>1. phase = "write" /\ image_size \in ImageSizes
  BY DEF write_chunk, FlasherInv, FlasherTypeOK
<1>2. BootTypeOK'
  <2>1. Junk \in Content
    BY DEF Content
  <2>2. QED
    BY <1>1, <2>1, SentInside, TypesWrite, TypesTorn DEF write_chunk, FlasherInv, FlasherTypeOK
<1>3. CASE Fail
  BY <1>2, <1>3, ProgressKept DEF Fail
<1>4. CASE /\ chunks_written' = chunks_written + 1
           /\ phase' = IF chunks_written' = CHUNKS_PER_PAGE * PagesFor(image_size)
                       THEN "reset" ELSE "write"
           /\ UNCHANGED <<erase_addr, pages_to_erase, image_size, clean>>
  <2>1. Pages' = Pages /\ Pages = PagesFor(image_size)
    BY <1>4 DEF Pages, PagesFor
  <2>2. /\ CHUNKS_PER_PAGE \in Nat \ {0} /\ Pages \in Nat \ {0} /\ FlashPages \in Nat
        /\ Pages * CHUNKS_PER_PAGE \in Nat
        /\ Pages * CHUNKS_PER_PAGE <= FlashPages * CHUNKS_PER_PAGE
    BY <1>1, Sizes
  <2>3. CHUNKS_PER_PAGE * Pages = Pages * CHUNKS_PER_PAGE
        /\ FlashPages * CHUNKS_PER_PAGE \in Nat
    BY <2>2
  <2>4. chunks_written \in Nat /\ chunks_written < Pages * CHUNKS_PER_PAGE
    BY <1>1 DEF FlasherInv, Progress
  <2>5. /\ chunks_written' \in 0..(Pages * CHUNKS_PER_PAGE)
        /\ chunks_written' \in 0..(FlashPages * CHUNKS_PER_PAGE)
    BY <1>4, <2>2, <2>3, <2>4
  <2>6. phase' = "write" => chunks_written' < Pages * CHUNKS_PER_PAGE
    BY <1>4, <2>1, <2>2, <2>3, <2>5
  <2>7. phase' \in {"reset", "write"}
    BY <1>4
  <2>8. QED
    BY <1>2, <1>4, <2>1, <2>5, <2>6, <2>7 DEF FlasherInv, FlasherTypeOK, Progress
<1>5. QED
  BY <1>3, <1>4 DEF write_chunk

LEMMA InvStart ==
  ASSUME FlasherInv, Start
  PROVE  FlasherInv'
<1>1. /\ phase' = "erase" /\ erase_addr' = AppStart * CHUNKS_PER_PAGE
      /\ pages_to_erase' = Pages /\ chunks_written' = 0 /\ image_size' = image_size
      /\ image_size \in ImageSizes /\ clean' = NoUnfinishedFirstPage
  BY DEF Start, Pages, FlasherInv, FlasherTypeOK
<1>2. Pages' = Pages
  BY <1>1 DEF Pages, PagesFor
<1>3. /\ Pages \in Nat \ {0} /\ AppStart + Pages <= FlashPages /\ FlashPages \in Nat
      /\ AppStart \in Nat \ {0} /\ Pages * CHUNKS_PER_PAGE \in Nat
      /\ CHUNKS_PER_PAGE \in Nat \ {0}
      /\ \A p \in 0..Pages : (AppStart + p) * CHUNKS_PER_PAGE \in
                               0..(FlashPages * CHUNKS_PER_PAGE)
  BY <1>1, Sizes
<1>4. 0 \in 0..Pages /\ AppStart + 0 = AppStart /\ Pages - Pages = 0 /\ Pages \in 0..Pages
      /\ Pages \in 0..FlashPages /\ 0 \in 0..(Pages * CHUNKS_PER_PAGE)
      /\ 0 \in 0..(FlashPages * CHUNKS_PER_PAGE)
  BY <1>3
<1>5. erase_addr' = (AppStart + (Pages - pages_to_erase')) * CHUNKS_PER_PAGE
      /\ erase_addr' \in 0..(FlashPages * CHUNKS_PER_PAGE)
  BY <1>1, <1>3, <1>4
<1>6. BootTypeOK'
  BY DEF Start, deviceVars, bootVars, bufferVars, FlasherInv, FlasherTypeOK, BootTypeOK
<1>7. clean' \in BOOLEAN
  BY <1>1 DEF NoUnfinishedFirstPage
<1>8. FlasherTypeOK'
  BY <1>1, <1>4, <1>5, <1>6, <1>7 DEF FlasherTypeOK
<1>9. Progress'
  BY <1>1, <1>2, <1>3, <1>4, <1>5 DEF Progress
<1>10. QED
  BY <1>8, <1>9 DEF FlasherInv

LEMMA InvInit == Init => FlasherInv
<1> SUFFICES ASSUME Init PROVE FlasherInv
  OBVIOUS
<1>1. image_size \in ImageSizes
  BY DEF Init
<1>2. /\ Pages \in Nat \ {0} /\ FlashPages \in Nat /\ Pages * CHUNKS_PER_PAGE \in Nat
      /\ CHUNKS_PER_PAGE \in Nat \ {0} /\ FlashPages \in Nat \ {0}
  BY <1>1, Sizes, FlashAssumption
<1>3. /\ 0 \in 0..Pages /\ 0 \in 0..(Pages * CHUNKS_PER_PAGE) /\ 0 \in 0..FlashPages
      /\ 0 \in 0..(FlashPages * CHUNKS_PER_PAGE) /\ 0 \in 0..(CHUNKS_PER_PAGE - 1)
      /\ 0 \in 0..(FlashPages - 1)
  BY <1>2
<1>4. /\ BlankPage \in [Offset -> Content]
      /\ [p \in AppPage |-> [k \in Offset |-> Old]] \in [AppPage -> [Offset -> Content]]
  BY DEF BlankPage, Content
<1>5. BootTypeOK
  BY <1>3, <1>4 DEF Init, BootInit, BootTypeOK
<1>6. QED
  BY <1>1, <1>3, <1>5 DEF Init, FlasherInv, FlasherTypeOK, Progress

LEMMA InvStep == FlasherInv /\ [Next]_vars => FlasherInv'
<1> SUFFICES ASSUME FlasherInv, [Next]_vars PROVE FlasherInv'
  OBVIOUS
<1>1. BootTypeOK
  BY DEF FlasherInv, FlasherTypeOK
<1>2. CASE UNCHANGED vars
  <2>1. BootTypeOK'
    BY <1>1, <1>2 DEF vars, deviceVars, bootVars, bufferVars, BootTypeOK
  <2>2. QED
    BY <1>2, <2>1, ProgressKept DEF vars, flasherVars
<1>3. CASE DeviceStep
  BY <1>1, <1>3, TypesDevice, ProgressKept DEF DeviceStep, flasherVars
<1>4. CASE TransferFails
  <2>1. BootTypeOK'
    BY <1>1, <1>4 DEF TransferFails, deviceVars, bootVars, bufferVars, BootTypeOK
  <2>2. QED
    BY <1>4, <2>1, ProgressKept DEF TransferFails, Fail
<1>5. CASE reset_device
  <2>1. BootTypeOK'
    BY <1>1, <1>5 DEF reset_device, handle_reset, deviceVars, bootVars, bufferVars, BootTypeOK
  <2>2. QED
    BY <1>5, <2>1, ProgressKept DEF reset_device
<1>6. QED
  BY <1>2, <1>3, <1>4, <1>5, InvErase, InvWrite, InvStart DEF Next, HostStep

(* What every variable of the device and of the flasher can hold, for every
   size of flash, page and image: no address, page or count leaves its range
   (usb_vendor.c:68-141, keydu_flasher.c:105-190). *)
THEOREM FlasherTypeCorrect == Spec => []FlasherTypeOK
<1>1. FlasherInv => FlasherTypeOK
  BY DEF FlasherInv
<1>2. QED
  BY <1>1, InvInit, InvStep, PTL DEF Spec

------------------------------------------------------------------------------
(* The rounds of the erase loop.  The hardware erases the aligned group around
   a page, so a round erases what the loop counts only where it starts at a
   multiple of its length.  The rounds get shorter, and all of them start so if
   the first one does: if the application starts at a multiple of a group of
   which the image has less than two. *)
FitsGroups ==
  \E g \in 0..MaxCode :
    AppStart % 2 ^ g = 0 /\ \A size \in ImageSizes : PagesFor(size) < 2 ^ (g + 1)

NextPage == AppStart + (Pages - pages_to_erase)

Rounds ==
  phase = "erase" =>
    /\ \A p \in ImagePage : p < NextPage => flash[p] = BlankPage
    /\ \E g \in 0..MaxCode : pages_to_erase < 2 ^ (g + 1) /\ NextPage % 2 ^ g = 0

ErasedInv == FlasherInv /\ Rounds /\ ErasedBeforeWrite

(* The pages from the start of an aligned group to its end are in it. *)
LEMMA GroupErased ==
  ASSUME NEW n \in Nat \ {0}, NEW page \in Nat, page % n = 0,
         NEW p \in AppPage, page <= p, p < page + n
  PROVE  p \in ErasedPages(page, n)
<1>1. p \in Nat
  BY FlashAssumption DEF AppPage
<1>2. page \div n \in Nat /\ page = n * (page \div n)
  OBVIOUS
<1> DEFINE m == page \div n
           r == p - page
<1>3. r \in 0..(n - 1) /\ p = n * m + r
  BY <1>1, <1>2
<1>4. m \in Nat
  BY <1>2
<1> HIDE DEF m, r
<1>5. p \div n = m
  BY <1>3, <1>4
<1>6. QED
  BY <1>5 DEF ErasedPages, m

(* A round erases what it counts, and leaves less than its length. *)
LEMMA RoundErases ==
  ASSUME ErasedInv, erase_flash_multi, ~Fail
  PROVE  ErasedInv'
<1> DEFINE code == EraseCode(pages_to_erase)
           n == 2 ^ code
           left == pages_to_erase
<1>1. /\ phase = "erase" /\ image_size \in ImageSizes /\ left \in 1..Pages
      /\ chunks_written = 0 /\ erase_addr = NextPage * CHUNKS_PER_PAGE
      /\ AppStart \in Nat \ {0} /\ FlashPages \in Nat /\ Pages \in Nat \ {0}
      /\ AppStart + Pages <= FlashPages /\ CHUNKS_PER_PAGE \in Nat \ {0} /\ MaxCode \in Nat
  BY Sizes, FlashAssumption
     DEF ErasedInv, FlasherInv, FlasherTypeOK, Progress, erase_flash_multi, NextPage
<1>2. handle_erase(code, erase_addr) /\ NextRound(n)
  BY DEF erase_flash_multi
<1>3. /\ code \in 0..MaxCode /\ n \in 1..left /\ decode_page_count(code) = n
      /\ \A d \in 0..MaxCode : 2 ^ d <= left => d <= code
  BY <1>1, CodeOfGroup
<1>4. PICK g \in 0..MaxCode : left < 2 ^ (g + 1) /\ NextPage % 2 ^ g = 0
  BY <1>1 DEF ErasedInv, Rounds
<1>5. code \in Nat /\ g \in Nat /\ NextPage \in Nat /\ NextPage >= AppStart
  BY <1>1, <1>3, <1>4 DEF NextPage
<1>6. /\ 2 ^ g \in Nat \ {0} /\ 2 ^ (g + 1) \in Nat \ {0}
      /\ n \in Nat \ {0} /\ 2 ^ (code + 1) = 2 * n
  BY <1>5, PowerNext
<1>7. code <= g
  <2>1. SUFFICES ASSUME g + 1 <= code PROVE FALSE
    BY <1>5
  <2>2. g + 1 \in Nat
    BY <1>5
  <2>3. 2 ^ (g + 1) <= n
    BY <1>5, <2>1, <2>2, PowerMonotone
  <2> HIDE DEF n, code
  <2>4. QED
    BY <1>1, <1>3, <1>4, <1>6, <2>3
<1>8. NextPage % n = 0
  BY <1>4, <1>5, <1>7, PowerDivides
<1>9. left < 2 * n
  <2>1. CASE code + 1 <= MaxCode
    <3>1. code + 1 \in 0..MaxCode /\ ~(code + 1 <= code)
      BY <1>5, <2>1
    <3>2. ~(2 ^ (code + 1) <= left)
      BY <1>3, <3>1
    <3> HIDE DEF n, code
    <3>3. QED
      BY <1>1, <1>6, <3>2
  <2>2. CASE ~(code + 1 <= MaxCode)
    <3>1. code = g
      BY <1>1, <1>3, <1>4, <1>5, <1>7, <2>2
    <3>2. 2 ^ (g + 1) = 2 * n
      BY <1>6, <3>1
    <3>3. QED
      BY <1>4, <3>2
  <2>3. QED
    BY <2>1, <2>2
<1>10. /\ pages_to_erase' = left - n
       /\ phase' = IF pages_to_erase' = 0 THEN "write" ELSE "erase"
       /\ chunks_written' = chunks_written /\ image_size' = image_size
  BY <1>2 DEF NextRound
<1>11. Pages' = Pages /\ ImagePage' = ImagePage /\ BlankPage' = BlankPage
  BY <1>10 DEF Pages, PagesFor, ImagePage, BlankPage
<1>12. NextPage' = NextPage + n /\ left - n \in Nat
  BY <1>1, <1>3, <1>6, <1>10, <1>11 DEF NextPage
<1>13. page_base(erase_addr) = NextPage /\ addr_valid(erase_addr)
  <2>1. 0 \in Offset /\ NextPage * CHUNKS_PER_PAGE + 0 = NextPage * CHUNKS_PER_PAGE
    BY <1>1, <1>5 DEF Offset
  <2>2. page_base(erase_addr) = NextPage
    BY <1>1, <1>5, <2>1, Split DEF page_base
  <2>3. NextPage * CHUNKS_PER_PAGE >= AppStart * CHUNKS_PER_PAGE
    <3>1. CASE NextPage = AppStart
      BY <1>1, <3>1
    <3>2. CASE AppStart < NextPage
      <4>1. AppStart * CHUNKS_PER_PAGE + CHUNKS_PER_PAGE <= NextPage * CHUNKS_PER_PAGE
        BY <1>1, <1>5, <3>2, Ahead
      <4>2. AppStart * CHUNKS_PER_PAGE \in Nat /\ NextPage * CHUNKS_PER_PAGE \in Nat
        BY <1>1, <1>5
      <4>3. QED
        BY <1>1, <4>1, <4>2
    <3>3. QED
      BY <1>1, <1>5, <3>1, <3>2
  <2>4. QED
    BY <1>1, <2>2, <2>3 DEF addr_valid
<1>14. flash' = [p \in AppPage |-> IF p \in ErasedPages(NextPage, n) THEN BlankPage ELSE flash[p]]
  BY <1>2, <1>3, <1>13 DEF handle_erase, flash_erase_pages
<1>15. ASSUME NEW p \in ImagePage, p < NextPage + n
       PROVE  flash'[p] = BlankPage
  <2>1. p \in AppPage /\ p \in Nat
    BY <1>1 DEF ImagePage, AppPage, Pages
  <2>2. CASE p < NextPage
    BY <1>1, <1>14, <2>1, <2>2 DEF ErasedInv, Rounds
  <2>3. CASE NextPage <= p
    BY <1>5, <1>6, <1>8, <1>14, <1>15, <2>1, <2>3, GroupErased
  <2>4. QED
    BY <1>5, <2>1, <2>2, <2>3
<1>16. Rounds'
  <2>1. SUFFICES ASSUME phase' = "erase" PROVE Rounds'
    BY DEF Rounds
  <2>2. left - n \in Nat \ {0}
    BY <1>10, <1>12, <2>1
  <2>3. code # 0
    <3>1. SUFFICES ASSUME code = 0 PROVE FALSE
      OBVIOUS
    <3>2. n = 1
      <4>1. 2 ^ 0 = 1
        OBVIOUS
      <4>2. QED
        BY <3>1, <4>1
    <3>3. QED
      BY <1>1, <1>9, <2>2, <3>2
  <2>4. code - 1 \in 0..MaxCode /\ code - 1 \in Nat /\ (code - 1) + 1 = code /\ code - 1 <= code
    <3> HIDE DEF n, code
    <3>1. QED
      BY <1>1, <1>3, <1>5, <2>3
  <2>5. left - n < n
    <3> HIDE DEF n, code
    <3>1. QED
      BY <1>1, <1>6, <1>9
  <2>6. (NextPage + n) % n = 0
    <3> HIDE DEF n, code
    <3>1. NextPage \div n \in Nat /\ NextPage = n * (NextPage \div n)
      BY <1>5, <1>6, <1>8
    <3>2. NextPage + n = n * (NextPage \div n + 1) /\ NextPage \div n + 1 \in Nat
      BY <1>6, <3>1
    <3> DEFINE m == NextPage \div n + 1
    <3>3. NextPage + n = n * m /\ m \in Nat
      BY <3>2
    <3> HIDE DEF m
    <3>4. QED
      BY <1>6, <3>3
  <2>7. (NextPage + n) % 2 ^ (code - 1) = 0
    <3>1. NextPage + n \in Nat
      BY <1>5, <1>6
    <3>2. QED
      BY <1>5, <2>4, <2>6, <3>1, PowerDivides
  <2>8. pages_to_erase' < 2 ^ ((code - 1) + 1) /\ NextPage' % 2 ^ (code - 1) = 0
    BY <1>10, <1>12, <2>4, <2>5, <2>7
  <2>9. \A p \in ImagePage' : p < NextPage' => flash'[p] = BlankPage'
    BY <1>11, <1>12, <1>15
  <2>10. QED
    BY <2>4, <2>8, <2>9 DEF Rounds
<1>17. ErasedBeforeWrite'
  <2>1. SUFFICES ASSUME phase' = "write", NEW p \in ImagePage PROVE flash'[p] = BlankPage
    BY <1>11 DEF ErasedBeforeWrite
  <2>2. left - n = 0
    BY <1>10, <2>1
  <2>3. NextPage + n = AppStart + Pages
    BY <1>1, <1>3, <1>6, <2>2 DEF NextPage
  <2>4. p < AppStart + Pages
    BY <1>1 DEF ImagePage, Pages
  <2>5. QED
    BY <1>15, <2>3, <2>4
<1>18. FlasherInv'
  BY InvErase DEF ErasedInv
<1>19. QED
  BY <1>16, <1>17, <1>18 DEF ErasedInv

(* Where neither the flash nor the flasher changes. *)
LEMMA ErasedKept ==
  ASSUME ErasedInv, FlasherInv', UNCHANGED <<flash, flasherVars>>
  PROVE  ErasedInv'
<1>1. /\ Pages' = Pages /\ ImagePage' = ImagePage /\ BlankPage' = BlankPage
      /\ NextPage' = NextPage /\ flash' = flash /\ phase' = phase
      /\ pages_to_erase' = pages_to_erase /\ chunks_written' = chunks_written
  BY DEF Pages, PagesFor, ImagePage, BlankPage, NextPage, flasherVars
<1>2. QED
  BY <1>1 DEF ErasedInv, Rounds, ErasedBeforeWrite

LEMMA ErasedStep == FitsGroups /\ ErasedInv /\ [Next]_vars => ErasedInv'
<1> SUFFICES ASSUME FitsGroups, ErasedInv, [Next]_vars PROVE ErasedInv'
  OBVIOUS
<1>1. FlasherInv'
  BY InvStep DEF ErasedInv
<1>2. CASE UNCHANGED vars
  BY <1>1, <1>2, ErasedKept DEF vars, deviceVars
<1>3. CASE DeviceStep
  <2>1. UNCHANGED <<flash, flasherVars>>
    BY <1>3 DEF DeviceStep, CpuStep, ReadFlags, ReadMark, Decide, SoftwareReset, LeaveBootloader,
       SysBoot, SysRst, PowerLoss, ResetPin
  <2>2. QED
    BY <1>1, <2>1, ErasedKept
<1>4. ASSUME phase' \in {"failed", "reset", "done"} PROVE ErasedInv'
  BY <1>1, <1>4 DEF ErasedInv, Rounds, ErasedBeforeWrite
<1>5. CASE Start
  <2>1. /\ phase' = "erase" /\ pages_to_erase' = Pages /\ image_size' = image_size
        /\ image_size \in ImageSizes
    BY <1>5 DEF Start, Pages, ErasedInv, FlasherInv, FlasherTypeOK
  <2>2. Pages' = Pages /\ ImagePage' = ImagePage
    BY <2>1 DEF Pages, PagesFor, ImagePage
  <2>3. Pages \in Nat \ {0} /\ AppStart \in Nat \ {0}
    BY <2>1, Sizes
  <2>4. NextPage' = AppStart
    BY <2>1, <2>2, <2>3 DEF NextPage
  <2>5. \A p \in ImagePage : ~(p < AppStart)
    BY <2>3 DEF ImagePage
  <2>6. PICK g \in 0..MaxCode : AppStart % 2 ^ g = 0 /\ Pages < 2 ^ (g + 1)
    BY <2>1 DEF FitsGroups, Pages
  <2>7. Rounds'
    BY <2>1, <2>2, <2>4, <2>5, <2>6 DEF Rounds
  <2>8. QED
    BY <1>1, <2>1, <2>7 DEF ErasedInv, ErasedBeforeWrite
<1>6. CASE erase_flash_multi
  BY <1>4, <1>6, RoundErases DEF Fail
<1>7. CASE write_chunk
  <2>1. CASE Fail
    BY <1>4, <2>1 DEF Fail
  <2>2. CASE /\ chunks_written' = chunks_written + 1
             /\ phase' = IF chunks_written' = CHUNKS_PER_PAGE * PagesFor(image_size)
                         THEN "reset" ELSE "write"
    <3>1. chunks_written' # 0
      BY <2>2 DEF ErasedInv, FlasherInv, Progress
    <3>2. phase' # "erase"
      BY <2>2
    <3>3. QED
      BY <1>1, <3>1, <3>2 DEF ErasedInv, Rounds, ErasedBeforeWrite
  <2>3. QED
    BY <1>7, <2>1, <2>2 DEF write_chunk
<1>8. CASE TransferFails \/ reset_device
  BY <1>4, <1>8 DEF TransferFails, Fail, reset_device
<1>9. QED
  BY <1>2, <1>3, <1>5, <1>6, <1>7, <1>8 DEF Next, HostStep

LEMMA ErasedInit == Init => ErasedInv
  BY InvInit DEF Init, ErasedInv, Rounds, ErasedBeforeWrite

(* With an image of less than two groups of which the application's start is a
   multiple, every page of the image is erased when the first chunk is sent, for
   every size of flash and page and every number of rounds (keydu_flasher.c:
   105-137).  The application starts at page 16: images of less than 32 pages
   qualify, and EraseRange shows what happens to one that does not. *)
THEOREM RoundsEraseImage ==
  ASSUME FitsGroups
  PROVE  Spec => []ErasedBeforeWrite
<1>1. ErasedInv => ErasedBeforeWrite
  BY DEF ErasedInv
<1>2. ErasedInv /\ [Next]_vars => ErasedInv'
  BY ErasedStep
<1>3. QED
  BY <1>1, <1>2, ErasedInit, PTL DEF Spec

(* For those images success means that the image is in the flash, whatever
   failed in earlier runs, with nothing else assumed. *)
THEOREM ImageIsFlashed ==
  ASSUME FitsGroups
  PROVE  Spec => []UploadIsExact
  BY RoundsEraseImage, SuccessMeansFlashed, PTL
===============================================================================
