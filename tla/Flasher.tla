------------------------------- MODULE Flasher -------------------------------
(***************************************************************************)
(* keydu_flasher.c talking to the bootloader: erase in rounds, write chunk *)
(* by chunk, reset.  Every control transfer may fail, before or after the  *)
(* device has acted on it; a failed transfer ends the program, which the   *)
(* user may run again.  The transfers themselves are UsbDevice's subject.  *)
(***************************************************************************)
EXTENDS Bootloader

CONSTANT ImageSizes     \* sizes of firmware files, in chunks

ASSUME ImageAssumption ==
  ImageSizes \subseteq 1..(CHUNKS_PER_PAGE * (FlashPages - AppStart))

VARIABLES
  image_size,       \* the file that is flashed, the same in every run
  phase,            \* where the flasher stands
  erase_addr,       \* addr of the erase loop
  pages_to_erase,
  chunks_written,   \* bytes_written
  clean             \* ghost: this run found no unfinished first page

flasherVars == <<image_size, phase, erase_addr, pages_to_erase,
                 chunks_written, clean>>
vars == <<deviceVars, flasherVars>>

PagesFor(size) == (size + CHUNKS_PER_PAGE - 1) \div CHUNKS_PER_PAGE

ImagePage == AppStart..(AppStart + PagesFor(image_size) - 1)

(* The padded image: 0xFF behind the end of the file is a blank chunk. *)
ImageChunk(i) == IF i < image_size THEN i ELSE Blank

Flashed ==
  \A p \in ImagePage, k \in Offset :
    flash[p][k] = ImageChunk((p - AppStart) * CHUNKS_PER_PAGE + k)

Untouched == \A p \in AppPage, k \in Offset : flash[p][k] = Old

AppRuns == Untouched \/ Flashed

FlasherTypeOK ==
  /\ BootTypeOK
  /\ image_size \in ImageSizes
  /\ phase \in {"idle", "erase", "write", "reset", "done", "failed"}
  /\ erase_addr \in 0..(FlashPages * CHUNKS_PER_PAGE)
  /\ pages_to_erase \in 0..FlashPages
  /\ chunks_written \in 0..(FlashPages * CHUNKS_PER_PAGE)
  /\ clean \in BOOLEAN

Init ==
  /\ BootInit
  /\ image_size \in ImageSizes
  /\ phase = "idle"
  /\ erase_addr = 0
  /\ pages_to_erase = 0
  /\ chunks_written = 0
  /\ clean = TRUE

-----------------------------------------------------------------------------
(* The device serves one request at a time and looks for a pending reset   *)
(* before the next.                                                        *)
Listens == pc = "bootloader" /\ ~s_reset_pending

NoUnfinishedFirstPage == s_chunk_count = 0 \/ s_page_addr # AppStart

(* find_device() and the file; a run that finds no device changes nothing. *)
Start ==
  /\ phase \in {"idle", "done", "failed"}
  /\ Listens
  /\ phase' = "erase"
  /\ erase_addr' = AppStart * CHUNKS_PER_PAGE
  /\ pages_to_erase' = PagesFor(image_size)
  /\ chunks_written' = 0
  /\ clean' = NoUnfinishedFirstPage
  /\ UNCHANGED <<deviceVars, image_size>>

(* The largest group that is not larger than what is left. *)
EraseCode(left) ==
  CHOOSE c \in 0..MaxCode :
    /\ 2 ^ c <= left
    /\ \A d \in 0..MaxCode : 2 ^ d <= left => d <= c

Fail == phase' = "failed" /\ UNCHANGED <<erase_addr, pages_to_erase,
                                          chunks_written, image_size, clean>>

(* A transfer that the device never acts on: lost, refused, or the program *)
(* is stopped.                                                             *)
TransferFails ==
  /\ phase \in {"erase", "write"}
  /\ Fail
  /\ UNCHANGED deviceVars

(* Mutant: the next round starts one page after this one. *)
NextRoundOverlaps(n) ==
  /\ erase_addr' = erase_addr + CHUNKS_PER_PAGE
  /\ pages_to_erase' = pages_to_erase - n
  /\ phase' = IF pages_to_erase' = 0 THEN "write" ELSE "erase"
  /\ UNCHANGED <<chunks_written, image_size, clean>>

NextRound(n) ==
  /\ erase_addr' = erase_addr + n * CHUNKS_PER_PAGE
  /\ pages_to_erase' = pages_to_erase - n
  /\ phase' = IF pages_to_erase' = 0 THEN "write" ELSE "erase"
  /\ UNCHANGED <<chunks_written, image_size, clean>>

erase_flash_multi ==
  LET code == EraseCode(pages_to_erase)
  IN /\ phase = "erase"
     /\ Listens
     /\ \/ /\ handle_erase(code, erase_addr)
           /\ NextRound(2 ^ code) \/ Fail
        \/ /\ TornFlash(ErasedPages(page_base(erase_addr), 2 ^ code))
           /\ Fail

WriteAddr == AppStart * CHUNKS_PER_PAGE + chunks_written

(* A chunk is written, and the program hears of it or not; or it gives up  *)
(* in the data stage, and the device takes in what the stack happened to   *)
(* hold; or power fails in the middle of the page.                         *)
write_chunk ==
  /\ phase = "write"
  /\ Listens
  /\ \/ /\ handle_write(WriteAddr, ImageChunk(chunks_written))
        /\ \/ /\ chunks_written' = chunks_written + 1
              /\ phase' = IF chunks_written' =
                               CHUNKS_PER_PAGE * PagesFor(image_size)
                          THEN "reset" ELSE "write"
              /\ UNCHANGED <<erase_addr, pages_to_erase, image_size, clean>>
           \/ Fail
     \/ handle_write(WriteAddr, Junk) /\ Fail
     \/ /\ CountAfter(WriteAddr) = CHUNKS_PER_PAGE
        /\ TornFlash({page_base(WriteAddr)})
        /\ Fail

(* The result of this transfer is not looked at. *)
reset_device ==
  /\ phase = "reset"
  /\ \/ Listens /\ handle_reset
     \/ UNCHANGED deviceVars
  /\ phase' = "done"
  /\ UNCHANGED <<erase_addr, pages_to_erase, chunks_written, image_size, clean>>

(* The device alone. *)
DeviceStep ==
  /\ \/ CpuStep
     \/ SysBoot(AppRuns)
     \/ SysRst(AppRuns)
     \/ PowerLoss
     \/ ResetPin
  /\ UNCHANGED flasherVars

HostStep ==
  Start \/ erase_flash_multi \/ write_chunk \/ TransferFails \/ reset_device

Next == DeviceStep \/ HostStep

Spec ==
  /\ Init /\ [][Next]_vars
  /\ WF_vars(CpuStep /\ UNCHANGED flasherVars)

-----------------------------------------------------------------------------
(* When the flasher reports success, the image is in the flash, whatever   *)
(* failed in earlier runs, resets and power losses included; provided that *)
(* this run found no unfinished first page in the bootloader, as it may    *)
(* (see CommitsFullPages).                                                 *)
UploadIsExact == phase = "done" /\ clean => Flashed

(* What the bootloader writes to flash is a page of which it received      *)
(* every chunk.                                                            *)
CommitsFullPages == committed = Offset

(* When the first chunk is sent, every page of the image has been erased.  *)
ErasedBeforeWrite ==
  phase = "write" /\ chunks_written = 0
    => \A p \in ImagePage : flash[p] = BlankPage

(* The bootloader runs only for a SYS_BOOT that no power loss has come     *)
(* between, and each one is good for one entry: a torn or stale mark or    *)
(* flag never keeps the application from starting.                         *)
EntersOnRequest ==
  [][pc # "bootloader" /\ pc' = "bootloader" => asked]_vars

(* An accepted VCMD_RESET brings the application back, if at some time     *)
(* the device is left alone.                                               *)
Disturbance == PowerLoss \/ ResetPin
ResetReachesApp ==
  <>[][~Disturbance]_vars => (s_reset_pending ~> pc = "app")
=============================================================================
