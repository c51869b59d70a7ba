----------------------------- MODULE ReportQueue -----------------------------
(***************************************************************************)
(* The keyboard report queue of src/firmware/KeyDU.App/usb_hid.c: a ring   *)
(* of KBD_QUEUE_DEPTH entries with a head that only hid_flush() moves and  *)
(* a tail that only kbd_enqueue() moves, one slot always left free.  Both  *)
(* run in the main loop, so each call is one action.  The interrupt side,  *)
(* and when each call happens, is module HidPipeline.                      *)
(***************************************************************************)
EXTENDS Naturals, Sequences

CONSTANTS
  Report,            \* hid_kbd_report_t values
  Zero,              \* the all-zero report
  NoReport,          \* EP1 IN holds nothing (BUSNAK set, ready for firmware)
  KBD_QUEUE_DEPTH,   \* slots in the ring
  WaitMod            \* 2^8: wait_sofs is a uint8_t

ASSUME QueueAssumption ==
  /\ Zero \in Report
  /\ NoReport \notin Report
  /\ KBD_QUEUE_DEPTH \in Nat \ {0, 1}
  /\ WaitMod \in Nat \ {0, 1}

VARIABLES
  kbd_queue,         \* the slots
  kbd_queue_head,    \* next slot to flush
  kbd_queue_tail,    \* next slot to fill
  ep1_in,            \* the report armed in EP1 IN, or NoReport
  host_kbd           \* the last keyboard report the host received

ring == <<kbd_queue, kbd_queue_head, kbd_queue_tail>>
qvars == <<kbd_queue, kbd_queue_head, kbd_queue_tail, ep1_in, host_kbd>>

Index == 0..(KBD_QUEUE_DEPTH - 1)

ReportEntry == [type: {"report"}, report: Report]
WaitEntry   == [type: {"wait"}, wait_sofs: 0..(WaitMod - 1)]
QueueEntry  == ReportEntry \cup WaitEntry

AReport(r) == [type |-> "report", report |-> r]
AWait(n)   == [type |-> "wait", wait_sofs |-> n]

(* Mutant: the mask is forgotten. *)
NextUnmasked(i) == i + 1

(* (i + 1) & KBD_QUEUE_MASK, for an index of the ring. *)
NextIndex(i) == IF i + 1 = KBD_QUEUE_DEPTH THEN 0 ELSE i + 1

(* --wait_sofs, in eight bits. *)
Decrement(n) == IF n = 0 THEN WaitMod - 1 ELSE n - 1

Empty == kbd_queue_head = kbd_queue_tail
Full  == NextIndex(kbd_queue_tail) = kbd_queue_head
Front == kbd_queue[kbd_queue_head]

TypeOK ==
  /\ kbd_queue \in [Index -> QueueEntry]
  /\ kbd_queue_head \in Index
  /\ kbd_queue_tail \in Index
  /\ ep1_in \in Report \cup {NoReport}
  /\ host_kbd \in Report

QueueInit ==
  /\ kbd_queue = [i \in Index |-> AReport(Zero)]
  /\ kbd_queue_head = 0
  /\ kbd_queue_tail = 0
  /\ ep1_in = NoReport
  /\ host_kbd = Zero

------------------------------------------------------------------------------
(* Mutant: a full ring is not noticed. *)
EnqueueAnyway(entry) ==
  /\ kbd_queue' = [kbd_queue EXCEPT ![kbd_queue_tail] = entry]
  /\ kbd_queue_tail' = NextIndex(kbd_queue_tail)
  /\ UNCHANGED <<kbd_queue_head, ep1_in, host_kbd>>

(* kbd_enqueue: a full ring drops the entry; otherwise the slot is written
   and then the tail advances. *)
kbd_enqueue(entry) ==
  /\ IF Full
     THEN UNCHANGED <<kbd_queue, kbd_queue_tail>>
     ELSE /\ kbd_queue' = [kbd_queue EXCEPT ![kbd_queue_tail] = entry]
          /\ kbd_queue_tail' = NextIndex(kbd_queue_tail)
  /\ UNCHANGED <<kbd_queue_head, ep1_in, host_kbd>>

hid_kbd_stage(r) == kbd_enqueue(AReport(r))

kbd_stage_wait(n) == kbd_enqueue(AWait(n))

(* flush_kbd with a wait sentinel in front: count down, discard at zero. *)
FlushWait ==
  /\ ~Empty
  /\ Front.type = "wait"
  /\ LET left == Decrement(Front.wait_sofs) IN
       /\ kbd_queue' = [kbd_queue EXCEPT ![kbd_queue_head] = AWait(left)]
       /\ kbd_queue_head' = IF left = 0 THEN NextIndex(kbd_queue_head)
                                        ELSE kbd_queue_head
  /\ UNCHANGED <<kbd_queue_tail, ep1_in, host_kbd>>

(* flush_kbd with a report in front and EP1 IN ready: arm it and pop. *)
FlushReport ==
  /\ ~Empty
  /\ Front.type = "report"
  /\ ep1_in = NoReport
  /\ ep1_in' = Front.report
  /\ kbd_queue_head' = NextIndex(kbd_queue_head)
  /\ UNCHANGED <<kbd_queue, kbd_queue_tail, host_kbd>>

(* flush_kbd returns early: nothing queued, or EP1 IN still busy. *)
FlushNothing ==
  /\ Empty \/ (Front.type = "report" /\ ep1_in # NoReport)
  /\ UNCHANGED qvars

flush_kbd == FlushWait \/ FlushReport \/ FlushNothing

(* Mutant: the tail is not reset with the head. *)
WakeupKeepsTail ==
  /\ kbd_queue_head' = 0
  /\ kbd_queue' = [kbd_queue EXCEPT ![kbd_queue_tail] = AReport(Zero)]
  /\ kbd_queue_tail' = NextIndex(kbd_queue_tail)
  /\ UNCHANGED <<ep1_in, host_kbd>>

(* The ring part of handle_wakeup: empty it, then queue one zero report. *)
WakeupReset ==
  /\ kbd_queue_head' = 0
  /\ kbd_queue' = [kbd_queue EXCEPT ![0] = AReport(Zero)]
  /\ kbd_queue_tail' = NextIndex(0)
  /\ UNCHANGED <<ep1_in, host_kbd>>

(* The keyboard part of hid_configure: EP1 IN re-initialised, ring emptied
   and zeroed. *)
ConfigureReset ==
  /\ kbd_queue_head' = 0
  /\ kbd_queue_tail' = 0
  /\ kbd_queue' = [i \in Index |-> AReport(Zero)]
  /\ ep1_in' = NoReport
  /\ UNCHANGED host_kbd

------------------------------------------------------------------------------
(* The host side of EP1 IN: an IN token collects the armed report. *)
HostPoll ==
  /\ ep1_in # NoReport
  /\ host_kbd' = ep1_in
  /\ ep1_in' = NoReport
  /\ UNCHANGED ring

(* A bus reset disables the endpoint (ep_clear_all) and makes the host drop
   the device's keys; the ring itself is not touched. *)
EndpointReset ==
  /\ ep1_in' = NoReport
  /\ host_kbd' = Zero
  /\ UNCHANGED ring

QueueNext ==
  \/ \E r \in Report : hid_kbd_stage(r)
  \/ \E n \in 0..(WaitMod - 1) : kbd_stage_wait(n)
  \/ flush_kbd
  \/ WakeupReset
  \/ ConfigureReset
  \/ HostPoll
  \/ EndpointReset

QueueSpec == QueueInit /\ [][QueueNext]_qvars

------------------------------------------------------------------------------
(* The refinement mapping: the ring, read from head to tail, is the abstract
   line; a sentinel of n is n flushes of silence, and one of 0 wraps to
   WaitMod of them. *)
Silence(n) == IF n = 0 THEN WaitMod ELSE n

(* The number of entries between head h and tail t. *)
Used(h, t) == IF t >= h THEN t - h ELSE t + KBD_QUEUE_DEPTH - h

(* The slot of the i-th entry after head h, i = 1 the oldest. *)
SlotAt(h, i) == IF h + i - 1 < KBD_QUEUE_DEPTH THEN h + i - 1
                                               ELSE h + i - 1 - KBD_QUEUE_DEPTH

AbsEntry(e) == IF e.type = "wait" THEN [silence |-> Silence(e.wait_sofs)]
                                  ELSE [report |-> e.report]

LineOf(q, h, t) == [i \in 1..Used(h, t) |-> AbsEntry(q[SlotAt(h, i)])]

Line == LineOf(kbd_queue, kbd_queue_head, kbd_queue_tail)

Fifo == INSTANCE BoundedFifo WITH pending <- Line, Capacity <- KBD_QUEUE_DEPTH - 1

(* The ring buffer behaves as a lossy bounded FIFO: no index arithmetic, wrap
   or reset ever reorders, repeats, invents or loses an entry other than the
   one offered to a full ring (usb_hid.c, kbd_enqueue, flush_kbd). *)
ImplementsFifo == Fifo!Spec

==============================================================================
