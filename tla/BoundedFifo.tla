----------------------------- MODULE BoundedFifo -----------------------------
(***************************************************************************)
(* What the keyboard report queue of usb_hid.c promises to its callers,    *)
(* without ring-buffer indices: a first-in first-out line of at most       *)
(* Capacity entries that loses an entry offered when it is full, feeds a   *)
(* one-report IN endpoint, and may be discarded as a whole.  An entry is   *)
(* either a report or a stretch of silence of a known number of flushes.   *)
(***************************************************************************)
EXTENDS Naturals, Sequences

(* ReportQueue assumes Zero \in Report, NoReport \notin Report and positive *)
(* Capacity and WaitMod of the values it substitutes here.               *)
CONSTANTS
  Report,     \* the keyboard reports
  Zero,       \* the all-released report
  NoReport,   \* an empty endpoint bank
  Capacity,   \* entries the line can hold
  WaitMod     \* the longest silence, in flushes

VARIABLES
  pending,    \* the entries in line, oldest first
  ep1_in,     \* the report armed in EP1 IN, or NoReport
  host_kbd    \* the last report the host received

vars == <<pending, ep1_in, host_kbd>>

Entry == [report: Report] \cup [silence: 1..WaitMod]

Init ==
  /\ pending = <<>>
  /\ ep1_in = NoReport
  /\ host_kbd = Zero

(* An offered entry joins the end of the line, or is lost when it is full. *)
Offer(e) ==
  /\ pending' = IF Len(pending) < Capacity THEN Append(pending, e) ELSE pending
  /\ UNCHANGED <<ep1_in, host_kbd>>

(* The oldest report moves to the free endpoint. *)
Deliver ==
  /\ pending # <<>>
  /\ "report" \in DOMAIN Head(pending)
  /\ ep1_in = NoReport
  /\ ep1_in' = Head(pending).report
  /\ pending' = Tail(pending)
  /\ UNCHANGED host_kbd

(* One flush of silence at the front is used up. *)
StaySilent ==
  /\ pending # <<>>
  /\ "silence" \in DOMAIN Head(pending)
  /\ pending' = IF Head(pending).silence = 1
                THEN Tail(pending)
                ELSE <<[silence |-> Head(pending).silence - 1]>> \o Tail(pending)
  /\ UNCHANGED <<ep1_in, host_kbd>>

(* The host collects what the endpoint holds. *)
Collect ==
  /\ ep1_in # NoReport
  /\ host_kbd' = ep1_in
  /\ ep1_in' = NoReport
  /\ UNCHANGED pending

(* After a resume the line holds one all-released report and nothing else. *)
Baseline ==
  /\ pending' = <<[report |-> Zero]>>
  /\ UNCHANGED <<ep1_in, host_kbd>>

(* A new configuration starts from an empty line and an empty endpoint. *)
Restart ==
  /\ pending' = <<>>
  /\ ep1_in' = NoReport
  /\ UNCHANGED host_kbd

(* The bus is reset: the endpoint goes dark, the host forgets the keys, the
   line keeps its entries. *)
BusReset ==
  /\ ep1_in' = NoReport
  /\ host_kbd' = Zero
  /\ UNCHANGED pending

Next ==
  \/ \E e \in Entry : Offer(e)
  \/ Deliver
  \/ StaySilent
  \/ Collect
  \/ Baseline
  \/ Restart
  \/ BusReset

Spec == Init /\ [][Next]_vars

==============================================================================
