------------------------- MODULE HidPipeline_proofs -------------------------
(***************************************************************************)
(* Proofs about the report pipeline, for every ring depth and every number *)
(* of reports staged: the host receives the accepted reports in order and  *)
(* without a gap, wherever the interrupt cuts the main loop, and the zero  *)
(* report of a wakeup leads the queue.                                     *)
(***************************************************************************)
EXTENDS HidPipeline, ReportQueue_proofs

(* What is due to the host is the report armed in EP1 IN, if there is one,
   and then the ring from h to t. *)
Ahead(armed) == IF armed = NoReport THEN 0 ELSE 1

Delivers(d, armed, q, h, t) ==
  /\ Len(d) = Ahead(armed) + Used(h, t)
  /\ armed # NoReport => d[1] = armed
  /\ \A i \in 1..Used(h, t) : d[Ahead(armed) + i] = q[SlotAt(h, i)].report

(* Between ep_clear_in() and the pop the front entry is armed and queued. *)
First == IF pc = "pop_kbd" THEN NextIndex(kbd_queue_head) ELSE kbd_queue_head

(* While the endpoints are up, flush_kbd() works on the one it selected, and
   what is due is what is queued. *)
PipelineInv ==
  /\ PipelineTypeOK
  /\ kbd_queue \in [Index -> ReportEntry]
  /\ ep_enabled =>
       /\ pc \in {"kbd_ready", "write_kbd", "pop_kbd"} => usb_ep_selected = 1
       /\ pc = "write_kbd" => ep1_in = NoReport
       /\ Delivers(due, ep1_in, kbd_queue, First, kbd_queue_tail)

(* Staging a report on a ring that is not full makes it the last one due. *)
LEMMA DueStage ==
  ASSUME NEW d \in Seq(Report), NEW armed \in Report \cup {NoReport},
         NEW q \in [Index -> ReportEntry], NEW h \in Index, NEW t \in Index,
         NEW r \in Report, NextIndex(t) # h, Delivers(d, armed, q, h, t)
  PROVE  Delivers(Append(d, r), armed, [q EXCEPT ![t] = AReport(r)], h, NextIndex(t))
<1> DEFINE q2 == [q EXCEPT ![t] = AReport(r)]
           d2 == Append(d, r)
<1>1. Used(h, t) \in Nat /\ Ahead(armed) \in {0, 1}
  BY UsedFacts DEF Ahead
<1>2. /\ Len(d2) = Len(d) + 1
      /\ \A i \in 1..Len(d) : d2[i] = d[i]
      /\ d2[Len(d) + 1] = r
  BY AppendProperties
<1>3. Len(d) = Ahead(armed) + Used(h, t)
  BY DEF Delivers
<1>4. Used(h, NextIndex(t)) = Used(h, t) + 1
  BY GrowFacts
<1>5. armed # NoReport => d2[1] = armed
  BY <1>1, <1>2, <1>3 DEF Delivers, Ahead
<1>6. ASSUME NEW i \in 1..(Used(h, t) + 1)
      PROVE  d2[Ahead(armed) + i] = q2[SlotAt(h, i)].report
  <2>1. CASE i = Used(h, t) + 1
    <3>1. q2[SlotAt(h, i)] = AReport(r)
      BY <2>1, GrowFacts
    <3>2. Ahead(armed) + i = Len(d) + 1
      BY <1>1, <1>3, <2>1
    <3>3. QED BY <1>2, <3>1, <3>2 DEF AReport
  <2>2. CASE i \in 1..Used(h, t)
    <3>1. q2[SlotAt(h, i)] = q[SlotAt(h, i)]
      BY <2>2, GrowFacts
    <3>2. Ahead(armed) + i \in 1..Len(d)
      BY <1>1, <1>3, <2>2
    <3>3. d[Ahead(armed) + i] = q[SlotAt(h, i)].report
      BY <2>2 DEF Delivers
    <3>4. QED BY <1>2, <3>1, <3>2, <3>3
  <2> HIDE DEF d2, q2
  <2>3. QED BY <1>1, <2>1, <2>2
<1>7. QED
  <2> HIDE DEF d2, q2
  <2>1. Delivers(d2, armed, q2, h, NextIndex(t))
    BY <1>1, <1>2, <1>3, <1>4, <1>5, <1>6 DEF Delivers
  <2>2. QED BY <2>1 DEF d2, q2

(* Arming the front entry moves it, and nothing that is due changes. *)
LEMMA DueArm ==
  ASSUME NEW d \in Seq(Report), NEW q \in [Index -> ReportEntry], NEW h \in Index, NEW t \in Index,
         h # t, Delivers(d, NoReport, q, h, t)
  PROVE  q[h].report \in Report /\ Delivers(d, q[h].report, q, NextIndex(h), t)
<1>1. q[h].report \in Report /\ q[h].report # NoReport
  BY QueueAssumption DEF ReportEntry
<1>2. /\ Used(h, t) \in Nat \ {0}
      /\ Used(NextIndex(h), t) = Used(h, t) - 1
      /\ SlotAt(h, 1) = h
  BY UsedFacts, ShrinkFacts
<1>3. Len(d) = Used(h, t) /\ \A i \in 1..Used(h, t) : d[i] = q[SlotAt(h, i)].report
  BY <1>2 DEF Delivers, Ahead
<1>4. d[1] = q[h].report
  BY <1>2, <1>3
<1>5. ASSUME NEW i \in 1..(Used(h, t) - 1) PROVE d[1 + i] = q[SlotAt(NextIndex(h), i)].report
  <2>1. 1 + i \in 1..Used(h, t) /\ SlotAt(NextIndex(h), i) = SlotAt(h, 1 + i)
    BY <1>2, ShrinkFacts
  <2>2. QED BY <1>3, <2>1
<1>6. QED
  BY <1>1, <1>2, <1>3, <1>4, <1>5 DEF Delivers, Ahead

(* What the host takes from EP1 IN is the first report due. *)
LEMMA DuePoll ==
  ASSUME NEW d \in Seq(Report), NEW armed \in Report,
         NEW q \in [Index -> ReportEntry], NEW h \in Index, NEW t \in Index,
         Delivers(d, armed, q, h, t)
  PROVE  /\ d # <<>> /\ Head(d) = armed /\ Tail(d) \in Seq(Report)
         /\ Delivers(Tail(d), NoReport, q, h, t)
<1>1. Used(h, t) \in Nat /\ armed # NoReport
  BY UsedFacts, QueueAssumption
<1>2. /\ Len(d) = 1 + Used(h, t) /\ d[1] = armed
      /\ \A i \in 1..Used(h, t) : d[1 + i] = q[SlotAt(h, i)].report
  BY <1>1 DEF Delivers, Ahead
<1>3. d # <<>> /\ Head(d) = armed
  BY <1>1, <1>2
<1>4. /\ Tail(d) \in Seq(Report) /\ Len(Tail(d)) = Len(d) - 1
      /\ \A i \in 1..(Len(d) - 1) : Tail(d)[i] = d[i + 1]
  BY <1>3, HeadTailProperties
<1>5. QED
  BY <1>1, <1>2, <1>3, <1>4 DEF Delivers, Ahead

(* After handle_wakeup() the zero report is due behind the one under way. *)
LEMMA DueDiscard ==
  ASSUME NEW q \in [Index -> ReportEntry], q[0] = AReport(Zero), ep1_in \in Report \cup {NoReport}
  PROVE  /\ Append(InFlight, Zero) \in Seq(Report)
         /\ Delivers(Append(InFlight, Zero), ep1_in, q, 0, NextIndex(0))
<1>1. Used(0, NextIndex(0)) = 1 /\ SlotAt(0, 1) = 0 /\ Zero \in Report
  BY QueueAssumption DEF Used, NextIndex, SlotAt
<1>2. CASE ep1_in = NoReport
  <2>1. InFlight = <<>>
    BY <1>2 DEF InFlight
  <2>2. Append(InFlight, Zero) = <<Zero>>
    BY <2>1
  <2>3. QED BY <1>1, <1>2, <2>2 DEF Delivers, Ahead, AReport
<1>3. CASE ep1_in # NoReport
  <2>1. InFlight = <<ep1_in>>
    BY <1>3 DEF InFlight
  <2>2. InFlight \in Seq(Report) /\ Len(InFlight) = 1 /\ InFlight[1] = ep1_in
    <3>1. ep1_in \in Report
      BY <1>3
    <3>2. <<ep1_in>> \in Seq(Report) /\ Len(<<ep1_in>>) = 1 /\ <<ep1_in>>[1] = ep1_in
      BY <3>1
    <3>3. QED BY <2>1, <3>2
  <2>3. /\ Append(InFlight, Zero) \in Seq(Report) /\ Len(Append(InFlight, Zero)) = 2
        /\ Append(InFlight, Zero)[1] = ep1_in /\ Append(InFlight, Zero)[2] = Zero
    <3> HIDE DEF InFlight
    <3>1. /\ Append(InFlight, Zero) \in Seq(Report)
          /\ Len(Append(InFlight, Zero)) = Len(InFlight) + 1
          /\ \A i \in 1..Len(InFlight) : Append(InFlight, Zero)[i] = InFlight[i]
          /\ Append(InFlight, Zero)[Len(InFlight) + 1] = Zero
      <4>1. ASSUME NEW f \in Seq(Report), NEW r \in Report
            PROVE  /\ Append(f, r) \in Seq(Report) /\ Len(Append(f, r)) = Len(f) + 1
                   /\ \A i \in 1..Len(f) : Append(f, r)[i] = f[i]
                   /\ Append(f, r)[Len(f) + 1] = r
        BY AppendProperties
      <4>2. QED BY <1>1, <2>2, <4>1
    <3>2. QED BY <2>2, <3>1
  <2> HIDE DEF InFlight
  <2>4. \A i \in 1..1 : i = 1
    OBVIOUS
  <2>5. q[SlotAt(0, 1)].report = Zero
    BY <1>1 DEF AReport
  <2>6. Ahead(ep1_in) = 1
    BY <1>3 DEF Ahead
  <2>7. QED BY <1>1, <2>3, <2>4, <2>5, <2>6 DEF Delivers
<1>4. QED BY <1>2, <1>3

------------------------------------------------------------------------------
(* The pipeline starts with everything empty. *)
LEMMA PipelineStart == PipelineInit => PipelineInv
<1> SUFFICES ASSUME PipelineInit PROVE PipelineInv
  OBVIOUS
<1>1. TypeOK /\ kbd_queue \in [Index -> ReportEntry]
  BY QueueAssumption
     DEF PipelineInit, QueueInit, TypeOK, Index, QueueEntry, ReportEntry, AReport
<1>2. PipelineTypeOK
  <2>1. due \in Seq(Report) /\ staged \in 0..MaxStaged
    BY PipelineAssumption DEF PipelineInit
  <2>2. /\ usb_device_state = "DEFAULT" /\ usb_config_num = 0 /\ usb_ep_selected = 0
        /\ pc = "test_wakeup" /\ s_con_buf = 0 /\ host_con = 0 /\ ep2_in = NoReport
        /\ s_wakeup_pending \in BOOLEAN /\ ep_enabled \in BOOLEAN
        /\ baseline_due \in BOOLEAN /\ stale \in BOOLEAN
    BY DEF PipelineInit
  <2>3. QED BY <1>1, <2>1, <2>2 DEF PipelineTypeOK, ConReport
<1>3. QED
  BY <1>1, <1>2 DEF PipelineInit, PipelineInv

(* The main loop: the flush, the control requests, the staging. *)
LEMMA LoopStep ==
  ASSUME PipelineInv, hid_flush \/ PollCtrl \/ EndLoop \/ Staging \/ \E n \in {0, 1} : Configure(n)
  PROVE  PipelineInv'
<1>1. /\ kbd_queue \in [Index -> ReportEntry] /\ kbd_queue_head \in Index
      /\ kbd_queue_tail \in Index /\ ep1_in \in Report \cup {NoReport} /\ host_kbd \in Report
      /\ NoReport \notin Report /\ Zero \in Report /\ due \in Seq(Report)
  BY QueueAssumption DEF PipelineInv, PipelineTypeOK, TypeOK
<1>2. \A q \in [Index -> ReportEntry] : q \in [Index -> QueueEntry]
  BY DEF QueueEntry
<1>3. \A r \in Report : AReport(r) \in ReportEntry
  BY DEF AReport, ReportEntry
<1> USE DEF PipelineInv, PipelineTypeOK, TypeOK, Goto, First, qvars, dev, con, ghost, ring, ConReport
<1>4. CASE TestWakeup
  BY <1>4 DEF TestWakeup
<1>5. CASE ClearWakeup
  BY <1>5 DEF ClearWakeup
<1>6. CASE Discard
  <2>1. 0 \in Index /\ NextIndex(0) \in Index /\ NextIndex(0) # 0
    BY QueueAssumption DEF Index, NextIndex
  <2>2. /\ kbd_queue' \in [Index -> ReportEntry] /\ kbd_queue'[0] = AReport(Zero)
        /\ kbd_queue_head' = 0 /\ kbd_queue_tail' = NextIndex(0) /\ UNCHANGED <<ep1_in, host_kbd>>
    BY <1>1, <1>3, <1>6, <2>1 DEF Discard, WakeupReset
  <2>3. /\ due' \in Seq(Report)
        /\ Delivers(due', ep1_in, kbd_queue', 0, NextIndex(0))
    BY <1>1, <1>6, <2>2, DueDiscard DEF Discard
  <2>4. QED BY <1>1, <1>2, <1>6, <2>1, <2>2, <2>3 DEF Discard, Empty
<1>7. CASE TestState
  BY <1>7 DEF TestState, Empty
<1>8. CASE SelectKbd
  BY <1>8 DEF SelectKbd, Empty
<1>9. CASE KbdReady
  BY <1>9 DEF KbdReady, ep_in_ready, Empty
<1>10. CASE WriteKbd
  <2>1. kbd_queue_head # kbd_queue_tail /\ Front.report \in Report
    BY <1>1, <1>10 DEF WriteKbd, Empty, Front, ReportEntry
  <2>2. ep_enabled =>
          /\ ep1_in' = Front.report
          /\ Delivers(due, ep1_in', kbd_queue, NextIndex(kbd_queue_head), kbd_queue_tail)
    BY <1>1, <1>10, <2>1, DueArm DEF WriteKbd, Front
  <2>3. QED BY <1>1, <1>10, <2>1, <2>2 DEF WriteKbd, Empty
<1>11. CASE PopKbd
  BY <1>1, <1>11, NextIndexType DEF PopKbd
<1>12. CASE SelectCon
  BY <1>12 DEF SelectCon
<1>13. CASE ConReady
  BY <1>13 DEF ConReady
<1>14. CASE WriteCon
  BY <1>14 DEF WriteCon
<1>15. CASE PollCtrl
  BY <1>15 DEF PollCtrl
<1>16. ASSUME NEW n \in {0, 1}, Configure(n) PROVE PipelineInv'
  <2>1. 0 \in Index /\ Used(0, 0) = 0
    BY QueueAssumption DEF Index, Used
  <2>2. /\ kbd_queue' \in [Index -> ReportEntry] /\ kbd_queue_head' = 0 /\ kbd_queue_tail' = 0
        /\ ep1_in' = NoReport /\ UNCHANGED host_kbd /\ due' = <<>>
    BY <1>1, <1>3, <1>16 DEF Configure, ConfigureReset
  <2>3. Delivers(<<>>, NoReport, kbd_queue', 0, 0)
    BY <2>1 DEF Delivers, Ahead
  <2>4. QED BY <1>1, <1>2, <1>16, <2>1, <2>2, <2>3 DEF Configure
<1>17. CASE StageKbd
  <2>1. staged' \in Report /\ staged' \in 0..MaxStaged
    BY <1>17, PipelineAssumption DEF StageKbd
  <2>2. CASE Full
    BY <1>17, <2>1, <2>2 DEF StageKbd, hid_kbd_stage, kbd_enqueue
  <2>3. CASE ~Full
    <3>1. /\ kbd_queue' = [kbd_queue EXCEPT ![kbd_queue_tail] = AReport(staged')]
          /\ kbd_queue_tail' = NextIndex(kbd_queue_tail) /\ due' = Append(due, staged')
          /\ UNCHANGED <<kbd_queue_head, ep1_in, host_kbd>>
      BY <1>17, <2>3 DEF StageKbd, hid_kbd_stage, kbd_enqueue
    <3>2. /\ kbd_queue' \in [Index -> ReportEntry] /\ kbd_queue_tail' \in Index
          /\ due' \in Seq(Report)
      BY <1>1, <1>3, <2>1, <3>1, NextIndexType
    <3>3. ep_enabled => Delivers(due', ep1_in, kbd_queue', kbd_queue_head, kbd_queue_tail')
      <4>1. NextIndex(kbd_queue_tail) # kbd_queue_head
        BY <2>3 DEF Full
      <4>2. ep_enabled => Delivers(due, ep1_in, kbd_queue, kbd_queue_head, kbd_queue_tail)
        BY <1>17 DEF StageKbd
      <4>3. QED BY <1>1, <2>1, <3>1, <4>1, <4>2, DueStage
    <3>4. QED BY <1>1, <1>2, <1>17, <2>1, <3>1, <3>2, <3>3 DEF StageKbd
  <2>4. QED BY <2>2, <2>3
<1>18. CASE hid_consumer_stage
  BY <1>18 DEF hid_consumer_stage
<1>19. CASE EndLoop
  BY <1>19 DEF EndLoop
<1>20. QED
  BY <1>4, <1>5, <1>6, <1>7, <1>8, <1>9, <1>10, <1>11, <1>12, <1>13, <1>14, <1>15, <1>16, <1>17,
     <1>18, <1>19
  DEF hid_flush, Staging

(* The interrupt and the host, between any two steps of the loop. *)
LEMMA AroundStep ==
  ASSUME PipelineInv, BusEvent \/ PollKbd \/ PollCon \/ UNCHANGED pvars
  PROVE  PipelineInv'
<1>1. /\ kbd_queue \in [Index -> ReportEntry] /\ kbd_queue_head \in Index
      /\ kbd_queue_tail \in Index /\ ep1_in \in Report \cup {NoReport}
      /\ NoReport \notin Report /\ Zero \in Report /\ due \in Seq(Report) /\ First \in Index
  BY QueueAssumption, NextIndexType DEF PipelineInv, PipelineTypeOK, TypeOK, First
<1> USE DEF PipelineInv, PipelineTypeOK, TypeOK, First, qvars, dev, con, ghost, ring, ConReport,
            pvars, Empty
<1>2. CASE Suspend
  BY <1>2 DEF Suspend
<1>3. CASE Resume
  BY <1>3 DEF Resume, usb_event_wakeup
<1>4. CASE Reset
  <2>1. due' = <<>> /\ due' \in Seq(Report) /\ ep_enabled' = FALSE
    BY <1>4 DEF Reset
  <2>2. ep1_in' = NoReport /\ host_kbd' \in Report /\ UNCHANGED ring
    BY <1>1, <1>4 DEF Reset, EndpointReset
  <2>3. /\ usb_device_state' = "DEFAULT" /\ usb_config_num' = 0 /\ usb_ep_selected' = 0
        /\ ep2_in' = NoReport /\ host_con' = 0 /\ stale' \in BOOLEAN
        /\ UNCHANGED <<s_wakeup_pending, s_con_buf, pc, staged, baseline_due>>
    BY <1>4 DEF Reset
  <2>4. PipelineTypeOK'
    <3>1. TypeOK'
      BY <2>2
    <3>2. ep_enabled' \in BOOLEAN /\ due' \in Seq(Report)
      BY <2>1
    <3>3. pc' \in {"select_kbd", "kbd_ready", "write_kbd", "pop_kbd"} => ~Empty'
      BY <2>2, <2>3
    <3>4. /\ s_wakeup_pending' \in BOOLEAN /\ s_con_buf' \in ConReport /\ host_con' \in ConReport
          /\ pc' = pc /\ staged' \in 0..MaxStaged /\ baseline_due' \in BOOLEAN
      BY <2>3
    <3>5. /\ usb_device_state' \in {"DEFAULT", "CONFIGURED", "SUSPENDED"}
          /\ usb_config_num' \in {0, 1} /\ usb_ep_selected' \in 0..2
          /\ ep2_in' \in ConReport \cup {NoReport} /\ stale' \in BOOLEAN
      BY <2>3
    <3> HIDE DEF TypeOK, Empty, ConReport
    <3>6. QED BY <2>3, <3>1, <3>2, <3>3, <3>4, <3>5
  <2>5. QED BY <1>1, <2>1, <2>2, <2>4
<1>5. CASE PollKbd
  <2>1. ep_enabled /\ ep1_in \in Report /\ due' = Tail(due)
    BY <1>1, <1>5 DEF PollKbd, Polled, HostPoll
  <2>2. /\ due' \in Seq(Report)
        /\ Delivers(due', NoReport, kbd_queue, First, kbd_queue_tail)
    BY <1>1, <2>1, DuePoll
  <2>3. QED BY <1>1, <1>5, <2>1, <2>2 DEF PollKbd, HostPoll
<1>6. CASE PollCon
  BY <1>6 DEF PollCon
<1>7. CASE UNCHANGED pvars
  BY <1>7
<1>8. QED
  BY <1>2, <1>3, <1>4, <1>5, <1>6, <1>7 DEF BusEvent

(* The invariant holds of every behaviour. *)
LEMMA PipelineInvHolds == PipelineSpec => []PipelineInv
<1>1. PipelineInv /\ [PipelineNext]_pvars => PipelineInv'
  BY LoopStep, AroundStep DEF PipelineNext, Disturbance
<1>2. QED
  BY <1>1, PipelineStart, PTL DEF PipelineSpec

(* Types; and from the test of the queue to the pop, hid_flush() works on a
   queue that holds something, whatever the interrupt does. *)
THEOREM PipelineTypeCorrect == PipelineSpec => []PipelineTypeOK
<1>1. PipelineInv => PipelineTypeOK
  BY DEF PipelineInv
<1>2. QED
  BY <1>1, PipelineInvHolds, PTL

(* What the host takes is the oldest report it has not had of those that
   kbd_enqueue() accepted, for every depth of the ring. *)
THEOREM DeliveredInOrder == PipelineSpec => InOrderNoGaps
<1>1. PipelineInv /\ [PipelineNext]_pvars
        => [PollKbd => due # <<>> /\ host_kbd' = Head(due)]_pvars
  <2> SUFFICES ASSUME PipelineInv, PollKbd PROVE due # <<>> /\ host_kbd' = Head(due)
    OBVIOUS
  <2>1. /\ kbd_queue \in [Index -> ReportEntry] /\ kbd_queue_tail \in Index /\ First \in Index
        /\ due \in Seq(Report) /\ ep_enabled /\ ep1_in \in Report /\ host_kbd' = ep1_in
    BY NextIndexType DEF PipelineInv, PipelineTypeOK, TypeOK, First, PollKbd, Polled, HostPoll
  <2>2. Delivers(due, ep1_in, kbd_queue, First, kbd_queue_tail)
    BY <2>1 DEF PipelineInv
  <2>3. QED BY <2>1, <2>2, DuePoll
<1>2. QED
  BY <1>1, PipelineInvHolds, PTL DEF PipelineSpec, InOrderNoGaps

(* From handle_wakeup() until it is sent, the zero report is in front of
   whatever the keyboard stages afterwards (usb_hid.c:171-174). *)
THEOREM BaselineStaysInFront == PipelineSpec => []BaselineInFront
<1>1. PipelineInit => BaselineInFront
  BY DEF PipelineInit, BaselineInFront
<1>2. PipelineInv /\ BaselineInFront /\ [PipelineNext]_pvars => BaselineInFront'
  <2> SUFFICES ASSUME PipelineInv, BaselineInFront, [PipelineNext]_pvars, baseline_due'
               PROVE  ~Empty' /\ Front' = AReport(Zero)
    BY DEF BaselineInFront
  <2>1. CASE Discard
    <3>1. 0 \in Index /\ NextIndex(0) # 0 /\ kbd_queue \in [Index -> QueueEntry]
      BY QueueAssumption DEF Index, NextIndex, PipelineInv, PipelineTypeOK, TypeOK
    <3>2. QED BY <2>1, <3>1 DEF Discard, WakeupReset, Empty, Front
  <2>2. CASE StageKbd
    <3>1. baseline_due /\ ~Empty /\ Front = AReport(Zero)
      BY <2>2 DEF StageKbd, BaselineInFront
    <3>2. /\ kbd_queue \in [Index -> QueueEntry] /\ kbd_queue_head \in Index
          /\ kbd_queue_tail \in Index
      BY DEF PipelineInv, PipelineTypeOK, TypeOK
    <3>3. QED BY <2>2, <3>1, <3>2
              DEF StageKbd, hid_kbd_stage, kbd_enqueue, Empty, Full, Front
  <2>3. CASE PopKbd \/ \E n \in {0, 1} : Configure(n)
    BY <2>3 DEF PopKbd, Configure
  <2>4. CASE UNCHANGED <<baseline_due, ring>>
    BY <2>4 DEF ring, BaselineInFront, Empty, Front
  <2>5. Discard \/ StageKbd \/ PopKbd \/ (\E n \in {0, 1} : Configure(n))
          \/ UNCHANGED <<baseline_due, ring>>
    BY DEF PipelineNext, hid_flush, Disturbance, Staging, BusEvent, TestWakeup, ClearWakeup,
           TestState, SelectKbd, KbdReady, WriteKbd, SelectCon, ConReady, WriteCon, PollCtrl,
           EndLoop, PollKbd, PollCon, hid_consumer_stage, Suspend, Resume, Reset, HostPoll,
           EndpointReset, pvars, qvars, ring, ghost
  <2>6. QED BY <2>1, <2>2, <2>3, <2>4, <2>5
<1>3. QED
  BY <1>1, <1>2, PipelineInvHolds, PTL DEF PipelineSpec

==============================================================================
