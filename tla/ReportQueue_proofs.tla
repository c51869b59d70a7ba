-------------------------- MODULE ReportQueue_proofs --------------------------
(***************************************************************************)
(* Proofs about the keyboard report queue, for every set of reports, every *)
(* depth and every counter width: it is type-correct and it implements the *)
(* lossy bounded FIFO of BoundedFifo.                                      *)
(***************************************************************************)
EXTENDS ReportQueue, SequenceTheorems, TLAPS

(* Stepping an index around the ring stays inside the ring. *)
LEMMA NextIndexType ==
  ASSUME NEW i \in Index
  PROVE  NextIndex(i) \in Index
BY QueueAssumption DEF Index, NextIndex

(* The eight-bit decrement stays in the range of a uint8_t. *)
LEMMA DecrementType ==
  ASSUME NEW n \in 0..(WaitMod - 1)
  PROVE  Decrement(n) \in 0..(WaitMod - 1)
BY QueueAssumption DEF Decrement

(* The queue's variables always hold values of their types: the head and the
   tail never leave the ring and every slot holds a well-formed entry. *)
THEOREM QueueTypeCorrect == QueueSpec => []TypeOK
<1>1. QueueInit => TypeOK
  BY QueueAssumption DEF QueueInit, TypeOK, Index, QueueEntry, ReportEntry, AReport
<1>2. TypeOK /\ [QueueNext]_qvars => TypeOK'
  <2> SUFFICES ASSUME TypeOK, [QueueNext]_qvars PROVE TypeOK'
    OBVIOUS
  <2> USE DEF TypeOK
  <2>1. ASSUME NEW e \in QueueEntry, kbd_enqueue(e) PROVE TypeOK'
    BY <2>1, NextIndexType DEF kbd_enqueue
  <2>2. ASSUME NEW r \in Report, hid_kbd_stage(r) PROVE TypeOK'
    <3>1. AReport(r) \in QueueEntry
      BY DEF QueueEntry, ReportEntry, AReport
    <3>2. QED BY <2>1, <2>2, <3>1 DEF hid_kbd_stage
  <2>3. ASSUME NEW n \in 0..(WaitMod - 1), kbd_stage_wait(n) PROVE TypeOK'
    <3>1. AWait(n) \in QueueEntry
      BY DEF QueueEntry, WaitEntry, AWait
    <3>2. QED BY <2>1, <2>3, <3>1 DEF kbd_stage_wait
  <2>4. CASE FlushWait
    <3>1. Front \in WaitEntry
      BY <2>4 DEF FlushWait, Front, QueueEntry, ReportEntry, WaitEntry
    <3>2. AWait(Decrement(Front.wait_sofs)) \in QueueEntry
      BY <3>1, DecrementType DEF QueueEntry, WaitEntry, AWait
    <3>3. QED BY <2>4, <3>2, NextIndexType DEF FlushWait
  <2>5. CASE FlushReport
    <3>1. Front.report \in Report
      BY <2>5 DEF FlushReport, Front, QueueEntry, ReportEntry, WaitEntry
    <3>2. QED BY <2>5, <3>1, NextIndexType DEF FlushReport
  <2>6. CASE FlushNothing
    BY <2>6 DEF FlushNothing, qvars
  <2>7. CASE WakeupReset
    <3>1. AReport(Zero) \in QueueEntry /\ 0 \in Index
      BY QueueAssumption DEF QueueEntry, ReportEntry, AReport, Index
    <3>2. QED BY <2>7, <3>1, NextIndexType DEF WakeupReset
  <2>8. CASE ConfigureReset
    <3>1. AReport(Zero) \in QueueEntry /\ 0 \in Index
      BY QueueAssumption DEF QueueEntry, ReportEntry, AReport, Index
    <3>2. QED BY <2>8, <3>1 DEF ConfigureReset
  <2>9. CASE HostPoll
    BY <2>9 DEF HostPoll, ring
  <2>10. CASE EndpointReset
    BY <2>10, QueueAssumption DEF EndpointReset, ring
  <2>11. CASE UNCHANGED qvars
    BY <2>11 DEF qvars
  <2>12. QED
    BY <2>2, <2>3, <2>4, <2>5, <2>6, <2>7, <2>8, <2>9, <2>10, <2>11
    DEF QueueNext, flush_kbd
<1>3. QED
  BY <1>1, <1>2, PTL DEF QueueSpec

------------------------------------------------------------------------------
(* Arithmetic of the ring: how many entries it holds, and where they are. *)
LEMMA UsedFacts ==
  ASSUME NEW h \in Index, NEW t \in Index
  PROVE  /\ Used(h, t) \in 0..(KBD_QUEUE_DEPTH - 1)
         /\ h = t <=> Used(h, t) = 0
         /\ NextIndex(t) = h <=> Used(h, t) = KBD_QUEUE_DEPTH - 1
BY QueueAssumption DEF Index, Used, NextIndex

(* Filling the slot at the tail adds one entry and moves none. *)
LEMMA GrowFacts ==
  ASSUME NEW h \in Index, NEW t \in Index, NextIndex(t) # h
  PROVE  /\ Used(h, NextIndex(t)) = Used(h, t) + 1
         /\ SlotAt(h, Used(h, t) + 1) = t
         /\ \A i \in 1..Used(h, t) : SlotAt(h, i) \in Index /\ SlotAt(h, i) # t
BY QueueAssumption DEF Index, Used, NextIndex, SlotAt

(* Popping the slot at the head removes the oldest entry and shifts the rest. *)
LEMMA ShrinkFacts ==
  ASSUME NEW h \in Index, NEW t \in Index, h # t
  PROVE  /\ Used(NextIndex(h), t) = Used(h, t) - 1
         /\ SlotAt(h, 1) = h
         /\ \A i \in 1..(Used(h, t) - 1) :
              /\ SlotAt(NextIndex(h), i) = SlotAt(h, i + 1)
              /\ SlotAt(h, i + 1) \in Index
              /\ SlotAt(h, i + 1) # h
BY QueueAssumption DEF Index, Used, NextIndex, SlotAt

(* Every queued entry stands for an entry of the abstract line. *)
LEMMA AbsEntryType ==
  ASSUME NEW e \in QueueEntry
  PROVE  AbsEntry(e) \in Fifo!Entry
<1>1. CASE e \in ReportEntry
  BY <1>1 DEF ReportEntry, AbsEntry, Fifo!Entry
<1>2. CASE e \in WaitEntry
  BY <1>2, QueueAssumption DEF WaitEntry, AbsEntry, Silence, Fifo!Entry
<1>3. QED BY <1>1, <1>2 DEF QueueEntry

(* The line read off a ring is a sequence of abstract entries. *)
LEMMA LineFacts ==
  ASSUME NEW q \in [Index -> QueueEntry], NEW h \in Index, NEW t \in Index
  PROVE  /\ LineOf(q, h, t) \in Seq(Fifo!Entry)
         /\ Len(LineOf(q, h, t)) = Used(h, t)
         /\ \A i \in 1..Used(h, t) :
              LineOf(q, h, t)[i] = AbsEntry(q[SlotAt(h, i)])
<1>1. Used(h, t) \in Nat
  BY UsedFacts
<1>2. \A i \in 1..Used(h, t) : SlotAt(h, i) \in Index
  BY QueueAssumption DEF Index, Used, SlotAt
<1>3. \A i \in 1..Used(h, t) : AbsEntry(q[SlotAt(h, i)]) \in Fifo!Entry
  BY <1>2, AbsEntryType
<1>4. LineOf(q, h, t) \in [1..Used(h, t) -> Fifo!Entry]
  BY <1>3 DEF LineOf
<1>5. LineOf(q, h, t) \in Seq(Fifo!Entry)
  BY <1>1, <1>4, SeqDef
<1>6. Len(LineOf(q, h, t)) = Used(h, t)
  BY <1>1 DEF LineOf
<1>7. QED BY <1>5, <1>6 DEF LineOf

------------------------------------------------------------------------------
(* Enqueueing on a ring that is not full appends to its line. *)
LEMMA LineAppend ==
  ASSUME NEW q \in [Index -> QueueEntry], NEW h \in Index, NEW t \in Index,
         NEW e \in QueueEntry, NextIndex(t) # h
  PROVE  LineOf([q EXCEPT ![t] = e], h, NextIndex(t))
           = Append(LineOf(q, h, t), AbsEntry(e))
<1> DEFINE q2 == [q EXCEPT ![t] = e]
           old == LineOf(q, h, t)
           new == LineOf(q2, h, NextIndex(t))
           app == Append(old, AbsEntry(e))
<1>1. q2 \in [Index -> QueueEntry] /\ NextIndex(t) \in Index
  BY NextIndexType
<1>2. Used(h, t) \in Nat /\ Used(h, NextIndex(t)) = Used(h, t) + 1
  BY UsedFacts, GrowFacts
<1>3. /\ old \in Seq(Fifo!Entry) /\ Len(old) = Used(h, t)
      /\ \A i \in 1..Used(h, t) : old[i] = AbsEntry(q[SlotAt(h, i)])
  BY LineFacts
<1>4. /\ new \in Seq(Fifo!Entry) /\ Len(new) = Used(h, t) + 1
      /\ \A i \in 1..(Used(h, t) + 1) : new[i] = AbsEntry(q2[SlotAt(h, i)])
  <2> HIDE DEF q2
  <2>1. /\ new \in Seq(Fifo!Entry) /\ Len(new) = Used(h, NextIndex(t))
        /\ \A i \in 1..Used(h, NextIndex(t)) :
             new[i] = AbsEntry(q2[SlotAt(h, i)])
    BY <1>1, LineFacts
  <2>2. QED BY <2>1, <1>2
<1>5. /\ app \in Seq(Fifo!Entry) /\ Len(app) = Len(old) + 1
      /\ \A i \in 1..Len(old) : app[i] = old[i]
      /\ app[Len(old) + 1] = AbsEntry(e)
  BY <1>3, AbsEntryType, AppendProperties
<1>6. ASSUME NEW i \in 1..(Used(h, t) + 1) PROVE new[i] = app[i]
  <2>1. CASE i = Used(h, t) + 1
    <3>1. SlotAt(h, i) = t
      BY <2>1, GrowFacts
    <3>2. QED BY <2>1, <3>1, <1>2, <1>3, <1>4, <1>5
  <2>2. CASE i \in 1..Used(h, t)
    <3>1. SlotAt(h, i) \in Index /\ SlotAt(h, i) # t
      BY <2>2, GrowFacts
    <3>2. QED BY <2>2, <3>1, <1>3, <1>4, <1>5
  <2>3. i = Used(h, t) + 1 \/ i \in 1..Used(h, t)
    BY <1>2
  <2> HIDE DEF new, app
  <2>4. QED BY <2>1, <2>2, <2>3
<1>7. QED
  <2> HIDE DEF new, app, old, q2
  <2>1. Len(new) = Len(app)
    BY <1>3, <1>4, <1>5
  <2>2. \A i \in 1..Len(new) : new[i] = app[i]
    BY <1>4, <1>6
  <2>3. new = app
    BY <1>4, <1>5, <2>1, <2>2, SeqEqual
  <2>4. QED BY <2>3 DEF new, app, old, q2

(* Popping a ring that is not empty drops the head of its line, whatever was
   written to the popped slot. *)
LEMMA LinePop ==
  ASSUME NEW q \in [Index -> QueueEntry], NEW h \in Index, NEW t \in Index,
         NEW e \in QueueEntry, h # t
  PROVE  /\ LineOf(q, h, t) # <<>>
         /\ Head(LineOf(q, h, t)) = AbsEntry(q[h])
         /\ LineOf(q, NextIndex(h), t) = Tail(LineOf(q, h, t))
         /\ LineOf([q EXCEPT ![h] = e], NextIndex(h), t) = Tail(LineOf(q, h, t))
<1> DEFINE old == LineOf(q, h, t)
<1>1. Used(h, t) \in Nat \ {0}
  BY UsedFacts
<1>2. /\ old \in Seq(Fifo!Entry) /\ Len(old) = Used(h, t)
      /\ \A i \in 1..Used(h, t) : old[i] = AbsEntry(q[SlotAt(h, i)])
  BY LineFacts
<1>3. old # <<>> /\ Head(old) = old[1]
  BY <1>1, <1>2
<1>4. Head(old) = AbsEntry(q[h])
  BY <1>1, <1>2, <1>3, ShrinkFacts
<1>5. /\ Tail(old) \in Seq(Fifo!Entry) /\ Len(Tail(old)) = Used(h, t) - 1
      /\ \A i \in 1..(Used(h, t) - 1) : Tail(old)[i] = old[i + 1]
  BY <1>2, <1>3, HeadTailProperties
<1>6. ASSUME NEW p \in [Index -> QueueEntry],
             \A s \in Index : s # h => p[s] = q[s]
      PROVE  LineOf(p, NextIndex(h), t) = Tail(old)
  <2> DEFINE new == LineOf(p, NextIndex(h), t)
  <2>1. NextIndex(h) \in Index /\ Used(NextIndex(h), t) = Used(h, t) - 1
    BY NextIndexType, ShrinkFacts
  <2>2. /\ new \in Seq(Fifo!Entry) /\ Len(new) = Used(h, t) - 1
        /\ \A i \in 1..(Used(h, t) - 1) :
             new[i] = AbsEntry(p[SlotAt(NextIndex(h), i)])
    <3>1. /\ new \in Seq(Fifo!Entry) /\ Len(new) = Used(NextIndex(h), t)
          /\ \A i \in 1..Used(NextIndex(h), t) :
               new[i] = AbsEntry(p[SlotAt(NextIndex(h), i)])
      BY <2>1, LineFacts
    <3>2. QED BY <2>1, <3>1
  <2>3. ASSUME NEW i \in 1..(Used(h, t) - 1) PROVE new[i] = Tail(old)[i]
    <3>1. /\ SlotAt(NextIndex(h), i) = SlotAt(h, i + 1)
          /\ SlotAt(h, i + 1) \in Index
          /\ SlotAt(h, i + 1) # h
      BY ShrinkFacts
    <3>2. i + 1 \in 1..Used(h, t)
      BY <1>1
    <3>3. Tail(old)[i] = AbsEntry(q[SlotAt(h, i + 1)])
      BY <1>2, <1>5, <3>2
    <3>4. QED BY <1>6, <2>2, <3>1, <3>3
  <2> HIDE DEF new, old
  <2>4. new = Tail(old)
    BY <1>5, <2>2, <2>3, SeqEqual
  <2>5. QED BY <2>4 DEF new
<1>7. LineOf(q, NextIndex(h), t) = Tail(old)
  BY <1>6
<1>8. LineOf([q EXCEPT ![h] = e], NextIndex(h), t) = Tail(old)
  BY <1>6
<1>9. QED BY <1>3, <1>4, <1>7, <1>8

(* Rewriting the slot at the head rewrites only the first entry of the line. *)
LEMMA LineRewrite ==
  ASSUME NEW q \in [Index -> QueueEntry], NEW h \in Index, NEW t \in Index,
         NEW e \in QueueEntry, h # t
  PROVE  LineOf([q EXCEPT ![h] = e], h, t)
           = <<AbsEntry(e)>> \o Tail(LineOf(q, h, t))
<1> DEFINE q2 == [q EXCEPT ![h] = e]
           old == LineOf(q, h, t)
           new == LineOf(q2, h, t)
           cat == <<AbsEntry(e)>> \o Tail(old)
<1>1. Used(h, t) \in Nat \ {0}
  BY UsedFacts
<1>2. /\ old \in Seq(Fifo!Entry) /\ Len(old) = Used(h, t)
      /\ \A i \in 1..Used(h, t) : old[i] = AbsEntry(q[SlotAt(h, i)])
  BY LineFacts
<1>3. /\ new \in Seq(Fifo!Entry) /\ Len(new) = Used(h, t)
      /\ \A i \in 1..Used(h, t) : new[i] = AbsEntry(q2[SlotAt(h, i)])
  BY LineFacts
<1>4. old # <<>>
  BY <1>1, <1>2
<1>5. /\ Tail(old) \in Seq(Fifo!Entry) /\ Len(Tail(old)) = Used(h, t) - 1
      /\ \A i \in 1..(Used(h, t) - 1) : Tail(old)[i] = old[i + 1]
  BY <1>2, <1>4, HeadTailProperties
<1>6. /\ <<AbsEntry(e)>> \in Seq(Fifo!Entry) /\ Len(<<AbsEntry(e)>>) = 1
      /\ <<AbsEntry(e)>>[1] = AbsEntry(e)
  BY AbsEntryType
<1>7. /\ cat \in Seq(Fifo!Entry) /\ Len(cat) = Used(h, t)
      /\ cat[1] = AbsEntry(e)
      /\ \A i \in 2..Used(h, t) : cat[i] = Tail(old)[i - 1]
  <2> HIDE DEF old
  <2>1. /\ cat \in Seq(Fifo!Entry)
        /\ Len(cat) = 1 + Len(Tail(old))
        /\ \A i \in 1..(1 + Len(Tail(old))) :
             cat[i] = IF i <= 1 THEN <<AbsEntry(e)>>[i] ELSE Tail(old)[i - 1]
    BY <1>5, <1>6, ConcatProperties
  <2>2. QED BY <1>1, <1>5, <1>6, <2>1
<1>8. ASSUME NEW i \in 1..Used(h, t) PROVE new[i] = cat[i]
  <2>1. CASE i = 1
    <3>1. SlotAt(h, 1) = h
      BY ShrinkFacts
    <3>2. new[1] = AbsEntry(q2[h])
      BY <1>3, <2>1, <3>1
    <3>3. q2[h] = e
      OBVIOUS
    <3> HIDE DEF new, cat, q2
    <3>4. QED BY <1>7, <2>1, <3>2, <3>3
  <2>2. CASE i # 1
    <3>1. i - 1 \in 1..(Used(h, t) - 1) /\ (i - 1) + 1 = i
      BY <1>1, <2>2
    <3>2. SlotAt(h, i) \in Index /\ SlotAt(h, i) # h
      BY <3>1, ShrinkFacts
    <3>3. new[i] = old[i]
      BY <1>2, <1>3, <3>2
    <3>4. cat[i] = old[i]
      <4> HIDE DEF cat, old
      <4>1. i \in 2..Used(h, t)
        BY <1>1, <2>2
      <4>2. cat[i] = Tail(old)[i - 1]
        BY <1>7, <4>1
      <4>3. QED BY <1>5, <3>1, <4>2
    <3>5. QED BY <3>3, <3>4
  <2>3. QED BY <2>1, <2>2
<1>9. QED
  <2> HIDE DEF new, cat, old, q2
  <2>1. new = cat
    BY <1>3, <1>7, <1>8, SeqEqual
  <2>2. QED BY <2>1 DEF new, cat, old, q2

------------------------------------------------------------------------------
(* The abstract line of an empty ring is empty. *)
LEMMA LineEmpty ==
  ASSUME NEW q \in [Index -> QueueEntry], NEW h \in Index, NEW t \in Index
  PROVE  (LineOf(q, h, t) = <<>>) <=> (h = t)
BY LineFacts, UsedFacts, EmptySeq

(* A call of kbd_enqueue is an abstract Offer. *)
LEMMA EnqueueOffers ==
  ASSUME TypeOK, NEW e \in QueueEntry, kbd_enqueue(e)
  PROVE  Fifo!Next
<1> USE DEF TypeOK
<1>1. /\ Line \in Seq(Fifo!Entry)
      /\ Len(Line) = Used(kbd_queue_head, kbd_queue_tail)
  BY LineFacts DEF Line
<1>2. Len(Line) < KBD_QUEUE_DEPTH - 1 <=> ~Full
  BY <1>1, UsedFacts, QueueAssumption DEF Full
<1>3. Line' = IF Len(Line) < KBD_QUEUE_DEPTH - 1
              THEN Append(Line, AbsEntry(e)) ELSE Line
  <2>1. CASE Full
    BY <1>2, <2>1 DEF kbd_enqueue, Line
  <2>2. CASE ~Full
    <3>1. Line' = LineOf([kbd_queue EXCEPT ![kbd_queue_tail] = e],
                         kbd_queue_head, NextIndex(kbd_queue_tail))
      BY <2>2 DEF kbd_enqueue, Line
    <3>2. QED BY <1>2, <2>2, <3>1, LineAppend DEF Full, Line
  <2>3. QED BY <2>1, <2>2
<1>4. AbsEntry(e) \in Fifo!Entry
  BY AbsEntryType
<1>5. Fifo!Offer(AbsEntry(e))
  BY <1>3 DEF Fifo!Offer, kbd_enqueue
<1>6. QED BY <1>4, <1>5 DEF Fifo!Next

(* Every step of the ring is a step of the FIFO, or leaves it unchanged. *)
LEMMA StepRefines ==
  TypeOK /\ TypeOK' /\ [QueueNext]_qvars => [Fifo!Next]_Fifo!vars
<1> SUFFICES ASSUME TypeOK, TypeOK', [QueueNext]_qvars
             PROVE  [Fifo!Next]_Fifo!vars
  OBVIOUS
<1> DEFINE h == kbd_queue_head
           t == kbd_queue_tail
<1>0. /\ kbd_queue \in [Index -> QueueEntry] /\ h \in Index /\ t \in Index
      /\ Line = LineOf(kbd_queue, h, t)
  BY DEF TypeOK, Line
<1>1. ASSUME NEW r \in Report, hid_kbd_stage(r) PROVE Fifo!Next
  <2>1. AReport(r) \in QueueEntry
    BY DEF QueueEntry, ReportEntry, AReport
  <2>2. QED BY <1>1, <2>1, EnqueueOffers DEF hid_kbd_stage
<1>2. ASSUME NEW n \in 0..(WaitMod - 1), kbd_stage_wait(n) PROVE Fifo!Next
  <2>1. AWait(n) \in QueueEntry
    BY DEF QueueEntry, WaitEntry, AWait
  <2>2. QED BY <1>2, <2>1, EnqueueOffers DEF kbd_stage_wait
<1>3. CASE FlushWait
  <2> DEFINE n == Front.wait_sofs
             left == Decrement(n)
  <2>1. h # t /\ kbd_queue[h] \in WaitEntry /\ kbd_queue[h] = Front
    BY <1>0, <1>3 DEF FlushWait, Empty, Front, QueueEntry, ReportEntry, WaitEntry
  <2>2. n \in 0..(WaitMod - 1) /\ left \in 0..(WaitMod - 1)
    BY <2>1, DecrementType DEF WaitEntry
  <2>3. AWait(left) \in QueueEntry
    BY <2>2 DEF QueueEntry, WaitEntry, AWait
  <2>4. /\ Line # <<>>
        /\ Head(Line) = [silence |-> Silence(n)]
    <3>1. AbsEntry(kbd_queue[h]) = [silence |-> Silence(n)]
      BY <2>1 DEF AbsEntry, WaitEntry
    <3>2. QED BY <1>0, <2>1, <2>3, <3>1, LinePop
  <2>5. AbsEntry(AWait(left)) = [silence |-> Silence(left)]
    BY DEF AbsEntry, AWait
  <2>6. Line' = IF Head(Line).silence = 1 THEN Tail(Line)
                ELSE <<[silence |-> Head(Line).silence - 1]>> \o Tail(Line)
    <3>1. CASE left = 0
      <4>1. Silence(n) = 1
        BY <2>2, <3>1, QueueAssumption DEF Silence, Decrement
      <4>2. Line' = LineOf([kbd_queue EXCEPT ![h] = AWait(left)], NextIndex(h), t)
        BY <1>3, <3>1 DEF FlushWait, Line
      <4>3. Line' = Tail(Line)
        BY <1>0, <2>1, <2>3, <4>2, LinePop
      <4>4. QED BY <2>4, <4>1, <4>3
    <3>2. CASE left # 0
      <4>1. Silence(n) # 1 /\ Silence(n) - 1 = Silence(left)
        BY <2>2, <3>2, QueueAssumption DEF Silence, Decrement
      <4>2. Line' = LineOf([kbd_queue EXCEPT ![h] = AWait(left)], h, t)
        BY <1>3, <3>2 DEF FlushWait, Line
      <4>3. Line' = <<[silence |-> Silence(left)]>> \o Tail(Line)
        <5> HIDE DEF left, h, t
        <5>1. LineOf([kbd_queue EXCEPT ![h] = AWait(left)], h, t)
                = <<AbsEntry(AWait(left))>> \o Tail(LineOf(kbd_queue, h, t))
          BY <1>0, <2>1, <2>3, LineRewrite
        <5>2. QED BY <1>0, <2>5, <4>2, <5>1
      <4>4. QED BY <2>4, <4>1, <4>3
    <3>3. QED BY <3>1, <3>2
  <2>7. Fifo!StaySilent
    BY <1>3, <2>4, <2>6 DEF Fifo!StaySilent, FlushWait
  <2>8. QED BY <2>7 DEF Fifo!Next
<1>4. CASE FlushReport
  <2>1. h # t /\ kbd_queue[h] \in ReportEntry /\ kbd_queue[h] = Front
    BY <1>0, <1>4 DEF FlushReport, Empty, Front, QueueEntry, ReportEntry, WaitEntry
  <2>2. AbsEntry(kbd_queue[h]) = [report |-> Front.report]
    BY <2>1 DEF AbsEntry, ReportEntry
  <2>3. /\ Line # <<>>
        /\ Head(Line) = [report |-> Front.report]
        /\ LineOf(kbd_queue, NextIndex(h), t) = Tail(Line)
    BY <1>0, <2>1, <2>2, LinePop
  <2>4. Line' = Tail(Line)
    BY <1>4, <2>3 DEF FlushReport, Line
  <2>5. Fifo!Deliver
    BY <1>4, <2>3, <2>4 DEF Fifo!Deliver, FlushReport
  <2>6. QED BY <2>5 DEF Fifo!Next
<1>5. CASE FlushNothing
  BY <1>5 DEF FlushNothing, qvars, Fifo!vars, Line
<1>6. CASE WakeupReset
  <2> DEFINE one == LineOf(kbd_queue', 0, NextIndex(0))
  <2>1. 0 \in Index /\ NextIndex(0) \in Index /\ Used(0, NextIndex(0)) = 1
        /\ SlotAt(0, 1) = 0
    BY QueueAssumption DEF Index, NextIndex, Used, SlotAt
  <2>2. /\ kbd_queue' \in [Index -> QueueEntry] /\ kbd_queue'[0] = AReport(Zero)
        /\ Line' = one
    BY <1>0, <1>6, <2>1 DEF WakeupReset, Line, TypeOK
  <2>3. one \in Seq(Fifo!Entry) /\ Len(one) = 1 /\ one[1] = [report |-> Zero]
    <3>1. AbsEntry(AReport(Zero)) = [report |-> Zero]
      BY DEF AbsEntry, AReport
    <3>2. /\ one \in Seq(Fifo!Entry) /\ Len(one) = Used(0, NextIndex(0))
          /\ \A i \in 1..Used(0, NextIndex(0)) :
               one[i] = AbsEntry(kbd_queue'[SlotAt(0, i)])
      <4> HIDE DEF one
      <4>1. \A q \in [Index -> QueueEntry] :
              LET l == LineOf(q, 0, NextIndex(0)) IN
              /\ l \in Seq(Fifo!Entry) /\ Len(l) = Used(0, NextIndex(0))
              /\ \A i \in 1..Used(0, NextIndex(0)) :
                   l[i] = AbsEntry(q[SlotAt(0, i)])
        BY <2>1, LineFacts
      <4>2. QED BY <2>2, <4>1 DEF one
    <3> HIDE DEF one
    <3>3. QED BY <2>1, <2>2, <3>1, <3>2
  <2>4. one = <<[report |-> Zero]>>
    <3>1. [report |-> Zero] \in Fifo!Entry
      BY QueueAssumption DEF Fifo!Entry
    <3>2. <<[report |-> Zero]>> \in Seq(Fifo!Entry)
      BY <3>1
    <3> HIDE DEF one
    <3>3. QED BY <2>3, <3>2, SeqEqual
  <2>5. Fifo!Baseline
    BY <1>6, <2>2, <2>4 DEF Fifo!Baseline, WakeupReset
  <2>6. QED BY <2>5 DEF Fifo!Next
<1>7. CASE ConfigureReset
  <2>1. Line' = LineOf(kbd_queue', 0, 0)
    BY <1>7 DEF ConfigureReset, Line
  <2>2. Line' = <<>>
    BY <1>7, <2>1, LineEmpty DEF TypeOK, ConfigureReset
  <2>3. Fifo!Restart
    BY <1>7, <2>2 DEF Fifo!Restart, ConfigureReset
  <2>4. QED BY <2>3 DEF Fifo!Next
<1>8. CASE HostPoll
  <2>1. Fifo!Collect
    BY <1>8 DEF HostPoll, Fifo!Collect, ring, Line
  <2>2. QED BY <2>1 DEF Fifo!Next
<1>9. CASE EndpointReset
  <2>1. Fifo!BusReset
    BY <1>9 DEF EndpointReset, Fifo!BusReset, ring, Line
  <2>2. QED BY <2>1 DEF Fifo!Next
<1>10. CASE UNCHANGED qvars
  BY <1>10 DEF qvars, Fifo!vars, Line
<1>11. QED
  BY <1>1, <1>2, <1>3, <1>4, <1>5, <1>6, <1>7, <1>8, <1>9, <1>10
  DEF QueueNext, flush_kbd

(* The ring buffer of usb_hid.c implements the lossy bounded FIFO: for every
   depth, every report set and every counter width, kbd_enqueue and flush_kbd
   never reorder, repeat, invent or lose an entry, except the one offered to
   a full ring and those handle_wakeup and hid_configure discard. *)
THEOREM QueueImplementsFifo == QueueSpec => ImplementsFifo
<1>1. QueueInit => Fifo!Init
  <2> SUFFICES ASSUME QueueInit PROVE Fifo!Init
    OBVIOUS
  <2>1. /\ kbd_queue \in [Index -> QueueEntry]
        /\ kbd_queue_head \in Index /\ kbd_queue_tail \in Index
    BY QueueAssumption DEF QueueInit, Index, QueueEntry, ReportEntry, AReport
  <2>2. Line = <<>>
    BY <2>1, LineEmpty DEF QueueInit, Line
  <2>3. QED BY <2>2 DEF QueueInit, Fifo!Init
<1>2. QED
  BY <1>1, StepRefines, QueueTypeCorrect, PTL DEF QueueSpec, ImplementsFifo, Fifo!Spec

==============================================================================
