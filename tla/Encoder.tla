------------------------------- MODULE Encoder -------------------------------
(***************************************************************************)
(* The quadrature decoder of encoder.c and the knob it reads.  The knob    *)
(* moves by quarters of a detent; its two terminals follow a Gray code.    *)
(* A knob turned gently moves by at most a quarter between two readings,   *)
(* back and forth as it likes; one that is spun moves in one direction, by *)
(* up to two quarters in a tick, more than the decoder can follow.         *)
(***************************************************************************)
EXTENDS Integers, Sequences

CONSTANT LOCKOUT_MS     \* ticks of lockout after a step

ASSUME LockoutAssumption == LOCKOUT_MS \in Nat

CW == 1
CCW == -1

VARIABLES
  s_prev_ab,          \* last reading believed
  s_accumulator,
  s_lockout_timer,
  knob,               \* the knob's quarter, modulo 4
  pace,               \* how it is turned: "gentle", "cw" or "ccw"
  step,               \* ghost: what the last scan passed on, 0 for nothing
  owed                \* ghost: quarters turned gently, less 4 for each step

encoderVars == <<s_prev_ab, s_accumulator, s_lockout_timer, knob, pace, step,
                 owed>>

EncoderTypeOK ==
  /\ s_prev_ab \in 0..3
  /\ s_accumulator \in -3..3
  /\ s_lockout_timer \in 0..LOCKOUT_MS
  /\ knob \in 0..3
  /\ pace \in {"gentle", "cw", "ccw"}
  /\ step \in {CW, CCW, 0}
  /\ owed \in -4..4

(* Terminals A and B, A the high bit, at each quarter of the way clockwise. *)
Terminals(q) == <<0, 2, 3, 1>>[q + 1]

encoder_init ==
  /\ knob \in 0..3
  /\ pace \in {"gentle", "cw", "ccw"}
  /\ s_prev_ab = Terminals(knob)
  /\ s_accumulator = 0
  /\ s_lockout_timer = 0
  /\ step = 0
  /\ owed = 0

-----------------------------------------------------------------------------
(* Mutant: two entries swapped. *)
enc_lut_flipped ==
  << 0, -1,  1,  0,
     1,  0,  0, -1,
    -1,  0,  0,  1,
     0, -1,  1,  0>>

(* Entry 4 * prev + curr: +1 clockwise, -1 counter-clockwise. *)
enc_lut ==
  << 0, -1,  1,  0,
     1,  0,  0, -1,
    -1,  0,  0,  1,
     0,  1, -1,  0>>

Delta(prev, curr) == enc_lut[4 * prev + curr + 1]

(* Mutant: an illegal transition keeps the accumulator. *)
KeepsCount(curr) ==
  /\ curr # s_prev_ab
  /\ Delta(s_prev_ab, curr) = 0
  /\ step' = 0
  /\ UNCHANGED <<s_prev_ab, s_accumulator>>

(* The outcomes of a reading that the lockout lets through. *)
IllegalTransition(curr) ==
  /\ curr # s_prev_ab
  /\ Delta(s_prev_ab, curr) = 0
  /\ s_accumulator' = 0
  /\ step' = 0
  /\ UNCHANGED s_prev_ab

NoTransition(curr) ==
  /\ curr = s_prev_ab
  /\ step' = 0
  /\ UNCHANGED <<s_prev_ab, s_accumulator>>

ValidTransition(curr) ==
  LET sum == s_accumulator + Delta(s_prev_ab, curr)
  IN /\ Delta(s_prev_ab, curr) # 0
     /\ s_prev_ab' = curr
     /\ step' = IF sum >= 4 THEN CW ELSE IF sum <= -4 THEN CCW ELSE 0
     /\ s_accumulator' = IF step' = 0 THEN sum ELSE 0

(* A scan with the terminals at curr.  The timer is counted down first, so *)
(* that a lockout of n ticks skips n - 1 readings.                         *)
encoder_scan(curr) ==
  LET ticked == IF s_lockout_timer > 0 THEN s_lockout_timer - 1 ELSE 0
  IN IF ticked > 0
     THEN /\ s_lockout_timer' = ticked
          /\ step' = 0
          /\ UNCHANGED <<s_prev_ab, s_accumulator>>
     ELSE /\ \/ NoTransition(curr)
             \/ IllegalTransition(curr)
             \/ ValidTransition(curr)
          /\ s_lockout_timer' = IF step' = 0 THEN 0 ELSE LOCKOUT_MS

(* What the knob does between two scans. *)
Moves ==
  CASE pace = "cw"  -> 0..2
    [] pace = "ccw" -> -2..0
    [] OTHER -> IF Terminals(knob) = s_prev_ab THEN -1..1 ELSE {0}

EncoderTick ==
  \E move \in Moves :
    /\ knob' = (knob + move) % 4
    /\ encoder_scan(Terminals(knob'))
    /\ owed' = IF pace = "gentle" THEN owed + move - 4 * step' ELSE owed
    /\ UNCHANGED pace

EncoderSpec == encoder_init /\ [][EncoderTick]_encoderVars

-----------------------------------------------------------------------------
(* As long as the decoder can follow, no quarter is lost or invented: what *)
(* was turned and not yet passed on as steps is in the accumulator, or is  *)
(* the quarter that the lockout has kept from being read.                  *)
StepsMatchTurns ==
  pace = "gentle"
    => owed = s_accumulator + Delta(s_prev_ab, Terminals(knob))

(* At up to two quarters in a tick, where readings are aliased, a step in  *)
(* the other direction is never passed on: they cannot add up to one.      *)
NoWrongWay ==
  /\ pace = "cw" => step # CCW
  /\ pace = "ccw" => step # CW
=============================================================================
