-------------------------- MODULE InputScan_proofs --------------------------
(***************************************************************************)
(* The inputs of a tick.  The debounce of matrix.c, for any set of cells   *)
(* and any number of ticks: the inductive invariant says what a counter    *)
(* counts, the readings in a row that disagree with the committed state.   *)
(* The decoder of encoder.c, for every lockout: no quarter of a gentle     *)
(* turn is lost or invented, and no step goes the wrong way at up to two   *)
(* quarters in a tick.  Neither disturbs the other.                        *)
(***************************************************************************)
EXTENDS InputScan, TLAPS

(* What a cell's counter and snapshots mean, besides their types. *)
CounterCounts ==
  /\ matrix_current = debounced_state
  /\ \A c \in Cell :
       /\ debounce_counters[c] =
            (IF line[c] = debounced_state[c] THEN 0 ELSE steady[c])
       /\ steady[c] = DEBOUNCE_TICKS => line[c] = debounced_state[c]

MatrixInv ==
  /\ MatrixTypeOK
  /\ CounterCounts
  /\ EdgesTellLevel

(* matrix_init() establishes the invariant. *)
LEMMA MatrixInvInit == matrix_init => MatrixInv
  BY TicksAssumption, SMT
  DEF matrix_init, MatrixInv, MatrixTypeOK, CounterCounts, EdgesTellLevel

(* One cell in one scan. *)
LEMMA ScanCell ==
  ASSUME MatrixInv, NEW raw \in SUBSET Cell, matrix_scan(raw), NEW c \in Cell
  PROVE  /\ debounced_state'[c] \in BOOLEAN
         /\ debounce_counters'[c] \in 0..(DEBOUNCE_TICKS - 1)
         /\ steady'[c] \in 0..DEBOUNCE_TICKS
         /\ debounce_counters'[c] =
              (IF line'[c] = debounced_state'[c] THEN 0 ELSE steady'[c])
         /\ steady'[c] = DEBOUNCE_TICKS => line'[c] = debounced_state'[c]
         /\ debounced_state'[c] # debounced_state[c]
              => steady'[c] = DEBOUNCE_TICKS
  <1> DEFINE pressed == c \in raw
  <1>1. /\ line[c] \in BOOLEAN
        /\ debounced_state[c] \in BOOLEAN
        /\ debounce_counters[c] \in 0..(DEBOUNCE_TICKS - 1)
        /\ steady[c] \in 0..DEBOUNCE_TICKS
        /\ debounce_counters[c] =
             (IF line[c] = debounced_state[c] THEN 0 ELSE steady[c])
        /\ steady[c] = DEBOUNCE_TICKS => line[c] = debounced_state[c]
    BY DEF MatrixInv, MatrixTypeOK, CounterCounts
  <1>2. /\ line'[c] = pressed
        /\ steady'[c] = IF line[c] # pressed THEN 1
                        ELSE IF steady[c] < DEBOUNCE_TICKS THEN steady[c] + 1
                        ELSE steady[c]
        /\ debounced_state'[c] = NextState(c, pressed)
        /\ debounce_counters'[c] = NextCounter(c, pressed)
    BY DEF matrix_scan, Observe
  <1>3. pressed \in BOOLEAN
    OBVIOUS
  <1> HIDE DEF pressed
  <1>4. CASE pressed = debounced_state[c]
    BY <1>1, <1>2, <1>3, <1>4, TicksAssumption, SMT
    DEF NextState, NextCounter, Commits
  <1>5. CASE pressed # debounced_state[c]
    BY <1>1, <1>2, <1>3, <1>5, TicksAssumption, SMT
    DEF NextState, NextCounter, Commits
  <1> QED BY <1>4, <1>5

(* Two snapshots of a cell between which there is no edge are equal. *)
LEMMA NoEdge ==
  ASSUME NEW a \in BOOLEAN, NEW b \in BOOLEAN, ~(a /\ ~b), ~(~a /\ b)
  PROVE  a = b
  OBVIOUS

(* A scan preserves the invariant, and changes a key only when its line is *)
(* steady.                                                                 *)
LEMMA ScanStep ==
  ASSUME MatrixInv, NEW raw \in SUBSET Cell, matrix_scan(raw)
  PROVE  MatrixInv' /\ OnlySteadyChanges
  <1>1. matrix_current' = debounced_state' /\ matrix_current = debounced_state
    BY DEF matrix_scan, MatrixInv, CounterCounts
  <1>2. matrix_previous' = matrix_current
    BY DEF matrix_scan, Snapshot
  <1>3. MatrixTypeOK'
    <2>1. /\ debounced_state' = [c \in Cell |-> debounced_state'[c]]
          /\ debounce_counters' = [c \in Cell |-> debounce_counters'[c]]
          /\ steady' = [c \in Cell |-> steady'[c]]
      BY DEF matrix_scan, Observe
    <2>2. /\ debounced_state' \in [Cell -> BOOLEAN]
          /\ debounce_counters' \in [Cell -> 0..(DEBOUNCE_TICKS - 1)]
          /\ steady' \in [Cell -> 0..DEBOUNCE_TICKS]
      BY <2>1, ScanCell
    <2>3. line' \in [Cell -> BOOLEAN]
      BY DEF matrix_scan, Observe
    <2>4. edge_level' \in [Cell -> BOOLEAN]
      BY DEF matrix_scan, Observe, MatrixInv, MatrixTypeOK
    <2> QED
      BY <1>1, <1>2, <2>2, <2>3, <2>4 DEF MatrixTypeOK, MatrixInv
  <1>4. CounterCounts'
    BY <1>1, ScanCell DEF CounterCounts
  <1>5. EdgesTellLevel'
    <2>1. edge_level' \in [Cell -> BOOLEAN] /\ matrix_current' \in [Cell -> BOOLEAN]
      BY <1>3 DEF MatrixTypeOK
    <2>2. ASSUME NEW c \in Cell PROVE edge_level'[c] = matrix_current'[c]
      <3>1. edge_level[c] = matrix_previous'[c]
        BY <1>2 DEF MatrixInv, EdgesTellLevel
      <3>2. edge_level'[c] =
              IF KeyPressed(matrix_current', matrix_previous', c) THEN TRUE
              ELSE IF KeyReleased(matrix_current', matrix_previous', c) THEN FALSE
              ELSE edge_level[c]
        BY DEF matrix_scan, Observe
      <3>3. matrix_current'[c] \in BOOLEAN /\ matrix_previous'[c] \in BOOLEAN
        BY <1>3 DEF MatrixTypeOK
      <3>4. CASE KeyPressed(matrix_current', matrix_previous', c)
        <4>1. edge_level'[c] = TRUE BY <3>2, <3>4, Zenon
        <4>2. matrix_current'[c] = TRUE BY <3>3, <3>4, Zenon DEF KeyPressed
        <4> QED BY <4>1, <4>2, Zenon
      <3>5. CASE KeyReleased(matrix_current', matrix_previous', c)
        <4>1. ~KeyPressed(matrix_current', matrix_previous', c)
          BY <3>5, Zenon DEF KeyPressed, KeyReleased
        <4>2. edge_level'[c] = FALSE BY <3>2, <3>5, <4>1, Zenon
        <4>3. matrix_current'[c] = FALSE
          BY <3>3, <3>5, Zenon DEF KeyReleased
        <4> QED BY <4>2, <4>3, Zenon
      <3>6. CASE /\ ~KeyPressed(matrix_current', matrix_previous', c)
                 /\ ~KeyReleased(matrix_current', matrix_previous', c)
        <4>1. edge_level'[c] = edge_level[c] BY <3>2, <3>6, Zenon
        <4>2. matrix_current'[c] = matrix_previous'[c]
          BY <3>3, <3>6, NoEdge DEF KeyPressed, KeyReleased
        <4> QED BY <3>1, <4>1, <4>2, Zenon
      <3> QED BY <3>4, <3>5, <3>6, Zenon
    <2> QED BY <2>1, <2>2 DEF EdgesTellLevel
  <1>6. OnlySteadyChanges
    <2>1. ASSUME NEW c \in Cell, matrix_current'[c] # matrix_current[c]
          PROVE  steady'[c] = DEBOUNCE_TICKS /\ matrix_current'[c] = line'[c]
      BY <1>1, <2>1, ScanCell
    <2> QED BY <2>1 DEF OnlySteadyChanges
  <1> QED BY <1>3, <1>4, <1>5, <1>6 DEF MatrixInv

LEMMA MatrixStep ==
  MatrixInv /\ [MatrixNext]_matrixVars
    => MatrixInv' /\ (OnlySteadyChanges \/ UNCHANGED matrixVars)
  <1> SUFFICES ASSUME MatrixInv, [MatrixNext]_matrixVars
               PROVE  MatrixInv' /\ (OnlySteadyChanges \/ UNCHANGED matrixVars)
    OBVIOUS
  <1>1. CASE MatrixNext
    BY <1>1, ScanStep DEF MatrixNext
  <1>2. CASE UNCHANGED matrixVars
    BY <1>2 DEF matrixVars, MatrixInv, MatrixTypeOK, CounterCounts, EdgesTellLevel
  <1> QED BY <1>1, <1>2

(* The invariant, for any matrix. *)
THEOREM MatrixInvariant == MatrixSpec => []MatrixInv
  BY MatrixInvInit, MatrixStep, PTL DEF MatrixSpec

(* Types, and among them that no counter passes DEBOUNCE_TICKS - 1. *)
THEOREM MatrixTypeCorrect == MatrixSpec => []MatrixTypeOK
  <1>1. MatrixInv => MatrixTypeOK BY DEF MatrixInv
  <1> QED BY <1>1, MatrixInvariant, PTL

(* No stable change is missed, whatever bounced before it. *)
THEOREM StableChangeIsSeen == MatrixSpec => []SteadyIsSeen
  <1>1. MatrixInv => SteadyIsSeen
    BY DEF MatrixInv, CounterCounts, SteadyIsSeen, matrix_is_pressed
  <1> QED BY <1>1, MatrixInvariant, PTL

(* Following the edges, one knows the level of every key. *)
THEOREM EdgesAreComplete == MatrixSpec => []EdgesTellLevel
  <1>1. MatrixInv => EdgesTellLevel BY DEF MatrixInv
  <1> QED BY <1>1, MatrixInvariant, PTL

(* No bounce makes an edge. *)
THEOREM BounceMakesNoEdge == MatrixSpec => NoBounce
  <1>1. MatrixInv /\ [MatrixNext]_matrixVars => [OnlySteadyChanges]_matrixVars
    BY MatrixStep
  <1> QED BY <1>1, MatrixInvariant, PTL DEF MatrixSpec, NoBounce

------------------------------------------------------------------------------
(* What the decoder believes lags behind the knob. *)
Lags == s_prev_ab # Terminals(knob)

(* A knob turned gently is at most a quarter ahead of the last reading
   believed.  *)
GentleInv ==
  pace = "gentle" =>
    /\ owed = s_accumulator + Delta(s_prev_ab, Terminals(knob))
    /\ Lags => Delta(s_prev_ab, Terminals(knob)) # 0

(* A knob that is spun gets ahead by more than a quarter only in a lockout or
   over an illegal transition, and both leave the accumulator empty: one
   aliased reading is in it at most. *)
SpunInv ==
  /\ pace = "cw"  => s_accumulator >= -1 /\ step # CCW
  /\ pace = "ccw" => s_accumulator <= 1 /\ step # CW
  /\ pace # "gentle" => (Lags \/ s_lockout_timer > 0 => s_accumulator = 0)

EncoderInv == EncoderTypeOK /\ GentleInv /\ SpunInv

------------------------------------------------------------------------------
(* The table decodes a quarter either way, and nothing further. *)
LEMMA TurnIsDecoded ==
  ASSUME NEW q \in 0..3
  PROVE  /\ Terminals(q) \in 0..3
         /\ Delta(Terminals(q), Terminals(q)) = 0
         /\ Delta(Terminals(q), Terminals((q + 1) % 4)) = 1
         /\ Delta(Terminals(q), Terminals((q + 2) % 4)) = 0
         /\ Delta(Terminals(q), Terminals((q + 3) % 4)) = -1
<1>1. CASE q = 0
  BY <1>1 DEF Terminals, Delta, enc_lut
<1>2. CASE q = 1
  BY <1>2 DEF Terminals, Delta, enc_lut
<1>3. CASE q = 2
  BY <1>3 DEF Terminals, Delta, enc_lut
<1>4. CASE q = 3
  BY <1>4 DEF Terminals, Delta, enc_lut
<1>5. QED
  BY <1>1, <1>2, <1>3, <1>4

(* Each reading of the terminals is that of one quarter. *)
LEMMA ReadingIsAQuarter ==
  /\ \A ab \in 0..3 : \E q \in 0..3 : ab = Terminals(q)
  /\ \A q, r \in 0..3 : Terminals(q) = Terminals(r) => q = r
  BY DEF Terminals

(* A quarter, any number of them further on, is one of four. *)
LEMMA QuarterAhead ==
  ASSUME NEW q \in 0..3, NEW r \in 0..3
  PROVE  \E n \in 0..3 : r = (q + n) % 4
<1>1. CASE r >= q
  <2>1. r - q \in 0..3 /\ r = (q + (r - q)) % 4
    BY <1>1
  <2>2. QED
    BY <2>1
<1>2. CASE r < q
  <2>1. r - q + 4 \in 0..3 /\ r = (q + (r - q + 4)) % 4
    BY <1>2
  <2>2. QED
    BY <2>1
<1>3. QED
  BY <1>1, <1>2

(* What the decoder makes of any two readings. *)
LEMMA DeltaType ==
  ASSUME NEW a \in 0..3, NEW b \in 0..3
  PROVE  Delta(a, b) \in {-1, 0, 1}
<1>1. PICK q \in 0..3 : a = Terminals(q)
  BY ReadingIsAQuarter
<1>2. PICK r \in 0..3 : b = Terminals(r)
  BY ReadingIsAQuarter
<1>3. PICK n \in 0..3 : r = (q + n) % 4
  BY QuarterAhead
<1>4. CASE n = 0
  BY <1>1, <1>2, <1>3, <1>4, TurnIsDecoded
<1>5. CASE n = 1
  BY <1>1, <1>2, <1>3, <1>5, TurnIsDecoded
<1>6. CASE n = 2
  BY <1>1, <1>2, <1>3, <1>6, TurnIsDecoded
<1>7. CASE n = 3
  BY <1>1, <1>2, <1>3, <1>7, TurnIsDecoded
<1>8. QED
  BY <1>4, <1>5, <1>6, <1>7

------------------------------------------------------------------------------
(* A knob that the decoder is up with, moved by less than a turn. *)
LEMMA MoveIsRead ==
  ASSUME NEW q \in 0..3, NEW move \in -2..2
  PROVE  /\ (q + move) % 4 \in 0..3
         /\ move \in -1..1 =>
              /\ Delta(Terminals(q), Terminals((q + move) % 4)) = move
              /\ move = 0 => (q + move) % 4 = q
         /\ move \in {-2, 2} => Delta(Terminals(q), Terminals((q + move) % 4)) = 0
<1>1. CASE move = 0
  <2>1. (q + move) % 4 = q
    BY <1>1
  <2>2. QED
    BY <1>1, <2>1, TurnIsDecoded
<1>2. CASE move = 1
  BY <1>2, TurnIsDecoded
<1>3. CASE move = 2
  BY <1>3, TurnIsDecoded
<1>4. CASE move = -1
  <2>1. (q + move) % 4 = (q + 3) % 4
    BY <1>4
  <2>2. QED
    BY <1>4, <2>1, TurnIsDecoded
<1>5. CASE move = -2
  <2>1. (q + move) % 4 = (q + 2) % 4
    BY <1>5
  <2>2. QED
    BY <1>5, <2>1, TurnIsDecoded
<1>6. QED
  BY <1>1, <1>2, <1>3, <1>4, <1>5

(* What a tick shows the decoder: of a gentle turn exactly the quarters that
   were turned; of a spun one, unless it lags, none that goes back. *)
LEMMA ReadingOfMove ==
  ASSUME EncoderTypeOK, GentleInv, NEW move \in Moves, knob' = (knob + move) % 4
  PROVE  /\ knob' \in 0..3 /\ move \in -2..2
         /\ Terminals(knob) \in 0..3 /\ Terminals(knob') \in 0..3
         /\ Delta(s_prev_ab, Terminals(knob')) \in {-1, 0, 1}
         /\ pace = "gentle" =>
              /\ Delta(s_prev_ab, Terminals(knob'))
                   = Delta(s_prev_ab, Terminals(knob)) + move
              /\ Delta(s_prev_ab, Terminals(knob')) = 0 => Terminals(knob') = s_prev_ab
         /\ pace = "cw" /\ ~Lags => Delta(s_prev_ab, Terminals(knob')) >= 0
         /\ pace = "ccw" /\ ~Lags => Delta(s_prev_ab, Terminals(knob')) <= 0
<1>1. move \in -2..2 /\ (pace = "cw" => move \in 0..2) /\ (pace = "ccw" => move \in -2..0)
  BY DEF Moves, EncoderTypeOK
<1>2. knob \in 0..3 /\ knob' \in 0..3
  BY <1>1, MoveIsRead DEF EncoderTypeOK
<1>3. Terminals(knob) \in 0..3 /\ Terminals(knob') \in 0..3
  BY <1>2, TurnIsDecoded
<1>4. Delta(s_prev_ab, Terminals(knob')) \in {-1, 0, 1}
  BY <1>3, DeltaType DEF EncoderTypeOK
<1>5. CASE Lags
  <2>1. pace = "gentle" => move = 0
    BY <1>5, <1>1 DEF Moves, Lags, EncoderTypeOK
  <2>2. pace = "gentle" => knob' = knob
    BY <2>1, <1>2
  <2>3. pace = "gentle" => Delta(s_prev_ab, Terminals(knob)) # 0
    BY <1>5 DEF GentleInv
  <2>4. QED
    BY <1>1, <1>2, <1>3, <1>4, <1>5, <2>1, <2>2, <2>3
<1>6. CASE ~Lags
  <2>1. s_prev_ab = Terminals(knob)
    BY <1>6 DEF Lags
  <2>2. pace = "gentle" => move \in -1..1
    BY <2>1, <1>1 DEF Moves, EncoderTypeOK
  <2>3. Delta(s_prev_ab, Terminals(knob)) = 0
    BY <2>1, <1>2, TurnIsDecoded
  <2>4. /\ move \in -1..1 => /\ Delta(s_prev_ab, Terminals(knob')) = move
                             /\ move = 0 => knob' = knob
        /\ move \in {-2, 2} => Delta(s_prev_ab, Terminals(knob')) = 0
    BY <2>1, <1>1, <1>2, MoveIsRead
  <2>5. pace = "gentle" => /\ Delta(s_prev_ab, Terminals(knob')) = move
                           /\ move = 0 => knob' = knob
    BY <2>2, <2>4
  <2>6. /\ pace = "cw"  => Delta(s_prev_ab, Terminals(knob')) >= 0
        /\ pace = "ccw" => Delta(s_prev_ab, Terminals(knob')) <= 0
    BY <1>1, <2>4
  <2>7. QED
    BY <1>1, <1>2, <1>3, <1>4, <2>1, <2>3, <2>5, <2>6
<1>7. QED
  BY <1>5, <1>6

LEMMA InvInit == encoder_init => EncoderInv
<1> SUFFICES ASSUME encoder_init PROVE EncoderInv
  OBVIOUS
<1>1. knob \in 0..3 /\ s_prev_ab = Terminals(knob)
  BY DEF encoder_init
<1>2. Terminals(knob) \in 0..3 /\ Delta(s_prev_ab, Terminals(knob)) = 0
  BY <1>1, TurnIsDecoded
<1>3. QED
  BY <1>1, <1>2, LockoutAssumption
     DEF encoder_init, EncoderInv, EncoderTypeOK, GentleInv, SpunInv, Lags, CW, CCW

LEMMA InvNext == EncoderInv /\ [EncoderTick]_encoderVars => EncoderInv'
<1> SUFFICES ASSUME EncoderInv, [EncoderTick]_encoderVars PROVE EncoderInv'
  OBVIOUS
<1>1. CASE UNCHANGED encoderVars
  <2>1. (Lags <=> Lags') /\ Terminals(knob') = Terminals(knob)
    BY <1>1 DEF encoderVars, Lags
  <2>2. QED
    BY <1>1, <2>1 DEF encoderVars, EncoderInv, EncoderTypeOK, GentleInv, SpunInv
<1>2. CASE EncoderTick
  <2>1. PICK move \in Moves :
          /\ knob' = (knob + move) % 4
          /\ encoder_scan(Terminals(knob'))
          /\ owed' = IF pace = "gentle" THEN owed + move - 4 * step' ELSE owed
          /\ UNCHANGED pace
    BY <1>2 DEF EncoderTick
  <2> DEFINE curr == Terminals(knob')
             delta == Delta(s_prev_ab, curr)
             before == Delta(s_prev_ab, Terminals(knob))
             ticked == IF s_lockout_timer > 0 THEN s_lockout_timer - 1 ELSE 0
  <2>2. /\ knob' \in 0..3 /\ move \in -2..2
        /\ curr \in 0..3 /\ delta \in {-1, 0, 1}
        /\ pace = "gentle" => delta = before + move /\ (delta = 0 => curr = s_prev_ab)
        /\ pace = "cw" /\ ~Lags => delta >= 0
        /\ pace = "ccw" /\ ~Lags => delta <= 0
    BY <2>1, ReadingOfMove DEF EncoderInv
  <2>3. before \in {-1, 0, 1}
    <3>1. Terminals(knob) \in 0..3
      BY TurnIsDecoded DEF EncoderInv, EncoderTypeOK
    <3>2. QED
      BY <3>1, DeltaType DEF EncoderInv, EncoderTypeOK
  <2>4. pace = "gentle" => owed = s_accumulator + before
    BY DEF EncoderInv, GentleInv
  <2>5. Lags' <=> s_prev_ab' # curr
    BY DEF Lags
  <2>6. Delta(s_prev_ab, s_prev_ab) = 0
    <3>1. PICK q \in 0..3 : s_prev_ab = Terminals(q)
      BY ReadingIsAQuarter DEF EncoderInv, EncoderTypeOK
    <3>2. QED
      BY <3>1, TurnIsDecoded
  <2>7. ticked \in 0..LOCKOUT_MS /\ (ticked > 0 => s_lockout_timer > 0)
    BY LockoutAssumption DEF EncoderInv, EncoderTypeOK
  <2>8. CASE ticked > 0
    <3>1. /\ s_lockout_timer' = ticked /\ step' = 0
          /\ s_prev_ab' = s_prev_ab /\ s_accumulator' = s_accumulator
      BY <2>1, <2>8 DEF encoder_scan
    <3>2. EncoderTypeOK'
      <4>1. pace = "gentle" => owed' = s_accumulator + delta
        BY <2>1, <2>2, <2>3, <2>4, <3>1 DEF EncoderInv, EncoderTypeOK
      <4>2. QED
        BY <2>1, <2>2, <2>7, <3>1, <4>1 DEF EncoderInv, EncoderTypeOK
    <3>3. GentleInv'
      BY <2>1, <2>2, <2>3, <2>4, <2>5, <3>1 DEF EncoderInv, EncoderTypeOK, GentleInv
    <3>4. SpunInv'
      BY <2>1, <2>7, <2>8, <3>1 DEF EncoderInv, SpunInv, CW, CCW
    <3>5. QED
      BY <3>2, <3>3, <3>4 DEF EncoderInv
  <2>9. CASE ticked <= 0
    <3>1. /\ NoTransition(curr) \/ IllegalTransition(curr) \/ ValidTransition(curr)
          /\ s_lockout_timer' = IF step' = 0 THEN 0 ELSE LOCKOUT_MS
      BY <2>1, <2>7, <2>9 DEF encoder_scan
    <3>2. CASE NoTransition(curr)
      <4>1. /\ curr = s_prev_ab /\ step' = 0 /\ s_lockout_timer' = 0 /\ delta = 0
            /\ s_prev_ab' = s_prev_ab /\ s_accumulator' = s_accumulator
        BY <2>6, <3>1, <3>2 DEF NoTransition
      <4>2. EncoderTypeOK'
        BY <2>1, <2>2, <2>3, <2>4, <4>1, LockoutAssumption DEF EncoderInv, EncoderTypeOK
      <4>3. GentleInv'
        BY <2>1, <2>2, <2>3, <2>4, <2>5, <4>1 DEF EncoderInv, EncoderTypeOK, GentleInv
      <4>4. SpunInv'
        BY <2>1, <2>5, <4>1 DEF EncoderInv, SpunInv, CW, CCW
      <4>5. QED
        BY <4>2, <4>3, <4>4 DEF EncoderInv
    <3>3. CASE IllegalTransition(curr)
      <4>1. /\ curr # s_prev_ab /\ delta = 0 /\ s_accumulator' = 0 /\ step' = 0
            /\ s_prev_ab' = s_prev_ab /\ s_lockout_timer' = 0
        BY <3>1, <3>3 DEF IllegalTransition
      <4>2. pace # "gentle"
        BY <2>2, <4>1
      <4>3. EncoderTypeOK'
        BY <2>1, <2>2, <4>1, <4>2, LockoutAssumption DEF EncoderInv, EncoderTypeOK
      <4>4. QED
        BY <2>1, <4>1, <4>2, <4>3 DEF EncoderInv, GentleInv, SpunInv, CW, CCW
    <3>4. CASE ValidTransition(curr)
      <4> DEFINE sum == s_accumulator + delta
      <4>1. /\ delta # 0 /\ s_prev_ab' = curr
            /\ step' = IF sum >= 4 THEN CW ELSE IF sum <= -4 THEN CCW ELSE 0
            /\ s_accumulator' = IF step' = 0 THEN sum ELSE 0
        BY <3>4 DEF ValidTransition
      <4>2. sum \in -4..4 /\ step' \in {CW, CCW, 0} /\ s_accumulator' \in -3..3
        BY <2>2, <4>1 DEF EncoderInv, EncoderTypeOK, CW, CCW
      <4>3. sum = s_accumulator' + 4 * step'
        BY <4>1, <4>2 DEF CW, CCW
      <4>4. Delta(s_prev_ab', curr) = 0 /\ ~Lags'
        <5>1. Delta(Terminals(knob'), Terminals(knob')) = 0
          BY <2>2, TurnIsDecoded
        <5>2. s_prev_ab' = Terminals(knob')
          BY <4>1
        <5>3. QED
          BY <2>5, <5>1, <5>2
      <4>5. pace = "gentle" => owed' = s_accumulator'
        <5>1. /\ step' \in Int /\ s_accumulator' \in Int /\ s_accumulator \in Int
              /\ before \in Int /\ delta \in Int /\ move \in Int
          BY <2>2, <2>3, <4>2 DEF EncoderInv, EncoderTypeOK, CW, CCW
        <5>2. pace = "gentle" => owed' = s_accumulator + before + move - 4 * step'
          BY <2>1, <2>4
        <5>3. pace = "gentle" => sum = s_accumulator + before + move
          BY <2>2, <5>1
        <5>4. QED
          BY <4>3, <5>1, <5>2, <5>3
      <4>6. EncoderTypeOK'
        BY <2>1, <2>2, <3>1, <4>1, <4>2, <4>5, LockoutAssumption
           DEF EncoderInv, EncoderTypeOK, CW, CCW
      <4>7. GentleInv'
        BY <2>1, <4>2, <4>4, <4>5 DEF GentleInv
      <4>8. /\ pace = "cw"  => sum >= -1
            /\ pace = "ccw" => sum <= 1
        BY <2>2 DEF EncoderInv, EncoderTypeOK, SpunInv
      <4>9. SpunInv'
        BY <2>1, <3>1, <4>1, <4>2, <4>4, <4>8 DEF SpunInv, EncoderInv, EncoderTypeOK, CW, CCW
      <4>10. QED
        BY <4>6, <4>7, <4>9 DEF EncoderInv
    <3>5. QED
      BY <3>1, <3>2, <3>3, <3>4
  <2>10. QED
    BY <2>7, <2>8, <2>9
<1>3. QED
  BY <1>1, <1>2

LEMMA InvHolds == EncoderSpec => []EncoderInv
  BY InvInit, InvNext, PTL DEF EncoderSpec

(* Type correctness of the decoder, the accumulator within one detent
   included. *)
THEOREM EncoderTypeCorrect == EncoderSpec => []EncoderTypeOK
<1>1. EncoderInv => EncoderTypeOK
  BY DEF EncoderInv
<1>2. QED
  BY <1>1, InvHolds, PTL

(* A gentle turn, back and forth, is passed on quarter by quarter whatever the
   lockout is (encoder.c:76-103). *)
THEOREM TurnsAreCounted == EncoderSpec => []StepsMatchTurns
<1>1. EncoderInv => StepsMatchTurns
  BY DEF EncoderInv, GentleInv, StepsMatchTurns
<1>2. QED
  BY <1>1, InvHolds, PTL

(* No lockout, and no speed of up to two quarters in a tick, makes the decoder
   pass on a step in the other direction (encoder.c:37-42, 76-103). *)
THEOREM NeverTheWrongWay == EncoderSpec => []NoWrongWay
<1>1. EncoderInv => NoWrongWay
  BY DEF EncoderInv, SpunInv, NoWrongWay
<1>2. QED
  BY <1>1, InvHolds, PTL

------------------------------------------------------------------------------
(* A tick is a scan of the matrix and one of the encoder, and what is proved
   of either holds of both (keyboard.c, keyboard_task). *)
LEMMA TickScansMatrix == InputSpec => MatrixSpec
<1>1. InputInit => matrix_init
  BY DEF InputInit
<1>2. [InputTick]_inputVars => [MatrixNext]_matrixVars
  BY DEF InputTick, inputVars
<1>3. QED
  BY <1>1, <1>2, PTL DEF InputSpec, MatrixSpec

LEMMA TickScansEncoder == InputSpec => EncoderSpec
<1>1. InputInit => encoder_init
  BY DEF InputInit
<1>2. [InputTick]_inputVars => [EncoderTick]_encoderVars
  BY DEF InputTick, inputVars
<1>3. QED
  BY <1>1, <1>2, PTL DEF InputSpec, EncoderSpec

(* Types of both scanners. *)
THEOREM InputTypeCorrect == InputSpec => []InputTypeOK
<1>1. MatrixTypeOK /\ EncoderTypeOK => InputTypeOK
  BY DEF InputTypeOK
<1>2. QED
  BY <1>1, TickScansMatrix, TickScansEncoder, MatrixTypeCorrect, EncoderTypeCorrect, PTL

(* The keys of a tick, while the encoder turns: a steady change is seen, a
   bounce makes no edge, and the edges tell the level. *)
THEOREM KeysAreScanned ==
  InputSpec => []SteadyIsSeen /\ []EdgesTellLevel /\ NoBounce
  BY TickScansMatrix, StableChangeIsSeen, EdgesAreComplete, BounceMakesNoEdge, PTL

(* The turns of a tick, while keys bounce: none is lost, invented or reversed. *)
THEOREM TurnsAreScanned == InputSpec => []StepsMatchTurns /\ []NoWrongWay
  BY TickScansEncoder, TurnsAreCounted, NeverTheWrongWay, PTL
==============================================================================
