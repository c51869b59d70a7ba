------------------------------ MODULE MatrixScan ------------------------------
(***************************************************************************)
(* The key matrix of matrix.c: one debounce counter for each cell, the     *)
(* committed state, and the two snapshots from which keyboard.c takes its  *)
(* press and release edges.  A scan reads every line; what it reads is     *)
(* arbitrary, since contacts bounce.                                       *)
(***************************************************************************)
EXTENDS Naturals

CONSTANTS
  Cell,             \* the cells of the matrix
  DEBOUNCE_TICKS    \* readings in a row that commit a change

ASSUME TicksAssumption == DEBOUNCE_TICKS \in Nat \ {0}

VARIABLES
  debounced_state,
  matrix_current,
  matrix_previous,
  debounce_counters,
  line,             \* ghost: what the last scan read
  steady,           \* ghost: for how many readings, up to DEBOUNCE_TICKS
  edge_level        \* ghost: the level known to one who sees edges only

matrixVars == <<debounced_state, matrix_current, matrix_previous,
                debounce_counters, line, steady, edge_level>>

MatrixTypeOK ==
  /\ debounced_state \in [Cell -> BOOLEAN]
  /\ matrix_current \in [Cell -> BOOLEAN]
  /\ matrix_previous \in [Cell -> BOOLEAN]
  /\ debounce_counters \in [Cell -> 0..(DEBOUNCE_TICKS - 1)]
  /\ line \in [Cell -> BOOLEAN]
  /\ steady \in [Cell -> 0..DEBOUNCE_TICKS]
  /\ edge_level \in [Cell -> BOOLEAN]

matrix_init ==
  /\ debounced_state = [c \in Cell |-> FALSE]
  /\ matrix_current = [c \in Cell |-> FALSE]
  /\ matrix_previous = [c \in Cell |-> FALSE]
  /\ debounce_counters = [c \in Cell |-> 0]
  /\ line = [c \in Cell |-> FALSE]
  /\ steady = [c \in Cell |-> 0]
  /\ edge_level = [c \in Cell |-> FALSE]

-----------------------------------------------------------------------------
(* Mutant: one reading more than DEBOUNCE_TICKS. *)
CommitsLate(c, pressed) ==
  /\ pressed # debounced_state[c]
  /\ debounce_counters[c] >= DEBOUNCE_TICKS

(* A reading that differs from the committed state for the last time it    *)
(* has to before it is believed.                                           *)
Commits(c, pressed) ==
  /\ pressed # debounced_state[c]
  /\ debounce_counters[c] + 1 >= DEBOUNCE_TICKS

(* Mutant: agreement does not reset the counter. *)
CounterKept(c, pressed) ==
  IF pressed = debounced_state[c]
  THEN debounce_counters[c]
  ELSE IF Commits(c, pressed) THEN 0 ELSE debounce_counters[c] + 1

NextCounter(c, pressed) ==
  IF pressed = debounced_state[c] \/ Commits(c, pressed)
  THEN 0
  ELSE debounce_counters[c] + 1

NextState(c, pressed) ==
  IF Commits(c, pressed) THEN pressed ELSE debounced_state[c]

(* Mutant: the frame is advanced after the update. *)
SnapshotAfter(before, after) == after

(* matrix_previous is copied before the scan updates matrix_current. *)
Snapshot(before, after) == before

KeyPressed(current, previous, c) == current[c] /\ ~previous[c]
KeyReleased(current, previous, c) == ~current[c] /\ previous[c]

matrix_is_pressed(c) == matrix_current[c]
matrix_is_key_pressed(c) == KeyPressed(matrix_current, matrix_previous, c)
matrix_is_key_released(c) == KeyReleased(matrix_current, matrix_previous, c)

(* The ghosts follow the readings and the edges. *)
Observe(raw) ==
  /\ line' = [c \in Cell |-> c \in raw]
  /\ steady' = [c \in Cell |->
       IF line[c] # (c \in raw) THEN 1
       ELSE IF steady[c] < DEBOUNCE_TICKS THEN steady[c] + 1
       ELSE steady[c]]
  /\ edge_level' = [c \in Cell |->
       IF KeyPressed(matrix_current', matrix_previous', c) THEN TRUE
       ELSE IF KeyReleased(matrix_current', matrix_previous', c) THEN FALSE
       ELSE edge_level[c]]

(* One scan that finds the lines of raw low. *)
matrix_scan(raw) ==
  /\ debounced_state' = [c \in Cell |-> NextState(c, c \in raw)]
  /\ debounce_counters' = [c \in Cell |-> NextCounter(c, c \in raw)]
  /\ matrix_current' = [c \in Cell |-> NextState(c, c \in raw)]
  /\ matrix_previous' = Snapshot(matrix_current, matrix_current')
  /\ Observe(raw)

MatrixNext == \E raw \in SUBSET Cell : matrix_scan(raw)

MatrixSpec == matrix_init /\ [][MatrixNext]_matrixVars

-----------------------------------------------------------------------------
(* A line that has read the same DEBOUNCE_TICKS times in a row is the      *)
(* state that keyboard.c sees, whatever bounced before: no change is       *)
(* missed or delayed.                                                      *)
SteadyIsSeen ==
  \A c \in Cell :
    steady[c] = DEBOUNCE_TICKS => matrix_is_pressed(c) = line[c]

(* A key changes only after DEBOUNCE_TICKS equal readings in a row: a      *)
(* shorter bounce, in either direction, makes no edge.                     *)
OnlySteadyChanges ==
  \A c \in Cell :
    matrix_current'[c] # matrix_current[c]
      => /\ steady'[c] = DEBOUNCE_TICKS
         /\ matrix_current'[c] = line'[c]

NoBounce == [][OnlySteadyChanges]_matrixVars

(* keyboard.c acts on edges and never on levels: whoever follows the edges *)
(* knows the level of every key, so that none is lost or told twice.       *)
EdgesTellLevel == edge_level = matrix_current
=============================================================================
