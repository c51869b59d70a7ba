SPECIFICATION InputSpec
CONSTANTS
  Cell = {c1, c2}
  DEBOUNCE_TICKS = 4
  LOCKOUT_MS = 2
SYMMETRY Cells
INVARIANTS
  InputTypeOK
  SteadyIsSeen
  EdgesTellLevel
  StepsMatchTurns
  NoWrongWay
PROPERTY
  NoBounce
