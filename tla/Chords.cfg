SPECIFICATION FairChordsSpec
CONSTANTS
  SLOTS = 2
  KBD_QUEUE_DEPTH = 8
  MAX_MACRO_STEPS = 5
  WaitMod = 2
  MaxCalls = 3
  MacroSequence <- MCMacroSequence
  Key <- MCKey
  UserKey <- MCUserKey
  UserMod <- MCUserMod
  Sample <- MCSample
  NoReport = NoReport
INVARIANTS
  ChordsTypeOK
  PressesInOrder
  NewestIsLive
PROPERTY HostSeesLive
CHECK_DEADLOCK FALSE
