SPECIFICATION FairPipelineSpec
CONSTANTS
  MaxStaged = 4
  Report <- MCReport
  Zero = 0
  NoReport = NoReport
  KBD_QUEUE_DEPTH = 4
  WaitMod = 2
INVARIANTS
  PipelineTypeOK
  BaselineInFront
PROPERTIES
  InOrderNoGaps
  KeysReachHost
  UsageReachesHost
