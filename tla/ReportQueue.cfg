SPECIFICATION QueueSpec
CONSTANTS
  r1 = r1
  r2 = r2
  zero = zero
  Report <- MCReport
  Zero = zero
  NoReport = NoReport
  KBD_QUEUE_DEPTH = 4
  WaitMod = 4
INVARIANT TypeOK
PROPERTY ImplementsFifo
