SPECIFICATION FairUsbSpec
CONSTANTS
  Address <- MCAddress
  NoAddr = NoAddr
  Unsure = Unsure
  NoSetup = NoSetup
INVARIANTS
  UsbTypeOK
  StateAgrees
  HostAgrees
PROPERTIES
  PollReturns
  Recovers
