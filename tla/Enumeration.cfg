SPECIFICATION EnumSpec
CONSTANTS
  EP_TABLE_COUNT = 3
  EpTable <- MCEpTable
  None = None
  Driven <- MCDriven
INVARIANTS
  EnumTypeOK
  ReadsExact
  EndpointsAsDeclared
  ReportsOnce
