CONSTANTS
  a1 = a1
  a2 = a2
  NoItem = NoItem
  Address <- MCAddress
  Entry <- MCEntry
  Covers <- MCCovers
  Body <- MCBody
  ChanSize = 1
  MaxPackets = 3
  Request <- MCRequest
  DefaultLimit = 1
  MaxLimit = 2
  PrintSize = 2
SPECIFICATION FairSpec
INVARIANTS
  TypeOK
  VisiblePasses
  PagesFit
  PrintsTheLog
PROPERTIES
  PrintsAll
CHECK_DEADLOCK FALSE
