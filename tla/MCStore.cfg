CONSTANTS
  a1 = a1
  a2 = a2
  NoItem = NoItem
  Address <- MCAddress
  Entry <- MCEntry
  Covers <- MCCovers
  Body <- MCBody
  ChanSize = 1
  MaxPackets = 3
SPECIFICATION FairSpec
INVARIANTS
  TypeOK
  OnlyFirstMayStray
  SeenExtExact
  LogInOrder
PROPERTIES
  DrainsWhenClosed
CHECK_DEADLOCK FALSE
