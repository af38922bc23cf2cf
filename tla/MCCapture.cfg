CONSTANTS
  a1 = a1
  a2 = a2
  NoItem = NoItem
  Free = Free
  Owner = Owner
  Address <- MCAddress
  Entry <- MCEntry
  Covers <- MCCovers
  Body <- MCBody
  ChanSize = 1
  MaxPackets = 2
  CounterMod = 4
  PortErrors = TRUE
  MaxCalls = 2
  FollowAddrs <- AnyFollow
  FollowArgs <- OnlyValid
  Filters <- MCFilters
  MaxStops = 1
SPECIFICATION FairSpec
INVARIANTS
  TypeOK
  NoPanic
  NothingLeft
  EvidenceKept
PROPERTIES
  FollowKept
  ImplementsCaptureLog
  StopTerminates
CHECK_DEADLOCK FALSE
