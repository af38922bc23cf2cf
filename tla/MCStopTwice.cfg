CONSTANTS
  a1 = a1
  a2 = a2
  NoItem = NoItem
  Free = Free
  Owner = Owner
  Address <- MCAddress
  Entry <- MCEntry
  Covers <- MCCovers
  Body <- MCBody
  ChanSize = 1
  MaxPackets = 2
  CounterMod = 4
  PortErrors = FALSE
  MaxCalls = 1
  FollowAddrs <- NoFollow
  FollowArgs <- OnlyValid
  Filters <- MCFilters
  MaxStops = 2
SPECIFICATION Spec
INVARIANTS
  StopRepeatable
CHECK_DEADLOCK FALSE
