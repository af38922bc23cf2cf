CONSTANTS
  a1 = a1
  a2 = a2
  NoItem = NoItem
  Free = Free
  Owner = Owner
  Address <- MCAddress
  Entry <- MCEntry
  Covers <- MCCovers
  Body <- MCBody
  ChanSize = 1
  MaxPackets = 2
  CounterMod = 4
  PortErrors = FALSE
  MaxCalls = 1
  FollowAddrs <- OnlyValid
  FollowArgs <- OnlyEmpty
  Filters <- MCFilters
  MaxStops = 1
SPECIFICATION Spec
INVARIANTS
  EmptyFollowClears
CHECK_DEADLOCK FALSE
