CONSTANTS
  c1 = c1
  c2 = c2
  Free = Free
  Owner = Owner
  Caller <- MCCaller
  FlagChoice <- MCFlagChoice
  Body <- MCBody
  ChanSize = 2
  CounterMod = 4
  PortErrors = TRUE
  MaxPackets = 4
  MaxCalls = 1
SPECIFICATION FairSpec
INVARIANTS
  TypeOK
  NoPanic
  FlagsAgree
  InOrder
PROPERTIES
  FailedStartEnds
  CallsReturn
  CounterReuse
CHECK_DEADLOCK FALSE
