CONSTANTS
  s1 = s1
  s2 = s2
  None = None
  Session <- MCSession
  PageSize = 1
  MaxPackets = 2
SPECIFICATION Spec
INVARIANTS
  FlushedAtStop
CHECK_DEADLOCK FALSE
