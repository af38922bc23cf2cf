CONSTANTS
  s1 = s1
  s2 = s2
  None = None
  Session <- MCSession
  PageSize = 1
  MaxPackets = 2
SPECIFICATION FairSpec
INVARIANTS
  TypeOK
  NoPanic
  NothingElseRuns
  FlushedByPage
  NeverNegative
PROPERTIES
  ForgottenWhenStopped
  HandlersReturn
  AutoStopHappens
CHECK_DEADLOCK FALSE
