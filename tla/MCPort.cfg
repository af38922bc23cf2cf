CONSTANTS
  p1 = p1
  p2 = p2
  p3 = p3
  None = None
  File = File
  Sniffer <- MCSniffer
  Fd <- MCFd
SPECIFICATION Spec
INVARIANTS
  OwnBytes
  NothingLeaks
CHECK_DEADLOCK FALSE
