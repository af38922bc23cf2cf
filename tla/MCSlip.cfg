CONSTANTS
  Packet <- MCPacket
  Noise <- MCNoise
  MaxFrames = 2
  MaxFaults = 3
SPECIFICATION Spec
INVARIANTS
  NoFalsePacket
PROPERTIES
  Recovers
CHECK_DEADLOCK FALSE
