SPECIFICATION Spec
CONSTANTS
  PageSize = 16
  NodeId = 2
  Worlds <- MCWorlds
  Starts <- MCSegments
  Lines <- MCLines
  Noise <- MCNoise
  MaxLines = 3
  MaxRounds = 2
INVARIANT SegmentsUploaded
CHECK_DEADLOCK FALSE
