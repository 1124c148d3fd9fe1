SPECIFICATION Spec
CONSTANTS
  PageSize = 16
  NodeId = 2
  Worlds <- MCWorlds
  Starts <- MCRestarts
  Lines <- MCLines
  Noise <- MCNoise
  MaxLines = 3
  MaxRounds = 2
INVARIANT RestartUploaded
CHECK_DEADLOCK FALSE
