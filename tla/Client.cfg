SPECIFICATION FairSpec
CONSTANTS
  PageSize = 16
  NodeId = 2
  Worlds <- MCWorlds
  Starts <- MCStarts
  Lines <- MCLines
  Noise <- MCNoise
  MaxLines = 3
  MaxRounds = 2
INVARIANTS
  AnswersTaken
  CacheSinceClear
  FirmwareIsFile
PROPERTY UploadEnds
CHECK_DEADLOCK FALSE
