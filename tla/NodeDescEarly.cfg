SPECIFICATION Spec
CONSTANTS
  Unreadable = Unreadable
  Ids = {2, 32}
  Infos <- MCInfos
  Files <- MCFiles
  Clients = {}
  MaxInits = 1
  MaxReloads = 0
  MaxEdits = 0
INVARIANT NodesDescribed
