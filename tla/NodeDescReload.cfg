SPECIFICATION Spec
CONSTANTS
  Unreadable = Unreadable
  Ids = {2, 32}
  Infos <- MCInfos
  Files <- MCFiles
  Clients = {c1}
  MaxInits = 1
  MaxReloads = 1
  MaxEdits = 1
INVARIANT ReloadTakes
