SPECIFICATION Spec
CONSTANTS
  Unreadable = Unreadable
  Ids = {2, 32}
  Infos <- MCInfos
  Files <- MCFiles
  Clients = {c1, c2}
  MaxInits = 2
  MaxReloads = 2
  MaxEdits = 1
INVARIANTS
  TypeOK
  RegistersLoaded
