SPECIFICATION Spec
CONSTANTS
  Starts <- MCStarts
  VirtualId = 32
  VirtualType = 12
  PyModule <- MCPyModule
  Garbage = {0, 12}
  BusId = 1
  PeerId = 2
  PeerType = 5
  PeerRegs <- MCPeerRegs
  PeerStrings = {12}
  Files <- MCFiles
  Unreadable = Unreadable
  Requests <- MCRequests
  MaxCalls = 2
INVARIANTS
  TypeOK
  StartOrder
  BusHasEndpoints
  FrameSurvives
  ReadBackWritten
  NodeKnownAfterDiscover
