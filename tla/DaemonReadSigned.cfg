SPECIFICATION Spec
CONSTANTS
  Starts <- MCOneStart
  VirtualId = 32
  VirtualType = 12
  PyModule <- MCPyModule
  Garbage = {0}
  BusId = 1
  PeerId = 2
  PeerType = 5
  PeerRegs <- MCSignedRegs
  PeerStrings = {}
  Files <- MCSignedFiles
  Unreadable = Unreadable
  Requests <- MCSignedRequests
  MaxCalls = 3
INVARIANT ReadBackDocumented
