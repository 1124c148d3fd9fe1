SPECIFICATION Spec
CONSTANTS
  Starts <- MCOneStart
  VirtualId = 32
  VirtualType = 12
  PyModule <- MCPyModule
  Garbage = {0}
  BusId = 1
  PeerId = 2
  PeerType = 5
  PeerRegs <- MC32Regs
  PeerStrings = {}
  Files <- MC32Files
  Unreadable = Unreadable
  Requests <- MC32Requests
  MaxCalls = 3
INVARIANT ReadBackDocumented
