SPECIFICATION Spec
CONSTANTS
  Starts <- MCOneStart
  VirtualId = 32
  VirtualType = 12
  PyModule <- MCPyModule
  Garbage = {0}
  BusId = 1
  PeerId = 2
  PeerType = 5
  PeerRegs <- MC48Regs
  PeerStrings = {}
  Files <- MC48Files
  Unreadable = Unreadable
  Requests <- MC48Requests
  MaxCalls = 3
INVARIANT ReadAsDocumented
