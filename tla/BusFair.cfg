\* Forwarding between a synchronous and an SLCAN endpoint while a caller sends.
CONSTANTS
  Callers = {c1}
  RxFrames = {r1, r2}
  N = 2
  Slcan = {2}
  InitString = {}
  Faulty = {}
  SeqMax = 1
  Forwarding = TRUE
  Requests <- MCNumbered
  EventQueueSize = 2
  MaxRx = 1
  NoFrame = NoFrame
  InitCmd = InitCmd
SPECIFICATION FairSpec
INVARIANTS
  NoLostForward
PROPERTIES
  SendReturns
  ForwardHappens
