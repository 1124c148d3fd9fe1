\* Two callers, numbers 0..1, a synchronous and an SLCAN endpoint that may throw.
CONSTANTS
  Callers = {c1, c2}
  RxFrames = {}
  N = 2
  Slcan = {2}
  InitString = {}
  Faulty = {2}
  SeqMax = 1
  Forwarding = FALSE
  Requests <- MCRequests
  EventQueueSize = 2
  MaxRx = 2
  NoFrame = NoFrame
  InitCmd = InitCmd
SPECIFICATION Spec
SYMMETRY CallerSymmetry
CHECK_DEADLOCK FALSE
INVARIANTS
  TypeOK
  NoLostWakeup
  PromiseSetOnceComplete
  AckIsAboutFrame
  DistinctSeqnums
PROPERTIES
  ImplementsSendService
