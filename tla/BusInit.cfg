\* An SLCAN endpoint whose adapter also answers the init command.
CONSTANTS
  Callers = {c1, c2}
  RxFrames = {}
  N = 1
  Slcan = {1}
  InitString = {1}
  Faulty = {}
  SeqMax = 1
  Forwarding = FALSE
  Requests <- MCNumbered
  EventQueueSize = 2
  MaxRx = 0
  NoFrame = NoFrame
  InitCmd = InitCmd
SPECIFICATION Spec
INVARIANT AckIsAboutFrame
