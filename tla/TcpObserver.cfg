\* A subscribed peer and another one disconnect together.
CONSTANTS
  Clients = {k1, k2}
  Events = {"frame"}
  Quiet = TRUE
  MaxQueue = 2
  MaxInbox = 1
SPECIFICATION Spec
SYMMETRY ClientSymmetry
CHECK_DEADLOCK FALSE
INVARIANT DeletedObserversDetached
