\* A subscribed peer goes on sending requests.
CONSTANTS
  Clients = {k1}
  Events = {"frame"}
  Quiet = FALSE
  MaxQueue = 2
  MaxInbox = 1
SPECIFICATION Spec
CHECK_DEADLOCK FALSE
INVARIANT NoStalledNotification
