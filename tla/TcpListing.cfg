\* A peer connects while another one disconnects, and asks for the clients.
CONSTANTS
  Clients = {k1, k2}
  Events = {"frame"}
  Quiet = TRUE
  MaxQueue = 2
  MaxInbox = 1
SPECIFICATION FairSpec
CHECK_DEADLOCK FALSE
PROPERTY ListingReturns
