\* Two peers that listen: one request at a time, none once subscribed.
CONSTANTS
  Clients = {k1, k2}
  Events = {"frame", "dev_status"}
  Quiet = TRUE
  MaxQueue = 2
  MaxInbox = 1
SPECIFICATION FairSpec
CHECK_DEADLOCK FALSE
INVARIANTS
  TypeOK
  DrainHasMessage
  NoStalledNotification
PROPERTIES
  NotificationsSent
