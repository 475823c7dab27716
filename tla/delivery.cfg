SPECIFICATION FairSpec
CONSTANTS
  Fetches = {f1}
  Socket = ws
  MaxSessions = 2
  MaxEvents = 3
  MaxRecoveries = 1
  MaxRefused = 1
INVARIANTS
  DeliveryTypeOK
  ViewCoversCursor
  NothingSkipped
CHECK_DEADLOCK FALSE
PROPERTIES
  EveryEventTold
