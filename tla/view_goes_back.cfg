SPECIFICATION FairSpec
CONSTANTS
  Fetches = {f1, f2}
  Socket = ws
  MaxSessions = 1
  MaxEvents = 3
  MaxRecoveries = 0
  MaxRefused = 0
PROPERTIES
  ViewSettles
CHECK_DEADLOCK FALSE
