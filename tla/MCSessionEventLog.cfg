SPECIFICATION Spec
CONSTANTS
  Overlaps = TRUE
  MaxConnections = 1
  AppMessages = {"eventLog"}
  EarlySends = FALSE
  MaxSends = 1
  DbFails = FALSE
  MaxPushes = 0
  MaxKills = 0
CHECK_DEADLOCK FALSE
INVARIANT CoreSurvives
