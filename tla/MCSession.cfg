SPECIFICATION MCSpec
CONSTANTS
  Overlaps = TRUE
  MaxConnections = 2
  AppMessages = {"normal", "eventLog", "globalConfig", "garbled"}
  EarlySends = TRUE
  MaxSends = 1
  DbFails = TRUE
  MaxPushes = 1
  MaxKills = 1
CHECK_DEADLOCK FALSE
INVARIANTS TypeOK NoLostWakeup NoThreadOutlivesObject RegisteredOnBothSides RegistrationLearnt NoDeafPlugin
