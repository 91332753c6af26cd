SPECIFICATION MCFairSpec
CONSTANTS
  Overlaps = FALSE
  MaxConnections = 2
  AppMessages = {"status", "pluginConfig"}
  EarlySends = TRUE
  MaxSends = 1
  DbFails = FALSE
  MaxPushes = 0
  MaxKills = 1
CHECK_DEADLOCK FALSE
PROPERTIES ConnectionReleased QueuesDrain PluginReconnects
