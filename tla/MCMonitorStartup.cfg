CONSTANTS
  Plugins = {p1}
  Pids = {i1, i2}
  Intervals = {0}
  MaxStart = 1
  MaxAge = 1
  DbFails = FALSE
  None = None
SPECIFICATION FairSpec
PROPERTIES HungStartIsRebooted
CHECK_DEADLOCK FALSE
