CONSTANTS
  Plugins = {p1}
  Pids = {i1, i2}
  Intervals = {2}
  MaxStart = 1
  MaxAge = 2
  DbFails = FALSE
  None = None
SPECIFICATION Spec
INVARIANTS StartedMeansWaiting
CHECK_DEADLOCK FALSE
