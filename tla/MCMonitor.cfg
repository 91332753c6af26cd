CONSTANTS
  Plugins = {p1}
  Pids = {i1, i2}
  Intervals = {0, 1}
  MaxStart = 1
  MaxAge = 1
  DbFails = TRUE
  None = None
SPECIFICATION FairSpec
INVARIANTS TypeOK EntriesAreProcesses KilledInItsOwnRight
PROPERTIES KillCompletes DisabledStops EnabledRuns SilentIsSignalled
CHECK_DEADLOCK FALSE
