\* A Config that strays through a reused descriptor number makes a plugin take
\* itself for registered: NeverMistaken is violated.
SPECIFICATION Spec
CONSTANTS
  Overlaps = TRUE
  MaxConnections = 2
  AppMessages = {}
  EarlySends = FALSE
  MaxSends = 0
  DbFails = FALSE
  MaxPushes = 1
  MaxKills = 0
CHECK_DEADLOCK FALSE
INVARIANT NeverMistaken
