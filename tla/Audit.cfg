SPECIFICATION LogFairSpec
CONSTANTS
  r1 = r1
  r2 = r2
  r3 = r3
  Requests <- MCRequests
  Retention = 1
  MaxTime = 3
  Crashes = TRUE
PROPERTIES PruneDropsTheOld OldLinesGo
CHECK_DEADLOCK FALSE
