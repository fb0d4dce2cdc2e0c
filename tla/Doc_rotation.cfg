SPECIFICATION FairSpec
CONSTANTS
  k1 = k1
  k2 = k2
  c1 = c1
  c2 = c2
  None = None
  Keys <- TwoKeys
  Calls <- OneCall
  Inodes <- MCInodes
  Crashes = TRUE
PROPERTY OldKeyIsGone
CHECK_DEADLOCK FALSE
