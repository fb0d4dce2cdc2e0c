SPECIFICATION Spec
CONSTANTS
  k1 = k1
  k2 = k2
  c1 = c1
  c2 = c2
  None = None
  Keys <- TwoKeys
  Calls <- TwoCalls
  Inodes <- MCInodes
  Crashes = TRUE
INVARIANT ConfirmedSurvives
CHECK_DEADLOCK FALSE
