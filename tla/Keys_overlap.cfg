SPECIFICATION LossSpec
CONSTANTS
  k1 = k1
  k2 = k2
  c1 = c1
  c2 = c2
  None = None
  Keys = {k1, k2}
  Calls = {c1, c2}
  Inodes <- MCInodes
  Crashes = TRUE
INVARIANTS WholeUnlessOverlapped KeptUnlessOverlapped
PROPERTIES RevokedIsFinal RotationKept
SYMMETRY Symmetry
CHECK_DEADLOCK FALSE
