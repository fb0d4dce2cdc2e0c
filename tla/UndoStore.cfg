SPECIFICATION FairSpec
CONSTANTS
  k1 = k1
  k2 = k2
  read = read
  scene = scene
  gm = gm
  None = None
  Keys <- MCKeys
  Scopes <- MCScopes
  ReadScope = read
  GmScope = gm
  KeyScopes <- MCKeyScopes
  MaxPerKey = 2
  TTL = 1
  MaxTokens = 3
  MaxTime = 2
INVARIANTS IndexAgrees Capped OneShot
PROPERTIES KeptAsPromised RevertedInTime ExpiredAreSwept
CHECK_DEADLOCK FALSE
