SPECIFICATION Spec
CONSTANTS
  r1 = r1
  r2 = r2
  k1 = k1
  k2 = k2
  a1 = a1
  look = look
  delete = delete
  None = None
  Requests <- TwoRequests
  Keys <- TwoKeys
  Addresses <- OneAddress
  Tools <- TwoTools
  Kind <- MCKind
  MayCall <- MCMayCall
  ExpiresAt <- MCExpiresAt
  InitialKeys <- MCInitialKeys
  Limit <- MCLimit
  Minute = 2
  FailedAuthLimit = 0
  FailedAuthWindow = 3
  BaseBackoff = 1
  MaxBackoff = 3
  MaxTime = 2
INVARIANT OnlyWithKey
PROPERTIES AuditedCallSpec RevokedIsNotLetIn ValidIsLetIn
SYMMETRY Symmetry
CHECK_DEADLOCK FALSE
