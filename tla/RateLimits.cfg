SPECIFICATION MCSpec
CONSTANTS
  k1 = k1
  a1 = a1
  MaxFailures = 3
  Keys <- OneKey
  Addresses <- OneAddress
  Limit <- MCLimit
  Minute = 2
  FailedAuthLimit = 1
  FailedAuthWindow = 3
  BaseBackoff = 1
  MaxBackoff = 3
  MaxTime = 4
INVARIANTS TwoLimitsPerMinute RetryAfterHolds BackoffIsExact
CHECK_DEADLOCK FALSE
