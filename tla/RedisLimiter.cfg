SPECIFICATION Spec
CONSTANTS
  Interval = 3
  Burst = 2
  Skew = 1
  TTL <- TightTTL
  Horizon = 22
  MaxOpened = 1
INVARIANTS
  RateBound
  RetryAfterSuffices
PROPERTIES
  DebtIsKept
  Implements
CHECK_DEADLOCK FALSE
