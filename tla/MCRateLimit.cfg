\* Windows of 5 ticks, 3 ticks to the second, two requests per window.
CONSTANTS
  Limit = 2
  Window = 5
  Second = 3
  MaxTime = 12
  MaxGrants = 7
SPECIFICATION MCSpec
INVARIANTS
  LimiterInv
  BurstBound
  RetryAfterExact
  RetryHonoured
