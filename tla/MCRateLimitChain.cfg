\* A limit of one request per window of 3 ticks, three requests.
CONSTANTS
  Limit = 1
  Window = 3
  Second = 2
  MaxTime = 6
  r1 = r1
  r2 = r2
  r3 = r3
  Requests <- ThreeRequests
SPECIFICATION Spec
CHECK_DEADLOCK FALSE
INVARIANT ServerBurstBound
