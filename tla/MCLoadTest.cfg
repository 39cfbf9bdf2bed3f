\* Two workers, three requests, with and without a request timeout.
CONSTANTS
  w1 = w1
  w2 = w2
  Workers <- TwoWorkers
  Requests = 3
  MaxLatency = 2
SPECIFICATION FairSpec
INVARIANTS
  LoadInv
  Conservation
  NilMeansAll
  LatencySummary
PROPERTIES
  RunReturns
  
