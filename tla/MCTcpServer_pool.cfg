\* One pool worker, no admission limit: the second connection waits for the worker.
CONSTANTS
  c1 = c1
  c2 = c2
  w1 = w1
  NoConn = NoConn
  Conns <- TwoConns
  Workers <- OneWorker
  MaxActiveConns = 0
SPECIFICATION FairSpec
INVARIANTS
  IInv
  OneOwner
  ServeReturnsClean
PROPERTIES
  StopReturns
  
