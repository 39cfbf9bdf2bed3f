\* One goroutine per connection (HandlerWorkers = 0), one of two admitted at a time.
CONSTANTS
  c1 = c1
  c2 = c2
  w1 = w1
  NoConn = NoConn
  Conns <- TwoConns
  Workers <- NoWorkers
  MaxActiveConns = 1
SPECIFICATION FairSpec
INVARIANTS
  OpenConnsBounded
  ResultIsHonest
  ForceCloseCoversAll
  DrainedIsFinal
  IdleMeansClosed
PROPERTIES
  StopReturns
  NoGoroutineLeak
  ImplementsConnService
