CONSTANTS
  Requests = {r1, r2, r3}
  b1 = b1
  b2 = b2
  Backends = {b1}
  None = None
  MaxConcurrentRequests = 1
  QueueSize = 1
  FailureThreshold = 1
  SuccessThreshold = 1
  MaxRequests = 1
  Timeout = 1
  Routes <- OneRoute
  RouteOrder <- OneOrder
  PatternOf <- OnePattern
  Paths <- OnePath
  BackendsOf <- OneBackend
  Strategy <- ByRoundRobin
  MaxAttempts = 2
  CounterCycle = 2
SPECIFICATION Spec
SYMMETRY SymmetricRequests
INVARIANTS TypeOK AnsweredOnce NothingLeftBehind
CHECK_DEADLOCK FALSE
