CONSTANTS
  Requests = {r1, r2}
  b1 = b1
  b2 = b2
  Backends = {b1, b2}
  None = None
  MaxConcurrentRequests = 1
  QueueSize = 1
  FailureThreshold = 1
  SuccessThreshold = 1
  MaxRequests = 1
  Timeout = 1
  Routes <- AllRoutes
  RouteOrder <- AllOrder
  PatternOf <- PatternOfAll
  Paths <- AllPaths
  BackendsOf <- BackendsOfAll
  Strategy <- StrategyOfAll
  MaxAttempts = 2
  CounterCycle = 2
SPECIFICATION Spec
SYMMETRY SymmetricRequests
INVARIANT TargetRoutesServed
CHECK_DEADLOCK FALSE
