CONSTANTS
  Backends = {b1}
  Callers = {c1, c2, c3}
  FailureThreshold = 2
  SuccessThreshold = 2
  MaxRequests = 2
  Timeout = 2
SPECIFICATION ClientsSpec
INVARIANT TrialsAsDocumented
