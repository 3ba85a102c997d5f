CONSTANTS
  Requests = {r1, r2, r3}
  Backends = {b1}
  MaxConcurrentRequests = 1
  QueueSize = 2
  None = None
SPECIFICATION Spec
INVARIANT EitherGrantedOrTimedOut
