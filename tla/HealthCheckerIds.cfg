CONSTANTS
  x1 = x1
  x2 = x2
  x3 = x3
  Instances = {x1, x3}
  RouteOf <- TwoRoutes
  IdOf <- SharedIds
  Clients = {c1}
  None = None
  FailureLimit = 2
  MaxChecks = 1
SPECIFICATION Spec
INVARIANT FailingShownUnhealthy
CHECK_DEADLOCK FALSE
