CONSTANTS
  x1 = x1
  x2 = x2
  x3 = x3
  Instances = {x1, x2}
  RouteOf <- TwoRoutes
  IdOf <- DistinctIds
  Clients = {c1}
  None = None
  FailureLimit = 2
  MaxChecks = 2
SPECIFICATION FairSpec
INVARIANTS TypeOK LevelsAgree UnhealthyAtLimit
PROPERTIES UpdatesEnd SweepsGoOn
CHECK_DEADLOCK FALSE
