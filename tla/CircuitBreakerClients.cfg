CONSTANTS
  Backends = {b1, b2}
  Callers = {c1, c2, c3}
  FailureThreshold = 2
  SuccessThreshold = 2
  MaxRequests = 2
  Timeout = 2
SPECIFICATION FairSpec
INVARIANTS ClientsTypeOK CountersMatchState TrialsBounded
PROPERTIES LegalTransitions StuckForever OpenEventuallyProbes HalfOpenDecidesOrSticks
