CONSTANTS
  Requests = {r1, r2}
  MaxAttempts = 2
  InitialDelay = 8
  MaxDelay = 4
  Multiplier = 2
  QueueTimeout = 1
  BackendTimeout = 1
  RequestTimeout = 5
  WriteTimeout = 11
  Grace = 11
  FreshLimit = 1
SPECIFICATION FairSpec
INVARIANTS TypeOK OvertimeBounded RequestsEnd
PROPERTIES NoRequestCutOff SignalStops
CHECK_DEADLOCK FALSE
