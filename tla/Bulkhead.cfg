CONSTANTS
  Requests = {r1, r2, r3, r4}
  Backends = {b1}
  MaxConcurrentRequests = 2
  QueueSize = 2
  None = None
SPECIFICATION FairSpec
INVARIANTS TypeOK ConcurrencyLimit SlotsAccounted WaitersKnown StatsAccount
PROPERTIES TimeoutsCostOne ImplementsSlotPool EveryWaitEnds ReleaseReturns
