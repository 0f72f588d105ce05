\* A book provider's lane: two requests of one priority, one permit, paced two
\* ticks apart; the dispatcher may die under its waiters, clients report late.
CONSTANTS
  Requests = {r1, r2}
  Priorities = {1}
  Threshold <- MCThresholdOne
  Indexers = {}
  NoIndexer = NoIndexer
  ProviderLane = TRUE
  Dispatchers = {d1, d2}
  Cap = 1
  Interval = 2
  Teardown = "started"
  MaxDeaths = 1
  FailureThreshold = 2
  EvalWindow = 1
  OpenDuration = 1
  HalfOpenProbes = 1
  OpenForSet = {2}
SPECIFICATION FairSpec
INVARIANT HeapReady
PROPERTIES ImplementsLimiter Answered
