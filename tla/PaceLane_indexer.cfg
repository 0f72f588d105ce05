\* An origin with two indexers, three requests of two priorities, one permit.
CONSTANTS
  Requests = {r1, r2, r3}
  Priorities = {1, 2}
  Threshold <- MCThreshold
  Indexers = {i1, i2}
  NoIndexer = NoIndexer
  ProviderLane = FALSE
  Dispatchers = {d1, d2}
  Cap = 1
  Interval = 1
  Teardown = "any"
  MaxDeaths = 1
  FailureThreshold = 1
  EvalWindow = 0
  OpenDuration = 1
  HalfOpenProbes = 1
  OpenForSet = {2}
SPECIFICATION Spec
PROPERTIES QuietWhileOpen NeighbourUnharmed StartsInOrder
SYMMETRY Symmetry
