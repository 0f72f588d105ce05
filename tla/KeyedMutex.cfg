\* Two callers, three keys, two permits: both may bring a permit to one new key,
\* and a caller of a third key can only go on when another is pruned.
CONSTANTS
  Tasks = {t1, t2}
  Keys = {k1, k2, k3}
  LockIds = {l1, l2}
  Capacity = 2
  MaxCalls = 2
  NoTask = NoTask
  NoLock = NoLock
  Sweeper = Sweeper
SPECIFICATION FairSpec
PROPERTY ImplementsLock
PROPERTY CallSettles
CHECK_DEADLOCK FALSE
