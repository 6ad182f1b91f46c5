\* Counts, wake-ups, the promise of Permits and the service of waiters.
SPECIFICATION FairSpec
CONSTANTS
  t1 = t1
  t2 = t2
  t3 = t3
  t4 = t4
  Tasks <- MCTasks
  Capacities <- MCCapacities
  InitialCapacity = 2
  MaxNotifiers = 2
INVARIANTS
  PermitsMatchHolders
  NoLostWakeup
PROPERTIES
  PromiseKept
  WaitersAreServed
