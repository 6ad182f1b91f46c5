\* A worker process and its proxy, with every fault.
SPECIFICATION FairSpec
CONSTANTS
  MaxCalls = 3
  MaxSleeps = 1
  MaxEntering = 2
  SleepsWhenIdle = TRUE
  Faults = TRUE
CHECK_DEADLOCK FALSE
INVARIANTS
  ResultIsOwn
  StoppedIsGone
PROPERTIES
  CacheKeptInUse
  CacheLeased
  IdleChildSleeps
