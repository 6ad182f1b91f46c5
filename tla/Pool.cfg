\* The worker pool: no worker lost, no call stuck.
SPECIFICATION FairSpec
CONSTANTS
  c1 = c1
  c2 = c2
  c3 = c3
  gpu0 = gpu0
  gpu1 = gpu1
  Threads <- MCThreads
  Workers <- MCWorkers
  None = None
  MayUnload = TRUE
INVARIANTS
  EveryWorkerOnce
PROPERTIES
  RejectedForCause
  CallsEnd
CHECK_DEADLOCK FALSE
