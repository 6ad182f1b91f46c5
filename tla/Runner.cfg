\* The life of jobs, with every failing request, to the end of the process.
SPECIFICATION FairSpec
CONSTANTS
  r1 = r1
  r2 = r2
  j1 = j1
  j2 = j2
  j3 = j3
  Runs <- MCRuns
  Jobs <- MCJobs
  Concurrent <- MCConcurrent
  Capacities <- MCCapacities
  None = None
  Lossy = TRUE
INVARIANTS
  SerializedInference
  NoFileLeft
  RejectedOnly
PROPERTIES
  SlotsKept
  RunsEnd
CHECK_DEADLOCK FALSE
