\* Pulls and connections, while no slot is added and the resources suffice.
SPECIFICATION FairSpec
CONSTANTS
  j1 = j1
  j2 = j2
  Jobs <- MCJobs
  Limits <- MCLimits
  Resizes = FALSE
  Tight = FALSE
  Faults = TRUE
  Stops = TRUE
  MaxWire = 2
  None = None
CHECK_DEADLOCK FALSE
INVARIANTS
  NoPullMissed
PROPERTIES
  WorkIsTaken
