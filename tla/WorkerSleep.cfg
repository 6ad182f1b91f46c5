\* A sleep command blocks the child for ever.
SPECIFICATION FairSpec
CONSTANTS
  MaxCalls = 1
  MaxSleeps = 1
  MaxEntering = 2
  SleepsWhenIdle = TRUE
  Faults = FALSE
CHECK_DEADLOCK FALSE
PROPERTIES
  RequestedSleepOffloads
