\* The connection comes back and stop() ends it, under every message.
SPECIFICATION FairSpec
CONSTANTS
  j1 = j1
  j2 = j2
  Jobs <- MCOneJob
  Limits <- MCLimits
  Resizes = TRUE
  Tight = TRUE
  Faults = TRUE
  Stops = TRUE
  MaxWire = 2
  None = None
CHECK_DEADLOCK FALSE
PROPERTIES
  Reconnects
  StopEnds
