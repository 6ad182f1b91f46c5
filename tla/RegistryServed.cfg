\* Acquisitions get their lock while unloads drain.
SPECIFICATION FairSpec
CONSTANTS
  u1 = u1
  u2 = u2
  w1 = w1
  w2 = w2
  asr = asr
  mt = mt
  cpu = cpu
  gpu = gpu
  Users <- MCUsers
  Workers <- MCWorkers
  Models <- MCOneModel
  Modes <- MCOneMode
  Loop = Loop
  None = None
  Faults = TRUE
PROPERTIES
  AcquirersAreServed
