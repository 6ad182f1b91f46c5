\* Idle models are unloaded when no acquisition fails.
SPECIFICATION FairSpec
CONSTANTS
  u1 = u1
  u2 = u2
  w1 = w1
  w2 = w2
  asr = asr
  mt = mt
  cpu = cpu
  gpu = gpu
  Users <- MCOneUser
  Workers <- MCWorkers
  Models <- MCModels
  Modes <- MCOneMode
  Loop = Loop
  None = None
  Faults = FALSE
PROPERTIES
  IdleModelsUnloaded
