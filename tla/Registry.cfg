\* Safety of the registry with every operation.
SPECIFICATION Spec
CONSTANTS
  u1 = u1
  u2 = u2
  w1 = w1
  w2 = w2
  asr = asr
  mt = mt
  cpu = cpu
  gpu = gpu
  Users <- MCUsers
  Workers <- MCWorkers
  Models <- MCModels
  Modes <- MCModes
  Loop = Loop
  None = None
  Faults = TRUE
SYMMETRY Interchangeable
INVARIANTS
  CountsAreHolders
  DrainedBeforeUnload
  LoadedOnce
  NoInferenceAsleep
  DrainHasHolders
  TimerIsCurrent
PROPERTY LeasesKept
