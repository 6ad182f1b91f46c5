SPECIFICATION Spec
CONSTANTS
  t1 = t1
  t2 = t2
  t3 = t3
  None = None
  Threads <- ThreeThreads
  MaxEntering = 2
  Faults = TRUE
INVARIANTS TasksAreCounted InferenceHasEngine NoTimerUnloaded
PROPERTIES CacheLeased LoopGoesOn IdleEngineSleeps
