SPECIFICATION FairSpec
CONSTANTS
  NumListeners = 2
  Conns = {c1, c2, c3}
  Threshold = 2
  MaxGen = 4
  MaxWan = 1
  MaxBuildFailures = 1
INVARIANTS
  LatchImpliesPending
  CriticalStreakHeard
  DispatchesToRunning
  NoOrphanInjector
PROPERTY
  CriticalServerReplaced
CHECK_DEADLOCK FALSE
