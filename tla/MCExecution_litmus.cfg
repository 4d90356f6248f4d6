CONSTANTS
  MutexIds = {}
  CondvarIds = {}
  None = None
  MaxThreads = 4
  MaxBranches = 40
  PreemptionBound = None
  Atoms <- SBAtoms
  Programs <- LitmusRunPrograms
SPECIFICATION Spec
INVARIANT LitmusForbiddenNeverExplored LitmusWeakOutcomesFound
PROPERTY DriverProgress ClockMonotonic
CHECK_DEADLOCK FALSE
