CONSTANTS
  MutexIds = {}
  CondvarIds = {}
  None = None
  MaxThreads = 3
  MaxBranches = 40
  PreemptionBound = None
  Atoms <- SBAtoms
  Programs <- AllocPrograms
SPECIFICATION Spec
INVARIANT AllocVerdictExact
CHECK_DEADLOCK FALSE
