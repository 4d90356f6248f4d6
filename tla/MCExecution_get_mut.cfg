CONSTANTS
  MutexIds = {}
  CondvarIds = {}
  None = None
  MaxThreads = 3
  MaxBranches = 40
  PreemptionBound = None
  Atoms <- SBAtoms
  Programs <- GetMutPrograms
SPECIFICATION Spec
INVARIANT GetMutAssertionExact
CHECK_DEADLOCK FALSE
