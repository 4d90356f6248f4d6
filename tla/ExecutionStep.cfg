CONSTANTS
  MutexIds = {}
  CondvarIds = {}
  None = None
  MaxThreads = 3
  MaxBranches = 40
  PreemptionBound = None
  Atoms <- SBAtoms
  Programs <- SBSeqCstOnly
SPECIFICATION CodedSpec
INVARIANT ResetToSingleThread
CHECK_DEADLOCK FALSE
