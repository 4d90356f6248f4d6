CONSTANTS
  MutexIds = {}
  CondvarIds = {}
  None = None
  MaxThreads = 3
  MaxBranches = 40
  PreemptionBound = None
  Atoms <- SBAtoms
  Programs <- SCPrograms
SPECIFICATION Spec
INVARIANT DporExploresAllSC
CHECK_DEADLOCK FALSE
