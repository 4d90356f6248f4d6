CONSTANTS
  MutexIds = {}
  CondvarIds = {}
  None = None
  MaxThreads = 3
  MaxBranches = 40
  PreemptionBound = None
  Atoms <- InitAtoms
  Programs <- InitPublish
SPECIFICATION Spec
INVARIANT InitialStoreCarriesCreator
CHECK_DEADLOCK FALSE
