CONSTANTS
  MutexIds <- BlockingMutexes
  CondvarIds <- BlockingCondvars
  None = None
  MaxThreads = 3
  MaxBranches = 60
  PreemptionBound = None
  Atoms <- SBAtoms
  Programs <- ScenarioPrograms
SPECIFICATION BothSpec
INVARIANT BoundReducesSpace
CHECK_DEADLOCK FALSE
