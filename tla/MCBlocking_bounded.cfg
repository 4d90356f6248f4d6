CONSTANTS
  MutexIds <- BlockingMutexes
  CondvarIds <- BlockingCondvars
  None = None
  MaxThreads = 4
  MaxBranches = 80
  PreemptionBound = 1
  Atoms <- SBAtoms
  Programs <- CounterAllPrograms
SPECIFICATION Spec
INVARIANT BoundedDporFindsOrders
CHECK_DEADLOCK FALSE
