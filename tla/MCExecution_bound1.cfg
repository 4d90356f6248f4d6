CONSTANTS
  MutexIds = {}
  CondvarIds = {}
  None = None
  MaxThreads = 4
  MaxBranches = 40
  PreemptionBound = 1
  Atoms <- SBAtoms
  Programs <- BoundedPrograms
SPECIFICATION Spec
INVARIANT TypeOK PreemptionsWithinBound ScheduleHasOneActive
PROPERTY DriverProgress
CHECK_DEADLOCK FALSE
