CONSTANTS
  MutexIds <- BlockingMutexes
  CondvarIds <- BlockingCondvars
  None = None
  MaxThreads = 4
  MaxBranches = 80
  PreemptionBound = None
  Atoms <- SBAtoms
  Programs <- BlockingPrograms
SPECIFICATION FairSpec
INVARIANT CounterSerial CondvarSignalDelivered CondvarWaitersParked
PROPERTY Terminates ClockMonotonic
CHECK_DEADLOCK FALSE
