CONSTANTS
  Clients = {c1, c2}
  Workers = {w1, w2}
  MaxJobs = 3
  MaxBytes = 3
  Sizes = {1, 2}
  Closer = closer
SPECIFICATION Spec
INVARIANTS
  TypeOK
  BudgetIsExact
  NoStrandedWork
  NoIdleWorkerWhileJobsWait
  DrainedMeansQuiet
  WaitersAreBlocked
