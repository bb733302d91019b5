CONSTANTS
  t1 = t1
  t2 = t2
  t3 = t3
  NoTask = NoTask
  Tasks <- ThreeTasks
  Slow <- OneSlow
  Instants <- TwoInstants
  Timeout = 1
  MaxRetries = 1
  MaxAttempts = 2
  MaxFaults = 3
SPECIFICATION Spec
INVARIANTS TypeOK SnapshotHolds OldestFirst RetryAccounting
PROPERTIES VerdictsAreFinal ImplementsJobs
SYMMETRY TaskSymmetry
