\* No fault: the CREATED entry never reaches the audit log.
CONSTANTS
  f1 = f1
  c1 = c1
  w1 = w1
  w2 = w2
  Sims = {f1, c1}
  FileSims = {f1}
  Deletable = {}
  Workers = {w1, w2}
  MaxDeliver = 3
  MaxAckPending = 1
  MaxDeliveries = 2
  MaxSolverCrashDeliveries = 2
  PoolSize = 1
  CountReadable = {TRUE}
  FaultKinds = {}
  MaxFaults = 0
SPECIFICATION OneRequestSpec
SYMMETRY WorkerSymmetry
INVARIANT CreationIsAudited
