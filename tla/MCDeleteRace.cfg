\* A delete that meets a commit, without any fault: the series are left.
CONSTANTS
  f1 = f1
  c1 = c1
  w1 = w1
  w2 = w2
  Sims = {f1, c1}
  FileSims = {f1}
  Deletable = {f1, c1}
  Workers = {w1, w2}
  MaxDeliver = 3
  MaxAckPending = 1
  MaxDeliveries = 2
  MaxSolverCrashDeliveries = 2
  PoolSize = 1
  CountReadable = {TRUE}
  FaultKinds = {}
  MaxFaults = 0
SPECIFICATION OneRequestSpec
SYMMETRY WorkerSymmetry
INVARIANT DeleteRemovesResults
