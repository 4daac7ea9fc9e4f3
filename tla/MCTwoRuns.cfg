\* A file run and a CRM run on two workers that never lose NATS.
CONSTANTS
  f1 = f1
  c1 = c1
  w1 = w1
  w2 = w2
  Sims = {f1, c1}
  FileSims = {f1}
  Deletable = {}
  Workers = {w1, w2}
  MaxDeliver = 3
  MaxAckPending = 1
  MaxDeliveries = 2
  MaxSolverCrashDeliveries = 2
  PoolSize = 1
  CountReadable = {TRUE, FALSE}
  FaultKinds = {"local_db", "commit_lost", "crm", "storage", "pool", "crash", "shutdown", "db_drop", "publish_lost"}
  MaxFaults = 2
SPECIFICATION Spec
SYMMETRY WorkerSymmetry
INVARIANTS OneRunAtATime NoBacklog SuccessHasSeries
PROPERTY OnlyALatePublishRewrites
