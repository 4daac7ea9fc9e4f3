\* One run, as many faults as deliveries it may lose: it still ends.
CONSTANTS
  f1 = f1
  c1 = c1
  w1 = w1
  w2 = w2
  Sims = {f1, c1}
  FileSims = {f1}
  Deletable = {}
  Workers = {w1, w2}
  MaxDeliver = 3
  MaxAckPending = 1
  MaxDeliveries = 2
  MaxSolverCrashDeliveries = 2
  PoolSize = 1
  CountReadable = {TRUE}
  FaultKinds = {"local_db", "commit_lost", "stall", "crm", "storage", "storage_fatal", "pool", "crash", "link", "shutdown"}
  MaxFaults = 2
SPECIFICATION FairOneRequestSpec
PROPERTIES EveryRunEnds InputReleased
