\* One run, from a file or from the CRM, under every fault but a publish that
\* only seems to have failed and a connection dropped under a row lock.
CONSTANTS
  f1 = f1
  c1 = c1
  w1 = w1
  w2 = w2
  Sims = {f1, c1}
  FileSims = {f1}
  Deletable = {f1, c1}
  Workers = {w1, w2}
  MaxDeliver = 4
  MaxAckPending = 1
  MaxDeliveries = 3
  MaxSolverCrashDeliveries = 2
  PoolSize = 1
  CountReadable = {TRUE}
  FaultKinds = {"local_db", "commit_lost", "stall", "crm", "storage", "storage_fatal", "delete_lost", "pool", "crash", "link", "shutdown", "publish", "api_crash"}
  MaxFaults = 2
SPECIFICATION OneRequestSpec
SYMMETRY WorkerSymmetry
INVARIANTS TypeOK AckedIsSettled SourceKeptWhilePending TotalsMatchSeries ReportedOnce InStep
PROPERTIES TerminalIsFinal KeepsPromise
