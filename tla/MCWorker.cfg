\* A worker's process from start to end and start again, with the solver pool,
\* the temporary files and the consumer's settings, under every fault.
CONSTANTS
  new = new
  old = old
  Workers = {new, old}
  Self = new
  Declared <- Build
  Earlier <- Before
  Jobs = {1, 2, 3}
  MaxPools = 4
  MaxAttempts = 2
  HostCpus = 3
  Quotas = {0, 100}
  FaultKinds = {"connect", "config", "pool", "storage", "shutdown", "crash"}
  MaxFaults = 2
SPECIFICATION Spec
INVARIANTS TypeOK UploadHasItsFile FilesHaveOwners SolvesFitThePool SettingsOfOneBuild Reconciled
PROPERTIES CrashesAreItsOwn EverySolveEnds ComesUp
CHECK_DEADLOCK FALSE
