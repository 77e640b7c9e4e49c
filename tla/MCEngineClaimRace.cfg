SPECIFICATION Spec
CONSTANTS
  NoWorker = NoWorker
  NoRun = NoRun
  Slots = {s1}
  Tasks <- MCTasks
  Deps <- MCDeps
  MaxAttempts <- MCMaxAttempts
  Backoff <- MCBackoff
  Workers <- WorkerIDs
  SameEngine = FALSE
  MaxCalls = 1
  MaxPanics = 0
  MaxLapses = 0
  MaxFaults = 0
  MaxCancels = 0
  MaxCrashes = 0
  MaxExpiries = 0
  Transports = {"memory"}
  MaxTroubles = 0
INVARIANT AbortsOnlyOnFaults
CHECK_DEADLOCK FALSE
