SPECIFICATION Spec
CONSTANTS
  NoWorker = NoWorker
  NoRun = NoRun
  Slots = {s1, s2}
  Tasks <- MCTasks
  Deps <- MCDeps
  MaxAttempts <- MCMaxAttempts
  Backoff <- MCBackoff
  Workers <- WorkerIDs
  SameEngine = FALSE
  MaxCalls = 1
  MaxPanics = 0
  MaxLapses = 1
  MaxFaults = 0
  MaxCancels = 1
  MaxCrashes = 0
  MaxExpiries = 1
  Transports = {"memory", "jetstream"}
  MaxTroubles = 2
SYMMETRY MCSlotSymmetry
INVARIANTS LeaseBeforeExecution AttemptRunsOnce NothingForgotten SuccessIsEarned QuietWhenFinished
CHECK_DEADLOCK FALSE
