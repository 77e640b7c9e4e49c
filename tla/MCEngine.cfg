SPECIFICATION FairSpec
CONSTANTS
  NoWorker = NoWorker
  NoRun = NoRun
  Slots = {s1}
  Tasks <- MCTasks
  Deps <- MCDeps
  MaxAttempts <- MCMaxAttempts
  Backoff <- MCBackoff
  Workers <- WorkerIDs
  SameEngine = FALSE
  MaxCalls = 2
  MaxPanics = 1
  MaxLapses = 0
  MaxFaults = 1
  MaxCancels = 1
  MaxCrashes = 1
  MaxExpiries = 1
  Transports = {"memory", "jetstream"}
  MaxTroubles = 3
INVARIANTS AttemptRunsOnce AckAfterDurable NeverStalls
PROPERTIES ImplementsLifecycle EveryCallReturns
CHECK_DEADLOCK FALSE
