SPECIFICATION Spec
CONSTANTS
  NoWorker = NoWorker
  NoRun = NoRun
  NoTask = 0
  Tasks <- MCTasks
  Deps <- MCDeps
  MaxAttempts <- MCMaxAttempts
  Backoff = {}
  Workers = {w}
  MaxRuns = 2
  Clients = {c}
  MaxRequests = 2
  MaxCalls = 2
  MaxConnects = 2
  MaxTroubles = 1
INVARIANTS EveryExecutionIsHeld ShutdownDrains OutcomeIsTold
PROPERTY FinishedIsFinal
CHECK_DEADLOCK FALSE
