SPECIFICATION FairSpec
CONSTANTS
  NoWorker = NoWorker
  NoRun = NoRun
  NoTask = 0
  Tasks <- MCTasks
  Deps <- MCDeps
  MaxAttempts <- MCMaxAttempts
  Backoff = {}
  Workers = {w}
  MaxRuns = 1
  Clients = {c}
  MaxRequests = 2
  MaxCalls = 2
  MaxConnects = 0
  MaxTroubles = 0
PROPERTY CancellationTakesEffect
CHECK_DEADLOCK FALSE
