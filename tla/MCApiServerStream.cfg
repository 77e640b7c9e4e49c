SPECIFICATION FairSpec
CONSTANTS
  NoWorker = NoWorker
  NoRun = NoRun
  NoTask = 0
  Tasks <- MCTasks
  Deps <- MCDeps
  MaxAttempts <- MCMaxAttemptsRetry
  Backoff = {}
  Workers = {w}
  MaxRuns = 1
  Clients = {c}
  MaxRequests = 2
  MaxCalls = 2
  MaxConnects = 1
  MaxTroubles = 1
 
PROPERTIES  AcceptedIsExecuted
CHECK_DEADLOCK FALSE
