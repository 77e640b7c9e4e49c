SPECIFICATION Spec
CONSTANTS
  t1 = t1
  t2 = t2
  t3 = t3
  wa = wa
  wb = wb
  sa = sa
  sb = sb
  NoWorker = NoWorker
  NoRun = NoRun
  Tasks <- MCTasks
  Deps <- MCDeps
  MaxAttempts <- MCMaxAttempts
  Backoff <- MCBackoff
  Workers <- MCWorkers
  Schedulers <- MCSchedulers
  WorkersOf <- MCWorkersOf
  MaxVersion = 10
INVARIANTS CurrentCopyIsStored OneGrantPerAttempt AttemptEndsOnce DependencyOrder
PROPERTY ImplementsLifecycle
CHECK_DEADLOCK FALSE
