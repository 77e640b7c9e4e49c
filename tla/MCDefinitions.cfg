SPECIFICATION MCSpec
CONSTANTS
  Definitions <- MCDefinitionSet
  MaxDuration = 31
  Keys = {"u", "v"}
  Callers = {c1, c2, c3}
  Limit = 2
  Window = 2
  PruneEvery = 3
  MaxDelay = 1
  MaxTime = 4
  MaxCalls = 8
SYMMETRY MCCallerSymmetry
INVARIANTS OrderIsSmallest NeverStuck BackoffDoubles AdmissionsLimited
CHECK_DEADLOCK FALSE
