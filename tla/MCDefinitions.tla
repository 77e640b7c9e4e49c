--------------------------- MODULE MCDefinitions ---------------------------
(***************************************************************************)
(* What the scheduler and the API server compute on their own: every        *)
(* dependency graph of four tasks, definitions of two tasks with each kind  *)
(* of flaw, one task with each retry policy; and the rate limiter, on its   *)
(* own.                                                                     *)
(***************************************************************************)
EXTENDS WorkflowDefinition, RateLimiter, SequencesExt

NoRetry == [maxAttempts |-> 0, initial |-> 0, max |-> 0]
TaskOf(t, deps, retry) == [id |-> t, named |-> TRUE, deps |-> deps, retry |-> retry]
Listed(S) == SetToSortSeq(S, <)

Graphs4 ==
  {[t \in 1..4 |-> TaskOf(t, Listed(deps[t]), NoRetry)] :
     deps \in {f \in [1..4 -> SUBSET (1..4)] : \A t \in 1..4 : t \notin f[t]}}

Flawed ==
  {<<[id |-> a, named |-> named, deps |-> deps, retry |-> NoRetry], TaskOf(2, <<>>, NoRetry)>> :
     a \in 0..2, named \in BOOLEAN, deps \in UNION {[1..n -> 0..3] : n \in 0..2}}

Retrying ==
  {<<TaskOf(1, <<>>, [maxAttempts |-> n, initial |-> initial, max |-> max])>> :
     n \in {-1, 0, 7}, initial \in -1..5, max \in {-1, 0, 1, 3, 6, 15, 20, 31}}

MCDefinitionSet == Graphs4 \cup Flawed \cup Retrying \cup {<<>>}

\* No definition is looked at while the limiter is.
Nothing ==
  /\ definition = <<>> /\ phase = "rejected" /\ remaining = <<>> /\ ready = {} /\ order = <<>>
  /\ completed = {} /\ retries = <<>> /\ backoff = <<>>

\* The limiter at the end of its bounds.
Silent ==
  /\ now = MaxTime /\ windows = <<>> /\ calls = MaxCalls
  /\ reading = [c \in Callers |-> NoCall] /\ admitted = {} /\ begun = <<>> /\ early = {}

MCInit == (DefinitionInit /\ Silent) \/ (Nothing /\ LimiterInit)

MCNext ==
  \/ DefinitionNext /\ UNCHANGED limiterVars
  \/ LimiterNext /\ UNCHANGED definitionVars

MCSpec == MCInit /\ [][MCNext]_<<definitionVars, limiterVars>>

MCCallerSymmetry == Permutations(Callers)
=============================================================================
