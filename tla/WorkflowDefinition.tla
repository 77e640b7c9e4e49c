------------------------- MODULE WorkflowDefinition -------------------------
(***************************************************************************)
(* workflow.WorkflowDefinition: Validate, which builds the dependency graph *)
(* and sorts it (TopologicalOrder), ReadyTasks, which a run asks for what    *)
(* it can do next, and RetryDelay, which it asks for the backoff.           *)
(*                                                                         *)
(* The sort is the loop of graph.go, one step per task it takes from its    *)
(* heap.  Once the definition is accepted, its tasks fail, wait and complete *)
(* in any order that ReadyTasks and their retry policies allow.             *)
(*                                                                         *)
(* A task ID is a number, with the order of the identifiers; 0 stands for   *)
(* one that is not valid.  Which of several flaws Validate reports is left  *)
(* out.                                                                     *)
(***************************************************************************)
EXTENDS Integers, Sequences, FiniteSets, FiniteSetsExt

CONSTANTS Definitions,   \* the definitions to look at
          MaxDuration    \* the largest time.Duration, 2^63 - 1 in the code

Policy == [maxAttempts : Int, initial : Int, max : Int]
TaskDefinition == [id : Nat, named : BOOLEAN, deps : Seq(Nat), retry : Policy]

ASSUME DefinitionsAssumption ==
  /\ Definitions \subseteq Seq(TaskDefinition)
  /\ MaxDuration \in Nat /\ MaxDuration % 2 = 1

VARIABLES definition,
          phase,       \* "given", "sorting", "accepted" or "rejected"
          remaining,   \* remainingIndegree
          ready,       \* the heap
          order,       \* what topologicalOrder returns
          completed,   \* the tasks a run of the definition has completed
          retries,     \* retries[t]: how often task t has failed
          backoff      \* backoff[t]: what RetryDelay returned last for it

sorting == <<phase, remaining, ready, order>>
executing == <<completed, retries, backoff>>
definitionVars == <<definition, sorting, executing>>
-----------------------------------------------------------------------------
Ids(d) == {d[i].id : i \in DOMAIN d}
Task(d, t) == d[CHOOSE i \in DOMAIN d : d[i].id = t]
Deps(d, t) == {Task(d, t).deps[k] : k \in DOMAIN Task(d, t).deps}

ValidIdentifier(t) == t # 0

\* invalidRetryPolicyReason.
ValidPolicy(p) ==
  /\ p.maxAttempts >= 0 /\ p.initial >= 0 /\ p.max >= 0
  /\ p.max > 0 => p.max >= p.initial

\* The dependencies of a task exist, are others, and are listed once.
ValidDependencies(d, i) ==
  \A k \in DOMAIN d[i].deps :
    /\ ValidIdentifier(d[i].deps[k]) /\ d[i].deps[k] # d[i].id
    /\ \A j \in DOMAIN d[i].deps : d[i].deps[j] = d[i].deps[k] => j = k
    /\ d[i].deps[k] \in Ids(d)

\* buildDependencyGraph returns no error.
WellFormed(d) ==
  /\ d # <<>>
  /\ \A i \in DOMAIN d :
       /\ ValidIdentifier(d[i].id) /\ d[i].named /\ ValidPolicy(d[i].retry)
       /\ \A j \in DOMAIN d : d[j].id = d[i].id => j = i
       /\ ValidDependencies(d, i)

\* The number of dependencies that buildDependencyGraph counts.
Indegree(d, t) == Len(Task(d, t).deps)

Build ==
  LET ids == Ids(definition)
  IN  /\ phase = "given"
      /\ \/ /\ WellFormed(definition)
            /\ phase' = "sorting"
            /\ remaining' = [t \in ids |-> Indegree(definition, t)]
            /\ ready' = {t \in ids : Indegree(definition, t) = 0}
         \/ /\ ~WellFormed(definition)
            /\ phase' = "rejected"
            /\ UNCHANGED <<remaining, ready>>
      /\ UNCHANGED <<definition, order, executing>>

\* Mutant: the heap gives the largest task first.
PopLargest(heap) == Max(heap)

Pop(heap) == Min(heap)

\* One iteration of topologicalOrder.
Visit ==
  LET t == Pop(ready)
      dependents == {u \in Ids(definition) : t \in Deps(definition, u)}
      left == [u \in Ids(definition) |-> IF u \in dependents THEN remaining[u] - 1 ELSE remaining[u]]
  IN  /\ phase = "sorting" /\ ready # {}
      /\ order' = Append(order, t)
      /\ remaining' = left
      /\ ready' = (ready \ {t}) \cup {u \in dependents : left[u] = 0}
      /\ UNCHANGED <<definition, phase, executing>>

\* Mutant: a sort that ran out of tasks is accepted.
FinishAccepting ==
  /\ phase = "sorting" /\ ready = {}
  /\ phase' = "accepted"
  /\ UNCHANGED <<definition, remaining, ready, order, executing>>

\* TopologicalOrder reports a cycle if a task is missing from the order.
Finish ==
  /\ phase = "sorting" /\ ready = {}
  /\ phase' = IF Len(order) = Cardinality(Ids(definition)) THEN "accepted" ELSE "rejected"
  /\ UNCHANGED <<definition, remaining, ready, order, executing>>
-----------------------------------------------------------------------------
ReadyTasks(d, done) == {t \in Ids(d) \ done : Deps(d, t) \subseteq done}

EffectiveMaxAttempts(p) == IF p.maxAttempts = 0 THEN 1 ELSE p.maxAttempts

\* Mutant: doubling wraps around.
DoubledWrapping(delay) == (2 * delay) % (MaxDuration + 1)

\* Doubling stops at the largest duration.
Doubled(delay) == IF delay > MaxDuration \div 2 THEN MaxDuration ELSE 2 * delay

\* The delay after attempt n; the loop ends early when it reaches the maximum.
RetryDelay(p, n) ==
  LET delay[a \in 1..n] ==
        IF a = 1 THEN p.initial
        ELSE IF p.max > 0 /\ delay[a - 1] >= p.max THEN p.max
        ELSE Doubled(delay[a - 1])
  IN  IF n < 1 \/ p.initial <= 0 THEN 0
      ELSE IF p.max > 0 /\ delay[n] > p.max THEN p.max
      ELSE delay[n]

Complete(t) ==
  /\ phase = "accepted" /\ t \in ReadyTasks(definition, completed)
  /\ completed' = completed \cup {t}
  /\ UNCHANGED <<definition, sorting, retries, backoff>>

\* An attempt fails and the policy allows another one, after a delay.
Retry(t) ==
  LET p == Task(definition, t).retry
      n == retries[t] + 1
  IN  /\ phase = "accepted" /\ t \in ReadyTasks(definition, completed)
      /\ n < EffectiveMaxAttempts(p)
      /\ retries' = [retries EXCEPT ![t] = n]
      /\ backoff' = [backoff EXCEPT ![t] = RetryDelay(p, n)]
      /\ UNCHANGED <<definition, sorting, completed>>

DefinitionInit ==
  /\ definition \in Definitions
  /\ phase = "given" /\ remaining = <<>> /\ ready = {} /\ order = <<>>
  /\ completed = {}
  /\ retries = [t \in Ids(definition) |-> 0]
  /\ backoff = [t \in Ids(definition) |-> 0]

DefinitionNext ==
  \/ Build \/ Visit \/ Finish
  \/ \E t \in Ids(definition) : Complete(t) \/ Retry(t)

DefinitionSpec == DefinitionInit /\ [][DefinitionNext]_definitionVars
-----------------------------------------------------------------------------
Before(p, i) == {p[j] : j \in 1..i - 1}

\* The orders of the tasks in which every task follows its dependencies.
Orders(d) ==
  LET n == Cardinality(Ids(d))
  IN  {p \in [1..n -> Ids(d)] :
         /\ \A i, j \in 1..n : p[i] = p[j] => i = j
         /\ \A i \in 1..n : Deps(d, p[i]) \subseteq Before(p, i)}

Smaller(p, q) ==
  \E i \in DOMAIN p : p[i] < q[i] /\ \A j \in 1..i - 1 : p[j] = q[j]

\* "TopologicalOrder returns the lexicographically smallest valid task
\* ordering" (graph.go:37), and reports a cycle exactly when there is none.
OrderIsSmallest ==
  /\ phase = "accepted" /\ completed = {} =>
       order \in Orders(definition) /\ \A p \in Orders(definition) : ~Smaller(p, order)
  /\ phase = "rejected" /\ WellFormed(definition) => Orders(definition) = {}

\* A definition that Validate accepts can always be continued: while a task is
\* not completed, ReadyTasks offers one, whatever was completed before.  The
\* scheduler relies on it; it treats the opposite as a stalled run.
NeverStuck ==
  phase = "accepted" /\ completed # Ids(definition) => ReadyTasks(definition, completed) # {}

\* "Attempt one uses InitialBackoff; later attempts double up to MaxBackoff when
\* it is set" (definition.go:32), for as many attempts as a policy allows and
\* without overflow.
BackoffDoubles ==
  \A t \in DOMAIN backoff :
    LET p == Task(definition, t).retry
    IN  retries[t] > 0 =>
          backoff[t] = Min({MaxDuration, p.initial * 2 ^ (retries[t] - 1)}
                             \cup (IF p.max > 0 THEN {p.max} ELSE {}))
=============================================================================
