------------------------ MODULE TaskLifecycleProofs ------------------------
(***************************************************************************)
(* The abstract lifecycle keeps its promises for every workflow definition: *)
(* any set of tasks, any dependencies, any retry policy, any workers.       *)
(***************************************************************************)
EXTENDS TaskLifecycle, TLAPS

\* The inductive invariant: the properties need nothing beside each other.
Inv == TypeOK /\ DependencyOrder /\ AttemptsBounded /\ FinishedConsistently

\* A new run satisfies the invariant, since every policy allows one attempt.
LEMMA InitInv == Init => Inv
BY DefinitionAssumption
   DEF Init, Inv, TypeOK, DependencyOrder, AttemptsBounded, FinishedConsistently,
       Fresh, AbstractTask, TaskStatuses, RunStatuses

\* What one write may do to one task, whatever it does to the others.
LEMMA TaskStep ==
  ASSUME Inv, Progress \/ Finish, NEW t \in Tasks
  PROVE  /\ task'[t] \in AbstractTask
         /\ task[t].status = "succeeded" => task'[t] = task[t]
         /\ \/ task'[t] = task[t]
            \/ Unlock(t) \/ Grant(t) \/ End(t) \/ Promote(t) \/ Cancel(t)
<1>1. task'[t] \in AbstractTask
  BY DEF Progress, Finish
<1>2. \/ task'[t] = task[t]
      \/ Unlock(t) \/ Grant(t) \/ End(t) \/ Promote(t) \/ Cancel(t)
  BY DEF Progress, Finish
<1>3. task[t].status = "succeeded" => task'[t] = task[t]
  BY <1>2 DEF Unlock, Grant, End, Promote, Cancel, Unfinished
<1> QED BY <1>1, <1>2, <1>3

\* Every committed write preserves the invariant.
LEMMA NextInv == Inv /\ [Next]_vars => Inv'
<1> SUFFICES ASSUME Inv, [Next]_vars PROVE Inv'
  OBVIOUS
<1>1. CASE Create
  BY <1>1 DEF Create, Inv, TypeOK, DependencyOrder, AttemptsBounded, FinishedConsistently, RunStatuses
<1>2. CASE UNCHANGED vars
  BY <1>2 DEF vars, Inv, TypeOK, DependencyOrder, AttemptsBounded, FinishedConsistently
<1>3. CASE Progress \/ Finish
  <2>1. TypeOK'
    BY <1>3 DEF Progress, Finish, TypeOK, RunStatuses, TerminalRun
  <2>2. AttemptsBounded'
    <3> SUFFICES ASSUME NEW t \in Tasks
                 PROVE  /\ task'[t].attempts <= MaxAttempts[t]
                        /\ task'[t].status \in {"pending", "ready", "retry_wait"} =>
                             task'[t].attempts < MaxAttempts[t]
      BY DEF AttemptsBounded
    <3>1. /\ task[t] \in AbstractTask
          /\ task[t].attempts <= MaxAttempts[t]
          /\ task[t].status \in {"pending", "ready", "retry_wait"} =>
               task[t].attempts < MaxAttempts[t]
          /\ MaxAttempts[t] \in Nat
      BY DefinitionAssumption DEF Inv, TypeOK, AttemptsBounded
    <3>2. CASE task'[t] = task[t]
      BY <3>1, <3>2
    <3>3. CASE Unlock(t) \/ Promote(t)
      BY <3>1, <3>3 DEF Unlock, Promote, AbstractTask
    <3>4. CASE Grant(t)
      BY <3>1, <3>4 DEF Grant, AbstractTask
    <3>5. CASE End(t)
      BY <3>1, <3>5 DEF End, AbstractTask
    <3>6. CASE Cancel(t)
      BY <3>1, <3>6 DEF Cancel, AbstractTask
    <3> QED BY <1>3, <3>2, <3>3, <3>4, <3>5, <3>6, TaskStep
  <2>3. DependencyOrder'
    <3> SUFFICES ASSUME NEW t \in Tasks, task'[t].status \notin {"pending", "canceled"},
                        NEW d \in Deps[t]
                 PROVE  task'[d].status = "succeeded"
      BY DEF DependencyOrder
    <3>1. d \in Tasks
      BY DefinitionAssumption
    <3>2. task[d].status = "succeeded" => task'[d].status = "succeeded"
      BY <1>3, <3>1, TaskStep
    <3>3. task[t].status \notin {"pending", "canceled"} => task[d].status = "succeeded"
      BY DEF Inv, DependencyOrder
    <3>4. task[t] \in AbstractTask
      BY DEF Inv, TypeOK
    <3>5. CASE task'[t] = task[t]
      BY <3>2, <3>3, <3>5
    <3>6. CASE Unlock(t)
      BY <3>6 DEF Unlock
    <3>7. CASE Grant(t) \/ End(t) \/ Promote(t)
      BY <3>2, <3>3, <3>7 DEF Grant, End, Promote
    <3>8. CASE Cancel(t)
      BY <3>4, <3>8 DEF Cancel, AbstractTask
    <3> QED BY <1>3, <3>5, <3>6, <3>7, <3>8, TaskStep
  <2>4. FinishedConsistently'
    BY <1>3 DEF Progress, Finish, FinishedConsistently, TerminalRun
  <2> QED BY <2>1, <2>2, <2>3, <2>4 DEF Inv
<1> QED BY <1>1, <1>2, <1>3 DEF Next

\* Every step changes owners and attempt counts only as OwnershipStep says.
LEMMA OwnershipOfNext == Inv /\ Next => OwnershipStep
<1> SUFFICES ASSUME Inv, Next, NEW t \in Tasks
             PROVE  /\ task[t].status = "succeeded" => task'[t] = task[t]
                    /\ task'[t].attempts # task[t].attempts =>
                         /\ task'[t].attempts = task[t].attempts + 1
                         /\ task[t].status = "ready" /\ task'[t].status = "running"
                    /\ task'[t].owner # task[t].owner =>
                         task'[t].owner = NoWorker \/ task'[t].attempts = task[t].attempts + 1
  BY DEF OwnershipStep
<1>1. task[t] \in AbstractTask
  BY DEF Inv, TypeOK
<1>2. CASE Create
  BY <1>2 DEF Create
<1>3. CASE Progress \/ Finish
  <2>1. CASE task'[t] = task[t]
    BY <2>1
  <2>2. CASE Unlock(t) \/ Promote(t)
    BY <1>1, <2>2 DEF Unlock, Promote, AbstractTask
  <2>3. CASE Grant(t)
    BY <1>1, <2>3 DEF Grant, AbstractTask
  <2>4. CASE End(t)
    BY <1>1, <2>4 DEF End, AbstractTask
  <2>5. CASE Cancel(t)
    BY <1>1, <2>5 DEF Cancel, Unfinished, AbstractTask
  <2> QED BY <1>3, <2>1, <2>2, <2>3, <2>4, <2>5, TaskStep
<1> QED BY <1>2, <1>3 DEF Next

\* The lifecycle keeps dependencies in order, attempts within the policy and
\* finished runs consistent, whatever is written and in whatever order.
THEOREM LifecycleInvariant == Spec => [](DependencyOrder /\ AttemptsBounded /\ FinishedConsistently)
<1>1. Inv => DependencyOrder /\ AttemptsBounded /\ FinishedConsistently
  BY DEF Inv
<1> QED BY InitInv, NextInv, <1>1, PTL DEF Spec

\* A success is never undone and an attempt never passes to another worker.
THEOREM LifecycleOwnership == Spec => Ownership
<1>1. Inv /\ [Next]_vars => [OwnershipStep]_vars
  BY OwnershipOfNext
<1> QED BY InitInv, NextInv, <1>1, PTL DEF Spec, Ownership
=============================================================================
