--------------------------- MODULE TaskLifecycle ---------------------------
(***************************************************************************)
(* What the durable record of one workflow run promises, whoever writes it: *)
(* the task and workflow transitions of docs/architecture.md as the code    *)
(* performs them.  DurableRun and Engine are shown to implement it.         *)
(*                                                                         *)
(* One step is one committed write of the aggregate, so several tasks may   *)
(* move at once: a completion unlocks its dependents in the same write, and *)
(* fail-fast cancels everything that is left.                               *)
(***************************************************************************)
EXTENDS RunRecord

VARIABLES status,   \* the durable workflow status, or NoRun
          task      \* task[t]: durable status, attempt count and lease owner

vars == <<status, task>>

AbstractTask == [status : TaskStatuses, attempts : Nat, owner : Workers \cup {NoWorker}]

Fresh == [status |-> "pending", attempts |-> 0, owner |-> NoWorker]

Init ==
  /\ status = NoRun
  /\ task = [t \in Tasks |-> Fresh]

Create ==
  /\ status = NoRun
  /\ status' = "pending"
  /\ UNCHANGED task

\* pending -> ready: the dependencies have succeeded by the end of the write.
Unlock(t) ==
  /\ task[t].status = "pending"
  /\ task'[t] = [task[t] EXCEPT !.status = "ready"]
  /\ \A d \in Deps[t] : task'[d].status = "succeeded"

\* ready -> running: the next attempt gets exactly one owner.
Grant(t) ==
  /\ task[t].status = "ready"
  /\ \E w \in Workers :
       task'[t] = [status |-> "running", attempts |-> task[t].attempts + 1, owner |-> w]

\* running -> succeeded | ready | retry_wait | failed: the attempt is over.
End(t) ==
  /\ task[t].status = "running"
  /\ \E to \in {"succeeded", "ready", "retry_wait", "failed"} :
       /\ to \in {"ready", "retry_wait"} => task[t].attempts < MaxAttempts[t]
       /\ task'[t] = [status |-> to, attempts |-> task[t].attempts, owner |-> NoWorker]

Promote(t) ==
  /\ task[t].status = "retry_wait"
  /\ task'[t] = [task[t] EXCEPT !.status = "ready"]

Cancel(t) ==
  /\ task[t].status \in Unfinished
  /\ task'[t] = [status |-> "canceled", attempts |-> task[t].attempts, owner |-> NoWorker]

\* A write that keeps the run going.
Progress ==
  /\ status \in {"pending", "running"}
  /\ status' = "running"
  /\ status = "pending" => task' = task
  /\ \A t \in Tasks : task'[t] = task[t] \/ Unlock(t) \/ Grant(t) \/ End(t) \/ Promote(t)
  /\ task' \in [Tasks -> AbstractTask]

\* The write that finishes the run.
Finish ==
  /\ status \in {"pending", "running"}
  /\ LegalWorkflowTransition(status, status')
  /\ status' \in TerminalRun
  /\ \A t \in Tasks : task'[t] = task[t] \/ Cancel(t) \/ End(t)
  /\ \A t \in Tasks : task'[t].status \notin Unfinished
  /\ status' = "succeeded" => \A t \in Tasks : task'[t].status = "succeeded"
  /\ status' = "canceled" => \A t \in Tasks : task'[t].status # "failed"
  /\ status' = "failed" => \E t \in Tasks : task'[t].status \in {"failed", "canceled"}
  /\ task' \in [Tasks -> AbstractTask]

Next == Create \/ Progress \/ Finish

Spec == Init /\ [][Next]_vars
-----------------------------------------------------------------------------
TypeOK ==
  /\ status \in RunStatuses \cup {NoRun}
  /\ task \in [Tasks -> AbstractTask]

\* A task leaves "pending" only when all it depends on has succeeded
\* (definition.ReadyTasks and markNewReady); a canceled task may never have
\* been unlocked.
DependencyOrder ==
  \A t \in Tasks : task[t].status \notin {"pending", "canceled"} =>
                     \A d \in Deps[t] : task[d].status = "succeeded"

\* AttemptCount never exceeds EffectiveMaxAttempts and a task that can still
\* be dispatched has an attempt left.
AttemptsBounded ==
  \A t \in Tasks : /\ task[t].attempts <= MaxAttempts[t]
                   /\ task[t].status \in {"pending", "ready", "retry_wait"} =>
                        task[t].attempts < MaxAttempts[t]

\* A finished run records how every task of it ended.
FinishedConsistently ==
  /\ status = "succeeded" => \A t \in Tasks : task[t].status = "succeeded"
  /\ status \in {"failed", "canceled"} => \A t \in Tasks : task[t].status \notin Unfinished
  /\ status = "canceled" => \A t \in Tasks : task[t].status # "failed"

\* A succeeded task stays succeeded with the attempt that succeeded, and an
\* attempt never changes owner: only a new attempt brings a new owner.
OwnershipStep ==
  \A t \in Tasks :
    /\ task[t].status = "succeeded" => task'[t] = task[t]
    /\ task'[t].attempts # task[t].attempts =>
         /\ task'[t].attempts = task[t].attempts + 1
         /\ task[t].status = "ready" /\ task'[t].status = "running"
    /\ task'[t].owner # task[t].owner =>
         task'[t].owner = NoWorker \/ task'[t].attempts = task[t].attempts + 1

Ownership == [][OwnershipStep]_vars
=============================================================================
