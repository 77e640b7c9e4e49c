---------------------------- MODULE WorkflowRun ----------------------------
(***************************************************************************)
(* The workflow-run aggregate of internal/execution: run.go, reliability.go *)
(* and the snapshot rules of store.go, as operators on the record of a run. *)
(***************************************************************************)
EXTENDS RunRecord

NewTaskRun == [status |-> "pending", attempts |-> 0, lease |-> NoWorker, deadline |-> "none"]

\* newWorkflowRun: every task pending, no worker seen.
NewWorkflowRun ==
  [status |-> "pending", tasks |-> [t \in Tasks |-> NewTaskRun], workers |-> {}]

TransitionWorkflow(run, to) == [run EXCEPT !.status = to]

Completed(run) == {t \in Tasks : run.tasks[t].status = "succeeded"}

\* Mutant: a dependency only has to have started.
NewReadyOnceStarted(run) ==
  {t \in Tasks : /\ run.tasks[t].status = "pending"
                 /\ \A d \in Deps[t] : run.tasks[d].status # "pending"}

\* ReadyTasks of the definition, filtered by markNewReady to the pending ones.
NewReady(run) ==
  {t \in Tasks : run.tasks[t].status = "pending" /\ Deps[t] \subseteq Completed(run)}

\* transitionTask(t, TaskRunReady) for each task of NewReady.
MarkNewReady(run) ==
  [run EXCEPT !.tasks =
     [t \in Tasks |-> IF t \in NewReady(run)
                      THEN [run.tasks[t] EXCEPT !.status = "ready"]
                      ELSE run.tasks[t]]]

\* Mutant: an attempt that is retried is not counted.
EndAttemptUncounted(t, task) ==
  [task EXCEPT !.status = "ready", !.attempts = @ - 1, !.lease = NoWorker, !.deadline = "none"]

\* What becomes of an attempt that did not succeed and may be retried.
EndAttempt(t, task) ==
  IF task.attempts < MaxAttempts[t]
  THEN IF t \in Backoff
       THEN [task EXCEPT !.status = "retry_wait", !.lease = NoWorker, !.deadline = "ahead"]
       ELSE [task EXCEPT !.status = "ready", !.lease = NoWorker, !.deadline = "none"]
  ELSE [task EXCEPT !.status = "failed", !.lease = NoWorker, !.deadline = "none"]

Leased(task, w) ==
  [status |-> "running", attempts |-> task.attempts + 1, lease |-> w, deadline |-> "ahead"]

\* startTaskAttempt; its callers have checked that t is ready.
StartTaskAttempt(run, t, w) ==
  [run EXCEPT !.tasks = [@ EXCEPT ![t] = Leased(run.tasks[t], w)],
              !.workers = @ \cup {w}]

\* Mutant: a result completes whatever attempt is running.
HoldsAnyAttempt(run, t, w, n) == run.tasks[t].status = "running"

\* The identity check at the head of completeTaskAttempt.  The deadline of the
\* lease is not part of it.
HoldsAttempt(run, t, w, n) ==
  /\ run.tasks[t].status = "running"
  /\ run.tasks[t].attempts = n
  /\ run.tasks[t].lease = w

CompletionOutcome(run, t, w, n, result) ==
  IF ~HoldsAttempt(run, t, w, n) THEN "ignored"
  ELSE IF result = "ok" THEN "succeeded"
  ELSE IF result = "retryable" /\ n < MaxAttempts[t] THEN "retry_scheduled"
  ELSE "failed"

FinishedTask(task, status) ==
  [task EXCEPT !.status = status, !.lease = NoWorker, !.deadline = "none"]

CompleteTaskAttempt(run, t, w, n, result) ==
  LET outcome == CompletionOutcome(run, t, w, n, result)
      task    == run.tasks[t]
      next    == CASE outcome = "ignored"         -> task
                   [] outcome = "succeeded"       -> FinishedTask(task, "succeeded")
                   [] outcome = "retry_scheduled" -> EndAttempt(t, task)
                   [] outcome = "failed"          -> FinishedTask(task, "failed")
  IN  [run EXCEPT !.tasks = [@ EXCEPT ![t] = next]]

\* The aggregate after an identified completion; success unlocks dependents.
AfterCompletion(run, t, w, n, result) ==
  LET done == CompleteTaskAttempt(run, t, w, n, result)
  IN  IF CompletionOutcome(run, t, w, n, result) = "succeeded" THEN MarkNewReady(done) ELSE done

\* recoverExpiredLeases takes a running task whose lease is missing or expired.
ExpiredLeases(run) ==
  {t \in Tasks : /\ run.tasks[t].status = "running"
                 /\ run.tasks[t].lease = NoWorker \/ run.tasks[t].deadline = "passed"}

DueRetries(run) ==
  {t \in Tasks : run.tasks[t].status = "retry_wait" /\ run.tasks[t].deadline = "passed"}

Due(run) == ExpiredLeases(run) \cup DueRetries(run)

RecoverExpiredLeases(run) ==
  [run EXCEPT !.tasks =
     [t \in Tasks |-> IF t \in ExpiredLeases(run)
                      THEN EndAttempt(t, run.tasks[t])
                      ELSE run.tasks[t]]]

\* Mutant: a retry starts to count from zero.
PromoteAndReset(run) ==
  [run EXCEPT !.tasks =
     [t \in Tasks |-> IF t \in DueRetries(run)
                      THEN [run.tasks[t] EXCEPT !.status = "ready", !.attempts = 0, !.deadline = "none"]
                      ELSE run.tasks[t]]]

PromoteDueRetries(run) ==
  [run EXCEPT !.tasks =
     [t \in Tasks |-> IF t \in DueRetries(run)
                      THEN [run.tasks[t] EXCEPT !.status = "ready", !.deadline = "none"]
                      ELSE run.tasks[t]]]

\* recordWorkerHeartbeat: renews the leases of w that have not expired.
RecordWorkerHeartbeat(run, w) ==
  [run EXCEPT !.workers = @ \cup {w}]

\* cancelUnfinished: every task that is not terminal becomes canceled.
CancelUnfinished(run) ==
  [run EXCEPT !.tasks =
     [t \in Tasks |-> IF run.tasks[t].status \in Unfinished
                      THEN FinishedTask(run.tasks[t], "canceled")
                      ELSE run.tasks[t]]]

FailedRun(run) == TransitionWorkflow(CancelUnfinished(run), "failed")

CanceledRun(run) == TransitionWorkflow(CancelUnfinished(run), "canceled")

HasTask(run, status) == \E t \in Tasks : run.tasks[t].status = status

\* recoveredTerminalTaskState: how Recover must finish a run that was
\* interrupted between a task's terminal state and the run's.
RecoveredStatus(run) ==
  IF HasTask(run, "failed") THEN "failed"
  ELSE IF HasTask(run, "canceled") THEN "canceled"
  ELSE "none"

\* A run as Clock.Now sees it once it has reached the deadline of task t.
Late(run, t) ==
  IF run # NoRun /\ run.tasks[t].deadline = "ahead"
  THEN LET late == [run.tasks[t] EXCEPT !.deadline = "passed"]
       IN  [run EXCEPT !.tasks = [run.tasks EXCEPT ![t] = late]]
  ELSE run

ValidTaskRun(task) ==
  /\ task.status = "running" => task.attempts > 0
  /\ task.status \in {"succeeded", "failed"} => task.attempts > 0
  /\ task.status = "retry_wait" => task.attempts > 0 /\ task.deadline # "none"
  /\ task.lease # NoWorker => task.status = "running"

ValidLeases(run) ==
  /\ \A t, u \in Tasks :
       run.tasks[t].lease = run.tasks[u].lease /\ run.tasks[t].lease # NoWorker => t = u
  /\ \A t \in Tasks : run.tasks[t].lease # NoWorker => run.tasks[t].lease \in run.workers

ValidAggregate(run) ==
  LET statuses == {run.tasks[t].status : t \in Tasks}
  IN  CASE run.status = "pending"   -> statuses = {"pending"}
        [] run.status = "running"   -> TRUE
        [] run.status = "succeeded" -> statuses = {"succeeded"}
        [] run.status = "failed"    -> /\ statuses \cap Unfinished = {}
                                       /\ statuses \cap {"failed", "canceled"} # {}
        [] run.status = "canceled"  -> statuses \cap (Unfinished \cup {"failed"}) = {}

\* WorkflowRunSnapshot.Validate, which FileStore and PostgresStore call on
\* every write and restoreWorkflowRun on every load.
ValidSnapshot(run) ==
  /\ \A t \in Tasks : ValidTaskRun(run.tasks[t])
  /\ ValidLeases(run)
  /\ ValidAggregate(run)
=============================================================================
