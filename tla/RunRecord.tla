----------------------------- MODULE RunRecord ------------------------------
(***************************************************************************)
(* The record of one workflow run in internal/execution: the statuses of   *)
(* run.go, the task run and the run, and the workflow definition it is of. *)
(*                                                                         *)
(* A run is [status, tasks, workers].  A task run keeps its status, its    *)
(* AttemptCount, the WorkerID of its lease and the state of the one        *)
(* deadline it can have: Lease.ExpiresAt while it is running and           *)
(* NextAttemptAt while it waits for a retry.  The code only ever asks of a *)
(* deadline whether Clock.Now has reached it, so it is "ahead" or          *)
(* "passed".  CurrentAttemptID is AttemptIDFor(TaskRunID, AttemptCount),   *)
(* hence the pair of the task and its attempt count.                       *)
(***************************************************************************)
EXTENDS Naturals, FiniteSets

CONSTANTS Tasks,        \* the task IDs of the workflow definition
          Deps,         \* Deps[t]: the dependencies of task t
          MaxAttempts,  \* MaxAttempts[t]: EffectiveMaxAttempts of t's policy
          Backoff,      \* the tasks whose RetryDelay is not zero
          Workers,      \* every WorkerID that can appear in the run
          NoWorker,     \* a nil lease
          NoRun         \* a run that has not been created or is not held

TaskStatuses ==
  {"pending", "ready", "running", "retry_wait", "succeeded", "failed", "canceled"}

RunStatuses == {"pending", "running", "succeeded", "failed", "canceled"}

Unfinished == {"pending", "ready", "running", "retry_wait"}

TerminalRun == {"succeeded", "failed", "canceled"}

Deadlines == {"none", "ahead", "passed"}

Results == {"ok", "retryable", "fatal"}   \* nil, RetryableTaskError, any other error

TaskRun == [status : TaskStatuses, attempts : Nat,
            lease : Workers \cup {NoWorker}, deadline : Deadlines]

Run == [status : RunStatuses, tasks : [Tasks -> TaskRun], workers : SUBSET Workers]

ASSUME DefinitionAssumption ==
  /\ IsFiniteSet(Tasks) /\ Tasks # {}
  /\ Deps \in [Tasks -> SUBSET Tasks]
  /\ \A S \in SUBSET Tasks \ {{}} : \E t \in S : Deps[t] \cap S = {}   \* no cycle
  /\ MaxAttempts \in [Tasks -> Nat \ {0}]
  /\ Backoff \subseteq Tasks
  /\ NoWorker \notin Workers
  /\ NoRun \notin Run /\ NoRun \notin RunStatuses

LegalWorkflowTransition(from, to) ==
  \/ from = "pending" /\ to \in {"running", "canceled"}
  \/ from = "running" /\ to \in {"succeeded", "failed", "canceled"}
=============================================================================
