----------------------------- MODULE DurableRun -----------------------------
(***************************************************************************)
(* The durable aggregate of one workflow run under competing schedulers:    *)
(* several engines may load the same run, each mutates its own copy, and    *)
(* every write is a compare-and-swap on the aggregate version (SaveRun of   *)
(* FileStore and PostgresStore).  Each action is one mutation of the        *)
(* in-memory aggregate together with the saveRun that follows it; the       *)
(* mutation is invisible to others until that save commits.                 *)
(***************************************************************************)
EXTENDS WorkflowRun

CONSTANTS Schedulers,   \* engines that may Execute or Recover the run
          WorkersOf,    \* WorkersOf[s]: worker IDs in the namespace of s
          MaxVersion    \* bound on the number of committed writes

ASSUME SchedulerAssumption ==
  /\ WorkersOf \in [Schedulers -> SUBSET Workers]
  /\ MaxVersion \in Nat

VARIABLES stored,      \* the persisted snapshot, or NoRun
          version,     \* its Version
          mem,         \* mem[s]: the aggregate scheduler s holds, or NoRun
          memVersion,  \* the version s last loaded or saved
          grants,      \* history: the leases that were committed
          ended        \* history: the attempt ends that were committed

vars == <<stored, version, mem, memVersion, grants, ended>>

GrantRecord == [task : Tasks, attempt : Nat, worker : Workers]

EndRecord == [task : Tasks, attempt : Nat, how : TaskStatuses]

Init ==
  /\ stored = NoRun /\ version = 0
  /\ mem = [s \in Schedulers |-> NoRun]
  /\ memVersion = [s \in Schedulers |-> 0]
  /\ grants = {} /\ ended = {}

\* Mutant: no version check.
CommitsAlways(s, run) == ValidSnapshot(run)

\* Mutant: the status of the stored run is compared, not its version.
CommitsOnStatus(s, run) == ValidSnapshot(run) /\ stored # NoRun /\ mem[s].status = stored.status

\* SaveRun: snapshot.Validate, then the version check, then the write with
\* the next version, which applyPersistedVersion copies into the aggregate.
Commits(s, run) == ValidSnapshot(run) /\ memVersion[s] = version

\* The attempts a write leases, and the attempts it brings to an end.
NewGrants(before, after) ==
  {[task |-> t, attempt |-> after.tasks[t].attempts, worker |-> after.tasks[t].lease] :
     t \in {u \in Tasks : before.tasks[u].status = "ready" /\ after.tasks[u].status = "running"}}

NewEnds(before, after) ==
  {[task |-> t, attempt |-> before.tasks[t].attempts, how |-> after.tasks[t].status] :
     t \in {u \in Tasks : before.tasks[u].status = "running" /\ after.tasks[u].status # "running"}}

\* The scheduler returns to its caller and its copy is gone.
Drop(s) ==
  /\ mem' = [mem EXCEPT ![s] = NoRun]
  /\ memVersion' = [memVersion EXCEPT ![s] = 0]
  /\ UNCHANGED <<stored, version, grants, ended>>

\* Mutant: the version is not advanced.
WriteSameVersion(s, run) ==
  /\ version < MaxVersion
  /\ stored' = run
  /\ version' = IF version = 0 THEN 1 ELSE version
  /\ mem' = [mem EXCEPT ![s] = run]
  /\ memVersion' = [memVersion EXCEPT ![s] = version']

Write(s, run) ==
  /\ version < MaxVersion
  /\ stored' = run
  /\ version' = version + 1
  /\ mem' = [mem EXCEPT ![s] = run]
  /\ memVersion' = [memVersion EXCEPT ![s] = version + 1]

SaveRun(s, run) ==
  \/ /\ Commits(s, run) /\ Write(s, run)
     /\ grants' = grants \cup NewGrants(mem[s], run)
     /\ ended' = ended \cup NewEnds(mem[s], run)
  \/ ~Commits(s, run) /\ Drop(s)

\* Copies of s that the scheduler loop goes on working with.
Active(s) == /\ mem[s] # NoRun
             /\ mem[s].status = "running"
             /\ RecoveredStatus(mem[s]) = "none"

\* Execute: CreateRun fails when the run ID exists.
CreateRun(s) ==
  /\ mem[s] = NoRun /\ stored = NoRun
  /\ Write(s, NewWorkflowRun)
  /\ UNCHANGED <<grants, ended>>

\* Recover: LoadRun and restoreWorkflowRun; a terminal run is returned as is.
LoadRun(s) ==
  /\ mem[s] = NoRun /\ stored # NoRun
  /\ stored.status \notin TerminalRun
  /\ mem' = [mem EXCEPT ![s] = stored]
  /\ memVersion' = [memVersion EXCEPT ![s] = version]
  /\ UNCHANGED <<stored, version, grants, ended>>

StartRun(s) ==
  /\ mem[s] # NoRun /\ mem[s].status = "pending"
  /\ SaveRun(s, TransitionWorkflow(mem[s], "running"))

MakeReady(s) ==
  /\ Active(s) /\ NewReady(mem[s]) # {}
  /\ SaveRun(s, MarkNewReady(mem[s]))

\* A delivered attempt is leased to the claiming worker.
LeaseTask(s, t, w) ==
  /\ Active(s) /\ mem[s].tasks[t].status = "ready"
  /\ SaveRun(s, StartTaskAttempt(mem[s], t, w))

Heartbeat(s, w) ==
  /\ Active(s)
  /\ SaveRun(s, RecordWorkerHeartbeat(mem[s], w))

\* A result for attempt n of t from worker w.  An ignored one saves nothing.
CompleteTask(s, t, w, n, result) ==
  /\ Active(s)
  /\ CompletionOutcome(mem[s], t, w, n, result) # "ignored"
  /\ SaveRun(s, AfterCompletion(mem[s], t, w, n, result))

\* The loop top: expired leases are recovered and due retries promoted.
RecoverDue(s) ==
  /\ Active(s)
  /\ ExpiredLeases(mem[s]) \cup DueRetries(mem[s]) # {}
  /\ SaveRun(s, PromoteDueRetries(RecoverExpiredLeases(mem[s])))

SucceedRun(s) ==
  /\ Active(s) /\ Completed(mem[s]) = Tasks
  /\ SaveRun(s, TransitionWorkflow(mem[s], "succeeded"))

\* failRun after a terminal task failure, and Recover finishing a run whose
\* failure was only partly recorded.
FailRun(s) ==
  /\ mem[s] # NoRun /\ mem[s].status = "running"
  /\ RecoveredStatus(mem[s]) \in {"failed", "none"}
  /\ SaveRun(s, FailedRun(mem[s]))

\* failRun after the save of RecoverDue reported an error: the mutations that
\* were not saved are part of the failed run.
FailUnsaved(s) ==
  /\ Active(s) /\ ExpiredLeases(mem[s]) # {}
  /\ SaveRun(s, FailedRun(PromoteDueRetries(RecoverExpiredLeases(mem[s]))))

\* cancelRun when the scheduler's context is done.
CancelRun(s) ==
  /\ mem[s] # NoRun /\ mem[s].status \in {"pending", "running"}
  /\ RecoveredStatus(mem[s]) \in {"canceled", "none"}
  /\ SaveRun(s, CanceledRun(mem[s]))

\* The scheduler returns, reports a storage or broker error, or crashes.
Return(s) == mem[s] # NoRun /\ Drop(s)

\* Clock.Now reaches the deadline of task t.  A copy that is out of date can
\* commit nothing, so its deadlines need no clock of their own.
PassDeadline(t) ==
  /\ stored # NoRun /\ stored.tasks[t].deadline = "ahead"
  /\ stored' = Late(stored, t)
  /\ mem' = [s \in Schedulers |-> IF memVersion[s] = version THEN Late(mem[s], t) ELSE mem[s]]
  /\ UNCHANGED <<version, memVersion, grants, ended>>

SchedulerStep(s) ==
  \/ CreateRun(s) \/ LoadRun(s) \/ StartRun(s) \/ MakeReady(s)
  \/ RecoverDue(s) \/ SucceedRun(s) \/ FailRun(s) \/ FailUnsaved(s) \/ CancelRun(s) \/ Return(s)
  \/ \E w \in WorkersOf[s] : Heartbeat(s, w)
  \/ \E t \in Tasks, w \in WorkersOf[s] : LeaseTask(s, t, w)
  \/ \E t \in Tasks, w \in WorkersOf[s], result \in Results :
       \E n \in 1..MaxAttempts[t] : CompleteTask(s, t, w, n, result)

Next == (\E s \in Schedulers : SchedulerStep(s)) \/ (\E t \in Tasks : PassDeadline(t))

Spec == Init /\ [][Next]_vars
-----------------------------------------------------------------------------
TypeOK ==
  /\ stored \in Run \cup {NoRun} /\ version \in Nat
  /\ mem \in [Schedulers -> Run \cup {NoRun}]
  /\ memVersion \in [Schedulers -> Nat]
  /\ grants \subseteq GrantRecord /\ ended \subseteq EndRecord

\* The version check of SaveRun is enough: a scheduler whose version is the
\* stored one holds exactly the stored aggregate, however many schedulers
\* loaded the run and whatever they did to their own copies.
CurrentCopyIsStored ==
  \A s \in Schedulers :
    mem[s] # NoRun => /\ memVersion[s] <= version
                      /\ memVersion[s] = version => mem[s] = stored

\* "competing schedulers may race, but only one can commit a particular lease
\* transition": no attempt ID is ever leased to two workers or leased twice.
OneGrantPerAttempt ==
  \A g, h \in grants : g.task = h.task /\ g.attempt = h.attempt => g = h

\* State application per attempt ID is at most once: completion, lease expiry
\* and cancellation, from any scheduler, end an attempt once and never two
\* different ways, and only an attempt that was leased.
AttemptEndsOnce ==
  /\ \A e, f \in ended : e.task = f.task /\ e.attempt = f.attempt => e = f
  /\ \A e \in ended : \E g \in grants : g.task = e.task /\ g.attempt = e.attempt

\* The stored run, seen as the abstract lifecycle.
DurableStatus == IF stored = NoRun THEN NoRun ELSE stored.status

DurableTask ==
  [t \in Tasks |->
     IF stored = NoRun
     THEN [status |-> "pending", attempts |-> 0, owner |-> NoWorker]
     ELSE [status |-> stored.tasks[t].status, attempts |-> stored.tasks[t].attempts,
           owner |-> stored.tasks[t].lease]]

Lifecycle == INSTANCE TaskLifecycle WITH status <- DurableStatus, task <- DurableTask

\* Every sequence of committed writes, by any number of schedulers, is a
\* lifecycle docs/architecture.md allows.
ImplementsLifecycle == Lifecycle!Spec

\* Dependents are unlocked only by success, across schedulers and recoveries.
DependencyOrder == Lifecycle!DependencyOrder

\* No retry, expiry or recovery path dispatches past EffectiveMaxAttempts.
AttemptsBounded == Lifecycle!AttemptsBounded
=============================================================================
