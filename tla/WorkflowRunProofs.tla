------------------------- MODULE WorkflowRunProofs -------------------------
(***************************************************************************)
(* What the mutations of the aggregate do to it.  Each one that the engine  *)
(* saves is a ProgressWrite or a FinishWrite of the aggregate it was given. *)
(***************************************************************************)
EXTENDS WorkflowRun, TLAPS

SameTask(b, a, t) ==
  /\ a.tasks[t].status = b.tasks[t].status
  /\ a.tasks[t].attempts = b.tasks[t].attempts
  /\ a.tasks[t].lease = b.tasks[t].lease

UnlockEdge(b, a, t) ==
  /\ b.tasks[t].status = "pending" /\ a.tasks[t].status = "ready"
  /\ a.tasks[t].attempts = b.tasks[t].attempts
  /\ a.tasks[t].lease = b.tasks[t].lease
  /\ \A d \in Deps[t] : a.tasks[d].status = "succeeded"

GrantEdge(b, a, t) ==
  /\ b.tasks[t].status = "ready" /\ a.tasks[t].status = "running"
  /\ a.tasks[t].attempts = b.tasks[t].attempts + 1
  /\ a.tasks[t].lease \in Workers

EndEdge(b, a, t) ==
  /\ b.tasks[t].status = "running"
  /\ a.tasks[t].status \in {"succeeded", "ready", "retry_wait", "failed"}
  /\ a.tasks[t].status \in {"ready", "retry_wait"} => b.tasks[t].attempts < MaxAttempts[t]
  /\ a.tasks[t].attempts = b.tasks[t].attempts
  /\ a.tasks[t].lease = NoWorker

PromoteEdge(b, a, t) ==
  /\ b.tasks[t].status = "retry_wait" /\ a.tasks[t].status = "ready"
  /\ a.tasks[t].attempts = b.tasks[t].attempts
  /\ a.tasks[t].lease = b.tasks[t].lease

CancelEdge(b, a, t) ==
  /\ b.tasks[t].status \in Unfinished /\ a.tasks[t].status = "canceled"
  /\ a.tasks[t].attempts = b.tasks[t].attempts
  /\ a.tasks[t].lease = NoWorker

ProgressWrite(b, a) ==
  /\ a \in Run
  /\ b.status \in {"pending", "running"} /\ a.status = "running"
  /\ b.status = "pending" => a.tasks = b.tasks
  /\ \A t \in Tasks : \/ SameTask(b, a, t) \/ UnlockEdge(b, a, t) \/ GrantEdge(b, a, t)
                      \/ EndEdge(b, a, t) \/ PromoteEdge(b, a, t)

FinishWrite(b, a) ==
  /\ a \in Run
  /\ LegalWorkflowTransition(b.status, a.status) /\ a.status \in TerminalRun
  /\ \A t \in Tasks : SameTask(b, a, t) \/ CancelEdge(b, a, t) \/ EndEdge(b, a, t)
  /\ ValidAggregate(a)
-----------------------------------------------------------------------------
\* Replacing the tasks of an aggregate leaves the rest of it alone.
LEMMA WithTasks ==
  ASSUME NEW run \in Run, NEW f \in [Tasks -> TaskRun]
  PROVE  /\ [run EXCEPT !.tasks = f] \in Run
         /\ [run EXCEPT !.tasks = f].tasks = f
         /\ [run EXCEPT !.tasks = f].status = run.status
BY DEF Run

\* TransitionWorkflow changes the status only.
LEMMA WithStatus ==
  ASSUME NEW run \in Run, NEW st \in RunStatuses
  PROVE  /\ TransitionWorkflow(run, st) \in Run
         /\ TransitionWorkflow(run, st).tasks = run.tasks
         /\ TransitionWorkflow(run, st).status = st
BY DEF Run, TransitionWorkflow

\* A new run is a run, with nothing running.
LEMMA NewRunType ==
  /\ NewWorkflowRun \in Run
  /\ NewWorkflowRun.status = "pending"
  /\ \A t \in Tasks : NewWorkflowRun.tasks[t] = NewTaskRun
BY DEF NewWorkflowRun, NewTaskRun, Run, TaskRun, RunStatuses, TaskStatuses, Deadlines

\* EndAttempt yields a task run that is no longer running and keeps its count.
LEMMA EndAttemptFacts ==
  ASSUME NEW t \in Tasks, NEW k \in TaskRun
  PROVE  /\ EndAttempt(t, k) \in TaskRun
         /\ EndAttempt(t, k).status \in {"ready", "retry_wait", "failed"}
         /\ EndAttempt(t, k).status # "failed" => k.attempts < MaxAttempts[t]
         /\ EndAttempt(t, k).attempts = k.attempts
         /\ EndAttempt(t, k).lease = NoWorker
BY DefinitionAssumption DEF EndAttempt, TaskRun, TaskStatuses, Deadlines

\* FinishedTask yields a task run with the given status and no lease.
LEMMA FinishedTaskFacts ==
  ASSUME NEW k \in TaskRun, NEW st \in TaskStatuses
  PROVE  /\ FinishedTask(k, st) \in TaskRun
         /\ FinishedTask(k, st).status = st
         /\ FinishedTask(k, st).attempts = k.attempts
         /\ FinishedTask(k, st).lease = NoWorker
BY DEF FinishedTask, TaskRun, Deadlines

\* markNewReady only unlocks tasks whose dependencies have succeeded.
LEMMA MarkNewReadyEdges ==
  ASSUME NEW run \in Run
  PROVE  /\ MarkNewReady(run) \in Run
         /\ MarkNewReady(run).status = run.status
         /\ \A t \in Tasks : \/ MarkNewReady(run).tasks[t] = run.tasks[t]
                             \/ UnlockEdge(run, MarkNewReady(run), t)
<1> DEFINE f == [t \in Tasks |-> IF t \in NewReady(run)
                                 THEN [run.tasks[t] EXCEPT !.status = "ready"]
                                 ELSE run.tasks[t]]
<1>1. run.tasks \in [Tasks -> TaskRun]
  BY DEF Run
<1>2. \A t \in Tasks : [run.tasks[t] EXCEPT !.status = "ready"] \in TaskRun
  BY <1>1 DEF TaskRun, TaskStatuses
<1>3. f \in [Tasks -> TaskRun]
  BY <1>1, <1>2
<1>4. MarkNewReady(run) = [run EXCEPT !.tasks = f]
  BY DEF MarkNewReady
<1> HIDE DEF f
<1>5. MarkNewReady(run) \in Run /\ MarkNewReady(run).status = run.status
      /\ MarkNewReady(run).tasks = f
  BY <1>3, <1>4, WithTasks
<1>6. ASSUME NEW t \in Tasks
      PROVE  \/ MarkNewReady(run).tasks[t] = run.tasks[t]
             \/ UnlockEdge(run, MarkNewReady(run), t)
  <2>1. CASE t \notin NewReady(run)
    BY <1>5, <2>1 DEF f
  <2>2. CASE t \in NewReady(run)
    <3>1. run.tasks[t].status = "pending" /\ Deps[t] \subseteq Completed(run)
      BY <2>2 DEF NewReady
    <3>2. \A d \in Deps[t] : d \in Tasks /\ run.tasks[d].status = "succeeded"
      BY <3>1 DEF Completed
    <3>3. \A d \in Deps[t] : d \notin NewReady(run)
      BY <3>2 DEF NewReady
    <3>4. \A d \in Deps[t] : f[d] = run.tasks[d]
      BY <3>2, <3>3 DEF f
    <3>5. f[t] = [run.tasks[t] EXCEPT !.status = "ready"]
      BY <2>2 DEF f
    <3>6. f[t].status = "ready" /\ f[t].attempts = run.tasks[t].attempts
          /\ f[t].lease = run.tasks[t].lease
      BY <1>1, <3>5 DEF TaskRun
    <3> QED BY <1>5, <3>1, <3>2, <3>4, <3>6 DEF UnlockEdge
  <2> QED BY <2>1, <2>2
<1> QED BY <1>5, <1>6

\* A started run is a progress write.
LEMMA StartIsProgress ==
  ASSUME NEW run \in Run, run.status = "pending"
  PROVE  ProgressWrite(run, TransitionWorkflow(run, "running"))
BY WithStatus DEF ProgressWrite, SameTask, RunStatuses

\* Unlocking is a progress write.
LEMMA MarkNewReadyIsProgress ==
  ASSUME NEW run \in Run, run.status = "running"
  PROVE  ProgressWrite(run, MarkNewReady(run))
BY MarkNewReadyEdges DEF ProgressWrite, SameTask

\* A lease is a progress write: one task starts its next attempt.
LEMMA LeaseIsProgress ==
  ASSUME NEW run \in Run, run.status = "running",
         NEW t \in Tasks, run.tasks[t].status = "ready", NEW w \in Workers
  PROVE  ProgressWrite(run, StartTaskAttempt(run, t, w))
<1> DEFINE a == StartTaskAttempt(run, t, w)
<1>1. run.tasks \in [Tasks -> TaskRun] /\ run.workers \in SUBSET Workers
  BY DEF Run
<1>2. Leased(run.tasks[t], w) \in TaskRun
  BY <1>1 DEF Leased, TaskRun, TaskStatuses, Deadlines
<1>3. a.tasks = [run.tasks EXCEPT ![t] = Leased(run.tasks[t], w)]
      /\ a.status = run.status /\ a \in Run
  BY <1>1, <1>2 DEF StartTaskAttempt, Run
<1>4. GrantEdge(run, a, t)
  BY <1>1, <1>3 DEF GrantEdge, Leased
<1>5. \A u \in Tasks \ {t} : SameTask(run, a, u)
  BY <1>1, <1>3 DEF SameTask
<1> QED BY <1>3, <1>4, <1>5 DEF ProgressWrite

\* A heartbeat is a progress write that moves no task.
LEMMA HeartbeatIsProgress ==
  ASSUME NEW run \in Run, run.status = "running", NEW w \in Workers
  PROVE  ProgressWrite(run, RecordWorkerHeartbeat(run, w))
<1> DEFINE a == RecordWorkerHeartbeat(run, w)
<1>1. a \in Run /\ a.status = run.status /\ a.tasks = run.tasks
  BY DEF RecordWorkerHeartbeat, Run
<1> QED BY <1>1 DEF ProgressWrite, SameTask

\* An identified completion ends exactly the attempt it names.
LEMMA CompletionEnds ==
  ASSUME NEW run \in Run, NEW t \in Tasks, NEW w, NEW n, NEW result \in Results,
         CompletionOutcome(run, t, w, n, result) # "ignored"
  PROVE  LET a == CompleteTaskAttempt(run, t, w, n, result) IN
         /\ a \in Run /\ a.status = run.status
         /\ EndEdge(run, a, t)
         /\ \A u \in Tasks \ {t} : a.tasks[u] = run.tasks[u]
         /\ CompletionOutcome(run, t, w, n, result) = "succeeded" => a.tasks[t].status = "succeeded"
<1> DEFINE a == CompleteTaskAttempt(run, t, w, n, result)
           o == CompletionOutcome(run, t, w, n, result)
           k == run.tasks[t]
           next == CASE o = "ignored"         -> k
                     [] o = "succeeded"       -> FinishedTask(k, "succeeded")
                     [] o = "retry_scheduled" -> EndAttempt(t, k)
                     [] o = "failed"          -> FinishedTask(k, "failed")
<1>1. run.tasks \in [Tasks -> TaskRun] /\ k \in TaskRun
  BY DEF Run
<1>2. HoldsAttempt(run, t, w, n) /\ o \in {"succeeded", "retry_scheduled", "failed"}
  BY DEF CompletionOutcome
<1>3. k.status = "running" /\ k.attempts = n
  BY <1>2 DEF HoldsAttempt
<1>4. o = "retry_scheduled" => k.attempts < MaxAttempts[t]
  BY <1>2, <1>3 DEF CompletionOutcome
<1>5. a = [run EXCEPT !.tasks = [run.tasks EXCEPT ![t] = next]]
  BY DEF CompleteTaskAttempt
<1>6. /\ next \in TaskRun /\ next.attempts = k.attempts /\ next.lease = NoWorker
      /\ next.status \in {"succeeded", "ready", "retry_wait", "failed"}
      /\ next.status \in {"ready", "retry_wait"} => k.attempts < MaxAttempts[t]
      /\ o = "succeeded" => next.status = "succeeded"
  <2>1. CASE o = "succeeded"
    BY <1>1, <2>1, FinishedTaskFacts DEF TaskStatuses
  <2>2. CASE o = "failed"
    BY <1>1, <2>2, FinishedTaskFacts DEF TaskStatuses
  <2>3. CASE o = "retry_scheduled"
    BY <1>1, <1>4, <2>3, EndAttemptFacts
  <2> QED BY <1>2, <2>1, <2>2, <2>3
<1> HIDE DEF next, o
<1> DEFINE f == [run.tasks EXCEPT ![t] = next]
<1>7. f \in [Tasks -> TaskRun] /\ a = [run EXCEPT !.tasks = f]
  BY <1>1, <1>5, <1>6
<1> HIDE DEF f
<1>8. a \in Run /\ a.status = run.status /\ a.tasks = f
  BY <1>7, WithTasks
<1>9. a.tasks[t] = next /\ \A u \in Tasks \ {t} : a.tasks[u] = run.tasks[u]
  BY <1>1, <1>8 DEF f
<1>10. EndEdge(run, a, t)
  BY <1>3, <1>6, <1>9 DEF EndEdge
<1> QED BY <1>6, <1>8, <1>9, <1>10 DEF o

\* A completion, with the tasks its success unlocks, is a progress write.
LEMMA CompletionIsProgress ==
  ASSUME NEW run \in Run, run.status = "running",
         NEW t \in Tasks, NEW w, NEW n, NEW result \in Results,
         CompletionOutcome(run, t, w, n, result) # "ignored"
  PROVE  ProgressWrite(run, AfterCompletion(run, t, w, n, result))
<1> DEFINE c == CompleteTaskAttempt(run, t, w, n, result)
           o == CompletionOutcome(run, t, w, n, result)
           a == AfterCompletion(run, t, w, n, result)
<1>1. /\ c \in Run /\ c.status = run.status /\ EndEdge(run, c, t)
      /\ \A u \in Tasks \ {t} : c.tasks[u] = run.tasks[u]
      /\ o = "succeeded" => c.tasks[t].status = "succeeded"
  BY CompletionEnds
<1>2. a = IF o = "succeeded" THEN MarkNewReady(c) ELSE c
  BY DEF AfterCompletion
<1> HIDE DEF c, o, a
<1>3. CASE o # "succeeded"
  <2>1. a = c
    BY <1>2, <1>3
  <2> QED BY <1>1, <2>1 DEF ProgressWrite, SameTask, a
<1>4. CASE o = "succeeded"
  <2>1. a = MarkNewReady(c) /\ c.tasks[t].status = "succeeded"
    BY <1>1, <1>2, <1>4
  <2>2. /\ a \in Run /\ a.status = c.status
        /\ \A u \in Tasks : a.tasks[u] = c.tasks[u] \/ UnlockEdge(c, a, u)
    BY <1>1, <2>1, MarkNewReadyEdges
  <2>3. a.tasks[t] = c.tasks[t]
    BY <2>1, <2>2 DEF UnlockEdge
  <2>4. EndEdge(run, a, t)
    BY <1>1, <2>3 DEF EndEdge
  <2>5. \A u \in Tasks \ {t} : SameTask(run, a, u) \/ UnlockEdge(run, a, u)
    BY <1>1, <2>2 DEF UnlockEdge, SameTask
  <2> QED BY <1>1, <2>2, <2>4, <2>5 DEF ProgressWrite, a
<1> QED BY <1>3, <1>4 DEF a

\* Recovering expired leases ends exactly the attempts whose lease expired.
LEMMA RecoverExpiredEdges ==
  ASSUME NEW run \in Run
  PROVE  LET a == RecoverExpiredLeases(run) IN
         /\ a \in Run /\ a.status = run.status
         /\ \A t \in Tasks : \/ a.tasks[t] = run.tasks[t]
                             \/ EndEdge(run, a, t) /\ a.tasks[t].status # "succeeded"
<1> DEFINE a == RecoverExpiredLeases(run)
           f == [t \in Tasks |-> IF t \in ExpiredLeases(run)
                                 THEN EndAttempt(t, run.tasks[t]) ELSE run.tasks[t]]
<1>1. run.tasks \in [Tasks -> TaskRun]
  BY DEF Run
<1>2. f \in [Tasks -> TaskRun] /\ a = [run EXCEPT !.tasks = f]
  BY <1>1, EndAttemptFacts DEF RecoverExpiredLeases
<1> HIDE DEF f
<1>3. a \in Run /\ a.status = run.status /\ a.tasks = f
  BY <1>2, WithTasks
<1>4. ASSUME NEW t \in Tasks, t \in ExpiredLeases(run)
      PROVE  EndEdge(run, a, t) /\ a.tasks[t].status # "succeeded"
  <2>1. run.tasks[t].status = "running"
    BY <1>4 DEF ExpiredLeases
  <2>2. a.tasks[t] = EndAttempt(t, run.tasks[t])
    BY <1>3, <1>4 DEF f
  <2> QED BY <1>1, <2>1, <2>2, EndAttemptFacts DEF EndEdge
<1>5. \A t \in Tasks : t \notin ExpiredLeases(run) => a.tasks[t] = run.tasks[t]
  BY <1>3 DEF f
<1> QED BY <1>3, <1>4, <1>5

\* Promoting due retries makes waiting tasks ready and nothing else.
LEMMA PromoteEdges ==
  ASSUME NEW run \in Run
  PROVE  LET a == PromoteDueRetries(run) IN
         /\ a \in Run /\ a.status = run.status
         /\ \A t \in Tasks : a.tasks[t] = run.tasks[t] \/ PromoteEdge(run, a, t)
<1> DEFINE a == PromoteDueRetries(run)
           promoted(t) == [run.tasks[t] EXCEPT !.status = "ready", !.deadline = "none"]
           f == [t \in Tasks |-> IF t \in DueRetries(run) THEN promoted(t) ELSE run.tasks[t]]
<1>1. run.tasks \in [Tasks -> TaskRun]
  BY DEF Run
<1>2. \A t \in Tasks : /\ promoted(t) \in TaskRun /\ promoted(t).status = "ready"
                       /\ promoted(t).attempts = run.tasks[t].attempts
                       /\ promoted(t).lease = run.tasks[t].lease
  BY <1>1 DEF TaskRun, TaskStatuses, Deadlines
<1>3. a = [run EXCEPT !.tasks = f]
  BY DEF PromoteDueRetries
<1> HIDE DEF promoted
<1>4. f \in [Tasks -> TaskRun]
  BY <1>1, <1>2
<1> HIDE DEF f
<1>5. a \in Run /\ a.status = run.status /\ a.tasks = f
  BY <1>3, <1>4, WithTasks
<1>6. ASSUME NEW t \in Tasks, t \in DueRetries(run)
      PROVE  PromoteEdge(run, a, t)
  <2>1. run.tasks[t].status = "retry_wait" /\ a.tasks[t] = promoted(t)
    BY <1>5, <1>6 DEF DueRetries, f
  <2> QED BY <1>2, <2>1 DEF PromoteEdge
<1>7. \A t \in Tasks : t \notin DueRetries(run) => a.tasks[t] = run.tasks[t]
  BY <1>5 DEF f
<1> QED BY <1>5, <1>6, <1>7

\* The loop-top write: a task promoted here was waiting before it or has just
\* lost its lease with an attempt left.
LEMMA RecoverDueEdges ==
  ASSUME NEW run \in Run
  PROVE  LET a == PromoteDueRetries(RecoverExpiredLeases(run)) IN
         /\ a \in Run /\ a.status = run.status
         /\ \A t \in Tasks : \/ SameTask(run, a, t)
                             \/ EndEdge(run, a, t) /\ a.tasks[t].status # "succeeded"
                             \/ PromoteEdge(run, a, t)
<1> DEFINE r == RecoverExpiredLeases(run)
           a == PromoteDueRetries(r)
<1>1. /\ r \in Run /\ r.status = run.status
      /\ \A t \in Tasks : \/ r.tasks[t] = run.tasks[t]
                          \/ EndEdge(run, r, t) /\ r.tasks[t].status # "succeeded"
  BY RecoverExpiredEdges
<1> HIDE DEF r
<1>2. /\ a \in Run /\ a.status = r.status
      /\ \A t \in Tasks : a.tasks[t] = r.tasks[t] \/ PromoteEdge(r, a, t)
  BY <1>1, PromoteEdges
<1> HIDE DEF a
<1>3. ASSUME NEW t \in Tasks
      PROVE  \/ SameTask(run, a, t)
             \/ EndEdge(run, a, t) /\ a.tasks[t].status # "succeeded"
             \/ PromoteEdge(run, a, t)
  <2>1. CASE r.tasks[t] = run.tasks[t]
    BY <1>2, <2>1 DEF SameTask, PromoteEdge
  <2>2. CASE EndEdge(run, r, t) /\ r.tasks[t].status # "succeeded"
    <3>1. CASE a.tasks[t] = r.tasks[t]
      BY <2>2, <3>1 DEF EndEdge
    <3>2. CASE PromoteEdge(r, a, t)
      BY <2>2, <3>2 DEF EndEdge, PromoteEdge
    <3> QED BY <1>2, <3>1, <3>2
  <2> QED BY <1>1, <2>1, <2>2
<1> QED BY <1>1, <1>2, <1>3 DEF a, r

\* The loop-top write is a progress write.
LEMMA RecoverDueIsProgress ==
  ASSUME NEW run \in Run, run.status = "running"
  PROVE  ProgressWrite(run, PromoteDueRetries(RecoverExpiredLeases(run)))
BY RecoverDueEdges DEF ProgressWrite

\* cancelUnfinished cancels what is unfinished and leaves the rest alone.
LEMMA CancelUnfinishedEdges ==
  ASSUME NEW run \in Run
  PROVE  LET a == CancelUnfinished(run) IN
         /\ a \in Run /\ a.status = run.status
         /\ \A t \in Tasks : IF run.tasks[t].status \in Unfinished
                             THEN CancelEdge(run, a, t)
                             ELSE a.tasks[t] = run.tasks[t]
<1> DEFINE a == CancelUnfinished(run)
           f == [t \in Tasks |-> IF run.tasks[t].status \in Unfinished
                                 THEN FinishedTask(run.tasks[t], "canceled") ELSE run.tasks[t]]
<1>1. run.tasks \in [Tasks -> TaskRun] /\ "canceled" \in TaskStatuses
  BY DEF Run, TaskStatuses
<1>2. f \in [Tasks -> TaskRun] /\ a = [run EXCEPT !.tasks = f]
  BY <1>1, FinishedTaskFacts DEF CancelUnfinished
<1> HIDE DEF f
<1>3. a \in Run /\ a.status = run.status /\ a.tasks = f
  BY <1>2, WithTasks
<1>4. ASSUME NEW t \in Tasks, run.tasks[t].status \in Unfinished
      PROVE  CancelEdge(run, a, t)
  <2>1. a.tasks[t] = FinishedTask(run.tasks[t], "canceled")
    BY <1>3, <1>4 DEF f
  <2> QED BY <1>1, <1>4, <2>1, FinishedTaskFacts DEF CancelEdge
<1>5. \A t \in Tasks : run.tasks[t].status \notin Unfinished => a.tasks[t] = run.tasks[t]
  BY <1>3 DEF f
<1> QED BY <1>3, <1>4, <1>5

\* run is what has become of base by unlocking, by ending attempts and by
\* promoting retries: the unsaved mutations of a loop top.
Behind(base, run) ==
  /\ run.status = base.status
  /\ \A t \in Tasks : \/ SameTask(base, run, t) \/ UnlockEdge(base, run, t)
                      \/ EndEdge(base, run, t) \/ PromoteEdge(base, run, t)

\* failRun and cancelRun are finish writes, also when they carry along the
\* unsaved mutations of the loop top.
LEMMA EndRunIsFinish ==
  ASSUME NEW run \in Run, NEW base \in Run, Behind(run, base),
         NEW st \in {"failed", "canceled"},
         LegalWorkflowTransition(run.status, st),
         ValidAggregate(TransitionWorkflow(CancelUnfinished(base), st))
  PROVE  FinishWrite(run, TransitionWorkflow(CancelUnfinished(base), st))
<1> DEFINE c == CancelUnfinished(base)
           a == TransitionWorkflow(c, st)
<1>1. /\ c \in Run
      /\ \A t \in Tasks : IF base.tasks[t].status \in Unfinished
                          THEN CancelEdge(base, c, t) ELSE c.tasks[t] = base.tasks[t]
  BY CancelUnfinishedEdges
<1>2. st \in RunStatuses /\ st \in TerminalRun
  BY DEF RunStatuses, TerminalRun
<1> HIDE DEF c
<1>3. a \in Run /\ a.tasks = c.tasks /\ a.status = st
  BY <1>1, <1>2, WithStatus
<1>4. ASSUME NEW t \in Tasks
      PROVE  SameTask(run, a, t) \/ CancelEdge(run, a, t) \/ EndEdge(run, a, t)
  <2>1. CASE base.tasks[t].status \in Unfinished
    <3>1. CancelEdge(base, a, t)
      BY <1>1, <1>3, <2>1 DEF CancelEdge
    <3>2. run.tasks[t].status \in Unfinished /\ base.tasks[t].attempts = run.tasks[t].attempts
      BY <2>1 DEF Behind, SameTask, UnlockEdge, EndEdge, PromoteEdge, Unfinished
    <3> QED BY <3>1, <3>2 DEF CancelEdge
  <2>2. CASE base.tasks[t].status \notin Unfinished
    <3>1. a.tasks[t] = base.tasks[t]
      BY <1>1, <1>3, <2>2
    <3> QED BY <2>2, <3>1 DEF Behind, SameTask, UnlockEdge, EndEdge, PromoteEdge, Unfinished
  <2> QED BY <2>1, <2>2
<1>5. ValidAggregate(a)
  BY DEF c
<1> QED BY <1>2, <1>3, <1>4, <1>5 DEF FinishWrite, c

\* Succeeding is a finish write that moves no task.
LEMMA SucceedIsFinish ==
  ASSUME NEW run \in Run, run.status = "running",
         ValidAggregate(TransitionWorkflow(run, "succeeded"))
  PROVE  FinishWrite(run, TransitionWorkflow(run, "succeeded"))
<1> DEFINE a == TransitionWorkflow(run, "succeeded")
<1>1. a \in Run /\ a.tasks = run.tasks /\ a.status = "succeeded"
  BY WithStatus DEF RunStatuses
<1> HIDE DEF a
<1>2. \A t \in Tasks : SameTask(run, a, t)
  BY <1>1 DEF SameTask
<1>3. ValidAggregate(a)
  BY DEF a
<1> QED BY <1>1, <1>2, <1>3 DEF FinishWrite, LegalWorkflowTransition, TerminalRun, a

\* A deadline that passes leaves status, attempts and lease of every task alone.
LEMMA LateFacts ==
  ASSUME NEW run \in Run, NEW t \in Tasks
  PROVE  /\ Late(run, t) \in Run
         /\ Late(run, t).status = run.status
         /\ \A u \in Tasks : SameTask(run, Late(run, t), u)
<1>1. CASE run.tasks[t].deadline # "ahead"
  <2>1. Late(run, t) = run
    BY <1>1 DEF Late
  <2> QED BY <2>1 DEF SameTask
<1>2. CASE run.tasks[t].deadline = "ahead"
  <2> DEFINE k == [run.tasks[t] EXCEPT !.deadline = "passed"]
             f == [run.tasks EXCEPT ![t] = k]
  <2>1. run.tasks \in [Tasks -> TaskRun] /\ run # NoRun
    BY DefinitionAssumption DEF Run
  <2>2. /\ k \in TaskRun /\ k.status = run.tasks[t].status
        /\ k.attempts = run.tasks[t].attempts /\ k.lease = run.tasks[t].lease
    BY <2>1 DEF TaskRun, Deadlines
  <2>3. Late(run, t) = [run EXCEPT !.tasks = f]
    BY <1>2, <2>1 DEF Late
  <2> HIDE DEF k
  <2>4. f \in [Tasks -> TaskRun] /\ f[t] = k /\ \A u \in Tasks \ {t} : f[u] = run.tasks[u]
    BY <2>1, <2>2
  <2> HIDE DEF f
  <2>5. Late(run, t) \in Run /\ Late(run, t).status = run.status /\ Late(run, t).tasks = f
    BY <2>3, <2>4, WithTasks
  <2> QED BY <2>2, <2>4, <2>5 DEF SameTask
<1> QED BY <1>1, <1>2
-----------------------------------------------------------------------------
(* What a write may do to the aggregate, and what it cannot undo.          *)

TaskMove(b, a, t) ==
  \/ SameTask(b, a, t) \/ UnlockEdge(b, a, t) \/ GrantEdge(b, a, t)
  \/ EndEdge(b, a, t) \/ PromoteEdge(b, a, t) \/ CancelEdge(b, a, t)

Wrote(b, a) ==
  \/ a = b
  \/ b = NoRun /\ a = NewWorkflowRun
  \/ ProgressWrite(b, a)
  \/ FinishWrite(b, a)
  \/ \E t \in Tasks : a = Late(b, t)

\* A run stays a run, and its tasks move along the edges.
LEMMA WroteFacts ==
  ASSUME NEW b \in Run, NEW a, Wrote(b, a)
  PROVE  a \in Run /\ \A t \in Tasks : TaskMove(b, a, t)
<1>0. b # NoRun
  BY DefinitionAssumption
<1>1. CASE a = b
  BY <1>1 DEF TaskMove, SameTask
<1>2. CASE ProgressWrite(b, a)
  BY <1>2 DEF TaskMove, ProgressWrite
<1>3. CASE FinishWrite(b, a)
  BY <1>3 DEF TaskMove, FinishWrite
<1>4. ASSUME NEW u \in Tasks, a = Late(b, u)
      PROVE  a \in Run /\ \A t \in Tasks : TaskMove(b, a, t)
  BY <1>4, LateFacts DEF TaskMove
<1> QED BY <1>0, <1>1, <1>2, <1>3, <1>4 DEF Wrote

\* Only a write that finishes the run changes the status from "running", and
\* nothing is written to a finished run.
LEMMA WroteStatus ==
  ASSUME NEW b \in Run, NEW a, Wrote(b, a)
  PROVE  \/ a.status = b.status
         \/ b.status = "pending" /\ a.status = "running"
         \/ FinishWrite(b, a) /\ a.status \in TerminalRun /\ b.status \in {"pending", "running"}
<1>0. b # NoRun
  BY DefinitionAssumption
<1>1. CASE a = b
  BY <1>1
<1>2. CASE ProgressWrite(b, a)
  BY <1>2 DEF ProgressWrite
<1>3. CASE FinishWrite(b, a)
  BY <1>3 DEF FinishWrite, LegalWorkflowTransition
<1>4. ASSUME NEW u \in Tasks, a = Late(b, u)
      PROVE  a.status = b.status
  BY <1>4, LateFacts
<1> QED BY <1>0, <1>1, <1>2, <1>3, <1>4 DEF Wrote

\* The attempt n of task t was made ready; it is over.
Issued(r, t, n) ==
  \/ n <= r.tasks[t].attempts
  \/ /\ n = r.tasks[t].attempts + 1
     /\ r.tasks[t].status = "ready" \/ r.status \in TerminalRun

Over(r, t, n) ==
  \/ n < r.tasks[t].attempts
  \/ n = r.tasks[t].attempts /\ r.tasks[t].status # "running"

\* Worker w may hold attempt n of task t.
Tenable(r, w, t, n) ==
  /\ n <= r.tasks[t].attempts
  /\ n = r.tasks[t].attempts /\ r.tasks[t].status = "running" => r.tasks[t].lease = w

\* What has been issued, is over, is tenable or has been reached stays so.
LEMMA Stable ==
  ASSUME NEW b \in Run, NEW a, Wrote(b, a), NEW t \in Tasks, NEW n \in Nat, NEW w
  PROVE  /\ a # NoRun
         /\ Issued(b, t, n) => Issued(a, t, n)
         /\ Over(b, t, n) => Over(a, t, n)
         /\ Tenable(b, w, t, n) => Tenable(a, w, t, n)
         /\ n <= b.tasks[t].attempts => n <= a.tasks[t].attempts
<1>1. a \in Run /\ TaskMove(b, a, t)
  BY WroteFacts
<1>2. a # NoRun
  BY <1>1, DefinitionAssumption
<1>3. /\ b.tasks[t].attempts \in Nat /\ a.tasks[t].attempts \in Nat
      /\ b.tasks[t].status \in TaskStatuses /\ a.tasks[t].status \in TaskStatuses
  BY <1>1 DEF Run, TaskRun
<1>4. \/ a.tasks[t].attempts = b.tasks[t].attempts
      \/ a.tasks[t].attempts = b.tasks[t].attempts + 1 /\ b.tasks[t].status = "ready"
  BY <1>1 DEF TaskMove, SameTask, UnlockEdge, GrantEdge, EndEdge, PromoteEdge, CancelEdge
<1>5. a.tasks[t].status = "running" /\ a.tasks[t].attempts = b.tasks[t].attempts =>
        b.tasks[t].status = "running" /\ a.tasks[t].lease = b.tasks[t].lease
  BY <1>1, <1>3 DEF TaskMove, SameTask, UnlockEdge, GrantEdge, EndEdge, PromoteEdge, CancelEdge
<1>6. b.tasks[t].status = "ready" /\ a.tasks[t].attempts = b.tasks[t].attempts =>
        a.tasks[t].status = "ready" \/ CancelEdge(b, a, t)
  BY <1>1, <1>3 DEF TaskMove, SameTask, UnlockEdge, GrantEdge, EndEdge, PromoteEdge, CancelEdge
<1>7. CancelEdge(b, a, t) => a.status \in TerminalRun
  <2> SUFFICES ASSUME CancelEdge(b, a, t) PROVE a.status \in TerminalRun
    OBVIOUS
  <2>1. ~SameTask(b, a, t) /\ ~UnlockEdge(b, a, t) /\ ~GrantEdge(b, a, t)
        /\ ~EndEdge(b, a, t) /\ ~PromoteEdge(b, a, t)
    BY DEF CancelEdge, SameTask, UnlockEdge, GrantEdge, EndEdge, PromoteEdge, Unfinished
  <2>2. ~ProgressWrite(b, a)
    BY <2>1 DEF ProgressWrite
  <2>3. a # b
    BY <2>1 DEF SameTask
  <2>4. \A u \in Tasks : a # Late(b, u)
    BY <2>1, LateFacts
  <2>5. FinishWrite(b, a)
    BY <2>2, <2>3, <2>4, DefinitionAssumption DEF Wrote
  <2> QED BY <2>5 DEF FinishWrite
<1>8. b.status \in TerminalRun => a.status \in TerminalRun
  BY WroteStatus DEF TerminalRun
<1>9. Issued(b, t, n) => Issued(a, t, n)
  BY <1>3, <1>4, <1>6, <1>7, <1>8 DEF Issued
<1>10. Over(b, t, n) => Over(a, t, n)
  BY <1>3, <1>4, <1>5 DEF Over
<1>11. Tenable(b, w, t, n) => Tenable(a, w, t, n)
  BY <1>3, <1>4, <1>5 DEF Tenable
<1>12. n <= b.tasks[t].attempts => n <= a.tasks[t].attempts
  BY <1>3, <1>4
<1> QED BY <1>2, <1>9, <1>10, <1>11, <1>12

\* The attempts that the aggregate counts.
Bounded(r) ==
  \A t \in Tasks : r.tasks[t].status \in {"pending", "ready", "retry_wait"} =>
                     r.tasks[t].attempts < MaxAttempts[t]

\* A task that can still be dispatched keeps an attempt.
LEMMA BoundedStays ==
  ASSUME NEW b \in Run, NEW a, Wrote(b, a), Bounded(b)
  PROVE  Bounded(a)
<1> SUFFICES ASSUME NEW t \in Tasks, a.tasks[t].status \in {"pending", "ready", "retry_wait"}
             PROVE  a.tasks[t].attempts < MaxAttempts[t]
  BY DEF Bounded
<1>1. TaskMove(b, a, t)
  BY WroteFacts
<1>2. b.tasks[t].status \in {"pending", "ready", "retry_wait"} => b.tasks[t].attempts < MaxAttempts[t]
  BY DEF Bounded
<1> QED BY <1>1, <1>2
        DEF TaskMove, SameTask, UnlockEdge, GrantEdge, EndEdge, PromoteEdge, CancelEdge

\* Before the first attempt every task can be tried.
LEMMA NewRunBounded == Bounded(NewWorkflowRun) /\ Completed(NewWorkflowRun) = {}
BY NewRunType, DefinitionAssumption DEF Bounded, Completed, NewTaskRun

\* Unless a task succeeds in a write, success is what it was.
NoSuccess(b, a) ==
  \A t \in Tasks : a.tasks[t].status = "succeeded" => SameTask(b, a, t)

\* failRun and cancelRun of what is held.
LEMMA EndWrites ==
  ASSUME NEW b \in Run, NEW r \in Run, Behind(b, r), NEW st \in {"failed", "canceled"},
         LegalWorkflowTransition(b.status, st),
         ValidSnapshot(TransitionWorkflow(CancelUnfinished(r), st))
  PROVE  Wrote(b, TransitionWorkflow(CancelUnfinished(r), st))
BY EndRunIsFinish DEF Wrote, ValidSnapshot
-----------------------------------------------------------------------------
(* What the mutations leave to be unlocked.                                *)

\* An aggregate is behind itself.
LEMMA BehindItself ==
  ASSUME NEW r PROVE Behind(r, r)
BY DEF Behind, SameTask

\* The loop top leaves the stored aggregate behind.
LEMMA DueIsBehind ==
  ASSUME NEW r \in Run
  PROVE  Behind(r, PromoteDueRetries(RecoverExpiredLeases(r)))
BY RecoverDueEdges DEF Behind

\* A run that is canceled or failed with unfinished tasks left is valid.
LEMMA FailedRunValid ==
  ASSUME NEW r \in Run, NEW t \in Tasks, r.tasks[t].status \in Unfinished
  PROVE  ValidAggregate(FailedRun(r))
<1> DEFINE c == CancelUnfinished(r)
           a == FailedRun(r)
<1>1. /\ c \in Run
      /\ \A u \in Tasks : IF r.tasks[u].status \in Unfinished
                          THEN CancelEdge(r, c, u) ELSE c.tasks[u] = r.tasks[u]
  BY CancelUnfinishedEdges
<1>2. a.tasks = c.tasks /\ a.status = "failed"
  BY <1>1, WithStatus DEF FailedRun, RunStatuses
<1> HIDE DEF c, a
<1>3. \A u \in Tasks : a.tasks[u].status \notin Unfinished
  BY <1>1, <1>2 DEF CancelEdge, Unfinished
<1>4. a.tasks[t].status = "canceled"
  BY <1>1, <1>2 DEF CancelEdge
<1> QED BY <1>2, <1>3, <1>4 DEF ValidAggregate, a

\* Nothing can be unlocked if it could not be before and no task succeeded.
LEMMA NothingToUnlock ==
  ASSUME NEW b, NEW a, NewReady(b) = {},
         \A t \in Tasks : a.tasks[t].status = "pending" => b.tasks[t].status = "pending",
         \A t \in Tasks : a.tasks[t].status = "succeeded" => b.tasks[t].status = "succeeded"
  PROVE  NewReady(a) = {}
BY DefinitionAssumption DEF NewReady, Completed

\* markNewReady leaves nothing to be unlocked.
LEMMA AllUnlocked ==
  ASSUME NEW r \in Run
  PROVE  NewReady(MarkNewReady(r)) = {}
<1> DEFINE a == MarkNewReady(r)
<1>1. \A t \in Tasks : a.tasks[t] = IF t \in NewReady(r) THEN [r.tasks[t] EXCEPT !.status = "ready"] ELSE r.tasks[t]
  BY DEF MarkNewReady, Run
<1>2. r.tasks \in [Tasks -> TaskRun]
  BY DEF Run
<1>3. \A t \in Tasks : t \in NewReady(r) => a.tasks[t].status = "ready"
  BY <1>1, <1>2 DEF TaskRun
<1>4. \A t \in Tasks : t \notin NewReady(r) => a.tasks[t].status = r.tasks[t].status
  BY <1>1
<1> HIDE DEF a
<1>5. Completed(a) = Completed(r)
  BY <1>3, <1>4 DEF Completed, NewReady
<1>6. NewReady(a) = {}
  BY <1>3, <1>4, <1>5 DEF NewReady
<1> QED BY <1>6 DEF a

\* Statuses that an unlock does not bring about.
LEMMA UnlockedStatus ==
  ASSUME NEW r \in Run, NEW st \in {"failed", "canceled"}, ~HasTask(r, st)
  PROVE  ~HasTask(MarkNewReady(r), st)
BY MarkNewReadyEdges DEF HasTask, UnlockEdge

\* An aggregate with nothing to unlock, or running, is left alone.
LEMMA LeftAlone ==
  ASSUME NEW r \in Run
  PROVE  /\ NewReady(r) = {} => MarkNewReady(r) = r
         /\ r.status = "running" => TransitionWorkflow(r, "running") = r
<1>1. ASSUME NewReady(r) = {} PROVE MarkNewReady(r) = r
  <2>1. r.tasks \in [Tasks -> TaskRun]
    BY DEF Run
  <2>2. [t \in Tasks |-> IF t \in NewReady(r) THEN [r.tasks[t] EXCEPT !.status = "ready"] ELSE r.tasks[t]] = r.tasks
    BY <1>1, <2>1
  <2>3. [r EXCEPT !.tasks = r.tasks] = r
    BY DEF Run
  <2> QED BY <2>2, <2>3 DEF MarkNewReady
<1>2. r.status = "running" => TransitionWorkflow(r, "running") = r
  BY DEF TransitionWorkflow, Run
<1> QED BY <1>1, <1>2

\* What a completion does to each task.
Ended(b, a, t, outcome) ==
  /\ a \in Run /\ EndEdge(b, a, t)
  /\ outcome = "succeeded" <=> a.tasks[t].status = "succeeded"
  /\ outcome = "failed" <=> a.tasks[t].status = "failed"
  /\ \A u \in Tasks \ {t} : SameTask(b, a, u) \/ (UnlockEdge(b, a, u) /\ outcome = "succeeded")
  /\ NewReady(b) = {} => NewReady(a) = {}

\* A completion ends one attempt, and only its success unlocks other tasks.
LEMMA CompletionFacts ==
  ASSUME NEW r \in Run, NEW t \in Tasks, NEW w, NEW n, NEW result \in Results,
         CompletionOutcome(r, t, w, n, result) # "ignored"
  PROVE  Ended(r, AfterCompletion(r, t, w, n, result), t, CompletionOutcome(r, t, w, n, result))
<1> DEFINE a == CompleteTaskAttempt(r, t, w, n, result)
           z == AfterCompletion(r, t, w, n, result)
           o == CompletionOutcome(r, t, w, n, result)
<1>1. /\ a \in Run /\ a.status = r.status /\ EndEdge(r, a, t)
      /\ \A u \in Tasks \ {t} : a.tasks[u] = r.tasks[u]
      /\ o = "succeeded" => a.tasks[t].status = "succeeded"
  BY CompletionEnds
<1>2. o \in {"succeeded", "retry_scheduled", "failed"} /\ r.tasks[t] \in TaskRun
  BY DEF CompletionOutcome, Run
<1>3. /\ o = "retry_scheduled" => n < MaxAttempts[t] /\ r.tasks[t].attempts = n
  BY DEF CompletionOutcome, HoldsAttempt
<1>4. a.tasks[t] = CASE o = "ignored"         -> r.tasks[t]
                   [] o = "succeeded"       -> FinishedTask(r.tasks[t], "succeeded")
                   [] o = "retry_scheduled" -> EndAttempt(t, r.tasks[t])
                   [] o = "failed"          -> FinishedTask(r.tasks[t], "failed")
  BY DEF CompleteTaskAttempt, Run
<1> HIDE DEF o, a
<1>5. /\ o = "succeeded" => a.tasks[t] = FinishedTask(r.tasks[t], "succeeded")
      /\ o = "retry_scheduled" => a.tasks[t] = EndAttempt(t, r.tasks[t])
      /\ o = "failed" => a.tasks[t] = FinishedTask(r.tasks[t], "failed")
  BY <1>4
<1>6. o = "retry_scheduled" => EndAttempt(t, r.tasks[t]).status \in {"ready", "retry_wait"}
  BY <1>2, <1>3 DEF EndAttempt, TaskRun
<1>7. /\ o = "succeeded" <=> a.tasks[t].status = "succeeded"
      /\ o = "failed" <=> a.tasks[t].status = "failed"
  BY <1>2, <1>5, <1>6, FinishedTaskFacts DEF TaskStatuses
<1>8. CASE o # "succeeded"
  <2>1. z = a
    BY <1>8 DEF AfterCompletion, a, o
  <2>2. NewReady(r) = {} => NewReady(a) = {}
    <3>1. \A u \in Tasks : a.tasks[u].status = "pending" => r.tasks[u].status = "pending"
      BY <1>1 DEF EndEdge
    <3>2. \A u \in Tasks : a.tasks[u].status = "succeeded" => r.tasks[u].status = "succeeded"
      BY <1>1, <1>7, <1>8
    <3> QED BY <3>1, <3>2, NothingToUnlock
  <2> HIDE DEF z
  <2>3. \A u \in Tasks \ {t} : SameTask(r, z, u)
    BY <1>1, <2>1 DEF SameTask
  <2> QED BY <1>1, <1>7, <2>1, <2>2, <2>3 DEF Ended, o, z
<1>9. CASE o = "succeeded"
  <2>1. z = MarkNewReady(a)
    BY <1>9 DEF AfterCompletion, a, o
  <2>2. /\ z \in Run /\ NewReady(z) = {}
        /\ \A u \in Tasks : z.tasks[u] = a.tasks[u] \/ UnlockEdge(a, z, u)
    BY <1>1, <2>1, MarkNewReadyEdges, AllUnlocked
  <2> HIDE DEF z
  <2>3. z.tasks[t] = a.tasks[t]
    BY <1>7, <1>9, <2>2 DEF UnlockEdge
  <2>4. EndEdge(r, z, t)
    BY <1>1, <2>3 DEF EndEdge
  <2>5. ASSUME NEW u \in Tasks \ {t} PROVE SameTask(r, z, u) \/ UnlockEdge(r, z, u)
    BY <1>1, <2>2 DEF SameTask, UnlockEdge
  <2> QED BY <1>7, <1>9, <2>2, <2>3, <2>4, <2>5 DEF Ended, o, z
<1> QED BY <1>8, <1>9

\* What the loop top does to each task.
DueMoves(b, a) ==
  /\ a \in Run
  /\ \A t \in Tasks : \/ t \notin Due(b) /\ SameTask(b, a, t)
                      \/ t \in ExpiredLeases(b) /\ EndEdge(b, a, t) /\ a.tasks[t].status # "succeeded"
                      \/ t \in DueRetries(b) /\ PromoteEdge(b, a, t)
  /\ NewReady(b) = {} => NewReady(a) = {}

\* The loop top ends the expired attempts and promotes the due retries.
LEMMA DueFacts ==
  ASSUME NEW r \in Run
  PROVE  DueMoves(r, PromoteDueRetries(RecoverExpiredLeases(r)))
<1> DEFINE e == RecoverExpiredLeases(r)
           a == PromoteDueRetries(e)
<1>1. e \in Run /\ r.tasks \in [Tasks -> TaskRun]
  BY RecoverExpiredEdges DEF Run
<1>2. \A t \in Tasks : e.tasks[t] = IF t \in ExpiredLeases(r) THEN EndAttempt(t, r.tasks[t]) ELSE r.tasks[t]
  BY DEF RecoverExpiredLeases, Run
<1> HIDE DEF e
<1>3. a \in Run
  BY <1>1, RecoverDueEdges DEF e
<1>4. \A t \in Tasks : a.tasks[t] = IF t \in DueRetries(e)
                      THEN [e.tasks[t] EXCEPT !.status = "ready", !.deadline = "none"] ELSE e.tasks[t]
  BY <1>1 DEF PromoteDueRetries, Run
<1> HIDE DEF a
<1>5. ASSUME NEW t \in Tasks, t \in ExpiredLeases(r)
      PROVE  /\ EndAttempt(t, r.tasks[t]).status = "retry_wait" => EndAttempt(t, r.tasks[t]).deadline = "ahead"
             /\ r.tasks[t].status = "running"
  BY <1>1, <1>5 DEF EndAttempt, TaskRun, ExpiredLeases
<1>6. ASSUME NEW t \in Tasks, t \in ExpiredLeases(r)
      PROVE  EndEdge(r, a, t) /\ a.tasks[t].status # "succeeded"
  <2>1. t \notin DueRetries(e)
    BY <1>2, <1>5, <1>6 DEF DueRetries
  <2>2. a.tasks[t] = EndAttempt(t, r.tasks[t])
    BY <1>2, <1>4, <1>6, <2>1
  <2> QED BY <1>1, <1>5, <1>6, <2>2, EndAttemptFacts DEF EndEdge
<1>7. ASSUME NEW t \in Tasks, t \notin ExpiredLeases(r)
      PROVE  /\ t \in DueRetries(r) => PromoteEdge(r, a, t)
             /\ t \notin DueRetries(r) => SameTask(r, a, t)
  <2>1. e.tasks[t] = r.tasks[t]
    BY <1>2, <1>7
  <2>2. t \in DueRetries(e) <=> t \in DueRetries(r)
    BY <2>1 DEF DueRetries
  <2>3. CASE t \in DueRetries(r)
    <3>1. a.tasks[t] = [r.tasks[t] EXCEPT !.status = "ready", !.deadline = "none"]
      BY <1>4, <2>1, <2>2, <2>3
    <3>2. r.tasks[t] \in TaskRun /\ r.tasks[t].status = "retry_wait"
      BY <1>1, <2>3 DEF DueRetries
    <3> QED BY <2>3, <3>1, <3>2 DEF PromoteEdge, TaskRun
  <2>4. CASE t \notin DueRetries(r)
    BY <1>4, <2>1, <2>2, <2>4 DEF SameTask
  <2> QED BY <2>3, <2>4
<1>8. \A t \in Tasks : \/ t \notin Due(r) /\ SameTask(r, a, t)
                       \/ t \in ExpiredLeases(r) /\ EndEdge(r, a, t) /\ a.tasks[t].status # "succeeded"
                       \/ t \in DueRetries(r) /\ PromoteEdge(r, a, t)
  BY <1>6, <1>7 DEF Due
<1>9. NewReady(r) = {} => NewReady(a) = {}
  <2>1. \A t \in Tasks : a.tasks[t].status = "pending" => r.tasks[t].status = "pending"
    BY <1>8 DEF SameTask, EndEdge, PromoteEdge
  <2>2. \A t \in Tasks : a.tasks[t].status = "succeeded" => r.tasks[t].status = "succeeded"
    BY <1>8 DEF SameTask, PromoteEdge
  <2> QED BY <2>1, <2>2, NothingToUnlock
<1>10. DueMoves(r, a)
  BY <1>3, <1>8, <1>9 DEF DueMoves
<1> QED BY <1>10 DEF a, e

\* The attempts that the loop top ends are over.
LEMMA DeadIsOver ==
  ASSUME NEW r \in Run, NEW a, DueMoves(r, a), NEW t \in ExpiredLeases(r)
  PROVE  Over(a, t, r.tasks[t].attempts)
<1>1. t \in Tasks /\ t \in Due(r) /\ r.tasks[t].status = "running"
  BY DEF ExpiredLeases, Due
<1>2. EndEdge(r, a, t)
  BY <1>1 DEF DueMoves, PromoteEdge
<1> QED BY <1>2 DEF EndEdge, Over
-----------------------------------------------------------------------------
(* The ready tasks and the running attempts.                               *)

ReadyTasks(r) == {t \in Tasks : r.tasks[t].status = "ready"}

RunningAttempts(r) ==
  {<<t, r.tasks[t].attempts>> : t \in {u \in Tasks : r.tasks[u].status = "running"}}

\* What startTaskAttempt does to the books.
LEMMA LeaseBooks ==
  ASSUME NEW r \in Run, NEW t \in Tasks, r.tasks[t].status = "ready", NEW w \in Workers
  PROVE  LET a == StartTaskAttempt(r, t, w) IN
         /\ ReadyTasks(a) = ReadyTasks(r) \ {t}
         /\ RunningAttempts(a) = RunningAttempts(r) \cup {<<t, r.tasks[t].attempts + 1>>}
         /\ NewReady(r) = {} => NewReady(a) = {}
         /\ \A st \in {"failed", "canceled"} : ~HasTask(r, st) => ~HasTask(a, st)
<1> DEFINE a == StartTaskAttempt(r, t, w)
<1>1. a.tasks = [r.tasks EXCEPT ![t] = Leased(r.tasks[t], w)] /\ r.tasks \in [Tasks -> TaskRun]
  BY DEF StartTaskAttempt, Run
<1>2. Leased(r.tasks[t], w).status = "running" /\ Leased(r.tasks[t], w).attempts = r.tasks[t].attempts + 1
  BY DEF Leased
<1> HIDE DEF a
<1>3. /\ a.tasks[t].status = "running" /\ a.tasks[t].attempts = r.tasks[t].attempts + 1
      /\ \A u \in Tasks \ {t} : a.tasks[u] = r.tasks[u]
  BY <1>1, <1>2
<1>4. ReadyTasks(a) = ReadyTasks(r) \ {t}
  BY <1>3 DEF ReadyTasks
<1>5. RunningAttempts(a) = RunningAttempts(r) \cup {<<t, r.tasks[t].attempts + 1>>}
  <2>1. ASSUME NEW x \in RunningAttempts(a) PROVE x \in RunningAttempts(r) \cup {<<t, r.tasks[t].attempts + 1>>}
    <3>1. PICK u \in Tasks : a.tasks[u].status = "running" /\ x = <<u, a.tasks[u].attempts>>
      BY DEF RunningAttempts
    <3> QED BY <1>3, <3>1 DEF RunningAttempts
  <2>2. ASSUME NEW x \in RunningAttempts(r) PROVE x \in RunningAttempts(a)
    <3>1. PICK u \in Tasks : r.tasks[u].status = "running" /\ x = <<u, r.tasks[u].attempts>>
      BY DEF RunningAttempts
    <3>2. u # t /\ a.tasks[u] = r.tasks[u]
      BY <1>3, <3>1
    <3> QED BY <3>1, <3>2 DEF RunningAttempts
  <2>3. <<t, r.tasks[t].attempts + 1>> \in RunningAttempts(a)
    BY <1>3 DEF RunningAttempts
  <2> QED BY <2>1, <2>2, <2>3
<1>6. NewReady(r) = {} => NewReady(a) = {}
  <2>1. \A u \in Tasks : a.tasks[u].status = "pending" => r.tasks[u].status = "pending"
    BY <1>3
  <2>2. \A u \in Tasks : a.tasks[u].status = "succeeded" => r.tasks[u].status = "succeeded"
    BY <1>3
  <2> QED BY <2>1, <2>2, NothingToUnlock
<1>7. \A st \in {"failed", "canceled"} : ~HasTask(r, st) => ~HasTask(a, st)
  BY <1>3 DEF HasTask
<1> QED BY <1>4, <1>5, <1>6, <1>7 DEF a

\* What the loop top does to the books.
LEMMA DueBooks ==
  ASSUME NEW b \in Run, NEW a, DueMoves(b, a)
  PROVE  /\ ReadyTasks(a) = ReadyTasks(b) \cup {t \in Due(b) : a.tasks[t].status = "ready"}
         /\ RunningAttempts(a) = RunningAttempts(b) \ {<<t, b.tasks[t].attempts>> : t \in ExpiredLeases(b)}
         /\ ~HasTask(b, "canceled") => ~HasTask(a, "canceled")
         /\ ~HasTask(b, "failed") /\ (\A t \in ExpiredLeases(b) : a.tasks[t].status # "failed") =>
              ~HasTask(a, "failed")
<1> DEFINE dead == {<<t, b.tasks[t].attempts>> : t \in ExpiredLeases(b)}
<1>1. \A t \in Tasks : \/ t \notin Due(b) /\ SameTask(b, a, t)
                       \/ t \in ExpiredLeases(b) /\ EndEdge(b, a, t) /\ a.tasks[t].status # "succeeded"
                       \/ t \in DueRetries(b) /\ PromoteEdge(b, a, t)
  BY DEF DueMoves
<1>2. /\ \A t \in ExpiredLeases(b) : t \in Due(b) /\ t \in Tasks /\ b.tasks[t].status = "running"
      /\ \A t \in DueRetries(b) : t \in Due(b) /\ t \in Tasks /\ b.tasks[t].status = "retry_wait"
      /\ \A t \in Due(b) : t \in Tasks /\ b.tasks[t].status \in {"running", "retry_wait"}
  BY DEF Due, ExpiredLeases, DueRetries
<1>3. ReadyTasks(a) = ReadyTasks(b) \cup {t \in Due(b) : a.tasks[t].status = "ready"}
  BY <1>1, <1>2 DEF ReadyTasks, SameTask
<1>4. \A t \in Tasks : a.tasks[t].status = "running" =>
        t \notin Due(b) /\ b.tasks[t].status = "running" /\ a.tasks[t].attempts = b.tasks[t].attempts
  BY <1>1 DEF SameTask, EndEdge, PromoteEdge
<1>5. ASSUME NEW x \in RunningAttempts(a) PROVE x \in RunningAttempts(b) \ dead
  <2>1. PICK u \in Tasks : a.tasks[u].status = "running" /\ x = <<u, a.tasks[u].attempts>>
    BY DEF RunningAttempts
  <2>2. u \notin ExpiredLeases(b) /\ b.tasks[u].status = "running" /\ x = <<u, b.tasks[u].attempts>>
    BY <1>2, <1>4, <2>1
  <2>3. x \notin dead
    BY <2>2
  <2> QED BY <2>2, <2>3 DEF RunningAttempts
<1>6. ASSUME NEW x \in RunningAttempts(b) \ dead PROVE x \in RunningAttempts(a)
  <2>1. PICK u \in Tasks : b.tasks[u].status = "running" /\ x = <<u, b.tasks[u].attempts>>
    BY DEF RunningAttempts
  <2>2. u \notin ExpiredLeases(b)
    BY <2>1
  <2>3. SameTask(b, a, u)
    BY <1>1, <1>2, <2>1, <2>2
  <2> QED BY <2>1, <2>3 DEF RunningAttempts, SameTask
<1>7. RunningAttempts(a) = RunningAttempts(b) \ dead
  BY <1>5, <1>6
<1>8. ~HasTask(b, "canceled") => ~HasTask(a, "canceled")
  BY <1>1 DEF HasTask, SameTask, EndEdge, PromoteEdge
<1>9. ~HasTask(b, "failed") /\ (\A t \in ExpiredLeases(b) : a.tasks[t].status # "failed") => ~HasTask(a, "failed")
  BY <1>1 DEF HasTask, SameTask, PromoteEdge
<1> QED BY <1>3, <1>7, <1>8, <1>9

\* What a completion does to the books.
LEMMA CompletionBooks ==
  ASSUME NEW b \in Run, NEW a, NEW t \in Tasks, NEW outcome, Ended(b, a, t, outcome)
  PROVE  /\ ReadyTasks(a) = ReadyTasks(b) \cup {u \in Tasks : a.tasks[u].status = "ready" /\ b.tasks[u].status # "ready"}
         /\ RunningAttempts(a) = RunningAttempts(b) \ {<<t, b.tasks[t].attempts>>}
         /\ ~HasTask(b, "canceled") => ~HasTask(a, "canceled")
         /\ ~HasTask(b, "failed") /\ outcome # "failed" => ~HasTask(a, "failed")
<1>1. /\ EndEdge(b, a, t)
      /\ \A u \in Tasks \ {t} : SameTask(b, a, u) \/ UnlockEdge(b, a, u)
      /\ outcome = "failed" <=> a.tasks[t].status = "failed"
  BY DEF Ended
<1>2. ReadyTasks(a) = ReadyTasks(b) \cup {u \in Tasks : a.tasks[u].status = "ready" /\ b.tasks[u].status # "ready"}
  BY <1>1 DEF ReadyTasks, SameTask, UnlockEdge, EndEdge
<1>3. ASSUME NEW x \in RunningAttempts(a) PROVE x \in RunningAttempts(b) \ {<<t, b.tasks[t].attempts>>}
  <2>1. PICK u \in Tasks : a.tasks[u].status = "running" /\ x = <<u, a.tasks[u].attempts>>
    BY DEF RunningAttempts
  <2>2. u # t /\ SameTask(b, a, u)
    BY <1>1, <2>1 DEF EndEdge, UnlockEdge
  <2> QED BY <2>1, <2>2 DEF RunningAttempts, SameTask
<1>4. ASSUME NEW x \in RunningAttempts(b) \ {<<t, b.tasks[t].attempts>>} PROVE x \in RunningAttempts(a)
  <2>1. PICK u \in Tasks : b.tasks[u].status = "running" /\ x = <<u, b.tasks[u].attempts>>
    BY DEF RunningAttempts
  <2>2. u # t
    BY <2>1
  <2>3. SameTask(b, a, u)
    BY <1>1, <2>1, <2>2 DEF UnlockEdge
  <2> QED BY <2>1, <2>3 DEF RunningAttempts, SameTask
<1>5. RunningAttempts(a) = RunningAttempts(b) \ {<<t, b.tasks[t].attempts>>}
  BY <1>3, <1>4
<1>6. /\ ~HasTask(b, "canceled") => ~HasTask(a, "canceled")
      /\ ~HasTask(b, "failed") /\ outcome # "failed" => ~HasTask(a, "failed")
  BY <1>1 DEF HasTask, SameTask, UnlockEdge, EndEdge
<1> QED BY <1>2, <1>5, <1>6

\* An aggregate that differs in its deadlines at most.
SameRun(b, a) ==
  \/ b = NoRun /\ a = NoRun
  \/ /\ b \in Run /\ a \in Run /\ b # NoRun /\ a # NoRun /\ a.status = b.status
     /\ \A t \in Tasks : SameTask(b, a, t)

\* The deadlines do not matter to the plan.
LEMMA SameRunFacts ==
  ASSUME NEW b, NEW a, SameRun(b, a), b # NoRun
  PROVE  /\ a \in Run /\ a # NoRun /\ a.status = b.status
         /\ \A t \in Tasks : SameTask(b, a, t)
         /\ (Bounded(b) => Bounded(a)) /\ Completed(a) = Completed(b)
         /\ NewReady(a) = NewReady(b) /\ ReadyTasks(a) = ReadyTasks(b)
         /\ RunningAttempts(a) = RunningAttempts(b)
         /\ \A st : HasTask(a, st) <=> HasTask(b, st)
<1>1. a \in Run /\ a # NoRun /\ a.status = b.status /\ \A t \in Tasks : SameTask(b, a, t)
  BY DEF SameRun
<1>2. \A t \in Tasks : a.tasks[t].status = b.tasks[t].status /\ a.tasks[t].attempts = b.tasks[t].attempts
  BY <1>1 DEF SameTask
<1>3. Completed(a) = Completed(b) /\ ReadyTasks(a) = ReadyTasks(b)
  BY <1>2 DEF Completed, ReadyTasks
<1>4. NewReady(a) = NewReady(b)
  BY <1>2, <1>3 DEF NewReady
<1>5. Bounded(b) => Bounded(a)
  BY <1>2 DEF Bounded
<1>6. RunningAttempts(a) = RunningAttempts(b)
  <2>1. {u \in Tasks : a.tasks[u].status = "running"} = {u \in Tasks : b.tasks[u].status = "running"}
    BY <1>2
  <2> QED BY <1>2, <2>1 DEF RunningAttempts
<1>7. \A st : HasTask(a, st) <=> HasTask(b, st)
  BY <1>2 DEF HasTask
<1> QED BY <1>1, <1>3, <1>4, <1>5, <1>6, <1>7

\* Unsaved mutations stay what they are when deadlines pass.
LEMMA SameRunBehind ==
  ASSUME NEW b, NEW a, NEW c, NEW d, SameRun(b, c), SameRun(a, d), b # NoRun, a # NoRun, Behind(b, a)
  PROVE  Behind(c, d)
<1>1. /\ c.status = b.status /\ d.status = a.status
      /\ \A t \in Tasks : SameTask(b, c, t) /\ SameTask(a, d, t)
  BY SameRunFacts
<1>2. ASSUME NEW t \in Tasks
      PROVE  SameTask(c, d, t) \/ UnlockEdge(c, d, t) \/ EndEdge(c, d, t) \/ PromoteEdge(c, d, t)
  <2>1. SameTask(b, a, t) \/ UnlockEdge(b, a, t) \/ EndEdge(b, a, t) \/ PromoteEdge(b, a, t)
    BY DEF Behind
  <2>2. Deps[t] \subseteq Tasks
    BY DefinitionAssumption
  <2>3. UnlockEdge(b, a, t) => UnlockEdge(c, d, t)
    BY <1>1, <2>2 DEF UnlockEdge, SameTask
  <2> QED BY <1>1, <2>1, <2>3 DEF SameTask, EndEdge, PromoteEdge
<1> QED BY <1>1, <1>2 DEF Behind
=============================================================================
