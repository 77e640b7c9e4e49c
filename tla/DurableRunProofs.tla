-------------------------- MODULE DurableRunProofs --------------------------
(***************************************************************************)
(* The durable aggregate implements the task lifecycle and leases and ends  *)
(* every attempt at most once, for any number of competing schedulers, any  *)
(* workflow definition and any number of writes.                            *)
(*                                                                         *)
(* The argument goes through the shape of one committed write: each save    *)
(* site of the engine is shown to produce a ProgressWrite or a FinishWrite  *)
(* of the aggregate it mutated; the version check makes that aggregate the  *)
(* stored one; refinement and the history invariants then follow from the   *)
(* shape alone.                                                             *)
(***************************************************************************)
EXTENDS DurableRun, WorkflowRunProofs

\* The inductive invariant.  The histories are tied to the stored attempt
\* counts: a new lease is always for an attempt beyond every recorded one, and
\* an attempt that has ended is no longer running.
HistoryInv ==
  /\ \A g \in grants : stored # NoRun /\ g.attempt <= stored.tasks[g.task].attempts
  /\ \A e \in ended : /\ stored # NoRun
                      /\ e.attempt <= stored.tasks[e.task].attempts
                      /\ e.attempt = stored.tasks[e.task].attempts =>
                           stored.tasks[e.task].status # "running"
  /\ stored # NoRun =>
       \A t \in Tasks : stored.tasks[t].status = "running" =>
         \E g \in grants : g.task = t /\ g.attempt = stored.tasks[t].attempts

CopyInv == TypeOK /\ CurrentCopyIsStored

IInv == CopyInv /\ HistoryInv /\ OneGrantPerAttempt /\ AttemptEndsOnce

\* The three shapes of a scheduler's step.
CreateShape(s) ==
  /\ stored = NoRun /\ stored' = NewWorkflowRun
  /\ mem' = [mem EXCEPT ![s] = stored'] /\ memVersion' = [memVersion EXCEPT ![s] = version + 1]
  /\ version' = version + 1 /\ UNCHANGED <<grants, ended>>

CommitShape(s) ==
  /\ stored # NoRun /\ (ProgressWrite(stored, stored') \/ FinishWrite(stored, stored'))
  /\ mem' = [mem EXCEPT ![s] = stored'] /\ memVersion' = [memVersion EXCEPT ![s] = version + 1]
  /\ version' = version + 1
  /\ grants' = grants \cup NewGrants(stored, stored')
  /\ ended' = ended \cup NewEnds(stored, stored')

LocalShape(s) == Drop(s) \/ LoadRun(s)

\* A save either commits, to an aggregate that is the stored one, or is local.
LEMMA SaveShape ==
  ASSUME CopyInv, NEW s \in Schedulers, mem[s] # NoRun, NEW run, SaveRun(s, run),
         ValidSnapshot(run) => ProgressWrite(mem[s], run) \/ FinishWrite(mem[s], run)
  PROVE  CommitShape(s) \/ LocalShape(s)
<1>1. CASE ~Commits(s, run) /\ Drop(s)
  BY <1>1 DEF LocalShape
<1>2. CASE /\ Commits(s, run) /\ Write(s, run)
           /\ grants' = grants \cup NewGrants(mem[s], run)
           /\ ended' = ended \cup NewEnds(mem[s], run)
  <2>1. stored = mem[s]
    BY <1>2 DEF Commits, CopyInv, CurrentCopyIsStored
  <2> QED BY <1>2, <2>1 DEF Commits, Write, CommitShape
<1> QED BY <1>1, <1>2 DEF SaveRun

\* Every step of a scheduler has one of the shapes.
LEMMA SchedulerShape ==
  ASSUME CopyInv, NEW s \in Schedulers, SchedulerStep(s)
  PROVE  CreateShape(s) \/ CommitShape(s) \/ LocalShape(s)
<1>0. mem[s] # NoRun => mem[s] \in Run
  BY DEF CopyInv, TypeOK
<1>1. CASE CreateRun(s)
  BY <1>1 DEF CreateRun, Write, CreateShape
<1>2. CASE LoadRun(s) \/ Return(s)
  BY <1>2 DEF LocalShape, Return
<1>3. CASE StartRun(s)
  BY <1>0, <1>3, SaveShape, StartIsProgress DEF StartRun
<1>4. CASE MakeReady(s)
  BY <1>0, <1>4, SaveShape, MarkNewReadyIsProgress DEF MakeReady, Active
<1>5. CASE RecoverDue(s)
  BY <1>0, <1>5, SaveShape, RecoverDueIsProgress DEF RecoverDue, Active
<1>6. CASE SucceedRun(s)
  BY <1>0, <1>6, SaveShape, SucceedIsFinish DEF SucceedRun, Active, ValidSnapshot
<1>7. CASE FailRun(s)
  <2>1. Behind(mem[s], mem[s])
    BY DEF Behind, SameTask
  <2>2. LegalWorkflowTransition(mem[s].status, "failed")
    BY <1>7 DEF FailRun, LegalWorkflowTransition
  <2>3. ValidSnapshot(FailedRun(mem[s])) => FinishWrite(mem[s], FailedRun(mem[s]))
    BY <1>0, <1>7, <2>1, <2>2, EndRunIsFinish DEF FailRun, FailedRun, ValidSnapshot
  <2> QED BY <1>7, <2>3, SaveShape DEF FailRun
<1>8. CASE FailUnsaved(s)
  <2> DEFINE base == PromoteDueRetries(RecoverExpiredLeases(mem[s]))
  <2>1. base \in Run /\ Behind(mem[s], base)
    BY <1>0, <1>8, RecoverDueEdges DEF FailUnsaved, Active, Behind
  <2>2. LegalWorkflowTransition(mem[s].status, "failed")
    BY <1>8 DEF FailUnsaved, Active, LegalWorkflowTransition
  <2>3. SaveRun(s, FailedRun(base)) /\ mem[s] # NoRun
    BY <1>8 DEF FailUnsaved, Active
  <2> HIDE DEF base
  <2>4. ValidSnapshot(FailedRun(base)) => FinishWrite(mem[s], FailedRun(base))
    BY <1>0, <2>1, <2>2, <2>3, EndRunIsFinish DEF FailedRun, ValidSnapshot
  <2> QED BY <2>3, <2>4, SaveShape
<1>9. CASE CancelRun(s)
  <2>1. Behind(mem[s], mem[s])
    BY DEF Behind, SameTask
  <2>2. LegalWorkflowTransition(mem[s].status, "canceled")
    BY <1>9 DEF CancelRun, LegalWorkflowTransition
  <2>3. ValidSnapshot(CanceledRun(mem[s])) => FinishWrite(mem[s], CanceledRun(mem[s]))
    BY <1>0, <1>9, <2>1, <2>2, EndRunIsFinish DEF CancelRun, CanceledRun, ValidSnapshot
  <2> QED BY <1>9, <2>3, SaveShape DEF CancelRun
<1>10. ASSUME NEW w \in WorkersOf[s], Heartbeat(s, w)
       PROVE  CommitShape(s) \/ LocalShape(s)
  <2>1. w \in Workers
    BY <1>10, SchedulerAssumption
  <2> QED BY <1>0, <1>10, <2>1, SaveShape, HeartbeatIsProgress DEF Heartbeat, Active
<1>11. ASSUME NEW t \in Tasks, NEW w \in WorkersOf[s], LeaseTask(s, t, w)
       PROVE  CommitShape(s) \/ LocalShape(s)
  <2>1. w \in Workers
    BY <1>11, SchedulerAssumption
  <2> QED BY <1>0, <1>11, <2>1, SaveShape, LeaseIsProgress DEF LeaseTask, Active
<1>12. ASSUME NEW t \in Tasks, NEW w \in WorkersOf[s], NEW result \in Results,
              NEW n \in 1..MaxAttempts[t], CompleteTask(s, t, w, n, result)
       PROVE  CommitShape(s) \/ LocalShape(s)
  BY <1>0, <1>12, SaveShape, CompletionIsProgress DEF CompleteTask, Active
<1> QED BY <1>1, <1>2, <1>3, <1>4, <1>5, <1>6, <1>7, <1>8, <1>9, <1>10, <1>11, <1>12
        DEF SchedulerStep
-----------------------------------------------------------------------------
\* Every write of either shape leaves a run.
LEMMA WriteType ==
  ASSUME NEW b, NEW a, ProgressWrite(b, a) \/ FinishWrite(b, a)
  PROVE  a \in Run
BY DEF ProgressWrite, FinishWrite

\* What a write of either shape does to one task.
LEMMA WriteEdge ==
  ASSUME NEW b, NEW a, ProgressWrite(b, a) \/ FinishWrite(b, a), NEW t \in Tasks
  PROVE  \/ SameTask(b, a, t) \/ UnlockEdge(b, a, t) \/ GrantEdge(b, a, t)
         \/ EndEdge(b, a, t) \/ PromoteEdge(b, a, t) \/ CancelEdge(b, a, t)
BY DEF ProgressWrite, FinishWrite

\* Committed leases and ends are records of the histories' types.
LEMMA HistoryTypes ==
  ASSUME NEW b \in Run, NEW a, ProgressWrite(b, a) \/ FinishWrite(b, a)
  PROVE  NewGrants(b, a) \subseteq GrantRecord /\ NewEnds(b, a) \subseteq EndRecord
<1>1. a \in Run
  BY WriteType
<1>2. \A t \in Tasks : b.tasks[t] \in TaskRun /\ a.tasks[t] \in TaskRun
  BY <1>1 DEF Run
<1>3. \A t \in Tasks : b.tasks[t].status = "ready" /\ a.tasks[t].status = "running" =>
        a.tasks[t].lease \in Workers
  BY WriteEdge DEF SameTask, UnlockEdge, GrantEdge, EndEdge, PromoteEdge, CancelEdge
<1>4. NewGrants(b, a) \subseteq GrantRecord
  BY <1>2, <1>3 DEF NewGrants, GrantRecord, TaskRun
<1>5. NewEnds(b, a) \subseteq EndRecord
  BY <1>2 DEF NewEnds, EndRecord, TaskRun
<1> QED BY <1>4, <1>5

\* Nothing is held and nothing is recorded before the run is created.
LEMMA InitIInv == Init => IInv
BY DEF Init, IInv, CopyInv, TypeOK, CurrentCopyIsStored, HistoryInv, OneGrantPerAttempt,
       AttemptEndsOnce

\* The version check keeps current copies equal to the stored aggregate.
LEMMA NextCopyInv == CopyInv /\ [Next]_vars => CopyInv'
<1> SUFFICES ASSUME CopyInv, [Next]_vars PROVE CopyInv'
  OBVIOUS
<1>0. /\ stored \in Run \cup {NoRun} /\ version \in Nat
      /\ mem \in [Schedulers -> Run \cup {NoRun}] /\ memVersion \in [Schedulers -> Nat]
      /\ grants \subseteq GrantRecord /\ ended \subseteq EndRecord
  BY DEF CopyInv, TypeOK
<1>1. CASE UNCHANGED vars
  BY <1>1 DEF vars, CopyInv, TypeOK, CurrentCopyIsStored
<1>2. ASSUME NEW s \in Schedulers, SchedulerStep(s) PROVE CopyInv'
  <2>1. CASE CreateShape(s) \/ CommitShape(s)
    <3>1. /\ stored' \in Run /\ version' = version + 1
          /\ mem' = [mem EXCEPT ![s] = stored']
          /\ memVersion' = [memVersion EXCEPT ![s] = version + 1]
      BY <2>1, NewRunType, WriteType DEF CreateShape, CommitShape
    <3>2. grants' \subseteq GrantRecord /\ ended' \subseteq EndRecord
      BY <1>0, <2>1, HistoryTypes DEF CreateShape, CommitShape
    <3>3. TypeOK'
      BY <1>0, <3>1, <3>2 DEF TypeOK
    <3>4. CurrentCopyIsStored'
      BY <1>0, <3>1 DEF CopyInv, CurrentCopyIsStored
    <3> QED BY <3>3, <3>4 DEF CopyInv
  <2>2. CASE LocalShape(s)
    <3>1. TypeOK'
      BY <1>0, <2>2 DEF LocalShape, Drop, LoadRun, TypeOK
    <3>2. CurrentCopyIsStored'
      BY <1>0, <2>2 DEF LocalShape, Drop, LoadRun, CopyInv, CurrentCopyIsStored
    <3> QED BY <3>1, <3>2 DEF CopyInv
  <2> QED BY <1>2, <2>1, <2>2, SchedulerShape
<1>3. ASSUME NEW t \in Tasks, PassDeadline(t) PROVE CopyInv'
  <2>1. stored' = Late(stored, t) /\ stored \in Run
    BY <1>0, <1>3 DEF PassDeadline
  <2>2. mem' = [s \in Schedulers |-> IF memVersion[s] = version THEN Late(mem[s], t) ELSE mem[s]]
    BY <1>3 DEF PassDeadline
  <2>3. version' = version /\ memVersion' = memVersion /\ grants' = grants /\ ended' = ended
    BY <1>3 DEF PassDeadline
  <2>4. Late(NoRun, t) = NoRun
    BY DEF Late
  <2>5. mem' \in [Schedulers -> Run \cup {NoRun}]
    <3>1. \A s \in Schedulers : Late(mem[s], t) \in Run \cup {NoRun}
      BY <1>0, <2>4, LateFacts
    <3> QED BY <1>0, <2>2, <3>1
  <2>6. TypeOK'
    BY <1>0, <2>1, <2>3, <2>5, LateFacts DEF TypeOK
  <2>7. CurrentCopyIsStored'
    <3> SUFFICES ASSUME NEW s \in Schedulers, mem'[s] # NoRun
                 PROVE  /\ memVersion'[s] <= version'
                        /\ memVersion'[s] = version' => mem'[s] = stored'
      BY DEF CurrentCopyIsStored
    <3>1. mem[s] # NoRun
      BY <2>2, <2>4
    <3> QED BY <2>1, <2>2, <2>3, <3>1 DEF CopyInv, CurrentCopyIsStored
  <2> QED BY <2>6, <2>7 DEF CopyInv
<1> QED BY <1>1, <1>2, <1>3 DEF Next

\* What a write does to the attempt count and to "running" of one task: it
\* grants the next attempt, ends the running one, or does neither.
LEMMA AttemptStep ==
  ASSUME NEW b \in Run, NEW a, ProgressWrite(b, a) \/ FinishWrite(b, a), NEW t \in Tasks
  PROVE  /\ b.tasks[t].attempts \in Nat /\ a.tasks[t].attempts \in Nat
         /\ \/ /\ b.tasks[t].status = "ready" /\ a.tasks[t].status = "running"
               /\ a.tasks[t].attempts = b.tasks[t].attempts + 1
            \/ /\ a.tasks[t].attempts = b.tasks[t].attempts
               /\ a.tasks[t].status = "running" => b.tasks[t].status = "running"
<1>1. a \in Run
  BY WriteType
<1>2. b.tasks[t] \in TaskRun /\ a.tasks[t] \in TaskRun
  BY <1>1 DEF Run
<1> QED
  BY <1>2, WriteEdge
     DEF SameTask, UnlockEdge, GrantEdge, EndEdge, PromoteEdge, CancelEdge, TaskRun

\* A committed write preserves the history invariants.
LEMMA CommitHistory ==
  ASSUME IInv, NEW s \in Schedulers, CommitShape(s)
  PROVE  HistoryInv' /\ OneGrantPerAttempt' /\ AttemptEndsOnce'
<1> DEFINE N == NewGrants(stored, stored')
           E == NewEnds(stored, stored')
<1>0. stored \in Run /\ stored' \in Run /\ stored' # NoRun
  BY WriteType, DefinitionAssumption DEF CommitShape, IInv, CopyInv, TypeOK
<1>1. grants' = grants \cup N /\ ended' = ended \cup E
  BY DEF CommitShape
<1>2. \A t \in Tasks :
        /\ stored.tasks[t].attempts \in Nat /\ stored'.tasks[t].attempts \in Nat
        /\ \/ /\ stored.tasks[t].status = "ready" /\ stored'.tasks[t].status = "running"
              /\ stored'.tasks[t].attempts = stored.tasks[t].attempts + 1
           \/ /\ stored'.tasks[t].attempts = stored.tasks[t].attempts
              /\ stored'.tasks[t].status = "running" => stored.tasks[t].status = "running"
  BY <1>0, AttemptStep DEF CommitShape
<1>3. grants \subseteq GrantRecord /\ ended \subseteq EndRecord
  BY DEF IInv, CopyInv, TypeOK
<1>4. \A g \in N : /\ g.task \in Tasks /\ stored.tasks[g.task].status = "ready"
                   /\ stored'.tasks[g.task].status = "running"
                   /\ g.attempt = stored'.tasks[g.task].attempts
                   /\ g = [task |-> g.task, attempt |-> stored'.tasks[g.task].attempts,
                           worker |-> stored'.tasks[g.task].lease]
  BY DEF NewGrants
<1>5. \A e \in E : /\ e.task \in Tasks /\ stored.tasks[e.task].status = "running"
                   /\ stored'.tasks[e.task].status # "running"
                   /\ e.attempt = stored.tasks[e.task].attempts
                   /\ e = [task |-> e.task, attempt |-> stored.tasks[e.task].attempts,
                           how |-> stored'.tasks[e.task].status]
  BY DEF NewEnds
<1>6. \A t \in Tasks :
        stored.tasks[t].status = "ready" /\ stored'.tasks[t].status = "running" =>
          \E g \in N : g.task = t /\ g.attempt = stored'.tasks[t].attempts
  <2> SUFFICES ASSUME NEW t \in Tasks,
                      stored.tasks[t].status = "ready", stored'.tasks[t].status = "running"
               PROVE  \E g \in N : g.task = t /\ g.attempt = stored'.tasks[t].attempts
    OBVIOUS
  <2> DEFINE g == [task |-> t, attempt |-> stored'.tasks[t].attempts,
                   worker |-> stored'.tasks[t].lease]
  <2>1. g \in N
    BY DEF NewGrants
  <2>2. g.task = t /\ g.attempt = stored'.tasks[t].attempts
    OBVIOUS
  <2> QED BY <2>1, <2>2
<1> HIDE DEF N, E
<1>7. \A g \in grants : /\ g.task \in Tasks /\ g.attempt \in Nat
                        /\ g.attempt <= stored.tasks[g.task].attempts
  BY <1>3 DEF IInv, HistoryInv, GrantRecord
<1>8. \A e \in ended : /\ e.task \in Tasks /\ e.attempt \in Nat
                       /\ e.attempt <= stored.tasks[e.task].attempts
                       /\ e.attempt = stored.tasks[e.task].attempts =>
                            stored.tasks[e.task].status # "running"
  BY <1>3 DEF IInv, HistoryInv, EndRecord
<1>9. \A t \in Tasks : stored.tasks[t].status = "running" =>
        \E g \in grants : g.task = t /\ g.attempt = stored.tasks[t].attempts
  BY DEF IInv, HistoryInv, CommitShape
<1>10. HistoryInv'
  <2>1. \A g \in grants' : g.attempt <= stored'.tasks[g.task].attempts
    <3>1. \A g \in grants : g.attempt <= stored'.tasks[g.task].attempts
      BY <1>2, <1>7
    <3>2. \A g \in N : g.attempt <= stored'.tasks[g.task].attempts
      BY <1>2, <1>4
    <3> QED BY <1>1, <3>1, <3>2
  <2>2. \A e \in ended' : /\ e.attempt <= stored'.tasks[e.task].attempts
                          /\ e.attempt = stored'.tasks[e.task].attempts =>
                               stored'.tasks[e.task].status # "running"
    <3>1. \A e \in ended : /\ e.attempt <= stored'.tasks[e.task].attempts
                           /\ e.attempt = stored'.tasks[e.task].attempts =>
                                stored'.tasks[e.task].status # "running"
      BY <1>2, <1>8
    <3>2. \A e \in E : /\ e.attempt <= stored'.tasks[e.task].attempts
                       /\ e.attempt = stored'.tasks[e.task].attempts =>
                            stored'.tasks[e.task].status # "running"
      BY <1>2, <1>5
    <3> QED BY <1>1, <3>1, <3>2
  <2>3. \A t \in Tasks : stored'.tasks[t].status = "running" =>
          \E g \in grants' : g.task = t /\ g.attempt = stored'.tasks[t].attempts
    <3> SUFFICES ASSUME NEW t \in Tasks, stored'.tasks[t].status = "running"
                 PROVE  \E g \in grants' : g.task = t /\ g.attempt = stored'.tasks[t].attempts
      OBVIOUS
    <3>1. CASE stored.tasks[t].status = "ready"
      BY <1>1, <1>6, <3>1
    <3>2. CASE stored.tasks[t].status # "ready"
      BY <1>1, <1>2, <1>9, <3>2
    <3> QED BY <3>1, <3>2
  <2> QED BY <1>0, <2>1, <2>2, <2>3 DEF HistoryInv
<1>11. OneGrantPerAttempt'
  <2> SUFFICES ASSUME NEW g \in grants', NEW h \in grants',
                      g.task = h.task, g.attempt = h.attempt
               PROVE  g = h
    BY DEF OneGrantPerAttempt
  <2>1. CASE g \in grants /\ h \in grants
    BY <2>1 DEF IInv, OneGrantPerAttempt
  <2>2. CASE g \in N /\ h \in N
    BY <1>4, <2>2
  <2>3. \A x \in N, y \in grants : x.task = y.task => x.attempt # y.attempt
    BY <1>2, <1>4, <1>7
  <2> QED BY <1>1, <2>1, <2>2, <2>3
<1>12. AttemptEndsOnce'
  <2>1. ASSUME NEW e \in ended', NEW f \in ended', e.task = f.task, e.attempt = f.attempt
        PROVE  e = f
    <3>1. CASE e \in ended /\ f \in ended
      BY <2>1, <3>1 DEF IInv, AttemptEndsOnce
    <3>2. CASE e \in E /\ f \in E
      BY <1>5, <2>1, <3>2
    <3>3. \A x \in E, y \in ended : x.task = y.task => x.attempt # y.attempt
      BY <1>5, <1>8
    <3> QED BY <1>1, <2>1, <3>1, <3>2, <3>3
  <2>2. ASSUME NEW e \in ended'
        PROVE  \E g \in grants' : g.task = e.task /\ g.attempt = e.attempt
    <3>1. CASE e \in ended
      BY <1>1, <3>1 DEF IInv, AttemptEndsOnce
    <3>2. CASE e \in E
      BY <1>1, <1>5, <1>9, <3>2
    <3> QED BY <1>1, <2>2, <3>1, <3>2
  <2> QED BY <2>1, <2>2 DEF AttemptEndsOnce
<1> QED BY <1>10, <1>11, <1>12

\* A step that leaves attempt counts, statuses and histories alone preserves
\* the history invariants.
LEMMA QuietHistory ==
  ASSUME IInv, stored \in Run, stored' \in Run, UNCHANGED <<grants, ended>>,
         \A t \in Tasks : SameTask(stored, stored', t)
  PROVE  HistoryInv' /\ OneGrantPerAttempt' /\ AttemptEndsOnce'
<1>1. grants \subseteq GrantRecord /\ ended \subseteq EndRecord /\ stored' # NoRun /\ stored # NoRun
  BY DefinitionAssumption DEF IInv, CopyInv, TypeOK
<1>2. /\ \A g \in grants : g.task \in Tasks
      /\ \A e \in ended : e.task \in Tasks
  BY <1>1 DEF GrantRecord, EndRecord
<1>3. HistoryInv'
  BY <1>1, <1>2 DEF IInv, HistoryInv, SameTask
<1> QED BY <1>3 DEF IInv, OneGrantPerAttempt, AttemptEndsOnce

\* Every step preserves the inductive invariant.
LEMMA NextIInv == IInv /\ [Next]_vars => IInv'
<1> SUFFICES ASSUME IInv, [Next]_vars PROVE IInv'
  OBVIOUS
<1>1. CopyInv'
  BY NextCopyInv DEF IInv
<1>2. HistoryInv' /\ OneGrantPerAttempt' /\ AttemptEndsOnce'
  <2>1. CASE UNCHANGED vars
    BY <2>1 DEF vars, IInv, HistoryInv, OneGrantPerAttempt, AttemptEndsOnce
  <2>2. ASSUME NEW s \in Schedulers, SchedulerStep(s)
        PROVE  HistoryInv' /\ OneGrantPerAttempt' /\ AttemptEndsOnce'
    <3>1. CASE CreateShape(s)
      <4>1. grants = {} /\ ended = {} /\ grants' = {} /\ ended' = {}
        BY <3>1 DEF CreateShape, IInv, HistoryInv
      <4>2. \A t \in Tasks : stored'.tasks[t].status # "running"
        BY <3>1, NewRunType DEF CreateShape, NewTaskRun
      <4> QED BY <4>1, <4>2 DEF HistoryInv, OneGrantPerAttempt, AttemptEndsOnce
    <3>2. CASE CommitShape(s)
      BY <3>2, CommitHistory
    <3>3. CASE LocalShape(s)
      <4>1. stored' = stored /\ grants' = grants /\ ended' = ended
        BY <3>3 DEF LocalShape, Drop, LoadRun
      <4> QED BY <4>1 DEF IInv, HistoryInv, OneGrantPerAttempt, AttemptEndsOnce
    <3> QED BY <2>2, <3>1, <3>2, <3>3, SchedulerShape DEF IInv
  <2>3. ASSUME NEW t \in Tasks, PassDeadline(t)
        PROVE  HistoryInv' /\ OneGrantPerAttempt' /\ AttemptEndsOnce'
    <3>1. stored \in Run /\ stored' = Late(stored, t) /\ UNCHANGED <<grants, ended>>
      BY <2>3 DEF PassDeadline, IInv, CopyInv, TypeOK
    <3>2. stored' \in Run /\ \A u \in Tasks : SameTask(stored, stored', u)
      BY <3>1, LateFacts
    <3> QED BY <3>1, <3>2, QuietHistory
  <2> QED BY <2>1, <2>2, <2>3 DEF Next
<1> QED BY <1>1, <1>2 DEF IInv

\* Types are preserved, and a scheduler whose version is current holds exactly
\* the stored aggregate.
THEOREM CopiesAreCurrent == Spec => [](TypeOK /\ CurrentCopyIsStored)
<1>1. Init => CopyInv
  BY InitIInv DEF IInv
<1>2. CopyInv => TypeOK /\ CurrentCopyIsStored
  BY DEF CopyInv
<1> QED BY <1>1, <1>2, NextCopyInv, PTL DEF Spec

\* No attempt ID is ever leased twice, whichever schedulers race for it.
THEOREM GrantsAreUnique == Spec => []OneGrantPerAttempt
<1>1. IInv => OneGrantPerAttempt
  BY DEF IInv
<1> QED BY <1>1, InitIInv, NextIInv, PTL DEF Spec

\* State is applied at most once per attempt ID, and only to a leased attempt.
THEOREM EndsAreUnique == Spec => []AttemptEndsOnce
<1>1. IInv => AttemptEndsOnce
  BY DEF IInv
<1> QED BY <1>1, InitIInv, NextIInv, PTL DEF Spec
-----------------------------------------------------------------------------
\* The constant definitions the instance shares with this module.
LEMMA SharedDefinitions ==
  /\ Lifecycle!TaskStatuses = TaskStatuses
  /\ Lifecycle!Unfinished = Unfinished
  /\ Lifecycle!TerminalRun = TerminalRun
  /\ \A from, to : Lifecycle!LegalWorkflowTransition(from, to) <=> LegalWorkflowTransition(from, to)
BY DEF Lifecycle!TaskStatuses, TaskStatuses, Lifecycle!Unfinished, Unfinished,
       Lifecycle!TerminalRun, TerminalRun,
       Lifecycle!LegalWorkflowTransition, LegalWorkflowTransition

\* The refinement mapping at a stored run, and its type.
LEMMA Mapping ==
  ASSUME stored \in Run
  PROVE  /\ DurableStatus = stored.status
         /\ DurableTask \in [Tasks -> Lifecycle!AbstractTask]
         /\ \A t \in Tasks : DurableTask[t] =
              [status |-> stored.tasks[t].status, attempts |-> stored.tasks[t].attempts,
               owner |-> stored.tasks[t].lease]
<1>1. stored # NoRun /\ \A t \in Tasks : stored.tasks[t] \in TaskRun
  BY DefinitionAssumption DEF Run
<1> QED BY <1>1, SharedDefinitions DEF DurableStatus, DurableTask, Lifecycle!AbstractTask, TaskRun

\* The initial states map to initial states.
LEMMA InitRefines == Init => Lifecycle!Init
BY DEF Init, Lifecycle!Init, Lifecycle!Fresh, DurableStatus, DurableTask

\* A committed write maps to a step of the lifecycle.
LEMMA CommitRefines ==
  ASSUME stored \in Run, stored' \in Run,
         ProgressWrite(stored, stored') \/ FinishWrite(stored, stored')
  PROVE  Lifecycle!Next
<1>1. /\ DurableStatus = stored.status
      /\ DurableTask \in [Tasks -> Lifecycle!AbstractTask]
      /\ \A t \in Tasks : DurableTask[t] =
           [status |-> stored.tasks[t].status, attempts |-> stored.tasks[t].attempts,
            owner |-> stored.tasks[t].lease]
  BY Mapping
<1>2. /\ DurableStatus' = stored'.status
      /\ DurableTask' \in [Tasks -> Lifecycle!AbstractTask]
      /\ \A t \in Tasks : DurableTask'[t] =
           [status |-> stored'.tasks[t].status, attempts |-> stored'.tasks[t].attempts,
            owner |-> stored'.tasks[t].lease]
  <2>1. stored' # NoRun /\ \A t \in Tasks : stored'.tasks[t] \in TaskRun
    BY DefinitionAssumption DEF Run
  <2> QED BY <2>1, SharedDefinitions DEF DurableStatus, DurableTask, Lifecycle!AbstractTask, TaskRun
<1>3. ASSUME NEW t \in Tasks
      PROVE  /\ SameTask(stored, stored', t) => DurableTask'[t] = DurableTask[t]
             /\ UnlockEdge(stored, stored', t) => Lifecycle!Unlock(t)
             /\ GrantEdge(stored, stored', t) => Lifecycle!Grant(t)
             /\ EndEdge(stored, stored', t) => Lifecycle!End(t)
             /\ PromoteEdge(stored, stored', t) => Lifecycle!Promote(t)
             /\ CancelEdge(stored, stored', t) => Lifecycle!Cancel(t)
  <2>1. SameTask(stored, stored', t) => DurableTask'[t] = DurableTask[t]
    BY <1>1, <1>2 DEF SameTask
  <2>2. UnlockEdge(stored, stored', t) => Lifecycle!Unlock(t)
    <3> SUFFICES ASSUME UnlockEdge(stored, stored', t) PROVE Lifecycle!Unlock(t)
      OBVIOUS
    <3>1. \A d \in Deps[t] : d \in Tasks
      BY DefinitionAssumption
    <3>2. \A d \in Deps[t] : DurableTask'[d].status = "succeeded"
      BY <1>2, <3>1 DEF UnlockEdge
    <3>3. DurableTask[t].status = "pending" /\ DurableTask'[t] = [DurableTask[t] EXCEPT !.status = "ready"]
      BY <1>1, <1>2 DEF UnlockEdge
    <3> QED BY <3>2, <3>3 DEF Lifecycle!Unlock
  <2>3. GrantEdge(stored, stored', t) => Lifecycle!Grant(t)
    BY <1>1, <1>2 DEF GrantEdge, Lifecycle!Grant
  <2>4. EndEdge(stored, stored', t) => Lifecycle!End(t)
    <3> SUFFICES ASSUME EndEdge(stored, stored', t) PROVE Lifecycle!End(t)
      OBVIOUS
    <3> DEFINE to == stored'.tasks[t].status
    <3>1. DurableTask'[t] = [status |-> to, attempts |-> DurableTask[t].attempts, owner |-> NoWorker]
      BY <1>1, <1>2 DEF EndEdge
    <3>2. /\ DurableTask[t].status = "running"
          /\ to \in {"succeeded", "ready", "retry_wait", "failed"}
          /\ to \in {"ready", "retry_wait"} => DurableTask[t].attempts < MaxAttempts[t]
      BY <1>1 DEF EndEdge
    <3> HIDE DEF to
    <3> QED BY <3>1, <3>2 DEF Lifecycle!End
  <2>5. PromoteEdge(stored, stored', t) => Lifecycle!Promote(t)
    BY <1>1, <1>2 DEF PromoteEdge, Lifecycle!Promote
  <2>6. CancelEdge(stored, stored', t) => Lifecycle!Cancel(t)
    <3> SUFFICES ASSUME CancelEdge(stored, stored', t) PROVE Lifecycle!Cancel(t)
      OBVIOUS
    <3>1. DurableTask'[t] =
            [status |-> "canceled", attempts |-> DurableTask[t].attempts, owner |-> NoWorker]
      BY <1>1, <1>2 DEF CancelEdge
    <3>2. DurableTask[t].status \in Unfinished
      BY <1>1 DEF CancelEdge
    <3> QED BY <3>1, <3>2, SharedDefinitions DEF Lifecycle!Cancel
  <2> QED BY <2>1, <2>2, <2>3, <2>4, <2>5, <2>6
<1>4. CASE ProgressWrite(stored, stored')
  <2>1. stored.status = "pending" => DurableTask' = DurableTask
    BY <1>1, <1>2, <1>4 DEF ProgressWrite
  <2>2. Lifecycle!Progress
    BY <1>1, <1>2, <1>3, <1>4, <2>1 DEF ProgressWrite, Lifecycle!Progress
  <2> QED BY <2>2 DEF Lifecycle!Next
<1>5. CASE FinishWrite(stored, stored')
  <2>1. stored'.status \in TerminalRun /\ LegalWorkflowTransition(stored.status, stored'.status)
    BY <1>5 DEF FinishWrite
  <2>2. stored.status \in {"pending", "running"}
    BY <2>1 DEF LegalWorkflowTransition
  <2>3. \A t \in Tasks : \/ DurableTask'[t] = DurableTask[t]
                         \/ Lifecycle!Cancel(t) \/ Lifecycle!End(t)
    BY <1>3, <1>5 DEF FinishWrite
  <2>4. ValidAggregate(stored')
    BY <1>5 DEF FinishWrite
  <2>5. /\ \A t \in Tasks : stored'.tasks[t].status \notin Unfinished
        /\ stored'.status = "succeeded" => \A t \in Tasks : stored'.tasks[t].status = "succeeded"
        /\ stored'.status = "canceled" => \A t \in Tasks : stored'.tasks[t].status # "failed"
        /\ stored'.status = "failed" =>
             \E t \in Tasks : stored'.tasks[t].status \in {"failed", "canceled"}
    BY <2>1, <2>4 DEF ValidAggregate, TerminalRun, Unfinished
  <2>6. Lifecycle!Finish
    BY <1>1, <1>2, <2>1, <2>2, <2>3, <2>5, SharedDefinitions DEF Lifecycle!Finish
  <2> QED BY <2>6 DEF Lifecycle!Next
<1> QED BY <1>4, <1>5

\* Every step maps to a step of the lifecycle or to a stutter.
LEMMA NextRefines == CopyInv /\ [Next]_vars => [Lifecycle!Next]_(Lifecycle!vars)
<1> SUFFICES ASSUME CopyInv, [Next]_vars PROVE [Lifecycle!Next]_(Lifecycle!vars)
  OBVIOUS
<1>0. stored \in Run \cup {NoRun}
  BY DEF CopyInv, TypeOK
<1>1. ASSUME stored' = stored PROVE UNCHANGED Lifecycle!vars
  BY <1>1 DEF Lifecycle!vars, DurableStatus, DurableTask
<1>2. CASE UNCHANGED vars
  BY <1>1, <1>2 DEF vars
<1>3. ASSUME NEW s \in Schedulers, SchedulerStep(s) PROVE [Lifecycle!Next]_(Lifecycle!vars)
  <2>1. CASE CreateShape(s)
    <3>1. stored = NoRun /\ stored' = NewWorkflowRun /\ stored' # NoRun
      BY <2>1, NewRunType, DefinitionAssumption DEF CreateShape
    <3>2. DurableTask' = DurableTask
      BY <3>1, NewRunType DEF DurableTask, NewTaskRun
    <3>3. DurableStatus = NoRun /\ DurableStatus' = "pending"
      BY <3>1, NewRunType DEF DurableStatus
    <3> QED BY <3>2, <3>3 DEF Lifecycle!Next, Lifecycle!Create
  <2>2. CASE CommitShape(s)
    <3>1. stored \in Run /\ stored' \in Run
      BY <1>0, <2>2, WriteType DEF CommitShape
    <3> QED BY <2>2, <3>1, CommitRefines DEF CommitShape
  <2>3. CASE LocalShape(s)
    BY <1>1, <2>3 DEF LocalShape, Drop, LoadRun
  <2> QED BY <1>3, <2>1, <2>2, <2>3, SchedulerShape
<1>4. ASSUME NEW t \in Tasks, PassDeadline(t) PROVE UNCHANGED Lifecycle!vars
  <2>1. stored \in Run /\ stored' = Late(stored, t)
    BY <1>0, <1>4 DEF PassDeadline
  <2>2. /\ stored' \in Run /\ stored'.status = stored.status
        /\ \A u \in Tasks : SameTask(stored, stored', u)
    BY <2>1, LateFacts
  <2>3. stored # NoRun /\ stored' # NoRun
    BY <2>1, <2>2, DefinitionAssumption
  <2>4. DurableStatus' = DurableStatus
    BY <2>2, <2>3 DEF DurableStatus
  <2>5. DurableTask' = DurableTask
    BY <2>2, <2>3 DEF DurableTask, SameTask
  <2> QED BY <2>4, <2>5 DEF Lifecycle!vars
<1> QED BY <1>2, <1>3, <1>4 DEF Next

\* The durable aggregate implements the task lifecycle.
THEOREM LifecycleRefinement == Spec => ImplementsLifecycle
<1>1. Init => CopyInv
  BY InitIInv DEF IInv
<1> QED BY <1>1, InitRefines, NextCopyInv, NextRefines, PTL
        DEF Spec, ImplementsLifecycle, Lifecycle!Spec
-----------------------------------------------------------------------------
\* The theorems about the lifecycle, at the refinement mapping.
LP == INSTANCE TaskLifecycleProofs WITH status <- DurableStatus, task <- DurableTask

\* Both instances of the lifecycle are the same specification.
LEMMA SameLifecycle ==
  /\ Lifecycle!Init <=> LP!Init
  /\ Lifecycle!Next <=> LP!Next
  /\ Lifecycle!vars = LP!vars
  /\ LP!DependencyOrder <=> DependencyOrder
  /\ LP!AttemptsBounded <=> AttemptsBounded
<1>1. Lifecycle!Init <=> LP!Init
  BY DEF Lifecycle!Init, LP!Init, Lifecycle!Fresh, LP!Fresh
<1>2. Lifecycle!Progress <=> LP!Progress
  BY DEF Lifecycle!Progress, LP!Progress, Lifecycle!Unlock, LP!Unlock, Lifecycle!Grant, LP!Grant,
         Lifecycle!End, LP!End, Lifecycle!Promote, LP!Promote,
         Lifecycle!AbstractTask, LP!AbstractTask, Lifecycle!TaskStatuses, LP!TaskStatuses
<1>3. Lifecycle!Finish <=> LP!Finish
  BY DEF Lifecycle!Finish, LP!Finish, Lifecycle!Cancel, LP!Cancel, Lifecycle!End, LP!End,
         Lifecycle!AbstractTask, LP!AbstractTask, Lifecycle!TaskStatuses, LP!TaskStatuses,
         Lifecycle!Unfinished, LP!Unfinished, Lifecycle!TerminalRun, LP!TerminalRun,
         Lifecycle!LegalWorkflowTransition, LP!LegalWorkflowTransition
<1>4. Lifecycle!Next <=> LP!Next
  BY <1>2, <1>3 DEF Lifecycle!Next, LP!Next, Lifecycle!Create, LP!Create
<1>5. Lifecycle!vars = LP!vars
  BY DEF Lifecycle!vars, LP!vars
<1>6. /\ LP!DependencyOrder <=> DependencyOrder
      /\ LP!AttemptsBounded <=> AttemptsBounded
  BY DEF DependencyOrder, AttemptsBounded, Lifecycle!DependencyOrder, LP!DependencyOrder,
         Lifecycle!AttemptsBounded, LP!AttemptsBounded
<1> QED BY <1>1, <1>4, <1>5, <1>6

\* Dependencies stay in order and attempts within the policy in everything
\* any number of schedulers can make durable.
THEOREM DurableOrder == Spec => [](DependencyOrder /\ AttemptsBounded)
<1>1. Lifecycle!Init => LP!Init
  BY SameLifecycle
<1>2. [Lifecycle!Next]_Lifecycle!vars => [LP!Next]_LP!vars
  BY SameLifecycle DEF Lifecycle!vars, LP!vars
<1>3. Spec => LP!Spec
  BY <1>1, <1>2, LifecycleRefinement, PTL DEF ImplementsLifecycle, Lifecycle!Spec, LP!Spec
<1>4. LP!DefinitionAssumption
  BY DefinitionAssumption
     DEF LP!DefinitionAssumption, LP!IsFiniteSet, IsFiniteSet, LP!Run, Run, LP!RunStatuses, RunStatuses,
         LP!TaskRun, TaskRun, LP!TaskStatuses, TaskStatuses, LP!Deadlines, Deadlines
<1>5. LP!Spec => [](LP!DependencyOrder /\ LP!AttemptsBounded /\ LP!FinishedConsistently)
  BY <1>4, LP!LifecycleInvariant
<1>6. LP!DependencyOrder /\ LP!AttemptsBounded => DependencyOrder /\ AttemptsBounded
  BY SameLifecycle
<1> QED BY <1>3, <1>5, <1>6, PTL
=============================================================================
