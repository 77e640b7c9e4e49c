---------------------------- MODULE EngineProofs ----------------------------
(***************************************************************************)
(* The engine, for every workflow definition, any number of slots, calls,  *)
(* panics, lapses, faults, cancellations, crashes and expiries, and both   *)
(* brokers. The lemmas show that every step keeps FlowInv, PlanInv and     *)
(* BooksInv; with EngineWorkProofs the invariant is inductive, and the     *)
(* properties of Engine and the refinement of TaskLifecycle follow.        *)
(***************************************************************************)
EXTENDS EngineWorkProofs, EngineLifecycle

-----------------------------------------------------------------------------
(* Before and after the loop.                                              *)


\* A recovery that goes on, the check of the context, and what precedes the loop.
LEMMA ResumeCore ==
  ASSUME IInv, [Next]_vars, Resume \/ CheckContext \/ Prepare
  PROVE  Core'
<1>0. pc \in {"resume", "check", "prepare"} /\ pc \in Opening
  BY DEF Resume, CheckContext, Prepare, Opening
<1>1. stored = run /\ run \in Run /\ run # NoRun /\ Bounded(run) /\ Earned(run)
  BY <1>0, OpenHolds
<1>2. Earned(FailedRun(run)) /\ Earned(CanceledRun(run))
  BY <1>1, SuccessesStay DEF FailedRun, CanceledRun, RunStatuses
<1>3. run.status \in {"pending", "running"}
  BY <1>0, <1>1 DEF IInv, FlowInv, Outside
<1>4. CASE Resume
  <2> DEFINE r == TransitionWorkflow(run, "running")
  <2>1. r \in Run /\ r.status = "running" /\ r.tasks = run.tasks /\ Earned(r)
    BY <1>1, WithStatus, SuccessesStay DEF RunStatuses
  <2>2. run.status = "running" => r = run
    BY <1>1, LeftAlone
  <2>3. CASE Return
    <3>1. stored' \in {stored, r, FailedRun(run), CanceledRun(run)}
      BY <1>4, <2>3, SaveStores DEF Resume, FinishWith, Return
    <3> QED BY <1>2, <2>1, <2>3, <3>1, FinishCore
  <2>4. CASE /\ RecoveredStatus(run) = "none"
             /\ run.status = "pending" => Saved(r)
             /\ run.status = "running" => UNCHANGED <<stored, budget>>
             /\ run' = r /\ pc' = "check" /\ UNCHANGED <<ctxDone, loop>>
    <3>1. stored' = r
      BY <1>1, <1>3, <2>2, <2>4 DEF Saved
    <3>2. StoredOK'
      BY <2>1, <3>1, EarnedNext, StoredStays
    <3>3. ~HasTask(run, "failed") /\ ~HasTask(run, "canceled")
      BY <2>4 DEF RecoveredStatus
    <3> HIDE DEF r
    <3>4. ~HasTask(r, "failed") /\ ~HasTask(r, "canceled")
      BY <2>1, <3>3 DEF HasTask
    <3>5. stored' # NoRun
      BY <2>1, <3>1, DefinitionAssumption
    <3> QED BY <1>0, <2>1, <2>4, <3>1, <3>2, <3>4, <3>5, OpeningCore DEF Opening
  <2> QED BY <1>4, <2>3, <2>4 DEF Resume, FinishWith
<1>5. CASE CheckContext
  <2>1. CASE Return
    <3>1. stored' \in {stored, CanceledRun(run)}
      BY <1>5, <2>1, SaveStores DEF CheckContext, FinishWith, Return
    <3> QED BY <1>2, <2>1, <3>1, FinishCore
  <2>2. CASE pc' = "prepare" /\ UNCHANGED <<stored, run, ctxDone, budget, loop>>
    <3>1. pc = "check" /\ stored' = run
      BY <1>1, <1>5, <2>2 DEF CheckContext
    <3>2. StoredOK'
      BY <1>1, <3>1, EarnedNext, StoredStays
    <3>3. run.status = "running" /\ after = "none"
      BY <1>0, <3>1 DEF IInv, FlowInv
    <3>4. ~HasTask(run, "failed") /\ ~HasTask(run, "canceled")
      BY <3>1, <3>3 DEF IInv, PlanInv
    <3> QED BY <1>0, <1>1, <2>2, <3>1, <3>2, <3>3, <3>4, OpeningCore DEF Opening
  <2> QED BY <1>5, <2>1, <2>2 DEF CheckContext, FinishWith
<1>6. CASE Prepare
  <2> DEFINE r == MarkNewReady(run)
  <2>0. pc = "prepare"
    BY <1>6 DEF Prepare
  <2>1. r \in Run /\ r.status = run.status /\ NewReady(r) = {} /\ Earned(r) /\ Earned(FailedRun(r))
    BY <1>1, MarkNewReadyEdges, AllUnlocked, SuccessesStay DEF FailedRun, RunStatuses
  <2>2. CASE Return
    <3>1. stored' \in {stored, r, FailedRun(r)}
      BY <1>6, <2>2 DEF Prepare, Return
    <3> QED BY <2>1, <2>2, <3>1, FinishCore
  <2>3. CASE /\ IF NewReady(run) = {} THEN UNCHANGED <<stored, budget>> ELSE Saved(r)
             /\ run' = r
             /\ ready' = {t \in Tasks : r.tasks[t].status = "ready"}
             /\ inFlight' = {<<t, r.tasks[t].attempts>> : t \in {u \in Tasks : r.tasks[u].status = "running"}}
             /\ pc' = "top" /\ after' = after
    <3>1. stored' = r
      BY <1>1, <2>3, LeftAlone DEF Saved
    <3>2. StoredOK' /\ PublishedKnown'
      BY <2>1, <3>1, EarnedNext, StoredStays, PublishedStays
    <3>3. run.status = "running" /\ after = "none"
      BY <1>0, <2>0 DEF IInv, FlowInv
    <3>4. ~HasTask(run, "failed") /\ ~HasTask(run, "canceled")
      BY <2>0, <3>3 DEF IInv, PlanInv
    <3>5. ~HasTask(r, "failed") /\ ~HasTask(r, "canceled")
      BY <1>1, <3>4, UnlockedStatus
    <3>6. ready' = ReadyTasks(r) /\ inFlight' = RunningAttempts(r)
      BY <2>3 DEF ReadyTasks, RunningAttempts
    <3> HIDE DEF r
    <3> QED BY <2>1, <2>3, <3>1, <3>2, <3>3, <3>5, <3>6, LoopCore DEF Looping
  <2> QED BY <1>6, <2>2, <2>3 DEF Prepare
<1> QED BY <1>4, <1>5, <1>6

\* The end of a call, and of the process.
LEMMA EndCore ==
  ASSUME IInv, [Next]_vars, Drained \/ Crash
  PROVE  Core'
<1>1. CASE Drained
  <2>1. pc = "drain" /\ Return
    BY <1>1 DEF Drained, FinishWith
  <2>2. run \in Run /\ Earned(run) /\ after \in {"cancel", "succeed", "fail", "return"}
    BY <2>1 DEF IInv, FlowInv, TypeInv, PlanInv
  <2>3. after # "return" => Earned(FinalRun)
    <3>1. /\ Earned(FailedRun(run)) /\ Earned(CanceledRun(run))
          /\ Earned(TransitionWorkflow(run, "succeeded"))
      BY <2>2, SuccessesStay DEF FailedRun, CanceledRun, RunStatuses
    <3> QED BY <2>2, <3>1 DEF FinalRun
  <2>4. stored' = stored \/ (after # "return" /\ stored' = FinalRun)
    BY <1>1, SaveStores DEF Drained, FinishWith
  <2> QED BY <2>1, <2>3, <2>4, FinishCore
<1>2. CASE Crash
  <2>1. UNCHANGED stored /\ pc' = "idle" /\ LocalReset
    BY <1>2 DEF Crash
  <2>2. StoredOK'
    BY <2>1, EarnedNext, StoredStays DEF IInv, PlanInv
  <2> QED BY <2>1, <2>2, ReturnCore DEF Outside
<1> QED BY <1>1, <1>2

-----------------------------------------------------------------------------
(* The loop.                                                               *)


\* What holds whenever the scheduler is in its loop.
LEMMA LoopFacts ==
  ASSUME IInv, pc \in Looping
  PROVE  /\ stored = run /\ run \in Run /\ run # NoRun /\ run.status = "running"
         /\ Bounded(run) /\ Earned(run) /\ NewReady(run) = {}
         /\ ready = ReadyTasks(run) /\ inFlight = RunningAttempts(run)
         /\ pc # "ack" => after = "none"
         /\ after # "fail" => ~HasTask(run, "failed") /\ ~HasTask(run, "canceled")
<1>1. stored = run /\ run \in Run /\ run # NoRun /\ run.status = "running"
  BY LoopHolds
<1>2. pc # "ack" => after = "none"
  BY DEF IInv, FlowInv
<1> QED BY <1>1, <1>2 DEF IInv, PlanInv, BooksInv

\* A progress write keeps the run running and its attempts within the policy.
LEMMA ProgressKeeps ==
  ASSUME NEW b \in Run, NEW a, ProgressWrite(b, a), Bounded(b)
  PROVE  a \in Run /\ a.status = "running" /\ Bounded(a)
BY BoundedStays DEF ProgressWrite, Wrote

\* A step of the loop that leaves the aggregate and the books alone.
LEMMA SameLoopCore ==
  ASSUME IInv, [Next]_vars, pc \in Looping, UNCHANGED <<stored, run, ready, inFlight>>,
         \/ /\ pc' \in Looping
            /\ after' # "fail" => after # "fail"
            /\ pc' # "ack" => after' = "none"
            /\ pc' = "ack" => after' \in {"decide", "top", "fail"}
            /\ pc' = "publish" => Unpublished(published)' # {}
            /\ pc' = "select" => Unpublished(published)' = {}
         \/ pc' = "drain" /\ after' \in {"cancel", "succeed", "fail", "return"}
  PROVE  Core'
<1>1. /\ stored = run /\ run \in Run /\ run # NoRun /\ run.status = "running"
      /\ Bounded(run) /\ Earned(run) /\ NewReady(run) = {}
      /\ ready = ReadyTasks(run) /\ inFlight = RunningAttempts(run)
      /\ after # "fail" => ~HasTask(run, "failed") /\ ~HasTask(run, "canceled")
  BY LoopFacts
<1>2. StoredOK' /\ PublishedKnown' /\ Earned(run)'
  BY <1>1, EarnedNext, StoredStays, PublishedStays
<1>3. stored' = run /\ run' = run /\ ready' = ready /\ inFlight' = inFlight
  BY <1>1
<1>4. CASE pc' = "drain"
  <2>1. Behind(stored', run') /\ Bounded(run)'
    BY <1>1, <1>3, BehindItself
  <2>2. after' \in {"cancel", "succeed", "fail", "return"}
    BY <1>4 DEF Looping
  <2> QED BY <1>1, <1>2, <1>3, <1>4, <2>1, <2>2, DrainCore
<1>5. CASE pc' \in Looping
  BY <1>1, <1>2, <1>3, <1>5, LoopCore DEF Looping
<1> QED BY <1>4, <1>5

\* The steps of the loop that touch neither the aggregate nor the books.
LEMMA QuietCore ==
  ASSUME IInv, [Next]_vars,
         \/ TopCanceled \/ Acknowledge \/ Acknowledged \/ Decide \/ Timer \/ ContextDone
         \/ \E w \in Workers : StaleClaim(w) \/ ParkClaim(w) \/ DropClaim(w) \/ WorkerLost(w) \/ BrokerError(w)
  PROVE  Core'
\* A workflow that is not complete always has something to wait for.
<1>NoStall.
      ASSUME IInv, pc \in {"top", "decide"}, Completed(run) # Tasks, ready = {},
             ~HasTask(run, "running"), ~HasTask(run, "retry_wait")
      PROVE  FALSE
  <2> USE <1>NoStall
  <2>1. /\ run \in Run /\ NewReady(run) = {} /\ ready = ReadyTasks(run)
        /\ ~HasTask(run, "failed") /\ ~HasTask(run, "canceled")
    BY LoopFacts DEF Looping
  <2> DEFINE S == Tasks \ Completed(run)
  <2>0. S \subseteq Tasks /\ S # {}
    BY DEF Completed
  <2>2. S \in (SUBSET Tasks) \ {{}}
    BY <2>0
  <2>3. PICK t \in S : Deps[t] \cap S = {}
    BY <2>2, DefinitionAssumption, Zenon
  <2>4. Deps[t] \subseteq Tasks
    BY DefinitionAssumption
  <2>5. Deps[t] \subseteq Completed(run)
    BY <2>3, <2>4
  <2>6. run.tasks[t].status \in TaskStatuses
    BY <2>1 DEF Run, TaskRun
  <2>7. run.tasks[t].status = "pending"
    BY <2>1, <2>6 DEF TaskStatuses, HasTask, ReadyTasks, Completed
  <2> QED BY <2>1, <2>5, <2>7 DEF NewReady
<1> USE DEF books, Shutdown
<1>1. CASE TopCanceled \/ ContextDone
  <2>1. pc \in Looping /\ UNCHANGED <<stored, run, ready, inFlight>> /\ pc' = "drain" /\ after' = "cancel"
    BY <1>1 DEF TopCanceled, ContextDone, Looping
  <2> QED BY <2>1, SameLoopCore
<1>2. CASE Timer
  <2>1. pc = "select" /\ pc \in Looping /\ UNCHANGED <<stored, run, ready, inFlight, after>> /\ pc' = "top" /\ pc' \in Looping
    BY <1>2 DEF Timer, Looping
  <2> QED BY <2>1, LoopFacts, SameLoopCore
<1>3. CASE Acknowledge
  <2>1. pc = "ack" /\ pc \in Looping /\ UNCHANGED <<stored, run, ready, inFlight>>
    BY <1>3 DEF Acknowledge, Looping
  <2>2. UNCHANGED <<pc, after>> \/ (pc' = "drain" /\ after' = "return")
    BY <1>3 DEF Acknowledge
  <2>3. after \in {"decide", "top", "fail"}
    BY <2>1 DEF IInv, FlowInv
  <2> QED BY <2>1, <2>2, <2>3, SameLoopCore
<1>4. CASE Acknowledged
  <2>1. pc = "ack" /\ pc \in Looping /\ UNCHANGED <<stored, run, ready, inFlight>>
    BY <1>4 DEF Acknowledged, Looping
  <2>2. after \in {"decide", "top", "fail"}
    BY <2>1 DEF IInv, FlowInv
  <2>3. \/ pc' = "drain" /\ after' = "fail"
        \/ after # "fail" /\ pc' = after /\ after' = "none"
    BY <1>4 DEF Acknowledged
  <2>4. "decide" \in Looping /\ "top" \in Looping
    BY DEF Looping
  <2> QED BY <2>1, <2>2, <2>3, <2>4, SameLoopCore
<1>5. CASE Decide
  <2>1. pc \in {"decide", "top"} /\ pc \in Looping /\ UNCHANGED <<stored, run, ready, inFlight, published>>
    BY <1>5 DEF Decide, Looping
  <2>2. after = "none"
    BY <2>1, LoopFacts
  <2>3. Unpublished(published)' = Unpublished(published)
    BY <2>1 DEF Unpublished, NextAttempt
  <2>4. \/ pc' = "drain" /\ after' = "succeed"
        \/ pc' = "publish" /\ Unpublished(published) # {} /\ after' = after
        \/ pc' = "select" /\ Unpublished(published) = {} /\ after' = after
    BY <1>5, <2>1, <1>NoStall DEF Decide
  <2>5. "publish" \in Looping /\ "select" \in Looping
    BY DEF Looping
  <2> QED BY <2>1, <2>2, <2>3, <2>4, <2>5, SameLoopCore
<1>6. ASSUME NEW w \in Workers, StaleClaim(w) \/ ParkClaim(w) \/ DropClaim(w) \/ WorkerLost(w) \/ BrokerError(w)
      PROVE  Core'
  <2>1. pc = "select" /\ pc \in Looping /\ UNCHANGED <<stored, run, ready, inFlight>>
    BY <1>6 DEF StaleClaim, ParkClaim, DropClaim, CanClaim, WorkerLost, BrokerError, Looping
  <2>2. after = "none"
    BY <2>1, LoopFacts, Zenon
  <2>3. \/ pc' = "top" /\ after' = after
        \/ pc' = "ack" /\ after' = "top"
        \/ pc' = "drain" /\ after' = "return"
    BY <1>6 DEF StaleClaim, ParkClaim, DropClaim, WorkerLost, BrokerError
  <2>4. "top" \in Looping /\ "ack" \in Looping
    BY DEF Looping
  <2> QED BY <2>1, <2>2, <2>3, <2>4, SameLoopCore, Zenon
<1> QED BY <1>1, <1>2, <1>3, <1>4, <1>5, <1>6

\* Publishing.
LEMMA PublishCore ==
  ASSUME IInv, [Next]_vars, Publish
  PROVE  Core'
<1>1. pc = "publish" /\ pc \in Looping /\ UNCHANGED <<stored, run, ready, inFlight>>
  BY DEF Publish, Looping
<1>2. after = "none"
  BY <1>1, LoopFacts
<1>3. \/ pc' = "drain" /\ after' = "return"
      \/ /\ pc' = IF Unpublished(published') = {} THEN "select" ELSE "publish"
         /\ after' = after
  BY DEF Publish, Shutdown
<1>4. Unpublished(published') = Unpublished(published)'
  BY <1>1 DEF Unpublished, NextAttempt
<1>5. "publish" \in Looping /\ "select" \in Looping
  BY DEF Looping
<1> QED BY <1>1, <1>2, <1>3, <1>4, <1>5, SameLoopCore

\* A save that fails ends the call; what is held may be ahead of what is stored.
LEMMA AbortCore ==
  ASSUME IInv, [Next]_vars, pc \in Looping, NEW r \in Run, r.status = "running", Bounded(r), Earned(r),
         run' = r, stored' \in {stored, r}, pc' = "drain",
         after' = "return" \/ (after' = "fail" /\ stored' = stored /\ Behind(stored, r))
  PROVE  Core'
<1>1. stored = run /\ run \in Run /\ run # NoRun /\ run.status = "running" /\ Earned(run)
  BY LoopFacts
<1>2. Earned(run)' /\ Bounded(run)'
  BY EarnedNext
<1>3. Earned(stored)'
  BY <1>1, EarnedNext
<1>4. StoredOK' /\ PublishedKnown'
  BY <1>3, StoredStays, PublishedStays
<1>5. stored' # NoRun /\ stored'.status = "running"
  BY <1>1, DefinitionAssumption
<1> QED BY <1>1, <1>2, <1>4, <1>5, DrainCore

\* A lease.
LEMMA LeaseCore ==
  ASSUME IInv, [Next]_vars, NEW w \in Workers, LeaseClaim(w)
  PROVE  Core'
<1> DEFINE t == Claimed(w)[1]
           r == StartTaskAttempt(run, t, w)
<1>1. pc = "select" /\ pc \in Looping /\ worker[w].pc \in Holding
  BY DEF LeaseClaim, CanClaim, Looping, Holding
<1>2. /\ stored = run /\ run \in Run /\ run # NoRun /\ run.status = "running"
      /\ Bounded(run) /\ Earned(run) /\ NewReady(run) = {}
      /\ ready = ReadyTasks(run) /\ inFlight = RunningAttempts(run) /\ after = "none"
      /\ ~HasTask(run, "failed") /\ ~HasTask(run, "canceled")
  BY <1>1, LoopFacts
<1>3. t \in Tasks
  BY <1>1, ClaimedTypes, Zenon DEF Claimed, IInv, TypeInv, WorkersOK
<1>4. run.tasks[t].status = "ready" /\ Claimed(w) = <<t, run.tasks[t].attempts + 1>> /\ run' = r
  BY DEF LeaseClaim, NextAttempt
<1>5. ProgressWrite(run, r)
  BY <1>2, <1>3, <1>4, LeaseIsProgress
<1>6. r \in Run /\ r.status = "running" /\ Bounded(r) /\ Earned(r)
  BY <1>2, <1>3, <1>5, ProgressKeeps, SuccessesStay
<1>7. CASE SaveError(r) /\ pc' = "drain" /\ after' = "return"
  BY <1>1, <1>4, <1>6, <1>7, AbortCore, SaveStores
<1>8. CASE Saved(r) /\ ready' = ready \ {t} /\ inFlight' = inFlight \cup {Claimed(w)} /\ pc' = "top" /\ after' = after
  <2>1. stored' = r
    BY <1>8 DEF Saved
  <2>2. StoredOK' /\ PublishedKnown'
    BY <1>6, <2>1, EarnedNext, StoredStays, PublishedStays
  <2>3. /\ ready' = ReadyTasks(r) /\ inFlight' = RunningAttempts(r) /\ NewReady(r) = {}
        /\ ~HasTask(r, "failed") /\ ~HasTask(r, "canceled")
    BY <1>2, <1>3, <1>4, <1>8, LeaseBooks
  <2>4. pc' \in Looping
    BY <1>8 DEF Looping
  <2> HIDE DEF r
  <2> QED BY <1>2, <1>4, <1>6, <1>8, <2>1, <2>2, <2>3, <2>4, LoopCore
<1> QED BY <1>7, <1>8 DEF LeaseClaim, Shutdown

\* A heartbeat.
LEMMA HeartbeatCore ==
  ASSUME IInv, [Next]_vars, NEW w \in Workers, Heartbeat(w)
  PROVE  Core'
<1> DEFINE r == RecordWorkerHeartbeat(run, w)
<1>1. pc = "select" /\ pc \in Looping /\ run' = r /\ UNCHANGED <<ready, inFlight>>
  BY DEF Heartbeat, Looping, books
<1>2. /\ stored = run /\ run \in Run /\ run # NoRun /\ run.status = "running"
      /\ Bounded(run) /\ Earned(run) /\ NewReady(run) = {}
      /\ ready = ReadyTasks(run) /\ inFlight = RunningAttempts(run) /\ after = "none"
      /\ ~HasTask(run, "failed") /\ ~HasTask(run, "canceled")
  BY <1>1, LoopFacts
<1>3. ProgressWrite(run, r)
  BY <1>2, HeartbeatIsProgress
<1>4. r \in Run /\ r.status = "running" /\ Bounded(r) /\ Earned(r)
  BY <1>2, <1>3, ProgressKeeps, SuccessesStay
<1>5. r.tasks = run.tasks
  BY <1>2 DEF RecordWorkerHeartbeat, Run
<1>6. CASE (Saved(r) \/ SaveError(r)) /\ pc' = "drain" /\ after' = "return"
  BY <1>1, <1>4, <1>6, AbortCore, SaveStores
<1>7. CASE Saved(r) /\ pc' = "top" /\ after' = after
  <2>1. stored' = r
    BY <1>7 DEF Saved
  <2>2. StoredOK' /\ PublishedKnown'
    BY <1>4, <2>1, EarnedNext, StoredStays, PublishedStays, Zenon
  <2> HIDE DEF r
  <2>3. /\ ready' = ReadyTasks(r) /\ inFlight' = RunningAttempts(r) /\ NewReady(r) = {}
        /\ ~HasTask(r, "failed") /\ ~HasTask(r, "canceled")
    BY <1>1, <1>2, <1>5 DEF ReadyTasks, RunningAttempts, NewReady, Completed, HasTask
  <2>4. pc' \in Looping
    BY <1>7, Zenon DEF Looping
  <2> QED BY <1>1, <1>2, <1>4, <1>7, <2>1, <2>2, <2>3, <2>4, LoopCore
<1> QED BY <1>6, <1>7 DEF Heartbeat, Shutdown

\* The loop top with something due.
LEMMA DueCore ==
  ASSUME IInv, [Next]_vars, RecoverDue
  PROVE  Core'
<1> DEFINE r == PromoteDueRetries(RecoverExpiredLeases(run))
           dead == {<<t, run.tasks[t].attempts>> : t \in ExpiredLeases(run)}
           failed == \E t \in ExpiredLeases(run) : r.tasks[t].status = "failed"
<1>1. /\ pc = "top" /\ pc \in Looping /\ run' = r
      /\ inFlight' = inFlight \ dead
      /\ ready' = ready \cup {t \in Due(run) : r.tasks[t].status = "ready"}
  BY Zenon DEF RecoverDue, Looping
<1>2. /\ stored = run /\ run \in Run /\ run # NoRun /\ run.status = "running"
      /\ Bounded(run) /\ Earned(run) /\ NewReady(run) = {}
      /\ ready = ReadyTasks(run) /\ inFlight = RunningAttempts(run) /\ after = "none"
      /\ ~HasTask(run, "failed") /\ ~HasTask(run, "canceled")
  BY <1>1, LoopFacts
<1>3. DueMoves(run, r) /\ Behind(run, r) /\ ProgressWrite(run, r)
  BY <1>2, DueFacts, DueIsBehind, RecoverDueIsProgress
<1>4. r \in Run /\ r.status = "running" /\ Bounded(r) /\ Earned(r)
  BY <1>2, <1>3, ProgressKeeps, SuccessesStay, Zenon
<1>5. \/ Saved(r) /\ pc' = "ack" /\ after' = IF failed THEN "fail" ELSE "decide"
      \/ SaveError(r) /\ pc' = "drain" /\ after' = IF stored' = r THEN "return" ELSE "fail"
  BY Zenon DEF RecoverDue, Shutdown
<1>6. CASE SaveError(r) /\ pc' = "drain" /\ after' = IF stored' = r THEN "return" ELSE "fail"
  <2>1. stored' \in {stored, r}
    BY <1>6, SaveStores
  <2>2. after' = "return" \/ (after' = "fail" /\ stored' = stored /\ Behind(stored, r))
    BY <1>2, <1>3, <1>6, <2>1, Zenon
  <2> QED BY <1>1, <1>4, <1>6, <2>1, <2>2, AbortCore
<1>7. CASE Saved(r) /\ pc' = "ack" /\ after' = IF failed THEN "fail" ELSE "decide"
  <2>1. stored' = r
    BY <1>7 DEF Saved
  <2>2. StoredOK' /\ PublishedKnown'
    BY <1>4, <2>1, EarnedNext, StoredStays, PublishedStays, Zenon
  <2>3. NewReady(r) = {}
    BY <1>2, <1>3, Zenon DEF DueMoves
  <2>4. ready' = ReadyTasks(r) /\ inFlight' = RunningAttempts(r)
    BY <1>1, <1>2, <1>3, DueBooks, Zenon
  <2>5. after' # "fail" => ~HasTask(r, "failed") /\ ~HasTask(r, "canceled")
    BY <1>2, <1>3, <1>7, DueBooks
  <2>6. pc' \in Looping /\ after' \in {"decide", "fail"}
    BY <1>7, Zenon DEF Looping
  <2> HIDE DEF r, failed
  <2> QED BY <1>1, <1>4, <1>7, <2>1, <2>2, <2>3, <2>4, <2>5, <2>6, LoopCore
<1> QED BY <1>5, <1>6, <1>7

\* The attempt that a result is of is over once the result is handled.
LEMMA ResultIsOver ==
  ASSUME IInv, pc = "select", results # <<>>, NEW res, res = Head(results),
         NEW t, t = AttemptOf(res.delivery.message)[1],
         NEW n, n = AttemptOf(res.delivery.message)[2]
  PROVE  /\ res \in ResultType /\ t \in Tasks /\ n \in Nat /\ res.result \in Results
         /\ <<t, n>> \in Attempts /\ AttemptOf(res.delivery.message) = <<t, n>>
         /\ res.delivery \in DeliveryType /\ Tenable(run, res.to, t, n)
         /\ res.result = "ok" => <<t, n>> \in proved
         /\ Over(AfterCompletion(run, t, res.to, n, res.result), t, n)
<1>1. stored = run /\ run \in Run /\ run # NoRun
  BY LoopHolds DEF Looping
<1>2. results \in Seq(ResultType)
  BY DEF IInv, TypeInv
<1>3. res \in ResultType /\ 1 \in 1..Len(results) /\ res = results[1]
  BY <1>2
<1>4. res.delivery \in DeliveryType /\ res.result \in Results
  BY <1>3 DEF ResultType
<1>5. /\ AttemptOf(res.delivery.message) \in Attempts /\ t \in Tasks /\ n \in Nat
      /\ AttemptOf(res.delivery.message)[1] = res.delivery.message[1]
      /\ AttemptOf(res.delivery.message)[2] = res.delivery.message[2]
  BY <1>4, ClaimedTypes
<1>6. AttemptOf(res.delivery.message) = <<t, n>>
  BY <1>5, AttemptTypes, Zenon
<1>7. /\ Tenable(run, res.to, t, n)
      /\ res.result = "ok" => <<t, n>> \in proved
  BY <1>1, <1>3, <1>5, <1>6, Zenon DEF IInv, WorkInv, ResultsTrue
<1>8. run.tasks[t].attempts \in Nat
  BY <1>1, <1>5, Zenon DEF Run, TaskRun
<1> DEFINE o == CompletionOutcome(run, t, res.to, n, res.result)
           a == AfterCompletion(run, t, res.to, n, res.result)
<1>9. CASE o = "ignored"
  <2>1. ~HoldsAttempt(run, t, res.to, n)
    BY <1>9 DEF CompletionOutcome
  <2>2. a.tasks[t] = run.tasks[t]
    BY <1>1, <1>5, <1>9, Zenon DEF AfterCompletion, CompleteTaskAttempt, Run
  <2> HIDE DEF a
  <2>3. n <= run.tasks[t].attempts
    BY <1>7 DEF Tenable
  <2>4. n = run.tasks[t].attempts => run.tasks[t].status # "running"
    BY <1>7, <2>1, Zenon DEF HoldsAttempt, Tenable
  <2>5. n < run.tasks[t].attempts \/ n = run.tasks[t].attempts
    BY <1>5, <1>8, <2>3
  <2>6. Over(a, t, n)
    BY <2>2, <2>4, <2>5, Zenon DEF Over
  <2> QED BY <1>3, <1>4, <1>5, <1>6, <1>7, <2>6 DEF a
<1>10. CASE o # "ignored"
  <2>1. Ended(run, a, t, o)
    BY <1>1, <1>4, <1>5, <1>10, CompletionFacts, Zenon
  <2>2. run.tasks[t].attempts = n
    BY <1>10 DEF CompletionOutcome, HoldsAttempt
  <2> HIDE DEF a, o
  <2>3. Over(a, t, n)
    BY <2>1, <2>2, Zenon DEF Ended, EndEdge, Over
  <2> QED BY <1>3, <1>4, <1>5, <1>6, <1>7, <2>3 DEF a
<1> QED BY <1>9, <1>10

\* A result.
LEMMA ResultCore ==
  ASSUME IInv, [Next]_vars, Result
  PROVE  Core'
<1>1. pc = "select" /\ pc \in Looping /\ results # <<>>
  BY Zenon DEF Result, Looping
<1>2. /\ stored = run /\ run \in Run /\ run # NoRun /\ run.status = "running"
      /\ Bounded(run) /\ Earned(run) /\ NewReady(run) = {}
      /\ ready = ReadyTasks(run) /\ inFlight = RunningAttempts(run) /\ after = "none"
      /\ ~HasTask(run, "failed") /\ ~HasTask(run, "canceled")
  BY <1>1, LoopFacts
<1>3. PICK res : res = Head(results)
  OBVIOUS
<1>4. PICK t, n : t = AttemptOf(res.delivery.message)[1] /\ n = AttemptOf(res.delivery.message)[2]
  OBVIOUS
<1> DEFINE m == AttemptOf(res.delivery.message)
           o == CompletionOutcome(run, t, res.to, n, res.result)
           r == AfterCompletion(run, t, res.to, n, res.result)
<1>5. /\ t \in Tasks /\ n \in Nat /\ res.result \in Results /\ m = <<t, n>>
      /\ res.result = "ok" => <<t, n>> \in proved
      /\ Over(r, t, n)
  BY <1>1, <1>3, <1>4, ResultIsOver
<1>6. \/ UNCHANGED <<stored, run, ready, inFlight>> /\ pc' = "drain" /\ after' = "cancel"
      \/ /\ run' = r /\ inFlight' = inFlight \ {m}
         /\ \/ /\ IF o = "ignored" THEN UNCHANGED <<stored, budget>> ELSE Saved(r)
               /\ ready' = ready \cup {u \in Tasks : r.tasks[u].status = "ready" /\ run.tasks[u].status # "ready"}
               /\ pc' = "ack" /\ after' = IF o = "failed" THEN "fail" ELSE "top"
            \/ o # "ignored" /\ SaveError(r) /\ pc' = "drain" /\ after' = "return"
  BY <1>3, <1>4, Zenon DEF Result, Shutdown
<1>7. CASE UNCHANGED <<stored, run, ready, inFlight>> /\ pc' = "drain" /\ after' = "cancel"
  BY <1>1, <1>7, SameLoopCore
<1>8. ASSUME o = "ignored" PROVE r = run /\ ReadyTasks(run) = ReadyTasks(r) /\ RunningAttempts(run) \ {m} = RunningAttempts(r)
  <2>1. r = run
    BY <1>2, <1>5, <1>8 DEF AfterCompletion, CompleteTaskAttempt, Run
  <2>2. Over(run, t, n)
    BY <1>5, <2>1
  <2> HIDE DEF r
  <2>3. run.tasks[t].attempts \in Nat
    BY <1>2, <1>5, Zenon DEF Run, TaskRun
  <2>4. m \notin RunningAttempts(run)
    <3> SUFFICES ASSUME m \in RunningAttempts(run) PROVE FALSE
      OBVIOUS
    <3>1. PICK u \in Tasks : run.tasks[u].status = "running" /\ m = <<u, run.tasks[u].attempts>>
      BY DEF RunningAttempts
    <3>2. u = t /\ n = run.tasks[t].attempts
      BY <1>5, <3>1
    <3> QED BY <1>5, <2>2, <2>3, <3>1, <3>2 DEF Over
  <2> QED BY <2>1, <2>4
<1>9. ASSUME o # "ignored"
      PROVE  /\ Ended(run, r, t, o) /\ run.tasks[t].attempts = n
             /\ r \in Run /\ r.status = "running" /\ Bounded(r) /\ Earned(r)
  <2>1. Ended(run, r, t, o) /\ ProgressWrite(run, r)
    BY <1>2, <1>5, <1>9, CompletionFacts, CompletionIsProgress, Zenon
  <2>2. run.tasks[t].attempts = n /\ (o = "succeeded" => res.result = "ok")
    BY <1>9, Zenon DEF CompletionOutcome, HoldsAttempt
  <2> HIDE DEF r, o
  <2>3. Earned(r)
    <3> SUFFICES ASSUME NEW u \in Tasks, r.tasks[u].status = "succeeded" PROVE <<u, r.tasks[u].attempts>> \in proved
      BY DEF Earned, Completed
    <3>1. CASE u = t
      <4>1. o = "succeeded" /\ r.tasks[t].attempts = n
        BY <2>1, <2>2, <3>1, Zenon DEF Ended, EndEdge
      <4> QED BY <1>5, <2>2, <3>1, <4>1, Zenon
    <3>2. CASE u # t
      <4>1. SameTask(run, r, u)
        BY <2>1, <3>2 DEF Ended, UnlockEdge
      <4> QED BY <1>2, <4>1, Zenon DEF Earned, Completed, SameTask
    <3> QED BY <3>1, <3>2
  <2> QED BY <1>2, <2>1, <2>2, <2>3, ProgressKeeps
<1>10. CASE run' = r /\ o # "ignored" /\ SaveError(r) /\ pc' = "drain" /\ after' = "return"
  BY <1>1, <1>9, <1>10, AbortCore, SaveStores, Zenon
<1>11. CASE /\ run' = r /\ inFlight' = inFlight \ {m}
            /\ IF o = "ignored" THEN UNCHANGED <<stored, budget>> ELSE Saved(r)
            /\ ready' = ready \cup {u \in Tasks : r.tasks[u].status = "ready" /\ run.tasks[u].status # "ready"}
            /\ pc' = "ack" /\ after' = IF o = "failed" THEN "fail" ELSE "top"
  <2>1. stored' = r
    BY <1>2, <1>8, <1>11, Zenon DEF Saved
  <2>2. r \in Run /\ r.status = "running" /\ Earned(r) /\ NewReady(r) = {}
    BY <1>2, <1>8, <1>9, Zenon DEF Ended
  <2>3. StoredOK' /\ PublishedKnown'
    BY <2>1, <2>2, EarnedNext, StoredStays, PublishedStays
  <2>4. /\ ready' = ReadyTasks(r) /\ inFlight' = RunningAttempts(r)
        /\ after' # "fail" => ~HasTask(r, "failed") /\ ~HasTask(r, "canceled")
    <3>1. CASE o = "ignored"
      <4>1. r = run /\ ReadyTasks(run) = ReadyTasks(r) /\ RunningAttempts(run) \ {m} = RunningAttempts(r)
        BY <1>8, <3>1
      <4> HIDE DEF r, o, m
      <4>2. {u \in Tasks : r.tasks[u].status = "ready" /\ run.tasks[u].status # "ready"} = {}
        BY <4>1, Zenon
      <4> QED BY <1>2, <1>11, <3>1, <4>1, <4>2
    <3>2. CASE o # "ignored"
      <4>0. run \in Run /\ t \in Tasks
        BY <1>2, <1>5, Zenon
      <4>1. Ended(run, r, t, o) /\ run.tasks[t].attempts = n
        BY <1>9, <3>2, Zenon
      <4> HIDE DEF r, o, m
      <4>2. /\ ReadyTasks(r) = ReadyTasks(run) \cup {u \in Tasks : r.tasks[u].status = "ready" /\ run.tasks[u].status # "ready"}
            /\ RunningAttempts(r) = RunningAttempts(run) \ {<<t, run.tasks[t].attempts>>}
            /\ ~HasTask(run, "canceled") => ~HasTask(r, "canceled")
            /\ ~HasTask(run, "failed") /\ o # "failed" => ~HasTask(r, "failed")
        BY <4>0, <4>1, CompletionBooks
      <4> QED BY <1>2, <1>5, <1>11, <4>1, <4>2
    <3> QED BY <3>1, <3>2, Zenon
  <2>5. pc' \in Looping /\ after' \in {"top", "fail"}
    BY <1>11 DEF Looping
  <2> HIDE DEF r, o, m
  <2> QED BY <1>11, <2>1, <2>2, <2>3, <2>4, <2>5, LoopCore
<1> HIDE DEF r, o, m
<1> QED BY <1>6, <1>7, <1>10, <1>11

-----------------------------------------------------------------------------
(* Steps beside the scheduler.                                             *)


\* Workers, the caller, the clock and the broker.
LEMMA BesideCore ==
  ASSUME IInv, [Next]_vars,
         \/ \E w \in Workers : WorkerStep(w)
         \/ Cancel
         \/ \E t \in Tasks : PassDeadline(t)
         \/ \E m \in Known(broker) : AckWaitExpires(m)
         \/ UNCHANGED vars
  PROVE  Core'
\* A step that leaves the scheduler where it is.
<1>WaitingCore.
      ASSUME IInv, [Next]_vars, SameRun(stored, stored'), SameRun(run, run'),
             stored = run => stored' = run',
             UNCHANGED <<pc, after, ready, inFlight, published, pending, acks>>,
             pc \in Outside \cup Opening => UNCHANGED <<worker, results>>
      PROVE  Core'
  <2> USE <1>WaitingCore
  <2>1. /\ stored # NoRun <=> stored' # NoRun
        /\ run # NoRun <=> run' # NoRun
        /\ stored' \in Run \cup {NoRun} /\ run' \in Run \cup {NoRun}
    BY Zenon DEF SameRun
  <2>2. stored' # NoRun => /\ stored'.status = stored.status /\ Bounded(stored') /\ Earned(stored)'
                           /\ \A t \in Tasks : stored'.tasks[t].status = stored.tasks[t].status
    <3> SUFFICES ASSUME stored' # NoRun
                 PROVE  /\ stored'.status = stored.status /\ Bounded(stored') /\ Earned(stored)'
                        /\ \A t \in Tasks : stored'.tasks[t].status = stored.tasks[t].status
      OBVIOUS
    <3>1. Bounded(stored) /\ Earned(stored) /\ stored # NoRun
      BY <2>1 DEF IInv, PlanInv
    <3>2. /\ stored'.status = stored.status /\ Bounded(stored')
          /\ \A t \in Tasks : SameTask(stored, stored', t)
      BY <3>1, SameRunFacts
    <3>3. Earned(stored')
      BY <3>1, <3>2, EarnedStays, Zenon DEF NoSuccess
    <3> QED BY <3>2, <3>3, EarnedNext, Zenon DEF SameTask
  <2>3. run' # NoRun => /\ run'.status = run.status /\ Bounded(run') /\ Earned(run)'
                        /\ NewReady(run') = NewReady(run) /\ ReadyTasks(run') = ReadyTasks(run)
                        /\ RunningAttempts(run') = RunningAttempts(run)
                        /\ \A st : HasTask(run', st) <=> HasTask(run, st)
                        /\ \A t \in Tasks : run'.tasks[t].attempts = run.tasks[t].attempts
    <3> SUFFICES ASSUME run' # NoRun
                 PROVE  /\ run'.status = run.status /\ Bounded(run') /\ Earned(run)'
                        /\ NewReady(run') = NewReady(run) /\ ReadyTasks(run') = ReadyTasks(run)
                        /\ RunningAttempts(run') = RunningAttempts(run)
                        /\ \A st : HasTask(run', st) <=> HasTask(run, st)
                        /\ \A t \in Tasks : run'.tasks[t].attempts = run.tasks[t].attempts
      OBVIOUS
    <3>1. Bounded(run) /\ Earned(run) /\ run # NoRun
      BY <2>1 DEF IInv, PlanInv
    <3>2. /\ run'.status = run.status /\ Bounded(run')
          /\ NewReady(run') = NewReady(run) /\ ReadyTasks(run') = ReadyTasks(run)
          /\ RunningAttempts(run') = RunningAttempts(run)
          /\ \A st : HasTask(run', st) <=> HasTask(run, st)
          /\ \A t \in Tasks : SameTask(run, run', t)
      BY <3>1, SameRunFacts, Zenon
    <3>3. Earned(run')
      BY <3>1, <3>2, EarnedStays DEF NoSuccess
    <3> QED BY <3>2, <3>3, EarnedNext DEF SameTask
  <2>4. TypeCore'
    BY <2>1, Zenon DEF TypeCore, IInv, TypeInv
  <2>5. pc = "drain" /\ after = "fail" => Behind(stored', run')
    <3>1. pc = "drain" => stored # NoRun /\ run # NoRun /\ pc \notin Outside
      BY DEF IInv, FlowInv, Outside
    <3> QED BY <3>1, SameRunBehind, Zenon DEF IInv, FlowInv
  <2>6. FlowInv'
    <3>1. pc \notin Outside => stored # NoRun /\ stored.status \in {"pending", "running"}
      BY Zenon DEF IInv, FlowInv
    <3>2. pc' = pc /\ after' = after
      BY Zenon
    <3>3. \/ pc \notin Outside \cup Opening
          \/ /\ \A w \in Workers : worker'[w] = Off
             /\ results' = <<>> /\ pending' = <<>> /\ acks' = <<>> /\ published' = {}
      BY Zenon DEF IInv, FlowInv
    <3>4. stored' # NoRun /\ stored'.status = "pending" => \A t \in Tasks : stored'.tasks[t].status = "pending"
      BY <2>1, <2>2 DEF IInv, FlowInv
    <3>5. pc = "drain" => stored # NoRun
      BY Zenon DEF IInv, FlowInv, Outside
    <3> QED BY <2>1, <2>2, <2>3, <2>5, <3>1, <3>2, <3>3, <3>4, <3>5, Zenon DEF IInv, FlowInv
  <2>7. PlanInv'
    <3>1. pc \in {"check", "prepare"} \cup Looping => run # NoRun
      BY Zenon DEF IInv, FlowInv
    <3> QED BY <2>1, <2>2, <2>3, <3>1, Zenon DEF IInv, PlanInv, Looping
  <2>8. BooksInv'
    <3>1. PublishedKnown'
      BY PublishedStays, Zenon
    <3>2. pc \in Looping => /\ run' # NoRun /\ ready = ReadyTasks(run) /\ ready \subseteq Tasks
                            /\ inFlight = RunningAttempts(run)
      BY <2>1, LoopFacts, Zenon DEF ReadyTasks
    <3>3. pc \in Looping => Unpublished(published)' = Unpublished(published)
      BY <2>3, <3>2 DEF Unpublished, NextAttempt
    <3>4. "publish" \in Looping /\ "select" \in Looping
      BY DEF Looping
    <3> QED BY <2>3, <3>1, <3>2, <3>3, <3>4 DEF IInv, BooksInv, PublishedKnown
  <2> QED BY <2>4, <2>6, <2>7, <2>8 DEF Core
<1>0. stored \in Run \cup {NoRun} /\ run \in Run \cup {NoRun}
  BY Zenon DEF IInv, TypeInv
<1>1. stored' = stored /\ run' = run => SameRun(stored, stored') /\ SameRun(run, run')
  BY <1>0, DefinitionAssumption DEF SameRun, SameTask
<1>2. ASSUME NEW w \in Workers, WorkerStep(w) PROVE Core'
  <2>1. worker[w].pc # "off"
    BY <1>2, Zenon DEF WorkerStep, StartWorker, Receive, ReceiveFails, InvokeHandler, HandlerReturns,
                HandlerPanics, SendResult, StopWorker
  <2>2. UNCHANGED <<stored, run, pc, after, ready, inFlight, published, pending, acks>>
    BY <1>2, Zenon DEF WorkerStep, StartWorker, Receive, ReceiveFails, InvokeHandler, HandlerReturns,
                HandlerPanics, SendResult, StopWorker, scheduler, books
  <2>3. pc \notin Outside \cup Opening
    BY <2>1 DEF IInv, FlowInv, Off
  <2> QED BY <1>1, <2>2, <2>3, <1>WaitingCore, Zenon
<1>3. CASE Cancel \/ UNCHANGED vars
  <2>1. UNCHANGED <<stored, run, pc, after, ready, inFlight, published, pending, acks, worker, results>>
    BY <1>3 DEF Cancel, vars, loop, books
  <2> QED BY <1>1, <2>1, <1>WaitingCore, Zenon
<1>4. ASSUME NEW m \in Known(broker), AckWaitExpires(m) PROVE Core'
  <2>1. UNCHANGED <<stored, run, pc, after, ready, inFlight, published, pending, acks, worker, results>>
    BY <1>4 DEF AckWaitExpires, scheduler, books
  <2> QED BY <1>1, <2>1, <1>WaitingCore
<1>5. ASSUME NEW t \in Tasks, PassDeadline(t) PROVE Core'
  <2>1. /\ stored' = Late(stored, t) /\ run' = Late(run, t)
        /\ UNCHANGED <<pc, after, ready, inFlight, published, pending, acks, worker, results>>
    BY <1>5 DEF PassDeadline, loop, books
  <2>2. ASSUME NEW r \in Run \cup {NoRun} PROVE SameRun(r, Late(r, t))
    <3>1. CASE r = NoRun
      BY <3>1 DEF Late, SameRun
    <3>2. CASE r \in Run
      BY <3>2, LateFacts, DefinitionAssumption DEF SameRun
    <3> QED BY <3>1, <3>2
  <2>3. SameRun(stored, stored') /\ SameRun(run, run')
    BY <1>0, <2>1, <2>2
  <2> QED BY <2>1, <2>3, <1>WaitingCore, Zenon
<1> QED BY <1>2, <1>3, <1>4, <1>5

\* Every step keeps the scheduler's part of the invariant.
LEMMA NextCore ==
  ASSUME IInv, [Next]_vars
  PROVE  Core'
<1>1. Execute \/ Recover \/ Load \/ Start => Core'
  BY BeginCore
<1>2. Resume \/ CheckContext \/ Prepare => Core'
  BY ResumeCore
<1>3. Drained \/ Crash => Core'
  BY EndCore
<1>4. TopCanceled \/ Acknowledge \/ Acknowledged \/ Decide \/ Timer \/ ContextDone => Core'
  BY QuietCore
<1>5. RecoverDue \/ Publish \/ Result => Core'
  BY DueCore, PublishCore, ResultCore
<1>6. ASSUME NEW w \in Workers,
             \/ StaleClaim(w) \/ ParkClaim(w) \/ DropClaim(w) \/ WorkerLost(w) \/ BrokerError(w)
             \/ LeaseClaim(w) \/ Heartbeat(w)
      PROVE  Core'
  <2>1. LeaseClaim(w) \/ Heartbeat(w) => Core'
    BY LeaseCore, HeartbeatCore
  <2>2. StaleClaim(w) \/ ParkClaim(w) \/ DropClaim(w) \/ WorkerLost(w) \/ BrokerError(w) => Core'
    BY QuietCore
  <2> QED BY <1>6, <2>1, <2>2
<1>7. \/ \E w \in Workers : WorkerStep(w)
      \/ Cancel
      \/ \E t \in Tasks : PassDeadline(t)
      \/ \E m \in Known(broker) : AckWaitExpires(m)
      \/ UNCHANGED vars
      => Core'
  BY BesideCore
<1>8. Proceed \/ Event => Core'
  BY <1>1, <1>2, <1>3, <1>4, <1>5, <1>6 DEF Proceed, Event
<1> QED BY <1>1, <1>3, <1>6, <1>7, <1>8 DEF Next

-----------------------------------------------------------------------------
(* Messages and acknowledgements.                                          *)

LOCAL INSTANCE WellFoundedInduction

ClaimsOf(A) == {c \in ClaimType : AttemptOf(c.delivery.message) \in A}

\* The claims keep their type, and only attempts that are over are acknowledged.
LEMMA ClaimsKept ==
  ASSUME IInv, [Next]_vars, Wrote(stored, stored')
  PROVE  pending' \in Seq(ClaimType) /\ acks' \in Seq(ClaimType) /\ AcksOver'
\* ClaimsFor yields claims for attempts of the given set, and only those.
<1>ClaimsForFacts.
      ASSUME NEW s \in Seq(ClaimType), NEW A
      PROVE  ClaimsFor(s, A) \in Seq(ClaimsOf(A))
  <2> USE <1>ClaimsForFacts
  \* A set of naturals has a least element.
  <2>LeastElement.
        ASSUME NEW T, T \subseteq Nat, T # {}
        PROVE  \E x \in T : \A y \in T : x <= y
    <3> USE <2>LeastElement
    <3> DEFINE R == OpToRel(<, Nat)
    <3>1. IsWellFoundedOn(R, Nat)
      BY NatLessThanWellFounded, Zenon
    <3>2. \A y \in Nat, x \in Nat : y < x => <<y, x>> \in R
      BY DEF OpToRel
    <3> HIDE DEF R
    <3>3. \E x \in T : \A y \in T : ~ (<<y, x>> \in R)
      BY <3>1, WFMin, Zenon
    <3>4. PICK x \in T : \A y \in T : ~ (<<y, x>> \in R)
      BY <3>3
    <3>5. ASSUME NEW y \in T PROVE x <= y
      <4>1. x \in Nat /\ y \in Nat
        OBVIOUS
      <4>2. ~(y < x)
        BY <3>2, <3>4, <4>1, Zenon
      <4> QED BY <4>1, <4>2
    <3> QED BY <3>5
  <2> DEFINE N == Len(s)
             Y == Seq(ClaimsOf(A))
             step(n, y) == IF AttemptOf(s[n].delivery.message) \in A THEN Append(y, s[n]) ELSE y
             Fits(g, k) == g[0] = <<>> /\ \A n \in 1..k : g[n] = step(n, g[n - 1])
             Some(k) == \E g \in [0..k -> Y] : Fits(g, k)
             Lost == {k \in 0..N : ~Some(k)}
             pick == CHOOSE f : f = [n \in 0..N |-> IF n = 0 THEN <<>> ELSE step(n, f[n - 1])]
  <2>1. N \in Nat /\ \A n \in 1..N : s[n] \in ClaimType
    OBVIOUS
  <2>2. <<>> \in Y
    OBVIOUS
  <2>3. \A n \in 1..N, y \in Y : step(n, y) \in Y
    BY <2>1 DEF ClaimsOf
  <2>4. ClaimsFor(s, A) = pick[N]
    BY DEF ClaimsFor
  <2> HIDE DEF N, Y, step
  <2>5. Some(0)
    <3> DEFINE g == [n \in 0..0 |-> <<>>]
    <3>1. g \in [0..0 -> Y] /\ Fits(g, 0)
      BY <2>2
    <3> QED BY <3>1, Zenon
  <2>6. ASSUME NEW k \in Nat, k + 1 \in 0..N, Some(k)
        PROVE  Some(k + 1)
    <3>1. PICK g \in [0..k -> Y] : Fits(g, k)
      BY <2>6
    <3> DEFINE h == [n \in 0..(k + 1) |-> IF n = k + 1 THEN step(k + 1, g[k]) ELSE g[n]]
    <3>2. step(k + 1, g[k]) \in Y
      BY <2>1, <2>3, <2>6
    <3>3. h \in [0..(k + 1) -> Y]
      BY <3>2
    <3>4. h[0] = <<>> /\ h[k + 1] = step(k + 1, g[k]) /\ \A n \in 0..k : h[n] = g[n]
      BY <3>1
    <3>5. \A n \in 1..k : h[n] = step(n, h[n - 1])
      BY <3>1, <3>4
    <3>6. h[k + 1] = step(k + 1, h[(k + 1) - 1])
      BY <3>4
    <3> HIDE DEF h
    <3>7. \A n \in 1..(k + 1) : n \in 1..k \/ n = k + 1
      OBVIOUS
    <3>8. Fits(h, k + 1)
      BY <3>4, <3>5, <3>6, <3>7, Zenon
    <3> QED BY <3>3, <3>8
  <2>7. Lost = {}
    <3> SUFFICES ASSUME Lost # {} PROVE FALSE
      OBVIOUS
    <3>1. Lost \subseteq Nat
      BY <2>1
    <3>2. PICK k \in Lost : \A j \in Lost : k <= j
      BY <3>1, <2>LeastElement, Zenon
    <3> HIDE DEF Some
    <3>3. k # 0
      BY <2>5
    <3>4. k - 1 \in Nat /\ k - 1 \in 0..N /\ (k - 1) + 1 = k
      BY <2>1, <3>3
    <3>5. Some(k - 1)
      BY <3>2, <3>4
    <3>6. Some((k - 1) + 1)
      BY <2>6, <3>4, <3>5
    <3> QED BY <3>4, <3>6
  <2>8. PICK g \in [0..N -> Y] : Fits(g, N)
    BY <2>1, <2>7
  <2>9. g = [n \in 0..N |-> IF n = 0 THEN <<>> ELSE step(n, g[n - 1])]
    BY <2>1, <2>8
  <2>10. pick = [n \in 0..N |-> IF n = 0 THEN <<>> ELSE step(n, pick[n - 1])]
    BY <2>9, Zenon
  <2> HIDE DEF pick
  <2> DEFINE Bad == {n \in 0..N : pick[n] \notin Y}
  <2>11. Bad = {}
    <3> SUFFICES ASSUME Bad # {} PROVE FALSE
      OBVIOUS
    <3>1. Bad \subseteq Nat
      BY <2>1
    <3>2. PICK k \in Bad : \A j \in Bad : k <= j
      BY <3>1, <2>LeastElement, Zenon
    <3>3. k # 0
      BY <2>2, <2>10
    <3>4. k \in 1..N /\ k - 1 \in 0..N
      BY <2>1, <3>3
    <3>5. pick[k - 1] \in Y
      BY <3>2, <3>4
    <3>6. pick[k] = step(k, pick[k - 1])
      BY <2>10, <3>3, <3>4
    <3> QED BY <2>3, <3>2, <3>4, <3>5, <3>6
  <2>12. N \in 0..N /\ pick[N] \in Y
    BY <2>1, <2>11
  <2> QED BY <2>4, <2>12 DEF Y
\* Claims for attempts that are over.
<1>ClaimsOver.
      ASSUME NEW A, NEW s \in Seq(ClaimsOf(A)), NEW r, \A a \in A : Over(r, a[1], a[2])
      PROVE  /\ s \in Seq(ClaimType)
             /\ \A i \in 1..Len(s) : Over(r, s[i].delivery.message[1], s[i].delivery.message[2])
  <2> USE <1>ClaimsOver
  <2>1. s \in Seq(ClaimType)
    BY DEF ClaimsOf
  <2>2. ASSUME NEW i \in 1..Len(s)
        PROVE  Over(r, s[i].delivery.message[1], s[i].delivery.message[2])
    <3>1. s[i] \in ClaimsOf(A)
      OBVIOUS
    <3>2. s[i] \in ClaimType /\ AttemptOf(s[i].delivery.message) \in A
      BY <3>1, Zenon DEF ClaimsOf
    <3>3. s[i].delivery \in DeliveryType
      BY <3>2, Zenon DEF ClaimType
    <3> QED BY <3>2, <3>3, ClaimedTypes
  <2> QED BY <2>1, <2>2
\* A delivered attempt that is neither startable nor running is over.
<1>DroppedIsOver.
      ASSUME IInv, NEW w \in Workers, DropClaim(w)
      PROVE  /\ Claim(w) \in ClaimType /\ stored # NoRun
             /\ Claim(w).delivery.message = worker[w].delivery.message
             /\ Over(stored, worker[w].delivery.message[1], worker[w].delivery.message[2])
  <2> USE <1>DroppedIsOver
  <2> DEFINE m == worker[w].delivery.message
             t == Claimed(w)[1]
             n == Claimed(w)[2]
  <2>1. pc = "select" /\ worker[w].pc \in Holding
    BY DEF DropClaim, CanClaim, Holding
  <2>2. stored = run /\ run \in Run /\ run # NoRun /\ run.status = "running"
    BY <2>1, LoopHolds, Zenon DEF Looping
  <2>3. worker[w].delivery \in DeliveryType
    BY <2>1, Zenon DEF IInv, TypeInv, WorkersOK
  <2>4. t = m[1] /\ n = m[2] /\ t \in Tasks /\ n \in Nat /\ Claimed(w) = <<t, n>>
    BY <2>3, ClaimedTypes, AttemptTypes DEF Claimed
  <2>5. Issued(stored, m[1], m[2])
    BY <2>1, Zenon DEF IInv, MessageInv
  <2>6. /\ ~(run.tasks[t].status = "ready" /\ Claimed(w) = <<t, run.tasks[t].attempts + 1>>)
        /\ ~(run.tasks[t].status = "running" /\ Claimed(w) = <<t, run.tasks[t].attempts>>)
    BY Zenon DEF DropClaim, NextAttempt
  <2>7. run.tasks[t].attempts \in Nat
    BY <2>2, <2>4, Zenon DEF Run, TaskRun
  <2> HIDE DEF t, n, m
  <2>8. Over(stored, t, n)
    BY <2>2, <2>4, <2>5, <2>6, <2>7 DEF Issued, Over, TerminalRun
  <2>9. Claim(w) \in ClaimType /\ Claim(w).delivery.message = worker[w].delivery.message
    BY <2>3, Zenon DEF Claim, ClaimType
  <2> QED BY <2>2, <2>4, <2>8, <2>9, Zenon DEF m
\* Which steps change the claims that wait and the acknowledgements to come.
<1>ClaimsFrame.
      ASSUME [Next]_vars
      PROVE  \/ UNCHANGED <<acks, pending>>
             \/ acks' = <<>> /\ pending' = <<>>
             \/ RecoverDue \/ Result
             \/ Acknowledge /\ acks # <<>> /\ acks' = Tail(acks) /\ pending' = pending
             \/ \E w \in Workers : \/ DropClaim(w) /\ acks' = <<Claim(w)>> /\ pending' = pending
                                   \/ ParkClaim(w) /\ acks' = acks /\ pending' = Append(pending, Claim(w))
  <2> USE <1>ClaimsFrame
  <2> USE DEF loop, scheduler, Return, LocalReset, FinishWith
  <2> DEFINE Quiet == UNCHANGED <<acks, pending>> \/ (acks' = <<>> /\ pending' = <<>>)
  <2>1. Execute \/ Start \/ Recover \/ Load \/ Resume \/ CheckContext \/ Cancel \/ Crash => Quiet
    BY Zenon DEF Execute, Start, Recover, Load, Resume, CheckContext, Cancel, Crash
  <2>2. Prepare \/ Drained => Quiet
    BY Zenon DEF Prepare, Drained
  <2>3. TopCanceled \/ Acknowledged \/ Decide \/ Publish \/ Timer \/ ContextDone => Quiet
    BY Zenon DEF TopCanceled, Acknowledged, Decide, Publish, Timer, ContextDone
  <2>4. ASSUME NEW w \in Workers,
               StaleClaim(w) \/ LeaseClaim(w) \/ WorkerLost(w) \/ BrokerError(w) \/ Heartbeat(w)
        PROVE  Quiet
    BY <2>4 DEF StaleClaim, LeaseClaim, WorkerLost, BrokerError, Heartbeat
  <2>5. ASSUME NEW w \in Workers, WorkerStep(w)
        PROVE  Quiet
    BY <2>5 DEF WorkerStep, StartWorker, Receive, ReceiveFails, InvokeHandler, HandlerReturns,
                HandlerPanics, SendResult, StopWorker
  <2>6. Acknowledge => Quiet \/ (acks # <<>> /\ acks' = Tail(acks) /\ pending' = pending)
    BY Zenon DEF Acknowledge
  <2>7. \A w \in Workers : DropClaim(w) => acks' = <<Claim(w)>> /\ pending' = pending
    BY DEF DropClaim
  <2>8. \A w \in Workers : ParkClaim(w) => acks' = acks /\ pending' = Append(pending, Claim(w))
    BY Zenon DEF ParkClaim
  <2>9. \A t \in Tasks : PassDeadline(t) => Quiet
    BY DEF PassDeadline
  <2>10. \A m \in Known(broker) : AckWaitExpires(m) => Quiet
    BY DEF AckWaitExpires
  <2>11. UNCHANGED vars => Quiet
    BY Zenon DEF vars
  <2> QED BY <2>1, <2>2, <2>3, <2>4, <2>5, <2>6, <2>7, <2>8, <2>9, <2>10, <2>11 DEF Next, Proceed, Event
\* What is kept of the acknowledgements to come is for attempts that are over.
<1>AcksStay.
      ASSUME IInv, Wrote(stored, stored'), acks' \in Seq(ClaimType),
             \A i \in 1..Len(acks') : \E j \in 1..Len(acks) : acks'[i] = acks[j]
      PROVE  AcksOver'
  <2> USE <1>AcksStay
  <2> SUFFICES ASSUME NEW i \in 1..Len(acks')
               PROVE  LET m == acks'[i].delivery.message
                      IN  stored' # NoRun /\ Over(stored', m[1], m[2])
    BY DEF AcksOver
  <2>1. PICK j \in 1..Len(acks) : acks'[i] = acks[j]
    BY Zenon
  <2> DEFINE m == acks[j].delivery.message
  <2>2. stored # NoRun /\ Over(stored, m[1], m[2])
    <3>1. AcksOver
      BY Zenon DEF IInv, MessageInv
    <3> QED BY <3>1, Zenon DEF AcksOver
  <2>3. stored \in Run /\ acks[j] \in ClaimType
    <3>1. stored \in Run \cup {NoRun} /\ acks \in Seq(ClaimType)
      BY Zenon DEF IInv, TypeInv
    <3> HIDE DEF m
    <3> QED BY <2>2, <3>1
  <2>4. m[1] \in Tasks /\ m[2] \in Nat
    BY <2>3, ClaimedTypes, Zenon DEF ClaimType
  <2> QED BY <2>1, <2>2, <2>3, <2>4, Stable, Zenon
<1>0. pending \in Seq(ClaimType) /\ acks \in Seq(ClaimType)
  BY DEF IInv, TypeInv
<1>1. CASE UNCHANGED <<acks, pending>>
  BY <1>0, <1>1, <1>AcksStay
<1>2. CASE acks' = <<>> /\ pending' = <<>>
  <2>1. pending' \in Seq(ClaimType) /\ acks' \in Seq(ClaimType) /\ Len(acks') = 0
    BY <1>2
  <2>2. 1..Len(acks') = {}
    BY <2>1
  <2> QED BY <2>1, <2>2, Zenon DEF AcksOver
<1>3. CASE acks # <<>> /\ acks' = Tail(acks) /\ pending' = pending
  <2>1. acks' \in Seq(ClaimType) /\ \A i \in 1..Len(acks') : \E j \in 1..Len(acks) : acks'[i] = acks[j]
    BY <1>0, <1>3
  <2> QED BY <1>0, <1>3, <2>1, <1>AcksStay
<1>4. ASSUME NEW w \in Workers, DropClaim(w), acks' = <<Claim(w)>>, pending' = pending
      PROVE  pending' \in Seq(ClaimType) /\ acks' \in Seq(ClaimType) /\ AcksOver'
  <2>1. /\ Claim(w) \in ClaimType /\ stored # NoRun
        /\ Claim(w).delivery.message = worker[w].delivery.message
        /\ Over(stored, worker[w].delivery.message[1], worker[w].delivery.message[2])
    BY <1>4, <1>DroppedIsOver, Zenon
  <2>2. UNCHANGED stored
    BY <1>4, Zenon DEF DropClaim
  <2>3. acks' \in Seq(ClaimType) /\ \A i \in 1..Len(acks') : acks'[i] = Claim(w)
    BY <1>4, <2>1
  <2> QED BY <1>0, <1>4, <2>1, <2>2, <2>3, Zenon DEF AcksOver
<1>5. ASSUME NEW w \in Workers, ParkClaim(w), acks' = acks, pending' = Append(pending, Claim(w))
      PROVE  pending' \in Seq(ClaimType) /\ acks' \in Seq(ClaimType) /\ AcksOver'
  <2>1. worker[w].pc \in Holding
    BY <1>5, Zenon DEF ParkClaim, CanClaim, Holding
  <2>2. Claim(w) \in ClaimType
    <3>1. worker[w].delivery \in DeliveryType
      BY <2>1, Zenon DEF IInv, TypeInv, WorkersOK
    <3> QED BY <3>1 DEF Claim, ClaimType
  <2>3. pending' \in Seq(ClaimType)
    BY <1>0, <1>5, <2>2
  <2> QED BY <1>0, <1>5, <2>3, <1>AcksStay
<1>6. CASE RecoverDue
  <2> DEFINE r == PromoteDueRetries(RecoverExpiredLeases(run))
             dead == {<<t, run.tasks[t].attempts>> : t \in ExpiredLeases(run)}
  <2>1. pc = "top"
    BY <1>6, Zenon DEF RecoverDue
  <2>2. stored = run /\ run \in Run /\ run # NoRun
    BY <2>1, LoopHolds DEF Looping
  <2>3. DueMoves(run, r)
    BY <2>2, DueFacts, Zenon
  <2>4. \A a \in dead : Over(r, a[1], a[2])
    <3>1. ASSUME NEW t \in ExpiredLeases(run) PROVE Over(r, t, run.tasks[t].attempts)
      <4> HIDE DEF r
      <4> QED BY <2>2, <2>3, DeadIsOver
    <3> HIDE DEF r
    <3> QED BY <3>1
  <2>5. \/ UNCHANGED <<acks, pending>>
        \/ /\ stored' = r
           /\ acks' = ClaimsFor(pending, dead) /\ pending' = ClaimsFor(pending, Attempts \ dead)
    BY <1>6, Zenon DEF RecoverDue, Saved
  <2>6. CASE stored' = r /\ acks' = ClaimsFor(pending, dead) /\ pending' = ClaimsFor(pending, Attempts \ dead)
    <3>1. acks' \in Seq(ClaimsOf(dead)) /\ pending' \in Seq(ClaimsOf(Attempts \ dead))
      BY <1>0, <2>6, <1>ClaimsForFacts, Zenon
    <3> HIDE DEF dead, r
    <3>2. /\ acks' \in Seq(ClaimType)
          /\ \A i \in 1..Len(acks') : Over(r, acks'[i].delivery.message[1], acks'[i].delivery.message[2])
      BY <2>4, <3>1, <1>ClaimsOver, Zenon
    <3>3. pending' \in Seq(ClaimType)
      BY <3>1 DEF ClaimsOf
    <3>4. stored' # NoRun
      BY <2>3, <2>6, DefinitionAssumption DEF DueMoves
    <3> QED BY <2>6, <3>2, <3>3, <3>4, Zenon DEF AcksOver
  <2> QED BY <1>1, <2>5, <2>6
<1>7. CASE Result
  <2>1. pc = "select" /\ results # <<>>
    BY <1>7, Zenon DEF Result
  <2>2. stored = run /\ run \in Run /\ run # NoRun
    BY <2>1, LoopHolds DEF Looping
  <2>3. PICK res : res = Head(results)
    OBVIOUS
  <2>4. PICK t, n : t = AttemptOf(res.delivery.message)[1] /\ n = AttemptOf(res.delivery.message)[2]
    BY Zenon
  <2> DEFINE r == AfterCompletion(run, t, res.to, n, res.result)
             k == [to |-> NoWorker, delivery |-> res.delivery]
             m == AttemptOf(res.delivery.message)
  <2>5. /\ m = <<t, n>> /\ res.delivery \in DeliveryType /\ Over(r, t, n)
    BY <2>1, <2>3, <2>4, ResultIsOver, Zenon
  <2>6. \/ UNCHANGED <<acks, pending>>
        \/ /\ stored' = r \/ (stored' = run /\ r = run)
           /\ acks' = <<k>> \o ClaimsFor(pending, {m}) /\ pending' = ClaimsFor(pending, Attempts \ {m})
    <3>1. \/ UNCHANGED <<acks, pending>>
          \/ /\ \/ CompletionOutcome(run, t, res.to, n, res.result) = "ignored" /\ stored' = stored
                \/ stored' = r
             /\ acks' = <<k>> \o ClaimsFor(pending, {m}) /\ pending' = ClaimsFor(pending, Attempts \ {m})
      BY <1>7, <2>3, <2>4, Zenon DEF Result, Saved
    <3>2. CompletionOutcome(run, t, res.to, n, res.result) = "ignored" => r = run
      BY <2>2 DEF AfterCompletion, CompleteTaskAttempt, Run
    <3> QED BY <2>2, <3>1, <3>2, Zenon
  <2>7. CASE /\ stored' = r
             /\ acks' = <<k>> \o ClaimsFor(pending, {m}) /\ pending' = ClaimsFor(pending, Attempts \ {m})
    <3>1. ClaimsFor(pending, {m}) \in Seq(ClaimsOf({m})) /\ pending' \in Seq(ClaimsOf(Attempts \ {m}))
      BY <1>0, <2>7, <1>ClaimsForFacts
    <3>2. k \in ClaimsOf({m})
      BY <2>5, Zenon DEF ClaimsOf, ClaimType
    <3>3. acks' \in Seq(ClaimsOf({m}))
      BY <2>7, <3>1, <3>2
    <3>4. \A a \in {m} : Over(r, a[1], a[2])
      BY <2>5
    <3> DEFINE one == {m}
    <3> HIDE DEF one, m, r, k
    <3>8. acks' \in Seq(ClaimsOf(one)) /\ \A a \in one : Over(r, a[1], a[2])
      BY <3>3, <3>4, Zenon DEF one
    <3>5. /\ acks' \in Seq(ClaimType)
          /\ \A i \in 1..Len(acks') : Over(r, acks'[i].delivery.message[1], acks'[i].delivery.message[2])
      BY <3>8, <1>ClaimsOver, Zenon
    <3>6. pending' \in Seq(ClaimType)
      BY <3>1 DEF ClaimsOf
    <3>7. stored' # NoRun
      BY <2>2, WroteFacts, DefinitionAssumption
    <3> QED BY <2>7, <3>5, <3>6, <3>7, Zenon DEF AcksOver
  <2> QED BY <1>1, <2>6, <2>7, Zenon
<1> QED BY <1>1, <1>2, <1>3, <1>4, <1>5, <1>6, <1>7, <1>ClaimsFrame

\* What is known of the messages the broker already had.
LEMMA MessagesStay ==
  ASSUME IInv, Wrote(stored, stored')
  PROVE  /\ \A m \in Known(broker) : stored' # NoRun /\ Issued(stored', m[1], m[2])
         /\ \A m \in broker.acked : Over(stored', m[1], m[2])
<1>1. ASSUME NEW m \in Known(broker)
      PROVE  stored \in Run /\ m[1] \in Tasks /\ m[2] \in Nat
  <2>1. stored # NoRun /\ m \in Copies
    BY Zenon DEF IInv, MessageInv, TypeInv, IsSubscription
  <2> QED BY <2>1, AttemptTypes DEF IInv, TypeInv
<1>2. \A m \in broker.acked : m \in Known(broker)
  BY DEF IInv, TypeInv, IsSubscription, SubscriptionType
<1>3. ASSUME NEW m \in Known(broker) PROVE stored' # NoRun /\ Issued(stored', m[1], m[2])
  BY <1>1, Stable, Zenon DEF IInv, MessageInv
<1>4. ASSUME NEW m \in broker.acked PROVE Over(stored', m[1], m[2])
  BY <1>1, <1>2, Stable, Zenon DEF IInv, MessageInv
<1> QED BY <1>3, <1>4

\* The message invariant is preserved.
LEMMA NextMessage ==
  ASSUME IInv, [Next]_vars, Wrote(stored, stored')
  PROVE  MessageInv' /\ IsSubscription(broker') /\ WorkersOK(worker')
<1>1. AcksOver'
  BY ClaimsKept, Zenon
<1>2. /\ \A m \in Known(broker) : stored' # NoRun /\ Issued(stored', m[1], m[2])
      /\ \A m \in broker.acked : Over(stored', m[1], m[2])
  BY MessagesStay
<1>3. ASSUME Published
      PROVE  /\ IsSubscription(broker') /\ Known(broker) \subseteq Known(broker') /\ broker'.acked = broker.acked
             /\ \A m \in Known(broker') : stored' # NoRun /\ Issued(stored', m[1], m[2])
  <2>1. pc = "publish" /\ UNCHANGED stored
    BY <1>3 DEF Published
  <2>2. stored = run /\ run \in Run /\ run # NoRun
    BY <2>1, LoopHolds DEF Looping
  <2>3. PICK t \in Unpublished(published), m \in Copies :
          Grows(broker, broker', m) /\ AttemptOf(m) = NextAttempt(t)
    BY <1>3, Zenon DEF Published
  <2>4. t \in Tasks /\ run.tasks[t].status = "ready" /\ run.tasks[t].attempts \in Nat
    BY <2>1, NextPublication, Zenon
  <2>5. m[1] = t /\ m[2] = run.tasks[t].attempts + 1
    BY <2>3, Zenon DEF AttemptOf, NextAttempt
  <2>6. Issued(stored, m[1], m[2])
    BY <2>2, <2>4, <2>5, Zenon DEF Issued
  <2> QED BY <1>2, <2>1, <2>2, <2>3, <2>6, Zenon DEF Grows
<1>4. ASSUME Acked
      PROVE  /\ IsSubscription(broker') /\ Known(broker') = Known(broker)
             /\ \A m \in broker'.acked : Over(stored', m[1], m[2])
  <2>1. acks \in Seq(ClaimType) /\ acks # <<>> /\ Acks(broker, broker', Head(acks).delivery.message)
    BY <1>4, Zenon DEF Acked, IInv, TypeInv
  <2>2. Head(acks) = acks[1] /\ 1 \in 1..Len(acks) /\ acks[1] \in ClaimType
    BY <2>1
  <2> DEFINE m == acks[1].delivery.message
  <2>3. stored # NoRun /\ Over(stored, m[1], m[2])
    BY <2>2, Zenon DEF IInv, MessageInv, AcksOver
  <2>4. stored \in Run /\ m[1] \in Tasks /\ m[2] \in Nat
    BY <2>2, <2>3, ClaimedTypes, Zenon DEF IInv, TypeInv, ClaimType
  <2>5. Over(stored', m[1], m[2])
    BY <2>3, <2>4, Stable
  <2> QED BY <1>2, <2>1, <2>2, <2>5 DEF Acks
<1>5. /\ IsSubscription(broker')
      /\ \A m \in Known(broker') : stored' # NoRun /\ Issued(stored', m[1], m[2])
      /\ \A m \in broker'.acked : Over(stored', m[1], m[2])
      /\ Known(broker) \subseteq Known(broker') \/ Crash
  BY <1>2, <1>3, <1>4, BrokerKinds, Zenon DEF Moves, Forgot
<1>6. WorkersOK(worker')
  BY StepKinds, WorkerTurns, Zenon DEF Calm, Turns
<1>7. \A w \in Workers : worker'[w].pc \in Holding => worker'[w].delivery.message \in Known(broker')
  <2>1. CASE Crash
    <3>1. \A w \in Workers : worker'[w] = Off
      BY <2>1, Zenon DEF Crash, LocalReset
    <3> QED BY <3>1, IdleTypes DEF Holding
  <2>2. CASE Known(broker) \subseteq Known(broker')
    <3>1. \A w \in Workers : worker[w].pc \in Holding => worker[w].delivery.message \in Known(broker)
      BY Zenon DEF IInv, MessageInv
    <3>2. CASE Calm(worker, worker')
      BY <2>2, <3>1, <3>2, Zenon DEF Calm
    <3>3. ASSUME NEW w \in Workers, Receive(w)
          PROVE  \A v \in Workers : worker'[v].pc \in Holding => worker'[v].delivery.message \in Known(broker')
      <4>1. Turns(w, "claim", Delivery(broker), worker[w].result)
        BY <3>3, WorkerTurns
      <4>2. Delivery(broker).message \in Known(broker)
        BY <3>3, ReceiveFacts, Zenon DEF Receive, Receipt, IInv, TypeInv
      <4> QED BY <2>2, <3>1, <4>1, <4>2 DEF Turns
    <3>4. ASSUME NEW w \in Workers, NEW p, NEW r, Turns(w, p, worker[w].delivery, r), worker[w].pc \in Holding
          PROVE  \A v \in Workers : worker'[v].pc \in Holding => worker'[v].delivery.message \in Known(broker')
      BY <2>2, <3>1, <3>4 DEF Turns
    <3>5. ASSUME NEW w \in Workers,
                 \/ (LeaseClaim(w) /\ pc' # "drain") \/ InvokeHandler(w)
                 \/ \E res \in Results : HandlerReturns(w, res)
          PROVE  \A v \in Workers : worker'[v].pc \in Holding => worker'[v].delivery.message \in Known(broker')
      <4>1. worker[w].pc \in Holding
        BY <3>5 DEF LeaseClaim, CanClaim, InvokeHandler, HandlerReturns, Holding
      <4> QED BY <3>4, <3>5, <4>1, WorkerTurns, Zenon
    <3> QED BY <3>2, <3>3, <3>5, StepKinds, Zenon
  <2> QED BY <1>5, <2>1, <2>2
<1> QED BY <1>1, <1>5, <1>6, <1>7, Zenon DEF MessageInv

-----------------------------------------------------------------------------
(* The invariant.                                                          *)


\* The engine starts in the invariant.
LEMMA InitIInv == Init => IInv
<1> SUFFICES ASSUME Init PROVE IInv
  BY Zenon
<1>1. /\ stored = NoRun /\ run = NoRun /\ pc = "idle" /\ after = "none"
      /\ published = {} /\ pending = <<>> /\ acks = <<>> /\ results = <<>>
      /\ worker = [w \in Workers |-> Off] /\ invoked = [a \in Attempts |-> 0]
      /\ broker \in {EmptyQueue, EmptyStream}
  BY Zenon DEF Init
<1>2. IsSubscription(broker) /\ Known(broker) = {} /\ broker.acked = {}
  BY <1>1, EmptyFacts, Zenon
<1>3. \A w \in Workers : worker[w] = Off /\ worker[w].pc = "off"
  BY <1>1 DEF Off
<1>4. Off \in WorkerType /\ Off.pc \notin Holding /\ Off.pc # "report"
  BY DEF Off, WorkerType, Holding
<1>5. pc \in Outside /\ pc \notin Opening /\ pc \notin Looping
  BY <1>1, Zenon DEF Outside, Opening, Looping
<1>6. TypeInv
  <2>1. WorkersOK(worker)
    BY <1>1, <1>4 DEF WorkersOK
  <2>2. invoked \in [Attempts -> Nat]
    BY <1>1
  <2>3. pending \in Seq(ClaimType) /\ acks \in Seq(ClaimType) /\ results \in Seq(ResultType)
    BY <1>1
  <2> QED BY <1>1, <1>2, <1>5, <2>1, <2>2, <2>3 DEF TypeInv
<1>7. FlowInv
  BY <1>1, <1>3, <1>5 DEF FlowInv
<1>8. PlanInv /\ BooksInv
  BY <1>1, <1>5, Zenon DEF PlanInv, BooksInv
<1>9. MessageInv
  <2>1. AcksOver
    BY <1>1 DEF AcksOver
  <2> QED BY <1>2, <1>3, <2>1, Zenon DEF MessageInv, Holding
<1>10. WorkInv
  <2>1. ResultsTrue
    BY <1>1 DEF ResultsTrue
  <2>2. \A a \in Attempts : invoked[a] = 0
    BY <1>1
  <2>3. AttemptRunsOnce
    BY <2>2 DEF AttemptRunsOnce
  <2> QED BY <1>3, <2>1, <2>2, <2>3, Zenon DEF WorkInv, Executing
<1> QED BY <1>6, <1>7, <1>8, <1>9, <1>10 DEF IInv

\* Every step keeps the invariant.
LEMMA NextIInv == IInv /\ [Next]_vars => IInv'
<1> SUFFICES ASSUME IInv, [Next]_vars PROVE IInv'
  OBVIOUS
<1>1. Wrote(stored, stored')
  BY EveryStepWrites
<1>2. Core'
  BY NextCore
<1>3. MessageInv' /\ IsSubscription(broker') /\ WorkersOK(worker')
  BY <1>1, NextMessage
<1>4. WorkInv' /\ results' \in Seq(ResultType) /\ invoked' \in [Attempts -> Nat]
  BY <1>1, NextWork
<1>5. pending' \in Seq(ClaimType) /\ acks' \in Seq(ClaimType)
  BY <1>1, ClaimsKept, Zenon
<1>6. TypeInv'
  BY <1>2, <1>3, <1>4, <1>5 DEF TypeInv, Core, TypeCore
<1> QED BY <1>2, <1>3, <1>4, <1>6 DEF IInv, Core

\* The inductive invariant holds in every reachable state.
THEOREM EngineInvariance == Spec => []IInv
BY InitIInv, NextIInv, PTL DEF Spec

\* A worker executes an attempt only after its lease was stored: "durable
\* lease-before-execution ordering".
THEOREM LeasesComeFirst == Spec => []LeaseBeforeExecution
<1>1. IInv => LeaseBeforeExecution
  <2> SUFFICES ASSUME IInv, NEW w \in Workers, worker[w].pc \in {"granted", "exec", "report"}
               PROVE  /\ stored.tasks[Claimed(w)[1]].attempts >= Claimed(w)[2]
                      /\ stored.tasks[Claimed(w)[1]].attempts = Claimed(w)[2]
                         /\ stored.tasks[Claimed(w)[1]].status = "running"
                         => stored.tasks[Claimed(w)[1]].lease = w
    BY Zenon DEF LeaseBeforeExecution
  <2>1. Tenable(stored, w, Claimed(w)[1], Claimed(w)[2])
    BY Zenon DEF IInv, WorkInv, Executing
  <2> QED BY <2>1, Zenon DEF Tenable
<1> QED BY <1>1, EngineInvariance, PTL

\* The handler of an attempt ID is called at most once.
THEOREM AttemptsRunOnce == Spec => []AttemptRunsOnce
<1>1. IInv => AttemptRunsOnce
  BY Zenon DEF IInv, WorkInv
<1> QED BY <1>1, EngineInvariance, PTL

\* A message is acknowledged only after the end of its attempt was stored:
\* "handler result -> persisted completion -> broker ack".
THEOREM AcksComeLast == Spec => []AckAfterDurable
<1>1. IInv => AckAfterDurable
  <2> SUFFICES ASSUME IInv, NEW m \in broker.acked
               PROVE  /\ stored.tasks[m[1]].attempts >= m[2]
                      /\ stored.tasks[m[1]].attempts = m[2] => stored.tasks[m[1]].status # "running"
    BY DEF AckAfterDurable
  <2>1. m \in Known(broker) /\ m \in Copies
    BY Zenon DEF IInv, TypeInv, IsSubscription, SubscriptionType
  <2>2. stored \in Run /\ m[1] \in Tasks /\ m[2] \in Nat
    BY <2>1, AttemptTypes, Zenon DEF IInv, TypeInv, MessageInv
  <2>3. stored.tasks[m[1]].attempts \in Nat
    BY <2>2, Zenon DEF Run, TaskRun
  <2>4. Over(stored, m[1], m[2])
    BY Zenon DEF IInv, MessageInv
  <2> QED BY <2>2, <2>3, <2>4 DEF Over
<1> QED BY <1>1, EngineInvariance, PTL

\* While the scheduler waits, its maps agree with the aggregate and every ready
\* task has its next attempt with the broker.
THEOREM NothingIsForgotten == Spec => []NothingForgotten
<1>1. IInv => NothingForgotten
  <2> SUFFICES ASSUME IInv, pc = "select" PROVE NothingForgotten
    BY Zenon DEF NothingForgotten
  <2>1. /\ stored = run /\ run \in Run /\ run # NoRun
        /\ ready = ReadyTasks(run) /\ inFlight = RunningAttempts(run)
    BY LoopFacts DEF Looping
  <2>2. Unpublished(published) = {} /\ PublishedKnown
    BY Zenon DEF IInv, BooksInv, PublishedKnown
  <2>3. ASSUME NEW t \in ready
        PROVE  /\ NextAttempt(t) \in published
               /\ \E m \in Copies : AttemptOf(m) = NextAttempt(t) /\ Available(broker, m)
    <3>1. NextAttempt(t) \in published
      BY <2>2 DEF Unpublished
    <3> DEFINE n == run.tasks[t].attempts
               m == Copy(NextAttempt(t), 1)
    <3>2. t \in Tasks /\ run.tasks[t].status = "ready" /\ n \in Nat
      BY <2>1, Zenon DEF ReadyTasks, Run, TaskRun
    <3>3. m \in Known(broker) /\ m \in Copies
      BY <2>2, <3>1, Zenon DEF PublishedKnown, IInv, TypeInv, IsSubscription
    <3>4. m[1] = t /\ m[2] = n + 1 /\ AttemptOf(m) = NextAttempt(t)
      BY Zenon DEF Copy, NextAttempt, AttemptOf
    <3>5. m \notin broker.acked
      <4> SUFFICES ASSUME m \in broker.acked PROVE FALSE
        BY Zenon
      <4>1. Over(stored, m[1], m[2])
        BY Zenon DEF IInv, MessageInv
      <4>2. Over(run, t, n + 1)
        BY <2>1, <3>4, <4>1
      <4> QED BY <3>2, <4>2 DEF Over
    <3> HIDE DEF m
    <3> QED BY <3>1, <3>3, <3>4, <3>5 DEF Available
  <2> QED BY <2>1, <2>3, Zenon DEF NothingForgotten, ReadyTasks, RunningAttempts
<1> QED BY <1>1, EngineInvariance, PTL

\* The scheduler never finds nothing to do and tasks left: the branch "stalled with unfinished tasks" is never taken.
THEOREM SchedulerNeverStalls == Spec => []NeverStalls
<1>1. IInv => NeverStalls
  BY Zenon DEF IInv, TypeInv, FlowInv, NeverStalls, Outside, Opening, Looping
<1> QED BY <1>1, EngineInvariance, PTL

\* A durable success is the success of the handler of the task's last attempt.
THEOREM SuccessesAreEarned == Spec => []SuccessIsEarned
<1>1. IInv => SuccessIsEarned
  BY Zenon DEF IInv, PlanInv, Earned, SuccessIsEarned
<1> QED BY <1>1, EngineInvariance, PTL

\* No worker is left when a run is durably terminal.
THEOREM FinishedRunsAreQuiet == Spec => []QuietWhenFinished
<1>1. IInv => QuietWhenFinished
  <2> SUFFICES ASSUME IInv, stored # NoRun, stored.status \in TerminalRun, NEW w \in Workers
               PROVE  worker[w].pc = "off"
    BY Zenon DEF QuietWhenFinished
  <2>1. pc \in Outside
    BY DEF IInv, FlowInv, TerminalRun
  <2> QED BY <2>1 DEF IInv, FlowInv, Off
<1> QED BY <1>1, EngineInvariance, PTL

-----------------------------------------------------------------------------
(* The durable aggregate is a lifecycle.                                   *)


\* The constant definitions the instance shares with this module.
LEMMA SharedDefinitions ==
  /\ Lifecycle!TaskStatuses = TaskStatuses
  /\ Lifecycle!Unfinished = Unfinished
  /\ Lifecycle!TerminalRun = TerminalRun
  /\ \A from, to : Lifecycle!LegalWorkflowTransition(from, to) <=> LegalWorkflowTransition(from, to)
BY Zenon DEF Lifecycle!TaskStatuses, TaskStatuses, Lifecycle!Unfinished, Unfinished,
       Lifecycle!TerminalRun, TerminalRun,
       Lifecycle!LegalWorkflowTransition, LegalWorkflowTransition

\* The refinement mapping at a stored run, and its type.
LEMMA Mapping ==
  ASSUME stored \in Run
  PROVE  /\ DurableStatus = stored.status
         /\ DurableTask \in [Tasks -> Lifecycle!AbstractTask]
         /\ \A t \in Tasks : DurableTask[t] =
              [status |-> stored.tasks[t].status, attempts |-> stored.tasks[t].attempts,
               owner |-> stored.tasks[t].lease]
<1>1. stored # NoRun /\ \A t \in Tasks : stored.tasks[t] \in TaskRun
  BY DefinitionAssumption DEF Run
<1> QED BY <1>1, SharedDefinitions DEF DurableStatus, DurableTask, Lifecycle!AbstractTask, TaskRun

\* Every step maps to a step of the lifecycle or to a stutter.
LEMMA NextRefines == IInv /\ [Next]_vars => [Lifecycle!Next]_(Lifecycle!vars)
\* A committed write maps to a step of the lifecycle.
<1>CommitRefines.
      ASSUME stored \in Run, stored' \in Run,
             ProgressWrite(stored, stored') \/ FinishWrite(stored, stored')
      PROVE  Lifecycle!Next
  <2> USE <1>CommitRefines
  <2>1. /\ DurableStatus = stored.status
        /\ DurableTask \in [Tasks -> Lifecycle!AbstractTask]
        /\ \A t \in Tasks : DurableTask[t] =
             [status |-> stored.tasks[t].status, attempts |-> stored.tasks[t].attempts,
              owner |-> stored.tasks[t].lease]
    BY Mapping, Zenon
  <2>2. /\ DurableStatus' = stored'.status
        /\ DurableTask' \in [Tasks -> Lifecycle!AbstractTask]
        /\ \A t \in Tasks : DurableTask'[t] =
             [status |-> stored'.tasks[t].status, attempts |-> stored'.tasks[t].attempts,
              owner |-> stored'.tasks[t].lease]
    <3>1. stored' # NoRun /\ \A t \in Tasks : stored'.tasks[t] \in TaskRun
      BY DefinitionAssumption DEF Run
    <3> QED BY <3>1, SharedDefinitions DEF DurableStatus, DurableTask, Lifecycle!AbstractTask, TaskRun
  <2>3. ASSUME NEW t \in Tasks
        PROVE  /\ SameTask(stored, stored', t) => DurableTask'[t] = DurableTask[t]
               /\ UnlockEdge(stored, stored', t) => Lifecycle!Unlock(t)
               /\ GrantEdge(stored, stored', t) => Lifecycle!Grant(t)
               /\ EndEdge(stored, stored', t) => Lifecycle!End(t)
               /\ PromoteEdge(stored, stored', t) => Lifecycle!Promote(t)
               /\ CancelEdge(stored, stored', t) => Lifecycle!Cancel(t)
    <3>1. SameTask(stored, stored', t) => DurableTask'[t] = DurableTask[t]
      BY <2>1, <2>2 DEF SameTask
    <3>2. UnlockEdge(stored, stored', t) => Lifecycle!Unlock(t)
      <4> SUFFICES ASSUME UnlockEdge(stored, stored', t) PROVE Lifecycle!Unlock(t)
        OBVIOUS
      <4>1. \A d \in Deps[t] : d \in Tasks
        BY DefinitionAssumption, Zenon
      <4>2. \A d \in Deps[t] : DurableTask'[d].status = "succeeded"
        BY <2>2, <4>1 DEF UnlockEdge
      <4>3. DurableTask[t].status = "pending" /\ DurableTask'[t] = [DurableTask[t] EXCEPT !.status = "ready"]
        BY <2>1, <2>2 DEF UnlockEdge
      <4> QED BY <4>2, <4>3 DEF Lifecycle!Unlock
    <3>3. GrantEdge(stored, stored', t) => Lifecycle!Grant(t)
      BY <2>1, <2>2 DEF GrantEdge, Lifecycle!Grant
    <3>4. EndEdge(stored, stored', t) => Lifecycle!End(t)
      <4> SUFFICES ASSUME EndEdge(stored, stored', t) PROVE Lifecycle!End(t)
        OBVIOUS
      <4> DEFINE to == stored'.tasks[t].status
      <4>0. /\ DurableTask[t].status = stored.tasks[t].status
            /\ DurableTask[t].attempts = stored.tasks[t].attempts
        BY <2>1
      <4>1. DurableTask'[t] = [status |-> to, attempts |-> DurableTask[t].attempts, owner |-> NoWorker]
        BY <2>2, <4>0, Zenon DEF EndEdge
      <4>2. /\ DurableTask[t].status = "running"
            /\ to \in {"succeeded", "ready", "retry_wait", "failed"}
            /\ to \in {"ready", "retry_wait"} => DurableTask[t].attempts < MaxAttempts[t]
        BY <4>0, Zenon DEF EndEdge
      <4> HIDE DEF to
      <4> QED BY <4>1, <4>2, Zenon DEF Lifecycle!End
    <3>5. PromoteEdge(stored, stored', t) => Lifecycle!Promote(t)
      BY <2>1, <2>2 DEF PromoteEdge, Lifecycle!Promote
    <3>6. CancelEdge(stored, stored', t) => Lifecycle!Cancel(t)
      <4> SUFFICES ASSUME CancelEdge(stored, stored', t) PROVE Lifecycle!Cancel(t)
        OBVIOUS
      <4>0. /\ DurableTask[t].status = stored.tasks[t].status
            /\ DurableTask[t].attempts = stored.tasks[t].attempts
        BY <2>1
      <4>1. DurableTask'[t] =
              [status |-> "canceled", attempts |-> DurableTask[t].attempts, owner |-> NoWorker]
        BY <2>2, <4>0, Zenon DEF CancelEdge
      <4>2. DurableTask[t].status \in Unfinished
        BY <4>0, Zenon DEF CancelEdge
      <4> QED BY <4>1, <4>2, SharedDefinitions, Zenon DEF Lifecycle!Cancel
    <3> QED BY <3>1, <3>2, <3>3, <3>4, <3>5, <3>6, Zenon
  <2>4. CASE ProgressWrite(stored, stored')
    <3>1. stored.status = "pending" => DurableTask' = DurableTask
      BY <2>1, <2>2, <2>4 DEF ProgressWrite
    <3>2. Lifecycle!Progress
      BY <2>1, <2>2, <2>3, <2>4, <3>1 DEF ProgressWrite, Lifecycle!Progress
    <3> QED BY <3>2, Zenon DEF Lifecycle!Next
  <2>5. CASE FinishWrite(stored, stored')
    <3>1. stored'.status \in TerminalRun /\ LegalWorkflowTransition(stored.status, stored'.status)
      BY <2>5 DEF FinishWrite
    <3>2. stored.status \in {"pending", "running"}
      BY <3>1 DEF LegalWorkflowTransition
    <3>3. \A t \in Tasks : \/ DurableTask'[t] = DurableTask[t]
                           \/ Lifecycle!Cancel(t) \/ Lifecycle!End(t)
      BY <2>3, <2>5, Zenon DEF FinishWrite
    <3>4. ValidAggregate(stored')
      BY <2>5 DEF FinishWrite
    <3>5. /\ \A t \in Tasks : stored'.tasks[t].status \notin Unfinished
          /\ stored'.status = "succeeded" => \A t \in Tasks : stored'.tasks[t].status = "succeeded"
          /\ stored'.status = "canceled" => \A t \in Tasks : stored'.tasks[t].status # "failed"
          /\ stored'.status = "failed" =>
               \E t \in Tasks : stored'.tasks[t].status \in {"failed", "canceled"}
      BY <3>1, <3>4, Zenon DEF ValidAggregate, TerminalRun, Unfinished
    <3>6. \A t \in Tasks : DurableTask'[t].status = stored'.tasks[t].status
      BY <2>2
    <3>7. /\ DurableStatus = stored.status /\ DurableStatus' = stored'.status
          /\ DurableTask' \in [Tasks -> Lifecycle!AbstractTask]
      BY <2>1, <2>2, Zenon
    <3>8. Lifecycle!Finish
      BY <3>1, <3>2, <3>3, <3>5, <3>6, <3>7, SharedDefinitions, Zenon DEF Lifecycle!Finish
    <3> QED BY <3>8, Zenon DEF Lifecycle!Next
  <2> QED BY <2>4, <2>5
\* A step that keeps status, attempts and owners is a stutter of the lifecycle.
<1>SameRefines.
      ASSUME SameRun(stored, stored')
      PROVE  UNCHANGED Lifecycle!vars
  <2> USE <1>SameRefines
  <2>1. CASE stored = NoRun /\ stored' = NoRun
    BY <2>1, Zenon DEF Lifecycle!vars, DurableStatus, DurableTask
  <2>2. CASE /\ stored # NoRun /\ stored' # NoRun /\ stored'.status = stored.status
             /\ \A t \in Tasks : SameTask(stored, stored', t)
    <3>1. DurableStatus' = DurableStatus
      BY <2>2 DEF DurableStatus
    <3>2. DurableTask' = DurableTask
      BY <2>2 DEF DurableTask, SameTask
    <3> QED BY <3>1, <3>2 DEF Lifecycle!vars
  <2> QED BY <2>1, <2>2 DEF SameRun
<1> SUFFICES ASSUME IInv, [Next]_vars PROVE [Lifecycle!Next]_(Lifecycle!vars)
  BY Zenon
<1>0. stored \in Run \cup {NoRun} /\ Wrote(stored, stored')
  BY EveryStepWrites DEF IInv, TypeInv
<1>1. CASE stored = NoRun
  <2>1. stored' \in {NoRun, NewWorkflowRun}
    BY <1>1, FirstWrite
  <2>2. CASE stored' = NoRun
    BY <1>1, <2>2, <1>SameRefines DEF SameRun
  <2>3. CASE stored' = NewWorkflowRun
    <3>1. stored' # NoRun
      BY <2>3, NewRunType, DefinitionAssumption, Zenon
    <3>2. DurableTask' = DurableTask
      BY <1>1, <2>3, <3>1, NewRunType DEF DurableTask, NewTaskRun
    <3>3. DurableStatus = NoRun /\ DurableStatus' = "pending"
      BY <1>1, <2>3, <3>1, NewRunType DEF DurableStatus
    <3> QED BY <3>2, <3>3, Zenon DEF Lifecycle!Next, Lifecycle!Create
  <2> QED BY <2>1, <2>2, <2>3
<1>2. CASE stored \in Run /\ stored # NoRun
  <2>1. stored' \in Run
    BY <1>0, <1>2, WroteFacts
  <2>2. CASE ProgressWrite(stored, stored') \/ FinishWrite(stored, stored')
    BY <1>2, <2>1, <2>2, <1>CommitRefines
  <2>3. ASSUME NEW t \in Tasks, stored' = stored \/ stored' = Late(stored, t)
        PROVE  UNCHANGED Lifecycle!vars
    <3>1. SameRun(stored, stored')
      BY <1>2, <2>3, LateFacts, DefinitionAssumption DEF SameRun, SameTask
    <3> QED BY <3>1, <1>SameRefines, Zenon
  <2>4. stored' = stored => UNCHANGED Lifecycle!vars
    <3>1. stored' = stored => SameRun(stored, stored')
      BY <1>2 DEF SameRun, SameTask
    <3> QED BY <3>1, <1>SameRefines
  <2> QED BY <1>0, <1>2, <2>2, <2>3, <2>4 DEF Wrote
<1> QED BY <1>0, <1>1, <1>2

\* Everything the engine writes is a history the lifecycle allows.
THEOREM EngineRefinesLifecycle == Spec => ImplementsLifecycle
<1>1. Init => Lifecycle!Init
  BY DEF Init, Lifecycle!Init, Lifecycle!Fresh, DurableStatus, DurableTask
<1> QED BY <1>1, InitIInv, NextIInv, NextRefines, PTL
        DEF Spec, ImplementsLifecycle, Lifecycle!Spec

==============================================================================
