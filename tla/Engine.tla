------------------------------- MODULE Engine -------------------------------
(***************************************************************************)
(* execution.Engine running one workflow run: Execute and Recover of        *)
(* engine.go, the scheduler loop executeBrokerRun of engine_broker.go, its  *)
(* supervised worker goroutines, and the task broker between them.          *)
(*                                                                         *)
(* The scheduler goroutine, every worker goroutine, the caller that cancels *)
(* the context, the clock and the crash of the process interleave.  A step  *)
(* of the scheduler is what it does between two points where a worker can   *)
(* observe it: one loop top, one publication, one event, one ack.           *)
(*                                                                         *)
(* What a worker has sent and the scheduler has not handled yet is the      *)
(* state of the worker ("claim", "lost", "broken"), except for results: a   *)
(* worker goes on after sending one, so they are a queue.  Heartbeat events *)
(* are not stored: a worker that has started may have one pending at any    *)
(* time, and so may one that has just disappeared.  Channel capacities are  *)
(* not modelled: a worker that blocks on a send also selects on its context *)
(* and the scheduler drains every channel.                                  *)
(***************************************************************************)
EXTENDS WorkflowRun, TaskQueue

CONSTANTS Slots,        \* the worker slots, workerCount of them
          SameEngine,   \* whether Recover may be called again on one Engine
          MaxCalls,     \* bound: Execute and Recover calls
          MaxPanics,    \* bound: handler panics
          MaxLapses,    \* bound: leases that run out while their worker lives
          MaxFaults,    \* bound: store writes or receives that fail
          MaxCancels,   \* bound: cancellations of the caller's context
          MaxCrashes,   \* bound: process crashes
          MaxExpiries,  \* bound: AckWait or the duplicate window runs out
          MaxTroubles,  \* bound: all of these but calls and crashes
          Transports    \* the brokers to run with, "memory" or "jetstream"

\* workerNamespace/slot/generation; the namespace is new in every process.
MaxGeneration == 1 + MaxPanics + MaxLapses
WorkerIDs == [epoch : 0..MaxCrashes, slot : Slots, gen : 1..MaxGeneration]

ASSUME EngineAssumption ==
  /\ Tasks \subseteq Nat /\ SameEngine \in BOOLEAN /\ MaxExpiries \in Nat
  /\ Transports \subseteq {"memory", "jetstream"}
  /\ Workers = WorkerIDs

VARIABLES
  stored,     \* the snapshot in the Store, or NoRun
  run,        \* the aggregate the scheduler owns, or NoRun
  pc,         \* where the call of Execute or Recover is
  after,      \* what follows the acknowledgements or shutdownWorkers
  ctxDone,    \* the caller's context is canceled
  ready, inFlight, published,   \* the scheduler's maps of the same names
  active,     \* activeDeliveries: a set of [to, delivery]
  pending,    \* pendingClaims, in the order of arrival
  acks,       \* what the scheduler is about to acknowledge
  gen,        \* generations
  worker,     \* worker[w]: the goroutine of worker w
  results,    \* the resultEvents channel
  broker,     \* the run's subscription
  epoch,      \* the number of process restarts
  budget,     \* what is left of the bounds
  invoked,    \* history: how often each attempt's handler was called
  proved      \* history: attempts whose handler returned success

books == <<ready, inFlight, published>>
history == <<invoked, proved>>
vars == <<stored, run, pc, after, ctxDone, books, active, pending, acks,
          gen, worker, results, broker, epoch, budget, history>>

\* AttemptIDFor; the broker message of an attempt has the same ID.  JetStream
\* stores it again when it is published again after the duplicate window: a
\* message of the model is an attempt and the number of the copy.
Attempts == UNION {{<<t, n>> : n \in 1..MaxAttempts[t]} : t \in Tasks}

Copy(a, c) == <<a[1], a[2], c>>
AttemptOf(m) == <<m[1], m[2]>>
Copies == {Copy(a, c) : a \in Attempts, c \in 1..MaxExpiries + 1}

NoDelivery == [message |-> <<>>, count |-> 0]

Off == [pc |-> "off", done |-> FALSE, delivery |-> NoDelivery, result |-> "none"]

Spawned == [Off EXCEPT !.pc = "start"]

\* One use of a bounded event; all but calls and crashes share MaxTroubles.
Spend(what) ==
  LET trouble == IF what \in {"calls", "crashes"} THEN 0 ELSE 1
  IN  /\ budget[what] > 0 /\ budget.troubles >= trouble
      /\ budget' = [budget EXCEPT ![what] = @ - 1, !.troubles = @ - trouble]

Init ==
  /\ stored = NoRun /\ run = NoRun
  /\ pc = "idle" /\ after = "none" /\ ctxDone = FALSE
  /\ ready = {} /\ inFlight = {} /\ published = {}
  /\ active = {} /\ pending = <<>> /\ acks = <<>>
  /\ gen = [s \in Slots |-> 1] /\ worker = [w \in Workers |-> Off]
  /\ results = <<>>
  /\ \E transport \in Transports :
       broker = IF transport = "memory" THEN EmptyQueue ELSE EmptyStream
  /\ epoch = 0
  /\ budget = [calls |-> MaxCalls, panics |-> MaxPanics, lapses |-> MaxLapses,
               faults |-> MaxFaults, cancels |-> MaxCancels,
               crashes |-> MaxCrashes, expiries |-> MaxExpiries, troubles |-> MaxTroubles]
  /\ invoked = [a \in Attempts |-> 0] /\ proved = {}
-----------------------------------------------------------------------------
\* Saving the aggregate r, and the two ways it ends: only a snapshot that
\* passes Validate is written, and a valid one may still meet a store error,
\* which may hide that the write was committed.
Saved(r) == ValidSnapshot(r) /\ stored' = r /\ UNCHANGED budget

SaveError(r) ==
  IF ValidSnapshot(r) THEN Spend("faults") /\ stored' \in {stored, r}
  ELSE UNCHANGED <<stored, budget>>

\* currentBySlot.
Id(s) == [epoch |-> epoch, slot |-> s, gen |-> gen[s]]
IsCurrent(w) == w = Id(w.slot)

\* Everything that is local to a call.
LocalReset ==
  /\ run' = NoRun /\ after' = "none" /\ ctxDone' = FALSE
  /\ ready' = {} /\ inFlight' = {} /\ published' = {}
  /\ active' = {} /\ pending' = <<>> /\ acks' = <<>>
  /\ gen' = [s \in Slots |-> 1] /\ worker' = [w \in Workers |-> Off]
  /\ results' = <<>>

Return == pc' = "returned" /\ LocalReset /\ UNCHANGED <<broker, epoch, history>>

FinishWith(r) == (Saved(r) \/ SaveError(r)) /\ Return

\* What changes before and after executeBrokerRun runs.
loop == <<after, books, active, pending, acks, gen, worker, results, broker, epoch, history>>

\* Execute creates the run; the API does the same and calls Recover.
Execute ==
  /\ pc = "idle" /\ stored = NoRun
  /\ Spend("calls")
  /\ stored' = NewWorkflowRun /\ run' = NewWorkflowRun
  /\ pc' = "start"
  /\ UNCHANGED <<ctxDone, loop>>

Start ==
  /\ pc = "start"
  /\ \/ ctxDone /\ FinishWith(CanceledRun(run))
     \/ LET r == TransitionWorkflow(run, "running")
        IN  /\ ~ctxDone
            /\ \/ Saved(r) /\ run' = r /\ pc' = "prepare" /\ UNCHANGED <<ctxDone, loop>>
               \/ SaveError(r) /\ Return

\* Recover returns a terminal run unchanged.
Recover ==
  /\ pc = "idle" \/ (pc = "returned" /\ SameEngine)
  /\ stored # NoRun /\ stored.status \notin TerminalRun
  /\ Spend("calls")
  /\ pc' = "load"
  /\ UNCHANGED <<stored, run, ctxDone, loop>>

\* LoadRun and LoadWorkflow get the caller's context.
Load ==
  /\ pc = "load"
  /\ \/ ctxDone /\ Return
     \/ ~ctxDone /\ run' = stored /\ pc' = "resume" /\ UNCHANGED <<ctxDone, loop>>
  /\ UNCHANGED <<stored, budget>>

Resume ==
  LET started == TransitionWorkflow(run, "running")
  IN  /\ pc = "resume"
      /\ \/ RecoveredStatus(run) = "failed" /\ FinishWith(FailedRun(run))
         \/ RecoveredStatus(run) = "canceled" /\ FinishWith(CanceledRun(run))
         \/ /\ RecoveredStatus(run) = "none"
            /\ run.status = "pending" => Saved(started)
            /\ run.status = "running" => UNCHANGED <<stored, budget>>
            /\ run' = started /\ pc' = "check"
            /\ UNCHANGED <<ctxDone, loop>>
         \/ /\ RecoveredStatus(run) = "none" /\ run.status = "pending"
            /\ SaveError(started) /\ Return

CheckContext ==
  /\ pc = "check"
  /\ \/ ctxDone /\ FinishWith(CanceledRun(run))
     \/ ~ctxDone /\ pc' = "prepare" /\ UNCHANGED <<stored, run, ctxDone, budget, loop>>
-----------------------------------------------------------------------------
\* Mutant: tasks that were ready before the restart are left out.
PrepareOnlyNew ==
  LET r == MarkNewReady(run)
  IN  /\ pc = "prepare"
      /\ IF NewReady(run) = {} THEN UNCHANGED <<stored, budget>> ELSE Saved(r)
      /\ run' = r
      /\ ready' = NewReady(run)
      /\ inFlight' = {<<t, r.tasks[t].attempts>> : t \in {u \in Tasks : r.tasks[u].status = "running"}}
      /\ worker' = [w \in Workers |-> IF IsCurrent(w) THEN Spawned ELSE Off]
      /\ pc' = "top"
      /\ UNCHANGED <<after, ctxDone, published, active, pending, acks, gen, results, broker, epoch, history>>

\* executeBrokerRun before its loop: dependency-ready tasks are saved, then one
\* worker per slot is spawned, with the generations starting again.
Prepare ==
  LET r == MarkNewReady(run)
  IN  /\ pc = "prepare"
      /\ \/ /\ IF NewReady(run) = {} THEN UNCHANGED <<stored, budget>> ELSE Saved(r)
            /\ run' = r
            /\ ready' = {t \in Tasks : r.tasks[t].status = "ready"}
            /\ inFlight' = {<<t, r.tasks[t].attempts>> : t \in {u \in Tasks : r.tasks[u].status = "running"}}
            /\ worker' = [w \in Workers |-> IF IsCurrent(w) THEN Spawned ELSE Off]
            /\ pc' = "top"
            /\ UNCHANGED <<after, ctxDone, published, active, pending, acks, gen, results, broker, epoch, history>>
         \/ /\ NewReady(run) # {} /\ Spend("faults")   \* the save fails, then failRun
            /\ stored' \in {stored, r, FailedRun(r)}
            /\ Return

\* shutdownWorkers: every context derived from the run's is canceled.
Shutdown(then, f) ==
  /\ pc' = "drain" /\ after' = then
  /\ worker' = [w \in Workers |-> [f[w] EXCEPT !.done = f[w].pc # "off"]]

\* replaceWorker for each current worker of ws.
Replaced(ws, f) ==
  LET old == {w \in ws : IsCurrent(w)}
      new == {[w EXCEPT !.gen = @ + 1] : w \in old}
  IN  [w \in Workers |-> IF w \in old THEN [f[w] EXCEPT !.done = f[w].pc # "off"]
                         ELSE IF w \in new THEN Spawned ELSE f[w]]

NextGen(ws) == [s \in Slots |-> IF Id(s) \in ws THEN gen[s] + 1 ELSE gen[s]]

Without(S, ws) == {x \in S : x.to \notin ws}

\* The claims of s for attempts of the set A, in the order of arrival.
ClaimsFor(s, A) ==
  LET pick[n \in 0..Len(s)] ==
        IF n = 0 THEN <<>>
        ELSE IF AttemptOf(s[n].delivery.message) \in A THEN Append(pick[n - 1], s[n])
        ELSE pick[n - 1]
  IN  pick[Len(s)]

\* The loop top with a canceled context.
TopCanceled ==
  /\ pc = "top" /\ ctxDone
  /\ Shutdown("cancel", worker)
  /\ UNCHANGED <<stored, run, ctxDone, books, active, pending, acks, gen, results, broker, epoch, budget, history>>

\* The loop top when a lease has expired or a retry is due.
RecoverDue ==
  LET expired == ExpiredLeases(run)
      dead    == {<<t, run.tasks[t].attempts>> : t \in expired}
      ws      == {run.tasks[t].lease : t \in expired} \cap Workers
      r       == PromoteDueRetries(RecoverExpiredLeases(run))
      failed  == \E t \in expired : r.tasks[t].status = "failed"
  IN  /\ pc = "top" /\ ~ctxDone /\ Due(run) # {}
      /\ run' = r
      /\ inFlight' = inFlight \ dead
      /\ ready' = ready \cup {t \in Due(run) : r.tasks[t].status = "ready"}
      /\ gen' = NextGen(ws)
      /\ active' = Without(active, {w \in ws : IsCurrent(w)})
      /\ \/ /\ Saved(r)
            /\ worker' = Replaced(ws, worker)
            /\ acks' = ClaimsFor(pending, dead)
            /\ pending' = ClaimsFor(pending, Attempts \ dead)
            /\ pc' = "ack" /\ after' = IF failed THEN "fail" ELSE "decide"
         \/ /\ SaveError(r)   \* failRun has an outdated version if r was committed
            /\ Shutdown(IF stored' = r THEN "return" ELSE "fail", Replaced(ws, worker))
            /\ UNCHANGED <<acks, pending>>
      /\ UNCHANGED <<ctxDone, published, results, broker, epoch, history>>

\* A worker at the next Receive, which returns at once if its context is done.
Receiving(k) == IF k.done THEN Off ELSE [Off EXCEPT !.pc = "recv"]

\* acknowledgeDelivery of the next delivery, and the empty response to the
\* worker whose claim it was.  A settled delivery ends the call with an error, and
\* so does a lost answer of JetStream: the message is nacked, if it is still there.
Answered(f, w) == IF w \in Workers /\ f[w].pc \in {"claim", "parked"}
                  THEN [f EXCEPT ![w] = Receiving(f[w])]
                  ELSE f

Acknowledge ==
  /\ pc = "ack" /\ acks # <<>>
  /\ \/ /\ Unsettled(broker, Head(acks).delivery)
        /\ broker' = AckIn(broker, Head(acks).delivery)
        /\ worker' = Answered(worker, Head(acks).to)
        /\ acks' = Tail(acks)
        /\ UNCHANGED <<pc, after, budget>>
     \/ /\ ~Unsettled(broker, Head(acks).delivery)
        /\ Shutdown("return", worker)
        /\ UNCHANGED <<broker, acks, budget>>
     \/ /\ broker.jetStream /\ Unsettled(broker, Head(acks).delivery) /\ Spend("faults")
        /\ broker' \in {AckIn(broker, Head(acks).delivery), NackIn(broker, Head(acks).delivery)}
        /\ Shutdown("return", worker)
        /\ UNCHANGED acks
  /\ UNCHANGED <<stored, run, ctxDone, books, active, pending, gen, results, epoch, history>>

Acknowledged ==
  /\ pc = "ack" /\ acks = <<>>
  /\ \/ after = "fail" /\ Shutdown("fail", worker)
     \/ after # "fail" /\ pc' = after /\ after' = "none" /\ UNCHANGED worker
  /\ UNCHANGED <<stored, run, ctxDone, books, active, pending, acks, gen, results, broker, epoch, budget, history>>

NextAttempt(t) == <<t, run.tasks[t].attempts + 1>>

\* Mutant: publications are remembered by task, not by attempt.
UnpublishedTasks(set) == {t \in ready : \A a \in set : a[1] # t}

Unpublished(set) == {t \in ready : NextAttempt(t) \notin set}

\* The rest of the loop top: the run is complete, or there is something to
\* publish, or the loop waits for an event, or it has nothing to wait for.
Decide ==
  /\ pc = "decide" \/ (pc = "top" /\ ~ctxDone /\ Due(run) = {})
  /\ \/ Completed(run) = Tasks /\ Shutdown("succeed", worker)
     \/ /\ Completed(run) # Tasks
        /\ \/ Unpublished(published) # {} /\ pc' = "publish" /\ UNCHANGED <<after, worker>>
           \/ /\ Unpublished(published) = {}
              /\ IF ready = {} /\ inFlight = {} /\ ~HasTask(run, "running") /\ ~HasTask(run, "retry_wait")
                 THEN Shutdown("stall", worker)
                 ELSE pc' = "select" /\ UNCHANGED <<after, worker>>
  /\ UNCHANGED <<stored, run, ctxDone, books, active, pending, acks, gen, results, broker, epoch, budget, history>>

\* Broker.Publish of an attempt: within the duplicate window of its first
\* publication JetStream ignores it, later it stores another copy.
PublishAttempt(a) ==
  \/ broker' = PublishTo(broker, Copy(a, 1)) /\ UNCHANGED budget
  \/ /\ broker.jetStream /\ Copy(a, 1) \in Known(broker) /\ Spend("expiries")
     /\ \E c \in 2..MaxExpiries + 1 :
          /\ Copy(a, c) \notin Known(broker) /\ Copy(a, c - 1) \in Known(broker)
          /\ broker' = PublishTo(broker, Copy(a, c))

\* publishReadyTasks: one publication, in the order of the task IDs.  Publish
\* checks the caller's context; its error ends the call without cancelRun.  The
\* answer of JetStream may get lost, whether or not the message was stored.
Publish ==
  \E t \in Unpublished(published) :
    LET p == published \cup {NextAttempt(t)}
    IN  /\ pc = "publish" /\ \A u \in Unpublished(published) : t <= u
        /\ \/ /\ ctxDone
              /\ Shutdown("return", worker)
              /\ UNCHANGED <<broker, published, budget>>
           \/ /\ ~ctxDone
              /\ PublishAttempt(NextAttempt(t))
              /\ published' = p
              /\ pc' = IF Unpublished(p) = {} THEN "select" ELSE "publish"
              /\ UNCHANGED <<after, worker>>
           \/ /\ ~ctxDone /\ broker.jetStream /\ Spend("faults")
              /\ broker' \in {broker, PublishTo(broker, Copy(NextAttempt(t), 1))}
              /\ Shutdown("return", worker)
              /\ UNCHANGED published
        /\ UNCHANGED <<stored, run, ctxDone, ready, inFlight, active, pending, acks, gen, results, epoch, history>>
-----------------------------------------------------------------------------
\* The events of the select.  After each of them the loop starts again.

\* A claim of a worker that has been replaced.
StaleClaim(w) ==
  /\ pc = "select" /\ worker[w].pc = "claim" /\ ~IsCurrent(w)
  /\ broker' = NackIn(broker, worker[w].delivery)
  /\ worker' = Answered(worker, w)
  /\ pc' = "top"
  /\ UNCHANGED <<stored, run, after, ctxDone, books, active, pending, acks, gen, results, epoch, budget, history>>

Claim(w) == [to |-> w, delivery |-> worker[w].delivery]

Claimed(w) == AttemptOf(worker[w].delivery.message)   \* the attempt a claim is for

CanClaim(w) == pc = "select" /\ worker[w].pc = "claim" /\ IsCurrent(w)

\* Mutant: the job is handed out before the lease is saved.
LeaseClaimUnsaved(w) ==
  LET t == Claimed(w)[1]
  IN  /\ CanClaim(w)
      /\ run.tasks[t].status = "ready" /\ Claimed(w) = NextAttempt(t)
      /\ run' = StartTaskAttempt(run, t, w)
      /\ ready' = ready \ {t} /\ inFlight' = inFlight \cup {Claimed(w)}
      /\ active' = Without(active, {w}) \cup {Claim(w)}
      /\ worker' = [worker EXCEPT ![w].pc = "granted"]
      /\ pc' = "top"
      /\ UNCHANGED <<stored, budget, after, ctxDone, published, pending, acks, gen, results, broker, epoch, history>>

\* The delivered attempt is the next one of a ready task: the lease is saved
\* before the worker gets the job.
LeaseClaim(w) ==
  LET t == Claimed(w)[1]
      r == StartTaskAttempt(run, t, w)
  IN  /\ CanClaim(w)
      /\ run.tasks[t].status = "ready" /\ Claimed(w) = NextAttempt(t)
      /\ run' = r
      /\ \/ /\ Saved(r)
            /\ ready' = ready \ {t} /\ inFlight' = inFlight \cup {Claimed(w)}
            /\ active' = Without(active, {w}) \cup {Claim(w)}
            /\ worker' = [worker EXCEPT ![w].pc = "granted"]
            /\ pc' = "top" /\ UNCHANGED after
         \/ /\ SaveError(r)
            /\ Shutdown("return", worker)
            /\ UNCHANGED <<ready, inFlight, active>>
      /\ UNCHANGED <<ctxDone, published, pending, acks, gen, results, broker, epoch, history>>

\* Mutant: a duplicate delivery of a running attempt is executed.
ParkClaimRuns(w) ==
  LET t == Claimed(w)[1]
  IN  /\ CanClaim(w)
      /\ run.tasks[t].status = "running" /\ Claimed(w) = <<t, run.tasks[t].attempts>>
      /\ worker' = [worker EXCEPT ![w].pc = "granted"]
      /\ pc' = "top"
      /\ UNCHANGED <<stored, run, after, ctxDone, books, active, pending, acks, gen, results, broker, epoch, budget, history>>

\* The delivered attempt is running: the worker waits until it is over.
ParkClaim(w) ==
  LET t == Claimed(w)[1]
  IN  /\ CanClaim(w)
      /\ run.tasks[t].status = "running" /\ Claimed(w) = <<t, run.tasks[t].attempts>>
      /\ pending' = Append(pending, Claim(w))
      /\ worker' = [worker EXCEPT ![w].pc = "parked"]
      /\ pc' = "top"
      /\ UNCHANGED <<stored, run, after, ctxDone, books, active, acks, gen, results, broker, epoch, budget, history>>

\* The delivered attempt is over: the message is acknowledged.
DropClaim(w) ==
  LET t == Claimed(w)[1]
  IN  /\ CanClaim(w)
      /\ ~(run.tasks[t].status = "ready" /\ Claimed(w) = NextAttempt(t))
      /\ ~(run.tasks[t].status = "running" /\ Claimed(w) = <<t, run.tasks[t].attempts>>)
      /\ acks' = <<Claim(w)>>
      /\ pc' = "ack" /\ after' = "top"
      /\ UNCHANGED <<stored, run, ctxDone, books, active, pending, gen, worker, results, broker, epoch, budget, history>>

\* recordWorkerHeartbeat is saved, then the active delivery is extended.
\* Progress of a settled delivery ends the call with an error.
Heartbeat(w) ==
  LET r    == RecordWorkerHeartbeat(run, w)
      mine == {a \in active : a.to = w}
      gone == \E a \in mine : ~Unsettled(broker, a.delivery)
  IN  /\ pc = "select" /\ IsCurrent(w) /\ worker[w].pc # "start"
      /\ run' = r
      /\ \/ Saved(r) /\ ~gone /\ pc' = "top" /\ UNCHANGED <<after, worker>>
         \/ Saved(r) /\ gone /\ Shutdown("return", worker)
         \/ SaveError(r) /\ Shutdown("return", worker)
      /\ UNCHANGED <<ctxDone, books, active, pending, acks, gen, results, broker, epoch, history>>

\* A handler panicked: its slot gets a new worker and the lease runs on.
WorkerLost(w) ==
  /\ pc = "select" /\ worker[w].pc = "lost" /\ IsCurrent(w)
  /\ worker' = Replaced({w}, [worker EXCEPT ![w] = Off])
  /\ gen' = NextGen({w})
  /\ active' = Without(active, {w})
  /\ pc' = "top"
  /\ UNCHANGED <<stored, run, after, ctxDone, books, pending, acks, results, broker, epoch, budget, history>>

BrokerError(w) ==
  /\ pc = "select" /\ worker[w].pc = "broken" /\ IsCurrent(w)
  /\ Shutdown("return", [worker EXCEPT ![w] = Off])
  /\ UNCHANGED <<stored, run, ctxDone, books, active, pending, acks, gen, results, broker, epoch, budget, history>>

\* A result: the completion is saved, then its delivery and the duplicate
\* claims of the attempt are acknowledged, then a failed task fails the run.
Result ==
  LET res     == Head(results)
      m       == AttemptOf(res.delivery.message)
      outcome == CompletionOutcome(run, m[1], res.to, m[2], res.result)
      r       == AfterCompletion(run, m[1], res.to, m[2], res.result)
  IN  /\ pc = "select" /\ results # <<>>
      /\ results' = Tail(results)
      /\ \/ /\ ctxDone
            /\ Shutdown("cancel", worker)
            /\ UNCHANGED <<stored, run, ready, inFlight, active, pending, acks, budget>>
         \/ /\ ~ctxDone
            /\ run' = r
            /\ active' = Without(active, {res.to})
            /\ inFlight' = inFlight \ {m}
            /\ \/ /\ IF outcome = "ignored" THEN UNCHANGED <<stored, budget>> ELSE Saved(r)
                  /\ ready' = ready \cup {t \in Tasks : /\ r.tasks[t].status = "ready"
                                                        /\ run.tasks[t].status # "ready"}
                  /\ acks' = <<[to |-> NoWorker, delivery |-> res.delivery]>> \o ClaimsFor(pending, {m})
                  /\ pending' = ClaimsFor(pending, Attempts \ {m})
                  /\ pc' = "ack" /\ after' = IF outcome = "failed" THEN "fail" ELSE "top"
                  /\ UNCHANGED worker
               \/ /\ outcome # "ignored" /\ SaveError(r)
                  /\ Shutdown("return", worker)
                  /\ UNCHANGED <<ready, acks, pending>>
      /\ UNCHANGED <<ctxDone, published, gen, broker, epoch, history>>

\* reliabilityTimer fires when the earliest deadline is reached.
Timer ==
  /\ pc = "select" /\ Due(run) # {}
  /\ pc' = "top"
  /\ UNCHANGED <<stored, run, after, ctxDone, books, active, pending, acks, gen, worker, results, broker, epoch, budget, history>>

ContextDone ==
  /\ pc = "select" /\ ctxDone
  /\ Shutdown("cancel", worker)
  /\ UNCHANGED <<stored, run, ctxDone, books, active, pending, acks, gen, results, broker, epoch, budget, history>>

\* workerGroup.Wait is over: failRun, cancelRun, the success save or none.
FinalRun ==
  CASE after = "cancel"            -> CanceledRun(run)
    [] after \in {"fail", "stall"} -> FailedRun(run)
    [] after = "succeed"           -> TransitionWorkflow(run, "succeeded")

\* Mutant: the workers are not waited for.
DrainedAtOnce ==
  /\ pc = "drain"
  /\ \/ /\ after # "return" /\ Saved(FinalRun)
        /\ pc' = "returned"
        /\ UNCHANGED <<run, after, ctxDone, books, active, pending, acks, gen, worker, results, broker, epoch, history>>
     \/ after = "return" /\ Return /\ UNCHANGED <<stored, budget>>

Drained ==
  /\ pc = "drain" /\ \A w \in Workers : worker[w].pc = "off"
  /\ \/ after # "return" /\ FinishWith(FinalRun)
     \/ after = "return" /\ Return /\ UNCHANGED <<stored, budget>>
-----------------------------------------------------------------------------
\* executeBrokerWorker.  Every wait of it also selects on its context.
scheduler == <<stored, run, pc, after, ctxDone, books, active, pending, acks, gen, epoch>>

Becomes(w, state) == worker' = [worker EXCEPT ![w].pc = state]

\* The first heartbeat is sent before the first Receive.
StartWorker(w) ==
  /\ worker[w].pc = "start"
  /\ worker' = [worker EXCEPT ![w] = Receiving(@)]
  /\ UNCHANGED <<scheduler, results, broker, budget, history>>

\* Receive checks its context once, before it looks for a message, so a worker
\* that is canceled meanwhile may still take one.
Receive(w) ==
  /\ worker[w].pc = "recv" /\ broker.queued # <<>>
  /\ worker' = [worker EXCEPT ![w].pc = "claim", ![w].delivery = Delivery(broker)]
  /\ broker' = ReceiveFrom(broker)
  /\ UNCHANGED <<scheduler, results, budget, history>>

ReceiveFails(w) ==
  /\ worker[w].pc = "recv" /\ Spend("faults")
  /\ Becomes(w, "broken")
  /\ UNCHANGED <<scheduler, results, broker, history>>

InvokeHandler(w) ==
  /\ worker[w].pc = "granted" /\ Becomes(w, "exec")
  /\ invoked' = [invoked EXCEPT ![Claimed(w)] = @ + 1]
  /\ UNCHANGED <<scheduler, results, broker, budget, proved>>

HandlerReturns(w, result) ==
  /\ worker[w].pc = "exec"
  /\ worker' = [worker EXCEPT ![w].pc = "report", ![w].result = result]
  /\ proved' = IF result = "ok" THEN proved \cup {Claimed(w)} ELSE proved
  /\ UNCHANGED <<scheduler, results, broker, budget, invoked>>

\* invokeHandler turns a panic into errWorkerDisappeared: the delivery is
\* nacked and the heartbeats stop before the scheduler is told.
HandlerPanics(w) ==
  /\ worker[w].pc = "exec" /\ Spend("panics")
  /\ worker' = [worker EXCEPT ![w].pc = "lost", ![w].delivery = NoDelivery]
  /\ broker' = NackIn(broker, worker[w].delivery)
  /\ UNCHANGED <<scheduler, results, history>>

SendResult(w) ==
  /\ worker[w].pc = "report"
  /\ results' = Append(results, [to |-> w, delivery |-> worker[w].delivery, result |-> worker[w].result])
  /\ worker' = [worker EXCEPT ![w] = Receiving(@)]
  /\ UNCHANGED <<scheduler, broker, budget, history>>

\* Mutant: a canceled worker acknowledges what it holds.
StopWorkerAcks(w) ==
  /\ worker[w].done /\ worker[w].pc \notin {"off", "exec"}
  /\ broker' = IF Unsettled(broker, worker[w].delivery) THEN AckIn(broker, worker[w].delivery) ELSE broker
  /\ worker' = [worker EXCEPT ![w] = Off]
  /\ UNCHANGED <<scheduler, results, budget, history>>

\* Mutant: a worker that waits for the answer to its claim cannot be canceled.
StopWorkerUnlessParked(w) ==
  /\ worker[w].done /\ worker[w].pc \notin {"off", "exec", "parked"}
  /\ broker' = NackIn(broker, worker[w].delivery)
  /\ worker' = [worker EXCEPT ![w] = Off]
  /\ UNCHANGED <<scheduler, results, budget, history>>

\* A canceled worker gives its delivery back and returns.  The context of a
\* handler is the caller's: a running handler is not interrupted.
StopWorker(w) ==
  /\ worker[w].done /\ worker[w].pc \notin {"off", "exec"}
  /\ broker' = NackIn(broker, worker[w].delivery)
  /\ worker' = [worker EXCEPT ![w] = Off]
  /\ UNCHANGED <<scheduler, results, budget, history>>

-----------------------------------------------------------------------------
\* The environment: the caller, the clock and the process.
Calling == pc \notin {"idle", "returned"}

Cancel ==
  /\ Calling /\ ~ctxDone /\ Spend("cancels")
  /\ ctxDone' = TRUE
  /\ UNCHANGED <<stored, run, pc, loop>>

\* A worker goroutine sends heartbeats until it returns or its handler panics.
Beating(w) == w \in Workers /\ worker[w].pc \notin {"off", "lost"} /\ ~worker[w].done

\* Clock.Now reaches a deadline.  The lease of a worker that sends heartbeats
\* only runs out when the scheduler is late in recording them: a bounded lapse.
PassDeadline(t) ==
  LET held == IF run = NoRun THEN stored ELSE run
  IN  /\ held # NoRun /\ held.tasks[t].deadline = "ahead"
      /\ IF Beating(held.tasks[t].lease) THEN Spend("lapses") ELSE UNCHANGED budget
      /\ stored' = Late(stored, t) /\ run' = Late(run, t)
      /\ UNCHANGED <<pc, ctxDone, loop>>

\* AckWait runs out before the holder of a delivery settles it or reports
\* progress, and JetStream offers the message to another receiver.
AckWaitExpires(m) ==
  /\ broker.jetStream /\ m \in InFlight(broker) /\ Spend("expiries")
  /\ broker' = Requeue(broker, m)
  /\ UNCHANGED <<scheduler, worker, results, history>>

\* An in-memory broker dies with the process.  JetStream keeps its messages,
\* if the process is not down for longer than their MaxAge.
Crash ==
  /\ pc # "idle" /\ Spend("crashes")
  /\ epoch' = epoch + 1
  /\ pc' = "idle" /\ LocalReset
  /\ broker' \in IF broker.jetStream THEN Redeliveries(broker) \cup {EmptyStream} ELSE {EmptyQueue}
  /\ UNCHANGED <<stored, history>>

\* The select receives anything but a heartbeat.
Event ==
  \/ Result \/ Timer \/ ContextDone
  \/ \E w \in Workers : \/ StaleClaim(w) \/ LeaseClaim(w) \/ ParkClaim(w) \/ DropClaim(w)
                        \/ WorkerLost(w) \/ BrokerError(w)

\* The scheduler goroutine outside the select.
Proceed ==
  \/ Start \/ Load \/ Resume \/ CheckContext \/ Prepare \/ Drained
  \/ TopCanceled \/ RecoverDue \/ Acknowledge \/ Acknowledged \/ Decide \/ Publish

WorkerStep(w) ==
  \/ StartWorker(w) \/ Receive(w) \/ ReceiveFails(w) \/ InvokeHandler(w)
  \/ \E result \in Results : HandlerReturns(w, result)
  \/ HandlerPanics(w) \/ SendResult(w) \/ StopWorker(w)

Next ==
  \/ Execute \/ Recover \/ Proceed \/ Event
  \/ \E w \in Workers : Heartbeat(w) \/ WorkerStep(w)
  \/ Cancel \/ Crash
  \/ \E t \in Tasks : PassDeadline(t)
  \/ \E m \in Known(broker) : AckWaitExpires(m)

Spec == Init /\ [][Next]_vars

\* The goroutines run, handlers return and deadlines are reached.  The select
\* chooses at random, so heartbeats do not keep it from the other events.
Fairness ==
  /\ WF_vars(Proceed)
  /\ SF_vars(Event)
  /\ \A w \in Workers :
       /\ WF_vars(StartWorker(w) \/ Receive(w) \/ InvokeHandler(w) \/ SendResult(w) \/ StopWorker(w))
       /\ WF_vars(\E result \in Results : HandlerReturns(w, result))
  /\ \A t \in Tasks : WF_vars(PassDeadline(t))

FairSpec == Spec /\ Fairness
-----------------------------------------------------------------------------
\* "durable lease-before-execution ordering": while a handler runs, the store
\* has its attempt; and as long as the store still has the attempt running,
\* it is leased to the very worker that runs it.
LeaseBeforeExecution ==
  \A w \in Workers : worker[w].pc \in {"granted", "exec", "report"} =>
    LET t == Claimed(w)[1]  n == Claimed(w)[2]
    IN  /\ stored.tasks[t].attempts >= n
        /\ stored.tasks[t].attempts = n /\ stored.tasks[t].status = "running" =>
             stored.tasks[t].lease = w

\* Redelivery, parking, replacement, expiry and restarts never run the handler
\* of one attempt ID twice; a task is only ever repeated as a new attempt.
AttemptRunsOnce == \A a \in Attempts : invoked[a] <= 1

\* "handler result -> persisted completion -> broker ack": a message is gone
\* from the broker only when the store shows its attempt to be over.
AckAfterDurable ==
  \A m \in broker.acked :
    /\ stored.tasks[m[1]].attempts >= m[2]
    /\ stored.tasks[m[1]].attempts = m[2] => stored.tasks[m[1]].status # "running"

\* While the scheduler waits, every ready task has its next attempt with the
\* broker or with a worker that will claim it, and the maps ready and inFlight
\* agree with the aggregate: no task is forgotten.
NothingForgotten ==
  pc = "select" =>
    /\ ready = {t \in Tasks : run.tasks[t].status = "ready"}
    /\ inFlight = {<<t, run.tasks[t].attempts>> : t \in {u \in Tasks : run.tasks[u].status = "running"}}
    /\ \A t \in ready : /\ NextAttempt(t) \in published
                        /\ \E m \in Copies : AttemptOf(m) = NextAttempt(t) /\ Available(broker, m)

\* The scheduler's "stalled with unfinished tasks" branch is unreachable.
NeverStalls == after # "stall"

\* "only the worker holding that attempt's valid persisted lease can commit
\* its result": a task that is durably succeeded has the success of the handler
\* of its last attempt behind it, and of no earlier one.
SuccessIsEarned ==
  stored # NoRun => \A t \in Completed(stored) : <<t, stored.tasks[t].attempts>> \in proved

\* The engine marks a run terminal only after workerGroup.Wait: no handler of
\* it is running any more, nor can one start.
QuietWhenFinished ==
  stored # NoRun /\ stored.status \in TerminalRun => \A w \in Workers : worker[w].pc = "off"

\* Execute and Recover return: no order of claims, duplicate deliveries, lost
\* workers, expiries and cancellation leaves the scheduler waiting for ever, nor
\* shutdownWorkers for a goroutine that does not stop.
EveryCallReturns == Calling ~> ~Calling

\* A call gives up with a broker or store error, leaving the run "running",
\* only when the store or the broker failed.
AbortsOnlyOnFaults == after = "return" => budget.faults < MaxFaults
=============================================================================
