----------------------------- MODULE ApiServer -----------------------------
(***************************************************************************)
(* api.Server: the handlers that create, cancel and retry runs, the run     *)
(* manager that executes them in goroutines of its own, the event broker    *)
(* behind the store decorator, event-stream clients, and shutdown.          *)
(*                                                                         *)
(* Each critical section of the manager and of the event broker is a step,  *)
(* and so is each store operation: a save and the observation of what was   *)
(* saved are two.  Engine.Recover is kept up to the point where it starts   *)
(* the scheduler; from there on it saves what EngineWrites allows.  Engine  *)
(* has the detail.  Requests that are refused change nothing and are left   *)
(* out, and so is the map failures, which nobody reads.                     *)
(***************************************************************************)
EXTENDS EventStream

CONSTANTS Clients,       \* subscribers of event streams
          MaxRuns,       \* bound: runs that are created
          MaxRequests,   \* bound: requests that change something
          MaxCalls,      \* bound: calls of Recover
          MaxConnects,   \* bound: connections of clients
          MaxTroubles    \* bound: shutdowns, stops of the process, and calls that
                         \* end in a storage or broker error

ASSUME ApiAssumption ==
  /\ Tasks \subseteq Nat \ {NoTask}
  /\ MaxRuns \in Nat /\ MaxRequests \in Nat /\ MaxCalls \in Nat

VARIABLES
  stored,     \* stored[r]: the snapshot in the store, or NoRun
  active,     \* active[r]: the call whose cancel function is kept, or 0
  calls,      \* calls[i]: a goroutine of the manager
  closed,     \* the manager is closed
  phase,      \* of Shutdown
  streams, silent,   \* the event broker's streams, and whether it is closed
  request,    \* request[q]: where the handler is
  client,     \* client[c]: where the handler of the event stream is
  budget,
  created,    \* history: runs this process created
  early,      \* history: runs started before their creation was observed
  accepted, wanted   \* history: runs and cancellations answered with 202

manager == <<active, calls, closed, phase>>
broker == <<streams, silent>>
history == <<created, early, accepted, wanted>>
vars == <<stored, manager, broker, request, client, budget, history>>

\* Runs, calls and requests are numbered in the order in which they begin.
RunIDs == 1..MaxRuns
CallIDs == 1..MaxCalls
Requests == 1..MaxRequests

Unused(f, i) == f[i].pc = "none" /\ \A j \in 1..(i - 1) : f[j].pc # "none"

NoCall == [run |-> NoRun, pc |-> "none", done |-> FALSE, unseen |-> NoRun]

NoRequest == [pc |-> "none", run |-> NoRun]
Answered == [NoRequest EXCEPT !.pc = "answered"]

\* whole: the client has asked this process for all of the events.
NoClient == [pc |-> "out", run |-> NoRun, snapshot |-> NoRun, sequence |-> 0, whole |-> FALSE]

Init ==
  /\ stored = [r \in RunIDs |-> NoRun]
  /\ active = [r \in RunIDs |-> 0] /\ calls = [i \in CallIDs |-> NoCall]
  /\ closed = FALSE /\ phase = "up"
  /\ streams = [r \in RunIDs |-> NoStream] /\ silent = FALSE
  /\ request = [q \in Requests |-> NoRequest] /\ client = [c \in Clients |-> NoClient]
  /\ budget = [connects |-> MaxConnects, troubles |-> MaxTroubles]
  /\ created = {} /\ early = {} /\ accepted = {} /\ wanted = {}

Spend(what) == budget[what] > 0 /\ budget' = [budget EXCEPT ![what] = @ - 1]

Live(i) == calls[i].pc \notin {"none", "off"}

Finished(r) == stored[r] # NoRun /\ stored[r].status \in TerminalRun
-----------------------------------------------------------------------------
(* runManager.  start and cancel are used by several handlers.               *)

\* Mutant: a run that is already active is started again.
StartOutcomeTwice(r) == IF closed THEN "closed" ELSE "started"

\* Mutant: a closed manager starts runs.
StartOutcomeClosed(r) == IF active[r] # 0 THEN "active" ELSE "started"

StartOutcome(r) == IF closed THEN "closed" ELSE IF active[r] # 0 THEN "active" ELSE "started"

\* Mutant: the execution ends with the request that started it.
LaunchForRequest(r) ==
  \E i \in CallIDs :
    /\ Unused(calls, i)
    /\ calls' = [calls EXCEPT ![i] = [NoCall EXCEPT !.run = r, !.pc = "load", !.done = TRUE]]
    /\ active' = [active EXCEPT ![r] = i]

\* The goroutine that start begins, with a context of its own.
Launch(r) ==
  \E i \in CallIDs :
    /\ Unused(calls, i)
    /\ calls' = [calls EXCEPT ![i] = [NoCall EXCEPT !.run = r, !.pc = "load"]]
    /\ active' = [active EXCEPT ![r] = i]

\* start, unless the manager refuses.
Start(r) ==
  \/ StartOutcome(r) = "started" /\ Launch(r)
  \/ StartOutcome(r) # "started" /\ UNCHANGED <<active, calls>>

\* cancel; the result is whether the run was active.
CancelCall(r) ==
  calls' = IF active[r] = 0 THEN calls ELSE [calls EXCEPT ![active[r]].done = TRUE]
-----------------------------------------------------------------------------
(* The handlers.                                                             *)

At(q, pc) == request[q].pc = pc
Goto(q, pc) == request' = [request EXCEPT ![q].pc = pc]
Answer(q) == request' = [request EXCEPT ![q] = Answered]

\* CreateRun of the store, for handleWorkflowRuns and handleRunRetry.
Create(q, r) ==
  /\ Unused(request, q) /\ stored[r] = NoRun /\ \A p \in 1..(r - 1) : stored[p] # NoRun
  /\ stored' = [stored EXCEPT ![r] = NewWorkflowRun]
  /\ request' = [request EXCEPT ![q] = [pc |-> "observe", run |-> r]]
  /\ created' = created \cup {r}
  /\ UNCHANGED <<manager, broker, client, budget, early, accepted, wanted>>

\* handleWorkflowRuns.
CreateRun(q, r) == Create(q, r)

\* handleRunRetry: a fresh run of the workflow of a failed or canceled one.
RetryRun(q, source, r) ==
  /\ stored[source] # NoRun /\ stored[source].status \in {"failed", "canceled"}
  /\ Create(q, r)

\* The observation of the created run by the store decorator.
ObserveCreated(q) ==
  /\ At(q, "observe")
  /\ streams' = IF silent THEN streams
                ELSE [streams EXCEPT ![request[q].run] = ObserveIn(@, NewWorkflowRun)]
  /\ Goto(q, "start")
  /\ UNCHANGED <<stored, manager, silent, client, budget, history>>

\* The handler starts the run it created and answers.
StartCreated(q) ==
  LET r == request[q].run
  IN  /\ At(q, "start")
      /\ Start(r)
      /\ accepted' = IF StartOutcome(r) = "started" THEN accepted \cup {r} ELSE accepted
      /\ Answer(q)
      /\ UNCHANGED <<stored, closed, phase, broker, client, budget, created, early, wanted>>

\* handleRunCancellation loads the run and refuses a terminal one.
RequestCancel(q, r) ==
  /\ Unused(request, q) /\ stored[r] # NoRun /\ ~Finished(r)
  /\ request' = [request EXCEPT ![q] = [pc |-> "cancel", run |-> r]]
  /\ UNCHANGED <<stored, manager, broker, client, budget, history>>

CancelActive(q) ==
  LET r == request[q].run
  IN  /\ At(q, "cancel")
      /\ CancelCall(r)
      /\ \/ active[r] # 0 /\ Answer(q) /\ wanted' = wanted \cup {r}
         \/ active[r] = 0 /\ Goto(q, "revive") /\ UNCHANGED wanted
      /\ UNCHANGED <<stored, active, closed, phase, broker, client, budget, created, early, accepted>>

\* A run that is not active is started in order to be canceled.
Revive(q) ==
  LET r == request[q].run
  IN  /\ At(q, "revive")
      /\ Start(r)
      /\ IF StartOutcome(r) = "closed" THEN Answer(q) ELSE Goto(q, "again")
      /\ early' = IF \E p \in Requests : At(p, "observe") /\ request[p].run = r
                  THEN early \cup {r} ELSE early
      /\ UNCHANGED <<stored, closed, phase, broker, client, budget, created, accepted, wanted>>

CancelAgain(q) ==
  LET r == request[q].run
  IN  /\ At(q, "again")
      /\ CancelCall(r)
      /\ Answer(q)
      /\ wanted' = wanted \cup {r}
      /\ UNCHANGED <<stored, active, closed, phase, broker, client, budget, created, early, accepted>>
-----------------------------------------------------------------------------
(* recover: one call of Engine.Recover.                                      *)

\* A call has observed its last save before it does anything else.
Ready(i, pc) == calls[i].pc = pc /\ calls[i].unseen = NoRun

Move(i, pc) == calls' = [calls EXCEPT ![i].pc = pc] /\ UNCHANGED stored

\* SaveRun of the delegate.
Save(i, snapshot, pc) ==
  /\ stored' = [stored EXCEPT ![calls[i].run] = snapshot]
  /\ calls' = [calls EXCEPT ![i].pc = pc, ![i].unseen = snapshot]

aside == <<active, closed, phase, broker, request, client, history>>

\* Mutant: a terminal run is executed again.
LoadTerminal(i) ==
  /\ Ready(i, "load")
  /\ Move(i, IF calls[i].done THEN "leave" ELSE "resume")
  /\ UNCHANGED <<aside, budget>>

\* LoadRun fails when the context is done; a terminal run is returned.
Load(i) ==
  /\ Ready(i, "load")
  /\ Move(i, IF calls[i].done \/ Finished(calls[i].run) THEN "leave" ELSE "resume")
  /\ UNCHANGED <<aside, budget>>

Resume(i) ==
  LET run == stored[calls[i].run]
  IN  /\ Ready(i, "resume")
      /\ \/ RecoveredStatus(run) = "failed" /\ Save(i, FailedRun(run), "leave")
         \/ RecoveredStatus(run) = "canceled" /\ Save(i, CanceledRun(run), "leave")
         \/ /\ RecoveredStatus(run) = "none" /\ run.status = "pending"
            /\ Save(i, TransitionWorkflow(run, "running"), "check")
         \/ /\ RecoveredStatus(run) = "none" /\ run.status # "pending"
            /\ Move(i, "check")
      /\ UNCHANGED <<aside, budget>>

\* The context is checked once more before the scheduler starts.
CheckContext(i) ==
  /\ Ready(i, "check")
  /\ \/ calls[i].done /\ Save(i, CanceledRun(stored[calls[i].run]), "leave")
     \/ ~calls[i].done /\ Move(i, "run")
  /\ UNCHANGED <<aside, budget>>

\* What the next save of executeBrokerRun may hold: tasks made ready, a lease,
\* a result, a lease that expired, a retry that is due, or the run's end.
EngineWrites(run) ==
  LET With(status) == {t \in Tasks : run.tasks[t].status = status}
  IN  IF HasTask(run, "failed") THEN {FailedRun(run)}
      ELSE IF Completed(run) = Tasks THEN {TransitionWorkflow(run, "succeeded")}
      ELSE IF NewReady(run) # {} THEN {MarkNewReady(run)}
      ELSE {StartTaskAttempt(run, t, w) : t \in With("ready"),
                                          w \in Workers \ {run.tasks[t].lease : t \in Tasks}}
             \cup {AfterCompletion(run, t, run.tasks[t].lease, run.tasks[t].attempts, result) :
                     t \in With("running"), result \in Results}
             \cup {RecoverExpiredLeases(Late(run, t)) : t \in With("running")}
             \cup {PromoteDueRetries(Late(run, t)) : t \in With("retry_wait")}

Work(i) ==
  /\ Ready(i, "run")
  /\ \E run \in EngineWrites(stored[calls[i].run]) :
       Save(i, run, IF run.status \in TerminalRun THEN "leave" ELSE "run")
  /\ UNCHANGED <<aside, budget>>

\* cancelRun, after the workers have stopped.
CancelRun(i) ==
  /\ Ready(i, "run") /\ calls[i].done /\ ~HasTask(stored[calls[i].run], "failed")
  /\ Save(i, CanceledRun(stored[calls[i].run]), "leave")
  /\ UNCHANGED <<aside, budget>>

\* The call returns with an error: of the store or of the broker, or one of those
\* that Engine shows without either; a publication with a canceled context is
\* among them.
GiveUp(i) ==
  /\ calls[i].pc \in {"load", "resume", "check", "run"} /\ calls[i].unseen = NoRun
  /\ Spend("troubles") \/ (calls[i].pc = "run" /\ calls[i].done /\ UNCHANGED budget)
  /\ Move(i, "leave")
  /\ UNCHANGED aside

\* The decorator of the store observes what was saved.
Observe(i) ==
  /\ calls[i].unseen # NoRun
  /\ streams' = IF silent THEN streams
                ELSE [streams EXCEPT ![calls[i].run] = ObserveIn(@, calls[i].unseen)]
  /\ calls' = [calls EXCEPT ![i].unseen = NoRun]
  /\ UNCHANGED <<stored, active, closed, phase, silent, request, client, budget, history>>

\* The deferred calls: active is cleared, then the wait group is told.
Leave(i) ==
  /\ Ready(i, "leave")
  /\ calls' = [calls EXCEPT ![i] = [NoCall EXCEPT !.pc = "off"]]
  /\ active' = [active EXCEPT ![calls[i].run] = 0]
  /\ UNCHANGED <<stored, closed, phase, broker, request, client, budget, history>>
-----------------------------------------------------------------------------
(* Shutdown, and the end of the process.                                     *)

Shutdown ==
  /\ phase = "up" /\ Spend("troubles")
  /\ phase' = "waiting" /\ closed' = TRUE
  /\ calls' = [i \in CallIDs |-> IF \E r \in RunIDs : active[r] = i
                                 THEN [calls[i] EXCEPT !.done = TRUE] ELSE calls[i]]
  /\ UNCHANGED <<stored, active, broker, request, client, history>>

\* The wait is over and the event broker is closed.  When the deadline of the
\* wait is reached first, the process exits: that is a Restart.
ShutdownEnds ==
  /\ phase = "waiting" /\ \A i \in CallIDs : ~Live(i)
  /\ phase' = "drained" /\ silent' = TRUE
  /\ UNCHANGED <<stored, active, calls, closed, streams, request, client, budget, history>>

\* The process exits or crashes, and is started again.  A client does not come
\* back with the Last-Event-ID of the process before.
Restart ==
  /\ Spend("troubles") \/ (phase # "up" /\ UNCHANGED budget)
  /\ active' = [r \in RunIDs |-> 0]
  /\ calls' = [i \in CallIDs |-> IF Live(i) THEN [NoCall EXCEPT !.pc = "off"] ELSE calls[i]]
  /\ closed' = FALSE /\ phase' = "up"
  /\ streams' = [r \in RunIDs |-> NoStream] /\ silent' = FALSE
  /\ request' = [q \in Requests |-> IF At(q, "none") THEN NoRequest ELSE Answered]
  /\ client' = [c \in Clients |-> NoClient]
  /\ created' = {} /\ early' = {} /\ accepted' = {} /\ wanted' = {}
  /\ UNCHANGED stored
-----------------------------------------------------------------------------
(* handleRunEvents.                                                          *)

\* The run is loaded; Last-Event-ID is what the client got before, or nothing.
Connect(c, r, resumes) ==
  /\ client[c].pc \in {"out", "over"} /\ stored[r] # NoRun /\ Spend("connects")
  /\ resumes => client[c].run = r
  /\ client' = [client EXCEPT ![c] = IF resumes
       THEN [@ EXCEPT !.pc = "seed", !.snapshot = stored[r]]
       ELSE [NoClient EXCEPT !.pc = "seed", !.run = r, !.snapshot = stored[r], !.whole = TRUE]]
  /\ UNCHANGED <<stored, manager, broker, request, history>>

Seed(c) ==
  /\ client[c].pc = "seed"
  /\ streams' = IF silent THEN streams
                ELSE [streams EXCEPT ![client[c].run] = SeedIn(@, client[c].snapshot)]
  /\ client' = [client EXCEPT ![c].pc = "look", ![c].snapshot = NoRun]
  /\ UNCHANGED <<stored, manager, silent, request, budget, history>>

\* The channel the client waits on has been closed.  The keep-alive ticker also
\* starts a turn of the loop, which finds nothing new.
Notified(c) ==
  client[c].pc = "wait" /\ (silent \/ client[c].sequence < Len(streams[client[c].run].events))

\* One turn of the loop: eventsAfter, the writes, and the decision to go on.
Look(c) ==
  LET stream   == streams[client[c].run]
      events   == IF stream = NoStream THEN <<>> ELSE EventsAfter(stream, client[c].sequence)
      terminal == stream # NoStream /\ stream.latest.status \in TerminalRun
  IN  /\ client[c].pc = "look" \/ Notified(c)
      /\ client' = [client EXCEPT
           ![c].pc       = IF terminal THEN "over" ELSE IF silent THEN "out" ELSE "wait",
           ![c].sequence = IF events = <<>> THEN @ ELSE Len(stream.events)]
      /\ UNCHANGED <<stored, manager, broker, request, budget, history>>

Disconnect(c) ==
  /\ client[c].pc = "wait"
  /\ client' = [client EXCEPT ![c].pc = "out"]
  /\ UNCHANGED <<stored, manager, broker, request, budget, history>>
-----------------------------------------------------------------------------
CallStep(i) ==
  \/ Load(i) \/ Resume(i) \/ CheckContext(i) \/ Work(i) \/ CancelRun(i)
  \/ Observe(i) \/ Leave(i)

RequestStep(q) ==
  ObserveCreated(q) \/ StartCreated(q) \/ CancelActive(q) \/ Revive(q) \/ CancelAgain(q)

ClientStep(c) == Seed(c) \/ Look(c)

Next ==
  \/ \E i \in CallIDs : CallStep(i) \/ GiveUp(i)
  \/ \E q \in Requests : RequestStep(q)
  \/ \E q \in Requests, r \in RunIDs : CreateRun(q, r) \/ RequestCancel(q, r)
  \/ \E q \in Requests, source, r \in RunIDs : RetryRun(q, source, r)
  \/ \E c \in Clients : ClientStep(c) \/ Disconnect(c)
  \/ \E c \in Clients, r \in RunIDs, resumes \in BOOLEAN : Connect(c, r, resumes)
  \/ Shutdown \/ ShutdownEnds \/ Restart

Spec == Init /\ [][Next]_vars

\* Goroutines run and tasks end.
FairSpec ==
  /\ Spec
  /\ \A i \in CallIDs : WF_vars(CallStep(i))
  /\ \A q \in Requests : WF_vars(RequestStep(q))
  /\ \A c \in Clients : WF_vars(ClientStep(c))
-----------------------------------------------------------------------------
\* Every execution in progress is the one whose cancel function the manager
\* keeps for its run, and it keeps no other: at most one call executes a run,
\* and cancellation and shutdown reach each of them.
EveryExecutionIsHeld ==
  /\ \A i \in CallIDs : Live(i) => active[calls[i].run] = i
  /\ \A r \in RunIDs : active[r] # 0 => Live(active[r]) /\ calls[active[r]].run = r

\* From the moment Shutdown closes the manager every execution is canceled,
\* and when it returns without an error none is left, nor can one begin.
ShutdownDrains ==
  /\ closed => \A i \in CallIDs : Live(i) => calls[i].done
  /\ phase = "drained" => \A i \in CallIDs : ~Live(i)

\* "It never rewinds the immutable history of the source run": no retry,
\* cancellation or second recovery changes a run that is finished.
FinishedIsFinal == [][\A r \in RunIDs : Finished(r) => stored'[r] = stored[r]]_vars

\* What the last of the events about task t says of it.
Told(events, t) ==
  LET about == {n \in DOMAIN events : events[n].task = t}
  IN  IF about = {} THEN "pending"
      ELSE events[CHOOSE n \in about : \A m \in about : m <= n].status

Unobserved(r) ==
  \/ \E i \in CallIDs : calls[i].run = r /\ calls[i].unseen # NoRun
  \/ \E q \in Requests : At(q, "observe") /\ request[q].run = r

\* The last snapshot observed is that of the creation of a run that was started
\* before: it came after later ones.
Stale(r) == r \in early /\ streams[r] # NoStream /\ streams[r].latest = NewWorkflowRun

\* "compares consecutive snapshots, and publishes typed SSE transitions": for a
\* run this process created, who has read all events knows the status of every
\* task, and the stream is up to date with the store whenever no save is on its
\* way to it; unless the creation was observed late, until the next save.
EventsTellState ==
  \A r \in created : streams[r] # NoStream /\ ~silent /\ ~Stale(r) =>
    /\ \A t \in Tasks : Told(streams[r].events, t) = streams[r].latest.tasks[t].status
    /\ ~Unobserved(r) => streams[r].latest = stored[r]

\* A client that asked for all events and whose stream has come to its end was
\* told the outcome, and told it last; unless the stream holds no event because
\* the first save of a restarted process was also the last.
OutcomeIsTold ==
  \A c \in Clients :
    LET r == client[c].run
        n == client[c].sequence
    IN  client[c].pc = "over" /\ client[c].whole /\ streams[r].events # <<>> =>
          /\ n > 0
          /\ streams[r].events[n] \in {RunEvent("workflow_completed", stored[r].status),
                                      RunEvent("run_snapshot", stored[r].status)}

\* "closes when the workflow succeeds, fails, or is canceled": no client waits
\* for ever on the stream of a finished run, unless its creation was observed
\* after its end.
StreamCloses ==
  \A c \in Clients, r \in RunIDs :
    (client[c].pc = "wait" /\ client[c].run = r /\ Finished(r))
      ~> (client[c].pc \notin {"look", "wait"} \/ Stale(r))

\* "closing the creation request does not cancel submitted work": a run that
\* was accepted is finished, unless it is canceled, the server shuts down or
\* stops, or the store or the broker fails.
AcceptedIsExecuted ==
  \A r \in RunIDs :
    (r \in accepted) ~> (Finished(r) \/ r \in wanted \/ budget.troubles < MaxTroubles)

\* "Request cancellation of a nonterminal run": a run whose cancellation was
\* accepted is finished in the end, when nothing fails.
CancellationTakesEffect ==
  \A r \in RunIDs : (r \in wanted) ~> (Finished(r) \/ r \notin wanted)
=============================================================================
