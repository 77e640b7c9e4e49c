-------------------------- MODULE ApiServerProofs --------------------------
(***************************************************************************)
(* The run manager, the event broker and its subscribers for any number of  *)
(* runs, calls, requests and subscribers, any workflow definition, and any  *)
(* number of failures and restarts.                                         *)
(*                                                                         *)
(* That an execution is held is about the maps of the manager alone.  That  *)
(* a finished run stays as it is needs it: a call that may still save has   *)
(* seen its run unfinished, and no other call can have finished it since,   *)
(* because the manager holds one call per run.  That subscribers hear the   *)
(* outcome needs both: the last save of a run is also its last observation, *)
(* except for that of its creation, which adds no event.                    *)
(***************************************************************************)
EXTENDS ApiServer, WorkflowRunProofs, FiniteSetTheorems

Executions == {"load", "resume", "check", "run", "leave"}
Handlers == {"observe", "start", "cancel", "revive", "again"}

Call == [run : RunIDs \cup {NoRun}, pc : Executions \cup {"none", "off"},
         done : BOOLEAN, unseen : Run \cup {NoRun}]

Request == [pc : Handlers \cup {"none", "answered"}, run : RunIDs \cup {NoRun}]

TypeInv ==
  /\ stored \in [RunIDs -> Run \cup {NoRun}]
  /\ active \in [RunIDs -> CallIDs \cup {0}]
  /\ calls \in [CallIDs -> Call]
  /\ request \in [Requests -> Request]

\* A handler that has begun is about a run that was created.
Requested ==
  \A q \in Requests : request[q].pc \in Handlers =>
    request[q].run \in RunIDs /\ stored[request[q].run] # NoRun

Held ==
  /\ \A i \in CallIDs : Live(i) => calls[i].run \in RunIDs /\ active[calls[i].run] = i
  /\ \A r \in RunIDs : active[r] # 0 => Live(active[r]) /\ calls[active[r]].run = r

Drains ==
  /\ phase # "up" => closed
  /\ closed => \A i \in CallIDs : Live(i) => calls[i].done
  /\ phase = "drained" => \A i \in CallIDs : ~Live(i)

\* What a call knows of the run it executes.
Executing ==
  \A i \in CallIDs :
    /\ Live(i) => stored[calls[i].run] # NoRun
    /\ calls[i].unseen # NoRun => Live(i) /\ calls[i].unseen = stored[calls[i].run]
    /\ calls[i].pc = "resume" => stored[calls[i].run].status \notin TerminalRun
    /\ calls[i].pc \in {"check", "run"} => stored[calls[i].run].status = "running"

Inv == TypeInv /\ Requested /\ Held /\ Drains /\ Executing
-----------------------------------------------------------------------------
(* The shapes of a step.                                                     *)

\* A handler goes on; the manager and the store stay as they are.
HandlerShape ==
  /\ UNCHANGED <<stored, active, calls, closed, phase>>
  /\ request' \in [Requests -> Request]
  /\ \A q \in Requests : request'[q].pc \in Handlers =>
       request'[q].run \in RunIDs /\ stored[request'[q].run] # NoRun

\* Call i goes on, with pc and unseen, and leaves its run as s.
CallShape(i, pc, unseen, s) ==
  /\ Live(i) /\ pc \in Executions /\ s \in Run /\ unseen \in {s, NoRun}
  /\ calls' \in [CallIDs -> Call] /\ \A j \in CallIDs \ {i} : calls'[j] = calls[j]
  /\ calls'[i].run = calls[i].run /\ calls'[i].done = calls[i].done
  /\ calls'[i].pc = pc /\ calls'[i].unseen = unseen
  /\ stored' = [stored EXCEPT ![calls[i].run] = s]
  /\ stored[calls[i].run].status \in TerminalRun =>
       s = stored[calls[i].run] /\ unseen \in {calls[i].unseen, NoRun}
  /\ pc = "resume" => s.status \notin TerminalRun
  /\ pc \in {"check", "run"} => s.status = "running"
  /\ UNCHANGED <<active, closed, phase, request>>
-----------------------------------------------------------------------------
\* Nothing is held before the first request.
LEMMA Initially == Init => Inv
<1> SUFFICES ASSUME Init PROVE Inv  OBVIOUS
<1>1. TypeInv
  BY DEF Init, TypeInv, Call, Request, NoCall, NoRequest
<1>2. Requested /\ Held /\ Drains /\ Executing
  BY DEF Init, Requested, Held, Drains, Executing, Live, NoCall, NoRequest, Handlers
<1> QED  BY <1>1, <1>2 DEF Inv

\* What Inv says of a call that is live.
LEMMA LiveCall ==
  ASSUME Inv, NEW i \in CallIDs, Live(i)
  PROVE  /\ calls[i] \in Call /\ calls[i].run \in RunIDs /\ calls[i].pc \in Executions
         /\ stored[calls[i].run] \in Run
         /\ calls[i].pc = "resume" => stored[calls[i].run].status \notin TerminalRun
         /\ calls[i].pc \in {"check", "run"} => stored[calls[i].run].status = "running"
<1>1. calls[i] \in Call /\ calls[i].run \in RunIDs /\ stored[calls[i].run] \in Run
  BY DEF Inv, TypeInv, Held, Executing
<1>2. calls[i].pc \in Executions
  BY <1>1 DEF Live, Call
<1> QED  BY <1>1, <1>2 DEF Inv, Executing

\* A step of a handler keeps the invariant.
LEMMA HandlerKeeps == Inv /\ HandlerShape => Inv'
<1> SUFFICES ASSUME Inv, HandlerShape PROVE Inv'  OBVIOUS
<1>1. TypeInv' /\ Requested'
  BY DEF HandlerShape, Inv, TypeInv, Requested
<1>2. Held' /\ Drains' /\ Executing'
  BY DEF HandlerShape, Inv, Held, Drains, Executing, Live
<1> QED  BY <1>1, <1>2 DEF Inv

\* Whatever leaves calls live for their runs, and canceled if they were, keeps
\* them held.
LEMMA HeldStays ==
  ASSUME Inv, UNCHANGED active,
         \A j \in CallIDs : calls'[j].run = calls[j].run /\ (Live(j)' <=> Live(j))
  PROVE  Held'
<1>1. \A j \in CallIDs : Live(j)' => calls'[j].run \in RunIDs /\ active'[calls'[j].run] = j
  BY DEF Inv, Held
<1>2. ASSUME NEW r \in RunIDs, active'[r] # 0
      PROVE  Live(active[r])' /\ calls'[active'[r]].run = r
  <2>1. active'[r] = active[r] /\ active[r] \in CallIDs
    BY <1>2 DEF Inv, TypeInv
  <2> QED  BY <1>2, <2>1 DEF Inv, Held
<1> QED  BY <1>1, <1>2 DEF Held

\* A step of a call that goes on keeps the invariant: what it saves is its own
\* run, which no other call executes.
LEMMA CallKeeps ==
  ASSUME Inv, NEW i \in CallIDs, NEW pc, NEW unseen, NEW s, CallShape(i, pc, unseen, s)
  PROVE  Inv'
<1> DEFINE r == calls[i].run
<1>1. r \in RunIDs /\ calls[i] \in Call /\ active[r] = i
  BY LiveCall DEF CallShape, Inv, Held
<1>2. /\ calls'[i].run = r /\ calls'[i].pc = pc /\ calls'[i].unseen = unseen
      /\ calls'[i].done = calls[i].done /\ calls'[i] \in Call
      /\ \A j \in CallIDs \ {i} : calls'[j] = calls[j]
      /\ calls' \in [CallIDs -> Call]
  BY <1>1 DEF CallShape, Inv, TypeInv
<1>3. /\ stored'[r] = s /\ s # NoRun /\ stored' \in [RunIDs -> Run \cup {NoRun}]
      /\ \A p \in RunIDs \ {r} : stored'[p] = stored[p]
  BY <1>1, DefinitionAssumption DEF CallShape, Inv, TypeInv
<1>4. Live(i) /\ Live(i)' /\ \A j \in CallIDs : calls'[j].run = calls[j].run /\ (Live(j)' <=> Live(j))
  BY <1>2 DEF CallShape, Live, Executions
<1>5. TypeInv'
  BY <1>2, <1>3 DEF CallShape, Inv, TypeInv
<1>6. Requested'
  BY <1>3 DEF CallShape, Inv, Requested
<1>7. Held'
  BY <1>4, HeldStays DEF CallShape
<1>8. Drains'
  BY <1>2, <1>4 DEF CallShape, Inv, Drains
<1>9. ASSUME NEW j \in CallIDs
      PROVE  /\ Live(j)' => stored'[calls'[j].run] # NoRun
             /\ calls'[j].unseen # NoRun => Live(j)' /\ calls'[j].unseen = stored'[calls'[j].run]
             /\ calls'[j].pc = "resume" => stored'[calls'[j].run].status \notin TerminalRun
             /\ calls'[j].pc \in {"check", "run"} => stored'[calls'[j].run].status = "running"
  <2>1. CASE j = i
    BY <1>2, <1>3, <1>4, <2>1 DEF CallShape
  <2>2. CASE j # i /\ Live(j)
    <3>1. calls[j].run \in RunIDs /\ calls[j].run # r
      BY <1>1, <2>2 DEF Inv, Held
    <3> QED  BY <1>2, <1>3, <1>4, <2>2, <3>1 DEF Inv, Executing
  <2>3. CASE j # i /\ ~Live(j)
    BY <1>2, <1>4, <2>3 DEF Inv, Executing, Live
  <2> QED  BY <2>1, <2>2, <2>3
<1>10. Executing'
  BY <1>9 DEF Executing
<1> QED  BY <1>5, <1>6, <1>7, <1>8, <1>10 DEF Inv

\* A call that has left is no longer held, and the rest is as it was.
LEMMA LeaveKeeps ==
  ASSUME Inv, NEW i \in CallIDs, Leave(i)
  PROVE  Inv'
<1> DEFINE r == calls[i].run
<1>0. Live(i)
  BY DEF Leave, Ready, Live
<1>1. r \in RunIDs /\ active[r] = i
  BY <1>0 DEF Inv, Held
<1>2. /\ calls'[i].pc = "off" /\ calls'[i].unseen = NoRun /\ calls' \in [CallIDs -> Call]
      /\ \A j \in CallIDs \ {i} : calls'[j] = calls[j]
  BY Zenon DEF Leave, NoCall, Inv, TypeInv, Call
<1>3. /\ active'[r] = 0 /\ active' \in [RunIDs -> CallIDs \cup {0}]
      /\ \A p \in RunIDs \ {r} : active'[p] = active[p]
  BY <1>1 DEF Leave, Inv, TypeInv
<1>4. UNCHANGED <<stored, closed, phase, request>>
  BY DEF Leave
<1>5. ~Live(i)' /\ \A j \in CallIDs \ {i} : Live(j)' <=> Live(j)
  BY <1>2 DEF Live
<1>6. TypeInv' /\ Requested'
  BY <1>2, <1>3, <1>4 DEF Inv, TypeInv, Requested
<1>7. \A j \in CallIDs : Live(j)' => calls'[j].run \in RunIDs /\ active'[calls'[j].run] = j
  BY <1>1, <1>2, <1>3, <1>5 DEF Inv, Held
<1>8. ASSUME NEW p \in RunIDs, active'[p] # 0
      PROVE  Live(active[p])' /\ calls'[active'[p]].run = p
  <2>1. p # r /\ active'[p] = active[p] /\ active[p] \in CallIDs
    BY <1>3, <1>8 DEF Inv, TypeInv
  <2>2. active[p] # i
    BY <1>8, <2>1 DEF Inv, Held
  <2> QED  BY <1>2, <1>5, <1>8, <2>1, <2>2 DEF Inv, Held
<1>9. Held'
  BY <1>3, <1>7, <1>8 DEF Held, Live
<1>10. Drains' /\ Executing'
  BY <1>2, <1>4, <1>5 DEF Inv, Drains, Executing
<1> QED  BY <1>6, <1>9, <1>10 DEF Inv

\* A handler leaves request q at pc, for the run it is about, or answers it.
LEMMA RequestMoves ==
  ASSUME Inv, NEW q \in Requests, UNCHANGED stored,
         \/ Answer(q)
         \/ \E pc \in Handlers : request[q].pc \in Handlers /\ Goto(q, pc)
  PROVE  request' \in [Requests -> Request] /\ Requested'
<1>0. request \in [Requests -> Request]
  BY DEF Inv, TypeInv
<1>1. CASE Answer(q)
  <2>1. Answered = [pc |-> "answered", run |-> NoRun]
    BY DEF Answered, NoRequest
  <2>2. /\ request' \in [Requests -> Request] /\ request'[q].pc = "answered"
        /\ \A p \in Requests \ {q} : request'[p] = request[p]
    BY <1>0, <1>1, <2>1 DEF Answer, Request
  <2> QED  BY <2>2 DEF Inv, Requested, Handlers
<1>2. ASSUME NEW pc \in Handlers, request[q].pc \in Handlers, Goto(q, pc)
      PROVE  request' \in [Requests -> Request] /\ Requested'
  <2>1. /\ request' \in [Requests -> Request] /\ request'[q].run = request[q].run
        /\ \A p \in Requests \ {q} : request'[p] = request[p]
    BY <1>0, <1>2 DEF Goto, Request
  <2> QED  BY <1>2, <2>1 DEF Inv, Requested
<1> QED  BY <1>1, <1>2

\* A run is launched only when nobody executes it, with a call that is new.
LEMMA StartKeeps ==
  ASSUME Inv, NEW r \in RunIDs, stored[r] # NoRun, Start(r),
         request' \in [Requests -> Request], Requested', UNCHANGED <<stored, closed, phase>>
  PROVE  Inv'
<1>1. CASE UNCHANGED <<active, calls>>
  <2>1. TypeInv' /\ Held' /\ Drains' /\ Executing'
    BY <1>1 DEF Inv, TypeInv, Held, Drains, Executing, Live
  <2> QED  BY <2>1 DEF Inv
<1>2. CASE StartOutcome(r) = "started" /\ Launch(r)
  <2>1. ~closed /\ active[r] = 0
    BY <1>2 DEF StartOutcome
  <2> DEFINE new == [NoCall EXCEPT !.run = r, !.pc = "load"]
  <2>2. PICK i \in CallIDs :
          /\ Unused(calls, i)
          /\ calls' = [calls EXCEPT ![i] = new]
          /\ active' = [active EXCEPT ![r] = i]
    BY <1>2, Zenon DEF Launch
  <2>3. new \in Call /\ new.run = r /\ new.pc = "load" /\ new.unseen = NoRun
    <3>1. NoCall \in Call /\ NoCall.unseen = NoRun
      BY DEF NoCall, Call
    <3>2. ASSUME NEW c \in Call
          PROVE  LET begun == [c EXCEPT !.run = r, !.pc = "load"] IN
                 /\ begun \in Call /\ begun.run = r /\ begun.pc = "load"
                 /\ begun.unseen = c.unseen
      BY Zenon DEF Call, Executions
    <3> QED  BY <3>1, <3>2, Zenon
  <2> HIDE DEF new
  <2>4. /\ calls'[i].run = r /\ calls'[i].pc = "load" /\ calls'[i].unseen = NoRun
        /\ calls' \in [CallIDs -> Call]
        /\ \A j \in CallIDs \ {i} : calls'[j] = calls[j]
    BY <2>2, <2>3 DEF Inv, TypeInv
  <2>5. /\ active'[r] = i /\ active' \in [RunIDs -> CallIDs \cup {0}]
        /\ \A p \in RunIDs \ {r} : active'[p] = active[p]
    BY <2>2 DEF Inv, TypeInv
  <2>6. ~Live(i) /\ Live(i)' /\ \A j \in CallIDs \ {i} : Live(j)' <=> Live(j)
    BY <2>2, <2>4 DEF Live, Unused
  <2>7. TypeInv'
    BY <2>4, <2>5 DEF Inv, TypeInv
  <2>8. ASSUME NEW j \in CallIDs, Live(j)'
        PROVE  calls'[j].run \in RunIDs /\ active'[calls'[j].run] = j
    <3>1. CASE j = i
      BY <2>4, <2>5, <3>1
    <3>2. CASE j # i
      <4>1. calls[j].run \in RunIDs /\ active[calls[j].run] = j
        BY <2>6, <2>8, <3>2 DEF Inv, Held
      <4>2. calls[j].run # r
        BY <2>1, <4>1 DEF CallIDs
      <4> QED  BY <2>4, <2>5, <3>2, <4>1, <4>2
    <3> QED  BY <3>1, <3>2
  <2>9. ASSUME NEW p \in RunIDs, active'[p] # 0
        PROVE  Live(active[p])' /\ calls'[active'[p]].run = p
    <3>1. CASE p = r
      BY <2>4, <2>5, <2>6, <3>1 DEF Live
    <3>2. CASE p # r
      <4>1. active'[p] = active[p] /\ active[p] \in CallIDs /\ Live(active[p])
        BY <2>5, <2>9, <3>2 DEF Inv, TypeInv, Held
      <4>2. active[p] # i
        BY <2>6, <4>1
      <4> QED  BY <2>4, <2>6, <2>9, <4>1, <4>2 DEF Inv, Held, Live
    <3> QED  BY <3>1, <3>2
  <2>10. Held'
    BY <2>8, <2>9 DEF Held, Live
  <2>11. Drains'
    BY <2>1 DEF Inv, Drains
  <2>12. Executing'
    BY <2>4, <2>6 DEF Inv, Executing
  <2> QED  BY <2>7, <2>10, <2>11, <2>12 DEF Inv
<1> QED  BY <1>1, <1>2 DEF Start

\* Cancellation only marks the call that executes the run.
LEMMA CancelKeeps ==
  ASSUME Inv, NEW r \in RunIDs, CancelCall(r),
         request' \in [Requests -> Request], Requested', UNCHANGED <<stored, active, closed, phase>>
  PROVE  Inv'
<1>1. /\ calls' \in [CallIDs -> Call]
      /\ \A j \in CallIDs : /\ calls'[j].run = calls[j].run /\ calls'[j].pc = calls[j].pc
                            /\ calls'[j].unseen = calls[j].unseen
                            /\ calls[j].done => calls'[j].done
  <2>1. CASE active[r] = 0
    BY <2>1 DEF CancelCall, Inv, TypeInv
  <2>2. CASE active[r] # 0
    <3>1. active[r] \in CallIDs /\ calls \in [CallIDs -> Call]
      BY <2>2 DEF Inv, TypeInv
    <3>2. calls' = [calls EXCEPT ![active[r]].done = TRUE]
      BY <2>2 DEF CancelCall
    <3> QED  BY <3>1, <3>2, Zenon DEF Call
  <2> QED  BY <2>1, <2>2
<1>2. \A j \in CallIDs : Live(j)' <=> Live(j)
  BY <1>1 DEF Live
<1>3. TypeInv' /\ Drains' /\ Executing'
  BY <1>1, <1>2 DEF Inv, TypeInv, Drains, Executing
<1>4. Held'
  BY <1>1, <1>2, HeldStays
<1> QED  BY <1>3, <1>4 DEF Inv

\* Shutdown cancels the calls that are held, which are all there are.
LEMMA ShutdownKeeps == Inv /\ Shutdown => Inv'
<1> SUFFICES ASSUME Inv, Shutdown PROVE Inv'  OBVIOUS
<1>0. /\ calls' = [i \in CallIDs |-> IF \E r \in RunIDs : active[r] = i
                                     THEN [calls[i] EXCEPT !.done = TRUE] ELSE calls[i]]
      /\ closed' = TRUE /\ phase' = "waiting" /\ UNCHANGED <<stored, active, request>>
  BY DEF Shutdown
<1>1. ASSUME NEW i \in CallIDs
      PROVE  /\ calls'[i] \in Call
             /\ calls'[i].run = calls[i].run /\ calls'[i].pc = calls[i].pc
             /\ calls'[i].unseen = calls[i].unseen
             /\ (\E r \in RunIDs : active[r] = i) => calls'[i].done
  <2>1. calls[i] \in Call
    BY DEF Inv, TypeInv
  <2>2. /\ [calls[i] EXCEPT !.done = TRUE] \in Call
        /\ [calls[i] EXCEPT !.done = TRUE].run = calls[i].run
        /\ [calls[i] EXCEPT !.done = TRUE].pc = calls[i].pc
        /\ [calls[i] EXCEPT !.done = TRUE].unseen = calls[i].unseen
        /\ [calls[i] EXCEPT !.done = TRUE].done
    BY <2>1, Zenon DEF Call
  <2>3. CASE \E r \in RunIDs : active[r] = i
    BY <1>0, <2>2, <2>3
  <2>4. CASE ~\E r \in RunIDs : active[r] = i
    BY <1>0, <2>1, <2>4
  <2> QED  BY <2>3, <2>4
<1>2. \A i \in CallIDs : Live(i)' <=> Live(i)
  BY <1>1 DEF Live
<1>3. TypeInv' /\ Requested'
  <2>1. calls' \in [CallIDs -> Call]
    BY <1>0, <1>1
  <2> QED  BY <1>0, <2>1 DEF Inv, TypeInv, Requested
<1>4. Held'
  BY <1>0, <1>1, <1>2, HeldStays
<1>5. Executing'
  BY <1>0, <1>1, <1>2 DEF Inv, Executing
<1>6. Drains'
  BY <1>0, <1>1, <1>2 DEF Inv, Held, Drains
<1> QED  BY <1>3, <1>4, <1>5, <1>6 DEF Inv

\* The process that starts again holds nothing and executes nothing.
LEMMA RestartKeeps == Inv /\ Restart => Inv'
<1> SUFFICES ASSUME Inv, Restart PROVE Inv'  OBVIOUS
<1>0. /\ active' = [r \in RunIDs |-> 0] /\ closed' = FALSE /\ phase' = "up" /\ UNCHANGED stored
      /\ calls' = [i \in CallIDs |-> IF Live(i) THEN [NoCall EXCEPT !.pc = "off"] ELSE calls[i]]
      /\ request' = [q \in Requests |-> IF At(q, "none") THEN NoRequest ELSE Answered]
  BY DEF Restart
<1> DEFINE gone == [NoCall EXCEPT !.pc = "off"]
<1>1. gone \in Call /\ gone.pc = "off" /\ gone.unseen = NoRun
  BY Zenon DEF NoCall, Call
<1> HIDE DEF gone
<1>2. ASSUME NEW i \in CallIDs
      PROVE  calls'[i] \in Call /\ calls'[i].pc \in {"none", "off"} /\ calls'[i].unseen = NoRun
  <2>1. CASE Live(i)
    BY <1>0, <1>1, <2>1, Zenon DEF gone
  <2>2. CASE ~Live(i)
    BY <1>0, <2>2 DEF Live, Inv, TypeInv, Executing
  <2> QED  BY <2>1, <2>2
<1>3. NoRequest \in Request /\ Answered \in Request
      /\ NoRequest.pc \notin Handlers /\ Answered.pc \notin Handlers
  <2>1. Answered = [pc |-> "answered", run |-> NoRun] /\ NoRequest = [pc |-> "none", run |-> NoRun]
    BY DEF Answered, NoRequest
  <2> QED  BY <2>1 DEF Request, Handlers
<1>4. request' \in [Requests -> Request] /\ \A q \in Requests : request'[q].pc \notin Handlers
  BY <1>0, <1>3
<1>5. TypeInv' /\ Requested'
  <2>1. calls' \in [CallIDs -> Call]
    BY <1>0, <1>2
  <2> QED  BY <1>0, <1>4, <2>1 DEF Inv, TypeInv, Requested
<1>6. \A i \in CallIDs : ~Live(i)'
  BY <1>2 DEF Live
<1>7. Held' /\ Drains' /\ Executing'
  BY <1>0, <1>2, <1>6 DEF Held, Drains, Executing
<1> QED  BY <1>5, <1>7 DEF Inv

\* What the engine saves while it executes a running aggregate is an aggregate.
LEMMA EngineWritesAreRuns ==
  ASSUME NEW run \in Run, run.status = "running", NEW a \in EngineWrites(run)
  PROVE  a \in Run /\ a.status \in TerminalRun \cup {"running"}
<1> DEFINE With(status) == {t \in Tasks : run.tasks[t].status = status}
<1>0. CancelUnfinished(run) \in Run
  BY CancelUnfinishedEdges
<1>1. CASE HasTask(run, "failed")
  <2>1. a = TransitionWorkflow(CancelUnfinished(run), "failed")
    BY <1>1 DEF EngineWrites, FailedRun
  <2> QED  BY <1>0, <2>1, WithStatus DEF RunStatuses, TerminalRun
<1>2. CASE ~HasTask(run, "failed") /\ Completed(run) = Tasks
  <2>1. a = TransitionWorkflow(run, "succeeded")
    BY <1>2 DEF EngineWrites
  <2> QED  BY <2>1, WithStatus DEF RunStatuses, TerminalRun
<1>3. CASE ~HasTask(run, "failed") /\ Completed(run) # Tasks /\ NewReady(run) # {}
  <2>1. a = MarkNewReady(run)
    BY <1>3 DEF EngineWrites
  <2> QED  BY <2>1, MarkNewReadyEdges
<1>4. CASE ~HasTask(run, "failed") /\ Completed(run) # Tasks /\ NewReady(run) = {}
  <2>1. \/ \E t \in With("ready"), w \in Workers : a = StartTaskAttempt(run, t, w)
        \/ \E t \in With("running"), result \in Results :
             a = AfterCompletion(run, t, run.tasks[t].lease, run.tasks[t].attempts, result)
        \/ \E t \in With("running") : a = RecoverExpiredLeases(Late(run, t))
        \/ \E t \in With("retry_wait") : a = PromoteDueRetries(Late(run, t))
    BY <1>4 DEF EngineWrites
  <2>2. CASE \E t \in With("ready"), w \in Workers : a = StartTaskAttempt(run, t, w)
    BY <2>2, LeaseIsProgress DEF ProgressWrite
  <2>3. CASE \E t \in With("running"), result \in Results :
               a = AfterCompletion(run, t, run.tasks[t].lease, run.tasks[t].attempts, result)
    <3>1. PICK t \in With("running"), result \in Results :
            a = AfterCompletion(run, t, run.tasks[t].lease, run.tasks[t].attempts, result)
      BY <2>3
    <3>2. CompletionOutcome(run, t, run.tasks[t].lease, run.tasks[t].attempts, result) # "ignored"
      BY DEF CompletionOutcome, HoldsAttempt
    <3> QED  BY <3>1, <3>2, CompletionIsProgress DEF ProgressWrite
  <2>4. CASE \E t \in With("running") : a = RecoverExpiredLeases(Late(run, t))
    BY <2>4, LateFacts, RecoverExpiredEdges
  <2>5. CASE \E t \in With("retry_wait") : a = PromoteDueRetries(Late(run, t))
    BY <2>5, LateFacts, PromoteEdges
  <2> QED  BY <2>1, <2>2, <2>3, <2>4, <2>5
<1> QED  BY <1>1, <1>2, <1>3, <1>4

\* A save of an unfinished run has the shape.
LEMMA SaveShape ==
  ASSUME Inv, NEW i \in CallIDs, Live(i), NEW snapshot \in Run, NEW pc \in Executions \ {"resume"},
         Save(i, snapshot, pc), UNCHANGED aside,
         stored[calls[i].run].status \notin TerminalRun,
         pc \in {"check", "run"} => snapshot.status = "running"
  PROVE  CallShape(i, pc, snapshot, snapshot)
<1>1. calls \in [CallIDs -> Call]
  BY DEF Inv, TypeInv
<1>2. /\ calls' \in [CallIDs -> Call] /\ \A j \in CallIDs \ {i} : calls'[j] = calls[j]
      /\ calls'[i].run = calls[i].run /\ calls'[i].done = calls[i].done
      /\ calls'[i].pc = pc /\ calls'[i].unseen = snapshot
  BY <1>1, Zenon DEF Save, Call
<1>3. stored' = [stored EXCEPT ![calls[i].run] = snapshot]
  BY DEF Save
<1> QED  BY <1>2, <1>3 DEF CallShape, aside

\* A step that saves nothing has the shape too.
LEMMA MoveShape ==
  ASSUME Inv, NEW i \in CallIDs, Live(i), NEW pc \in Executions, Move(i, pc), UNCHANGED aside,
         pc = "resume" => stored[calls[i].run].status \notin TerminalRun,
         pc \in {"check", "run"} => stored[calls[i].run].status = "running"
  PROVE  CallShape(i, pc, calls[i].unseen, stored[calls[i].run])
<1>1. /\ calls \in [CallIDs -> Call] /\ stored \in [RunIDs -> Run \cup {NoRun}]
      /\ calls[i].run \in RunIDs /\ stored[calls[i].run] \in Run
  BY LiveCall DEF Inv, TypeInv
<1>2. /\ calls' \in [CallIDs -> Call] /\ \A j \in CallIDs \ {i} : calls'[j] = calls[j]
      /\ calls'[i].run = calls[i].run /\ calls'[i].done = calls[i].done
      /\ calls'[i].pc = pc /\ calls'[i].unseen = calls[i].unseen
  BY <1>1 DEF Move, Call
<1>3. stored' = [stored EXCEPT ![calls[i].run] = stored[calls[i].run]]
  BY <1>1 DEF Move
<1>4. calls[i].unseen \in {stored[calls[i].run], NoRun}
  BY DEF Inv, Executing
<1> QED  BY <1>1, <1>2, <1>3, <1>4 DEF CallShape, aside

\* A call goes on by one of the two, or has its save observed.
LEMMA CallStepShape ==
  ASSUME Inv, NEW i \in CallIDs,
         Load(i) \/ Resume(i) \/ CheckContext(i) \/ Work(i) \/ CancelRun(i) \/ GiveUp(i) \/ Observe(i)
  PROVE  \E pc, unseen, s : CallShape(i, pc, unseen, s)
<1> DEFINE run == stored[calls[i].run]
<1>0. Live(i)
  BY DEF Load, Resume, CheckContext, Work, CancelRun, GiveUp, Observe, Ready, Live, Inv, Executing
<1>1. /\ run \in Run /\ calls[i].run \in RunIDs /\ calls[i] \in Call
      /\ calls[i].pc = "resume" => run.status \notin TerminalRun
      /\ calls[i].pc \in {"check", "run"} => run.status = "running" /\ run.status \notin TerminalRun
  BY <1>0, LiveCall DEF TerminalRun
<1>2. FailedRun(run) \in Run /\ CanceledRun(run) \in Run
  BY <1>1, CancelUnfinishedEdges, WithStatus DEF FailedRun, CanceledRun, RunStatuses
<1>3. CASE Load(i)
  <2>1. run # NoRun
    BY <1>1, DefinitionAssumption
  <2> DEFINE pc == IF calls[i].done \/ Finished(calls[i].run) THEN "leave" ELSE "resume"
  <2>2. pc \in Executions /\ (pc = "resume" => run.status \notin TerminalRun)
        /\ pc \notin {"check", "run"}
    BY <2>1 DEF Finished, Executions
  <2>3. Move(i, pc) /\ UNCHANGED aside
    BY <1>3 DEF Load
  <2> HIDE DEF pc
  <2> QED  BY <1>0, <2>2, <2>3, MoveShape
<1>4. CASE Resume(i)
  <2>1. UNCHANGED aside /\ run.status \notin TerminalRun
    BY <1>1, <1>4 DEF Resume, Ready
  <2>2. CASE Save(i, FailedRun(run), "leave") \/ Save(i, CanceledRun(run), "leave")
    BY <1>0, <1>2, <2>1, <2>2, SaveShape DEF Executions
  <2>3. CASE Save(i, TransitionWorkflow(run, "running"), "check")
    <3>1. TransitionWorkflow(run, "running") \in Run
          /\ TransitionWorkflow(run, "running").status = "running"
      BY <1>1, WithStatus DEF RunStatuses
    <3> QED  BY <1>0, <2>1, <2>3, <3>1, SaveShape DEF Executions
  <2>4. CASE run.status # "pending" /\ Move(i, "check")
    <3>1. run.status = "running"
      BY <1>1, <2>1, <2>4 DEF Run, RunStatuses, TerminalRun
    <3> QED  BY <1>0, <2>1, <2>4, <3>1, MoveShape DEF Executions
  <2> QED  BY <1>4, <2>2, <2>3, <2>4 DEF Resume
<1>5. CASE CheckContext(i)
  <2>1. UNCHANGED aside /\ run.status = "running" /\ run.status \notin TerminalRun
    BY <1>1, <1>5 DEF CheckContext, Ready
  <2>2. CASE Save(i, CanceledRun(run), "leave")
    BY <1>0, <1>2, <2>1, <2>2, SaveShape DEF Executions
  <2>3. CASE Move(i, "run")
    BY <1>0, <2>1, <2>3, MoveShape DEF Executions
  <2> QED  BY <1>5, <2>2, <2>3 DEF CheckContext
<1>6. CASE Work(i)
  <2>1. UNCHANGED aside /\ run.status = "running" /\ run.status \notin TerminalRun
    BY <1>1, <1>6 DEF Work, Ready
  <2>2. PICK a \in EngineWrites(run) : Save(i, a, IF a.status \in TerminalRun THEN "leave" ELSE "run")
    BY <1>6 DEF Work
  <2>3. a \in Run /\ a.status \in TerminalRun \cup {"running"}
    BY <1>1, <2>1, EngineWritesAreRuns
  <2>4. CASE a.status \in TerminalRun
    BY <1>0, <2>1, <2>2, <2>3, <2>4, SaveShape DEF Executions
  <2>5. CASE a.status \notin TerminalRun
    BY <1>0, <2>1, <2>2, <2>3, <2>5, SaveShape DEF Executions
  <2> QED  BY <2>4, <2>5
<1>7. CASE CancelRun(i)
  <2>1. UNCHANGED aside /\ run.status \notin TerminalRun /\ Save(i, CanceledRun(run), "leave")
    BY <1>1, <1>7 DEF CancelRun, Ready
  <2> QED  BY <1>0, <1>2, <2>1, SaveShape DEF Executions
<1>8. CASE GiveUp(i)
  BY <1>0, <1>8, MoveShape DEF GiveUp, Executions
<1>9. CASE Observe(i)
  <2>1. calls' = [calls EXCEPT ![i].unseen = NoRun] /\ UNCHANGED <<stored, active, closed, phase, request>>
    BY <1>9 DEF Observe
  <2>2. calls \in [CallIDs -> Call] /\ stored \in [RunIDs -> Run \cup {NoRun}]
    BY DEF Inv, TypeInv
  <2>3. /\ calls' \in [CallIDs -> Call] /\ \A j \in CallIDs \ {i} : calls'[j] = calls[j]
        /\ calls'[i].run = calls[i].run /\ calls'[i].done = calls[i].done
        /\ calls'[i].pc = calls[i].pc /\ calls'[i].unseen = NoRun
    BY <2>1, <2>2 DEF Call
  <2>4. stored' = [stored EXCEPT ![calls[i].run] = run] /\ calls[i].pc \in Executions
    BY <1>0, <1>1, <2>1, <2>2, LiveCall
  <2>5. CallShape(i, calls[i].pc, NoRun, run)
    BY <1>0, <1>1, <2>1, <2>3, <2>4, Zenon DEF CallShape
  <2> QED  BY <2>5
<1> QED  BY <1>3, <1>4, <1>5, <1>6, <1>7, <1>8, <1>9

\* A run is created under an ID that is free, hence that no call executes.
LEMMA CreateKeeps ==
  ASSUME Inv, NEW q \in Requests, NEW r \in RunIDs, Create(q, r)
  PROVE  Inv'
<1>1. /\ stored[r] = NoRun /\ stored'[r] = NewWorkflowRun /\ NewWorkflowRun # NoRun
      /\ stored' \in [RunIDs -> Run \cup {NoRun}]
      /\ \A p \in RunIDs \ {r} : stored'[p] = stored[p]
  BY NewRunType, DefinitionAssumption DEF Create, Inv, TypeInv
<1>2. UNCHANGED <<active, calls, closed, phase>>
  BY DEF Create, manager
<1>3. /\ request' \in [Requests -> Request] /\ request'[q].run = r
      /\ \A p \in Requests \ {q} : request'[p] = request[p]
  BY DEF Create, Inv, TypeInv, Request, Handlers
<1>4. TypeInv' /\ Requested'
  BY <1>1, <1>2, <1>3 DEF Inv, TypeInv, Requested
<1>5. Held' /\ Drains'
  BY <1>2 DEF Inv, Held, Drains, Live
<1>6. ASSUME NEW i \in CallIDs, Live(i)
      PROVE  stored'[calls[i].run] = stored[calls[i].run]
  BY <1>1, <1>6 DEF Inv, Held, Executing
<1>7. Executing'
  BY <1>2, <1>6 DEF Inv, Executing, Live
<1> QED  BY <1>4, <1>5, <1>7 DEF Inv

\* What a handler knows of the run it is about.
LEMMA HandlerRun ==
  ASSUME Inv, NEW q \in Requests, request[q].pc \in Handlers
  PROVE  request[q].run \in RunIDs /\ stored[request[q].run] # NoRun
BY DEF Inv, Requested

\* The steps of the handlers.
LEMMA RequestStepKeeps ==
  ASSUME Inv, NEW q \in Requests, RequestStep(q)
  PROVE  Inv' /\ UNCHANGED stored
<1>1. CASE ObserveCreated(q)
  <2>1. UNCHANGED <<stored, active, calls, closed, phase>> /\ Goto(q, "start")
        /\ request[q].pc \in Handlers
    BY <1>1 DEF ObserveCreated, manager, At, Handlers
  <2>2. request' \in [Requests -> Request] /\ Requested'
    BY <2>1, RequestMoves DEF Handlers
  <2>3. HandlerShape
    BY <2>1, <2>2 DEF HandlerShape, Requested
  <2> QED  BY <2>1, <2>3, HandlerKeeps
<1>2. CASE StartCreated(q)
  <2>1. /\ UNCHANGED <<stored, closed, phase>> /\ Answer(q) /\ Start(request[q].run)
        /\ request[q].pc \in Handlers
    BY <1>2 DEF StartCreated, At, Handlers
  <2> QED  BY <2>1, RequestMoves, HandlerRun, StartKeeps
<1>3. CASE CancelActive(q)
  <2>1. /\ UNCHANGED <<stored, active, closed, phase>> /\ CancelCall(request[q].run)
        /\ Answer(q) \/ Goto(q, "revive")
        /\ request[q].pc \in Handlers /\ "revive" \in Handlers
    BY <1>3 DEF CancelActive, At, Handlers
  <2> QED  BY <2>1, RequestMoves, HandlerRun, CancelKeeps
<1>4. CASE Revive(q)
  <2>1. /\ UNCHANGED <<stored, closed, phase>> /\ Start(request[q].run)
        /\ Answer(q) \/ Goto(q, "again")
        /\ request[q].pc \in Handlers /\ "again" \in Handlers
    BY <1>4 DEF Revive, At, Handlers
  <2> QED  BY <2>1, RequestMoves, HandlerRun, StartKeeps
<1>5. CASE CancelAgain(q)
  <2>1. /\ UNCHANGED <<stored, active, closed, phase>> /\ CancelCall(request[q].run)
        /\ Answer(q) /\ request[q].pc \in Handlers
    BY <1>5 DEF CancelAgain, At, Handlers
  <2> QED  BY <2>1, RequestMoves, HandlerRun, CancelKeeps
<1> QED  BY <1>1, <1>2, <1>3, <1>4, <1>5 DEF RequestStep

Finality == \A r \in RunIDs : Finished(r) => stored'[r] = stored[r]

\* Every step keeps the invariant and every finished run.
LEMMA NextKeeps == Inv /\ [Next]_vars => Inv' /\ Finality
<1> SUFFICES ASSUME Inv, [Next]_vars PROVE Inv' /\ Finality  OBVIOUS
<1>0. ASSUME UNCHANGED <<stored, active, calls, closed, phase, request>> PROVE Inv' /\ Finality
  <2>1. HandlerShape
    BY <1>0 DEF HandlerShape, Inv, TypeInv, Requested
  <2> QED  BY <1>0, <2>1, HandlerKeeps DEF Finality
<1>1. ASSUME NEW i \in CallIDs, NEW pc, NEW unseen, NEW s, CallShape(i, pc, unseen, s)
      PROVE  Inv' /\ Finality
  <2>1. \A r \in RunIDs : Finished(r) => stored'[r] = stored[r]
    BY <1>1 DEF CallShape, Finished, Inv, TypeInv
  <2> QED  BY <1>1, <2>1, CallKeeps DEF Finality
<1>2. ASSUME NEW i \in CallIDs, CallStep(i) \/ GiveUp(i) PROVE Inv' /\ Finality
  <2>1. CASE Leave(i)
    BY <2>1, LeaveKeeps, Zenon DEF Leave, Finality
  <2>2. CASE Load(i) \/ Resume(i) \/ CheckContext(i) \/ Work(i) \/ CancelRun(i) \/ GiveUp(i) \/ Observe(i)
    BY <1>1, <2>2, CallStepShape
  <2> QED  BY <1>2, <2>1, <2>2 DEF CallStep
<1>3. ASSUME NEW q \in Requests, RequestStep(q) PROVE Inv' /\ Finality
  BY <1>3, RequestStepKeeps DEF Finality
<1>4. ASSUME NEW q \in Requests, NEW r \in RunIDs, Create(q, r) PROVE Inv' /\ Finality
  <2>1. \A p \in RunIDs : Finished(p) => stored'[p] = stored[p]
    BY <1>4 DEF Create, Finished, Inv, TypeInv
  <2> QED  BY <1>4, <2>1, CreateKeeps DEF Finality
<1>5. ASSUME NEW q \in Requests, NEW r \in RunIDs, RequestCancel(q, r) PROVE Inv' /\ Finality
  <2>1. UNCHANGED <<stored, active, calls, closed, phase>> /\ stored[r] # NoRun
        /\ request' = [request EXCEPT ![q] = [pc |-> "cancel", run |-> r]]
    BY <1>5 DEF RequestCancel, manager
  <2>2. request' \in [Requests -> Request] /\ request'[q].run = r
        /\ \A p \in Requests \ {q} : request'[p] = request[p]
    BY <2>1 DEF Inv, TypeInv, Request, Handlers
  <2>3. HandlerShape
    BY <2>1, <2>2 DEF HandlerShape, Inv, Requested
  <2> QED  BY <2>1, <2>3, HandlerKeeps DEF Finality
<1>6. ASSUME NEW c \in Clients, ClientStep(c) \/ Disconnect(c) PROVE Inv' /\ Finality
  BY <1>0, <1>6 DEF ClientStep, Seed, Look, Disconnect, manager
<1>7. ASSUME NEW c \in Clients, NEW r \in RunIDs, NEW resumes \in BOOLEAN, Connect(c, r, resumes)
      PROVE  Inv' /\ Finality
  BY <1>0, <1>7 DEF Connect, manager
<1>8. CASE Shutdown
  BY <1>8, ShutdownKeeps DEF Shutdown, Finality
<1>9. CASE ShutdownEnds
  <2>1. /\ UNCHANGED <<stored, active, calls, closed, request>> /\ phase' = "drained"
        /\ phase = "waiting" /\ \A i \in CallIDs : ~Live(i)
    BY <1>9 DEF ShutdownEnds
  <2>2. TypeInv' /\ Requested' /\ Held' /\ Drains' /\ Executing'
    BY <2>1 DEF Inv, TypeInv, Requested, Held, Drains, Executing, Live
  <2> QED  BY <2>1, <2>2 DEF Inv, Finality
<1>10. CASE Restart
  BY <1>10, RestartKeeps DEF Restart, Finality
<1>11. CASE UNCHANGED vars
  BY <1>0, <1>11 DEF vars, manager
<1> QED  BY <1>2, <1>3, <1>4, <1>5, <1>6, <1>7, <1>8, <1>9, <1>10, <1>11
         DEF Next, CreateRun, RetryRun
-----------------------------------------------------------------------------
\* The invariant holds in every behaviour.
LEMMA ManagerCorrect == Spec => []Inv
BY Initially, NextKeeps, PTL DEF Spec

\* Every execution in progress is the one whose cancel function runManager keeps
\* for its run, and it keeps no other, whatever requests start, cancel and revive
\* runs and whatever fails.
THEOREM ExecutionsAreHeld == Spec => []EveryExecutionIsHeld
<1>1. Inv => EveryExecutionIsHeld
  BY DEF Inv, Held, EveryExecutionIsHeld
<1> QED  BY <1>1, ManagerCorrect, PTL

\* From the moment Shutdown closes the manager every execution is canceled, and
\* when it has returned without an error none is left, nor can one begin.
THEOREM ShutdownIsComplete == Spec => []ShutdownDrains
<1>1. Inv => ShutdownDrains
  BY DEF Inv, Drains, ShutdownDrains
<1> QED  BY <1>1, ManagerCorrect, PTL

\* No retry, cancellation, second execution or restart changes a run that is
\* finished.
THEOREM FinishedStaysFinal == Spec => FinishedIsFinal
<1>1. Inv /\ [Next]_vars => [\A r \in RunIDs : Finished(r) => stored'[r] = stored[r]]_vars
  BY NextKeeps DEF Finality
<1> QED  BY <1>1, ManagerCorrect, PTL DEF Spec, FinishedIsFinal
-----------------------------------------------------------------------------
(* What streams tell, and what subscribers have read.                        *)

\* The events are a sequence, whatever is in it.
Listed(events) == \E S : events \in Seq(S)

\* A save of the run has not been observed yet.
Unseen(r) == \E i \in CallIDs : calls[i].run = r /\ calls[i].unseen # NoRun

Outcomes(r) == {RunEvent("workflow_completed", stored[r].status),
                RunEvent("run_snapshot", stored[r].status)}

Client == [pc : {"out", "seed", "look", "wait", "over"}, run : RunIDs \cup {NoRun},
           snapshot : Run \cup {NoRun}, sequence : Nat, whole : BOOLEAN]

\* What the broker knows of a run that has ended is how it ended, and that is the
\* last it tells; unless it tells nothing and will observe nothing more.
TellsEnd(r) ==
  LET stream == streams[r]
  IN  stream # NoStream =>
        /\ stream.latest \in Run /\ Listed(stream.events)
        /\ stream.latest.status \in TerminalRun =>
             /\ stored[r] = stream.latest
             /\ stream.events = <<>> => ~Unseen(r)
             /\ stream.events # <<>> => stream.events[Len(stream.events)] \in Outcomes(r)

\* How far a subscriber has read.
ReadTo(c) ==
  /\ client[c].pc # "out" => client[c].run \in RunIDs
  /\ client[c].run \in RunIDs => client[c].sequence <= Len(streams[client[c].run].events)

\* The snapshot it brings is final when the run it shows has ended.
Brings(c) ==
  client[c].pc = "seed" =>
    /\ client[c].snapshot \in Run
    /\ client[c].snapshot.status \in TerminalRun => stored[client[c].run] = client[c].snapshot

\* At n of the stream of r there is the outcome, or there is nothing to come.
HeardEnd(r, n) ==
  /\ streams[r] # NoStream /\ Finished(r)
  /\ n = 0 => streams[r].events = <<>> /\ ~Unseen(r)
  /\ n # 0 => streams[r].events[n] \in Outcomes(r)

\* What a subscriber has read.
Reads(c) ==
  /\ ReadTo(c) /\ Brings(c)
  /\ client[c].pc = "over" => HeardEnd(client[c].run, client[c].sequence)

StreamInv ==
  /\ streams = [r \in RunIDs |-> streams[r]] /\ client \in [Clients -> Client]
  /\ \A r \in RunIDs : TellsEnd(r)
  /\ \A c \in Clients : Reads(c)
-----------------------------------------------------------------------------
(* What the broker appends to a stream.                                      *)

\* Lists are closed under concatenation, which keeps the first and ends like the
\* second.
LEMMA ListedTogether ==
  ASSUME NEW s, NEW t, Listed(s), Listed(t)
  PROVE  /\ Listed(s \o t) /\ Len(s) \in Nat /\ Len(t) \in Nat /\ Len(s \o t) = Len(s) + Len(t)
         /\ \A n \in 1..Len(s) : (s \o t)[n] = s[n]
         /\ t = <<>> => s \o t = s
         /\ s = <<>> => s \o t = t
         /\ t # <<>> => s \o t # <<>> /\ (s \o t)[Len(s \o t)] = t[Len(t)]
<1>0. PICK T, U : s \in Seq(T) /\ t \in Seq(U)
  BY DEF Listed
<1> DEFINE S == T \cup U
<1>1. s \in Seq(S) /\ t \in Seq(S)
  BY <1>0
<1> HIDE DEF S
<1>2. /\ s \o t \in Seq(S) /\ Len(s) \in Nat /\ Len(t) \in Nat /\ Len(s \o t) = Len(s) + Len(t)
      /\ \A n \in 1..Len(s) : (s \o t)[n] = s[n]
      /\ \A n \in 1..Len(t) : (s \o t)[Len(s) + n] = t[n]
  BY <1>1
<1>3. Listed(s \o t)
  BY <1>2 DEF Listed
<1>4. t = <<>> => s \o t = s
  BY <1>1
<1>5. s = <<>> => s \o t = t
  BY <1>1
<1>6. t # <<>> => Len(t) > 0
  BY <1>1
<1>7. t # <<>> => s \o t # <<>> /\ (s \o t)[Len(s \o t)] = t[Len(t)]
  BY <1>2, <1>6
<1> QED  BY <1>2, <1>3, <1>4, <1>5, <1>7

\* The events of the tasks are a list, and none when no task has moved.
LEMMA TaskEventsListed ==
  ASSUME NEW previous, NEW current
  PROVE  /\ Listed(TaskEvents(previous, current))
         /\ Moved(previous, current) = {} => TaskEvents(previous, current) = <<>>
<1> DEFINE moved == Moved(previous, current)
           events == {TaskEvent(previous, current, t) : t \in moved}
           nth(n) == CHOOSE e \in events : Cardinality({f \in events : Sooner(f, e)}) = n - 1
<1>1. IsFiniteSet(moved)
  BY DefinitionAssumption, FS_Subset DEF Moved
<1> HIDE DEF moved
<1>2. IsFiniteSet(events)
  <2> DEFINE f == [t \in moved |-> TaskEvent(previous, current, t)]
  <2>1. f \in Surjection(moved, events)
    BY DEF Surjection
  <2> QED  BY <1>1, <2>1, FS_Surjection
<1>3. moved = {} => events = {}
  OBVIOUS
<1> HIDE DEF events
<1>4. Cardinality(events) \in Nat /\ (events = {} => Cardinality(events) = 0)
  BY <1>2, FS_CardinalityType, FS_EmptySet
<1>5. TaskEvents(previous, current) = [n \in 1..Cardinality(events) |-> nth(n)]
  BY DEF TaskEvents, events, moved
<1> HIDE DEF nth
<1>6. ASSUME NEW k \in Nat
      PROVE  Listed([n \in 1..k |-> nth(n)]) /\ (k = 0 => [n \in 1..k |-> nth(n)] = <<>>)
  <2>1. [n \in 1..k |-> nth(n)] \in Seq({nth(n) : n \in 1..k})
    OBVIOUS
  <2>2. k = 0 => [n \in 1..k |-> nth(n)] = <<>>
    OBVIOUS
  <2> QED  BY <2>1, <2>2, Zenon DEF Listed
<1> QED  BY <1>3, <1>4, <1>5, <1>6 DEF moved

\* What deriveRunEvents returns ends with the outcome of a run that has come to
\* its end, and is empty for a snapshot seen before and for that of the creation.
LEMMA DerivedEvents ==
  ASSUME NEW previous \in Run, NEW current \in Run
  PROVE  LET events == DeriveRunEvents(previous, current) IN
         /\ Listed(events)
         /\ current.status \in TerminalRun /\ previous.status # current.status =>
              /\ events # <<>>
              /\ events[Len(events)] = RunEvent("workflow_completed", current.status)
         /\ current = NewWorkflowRun \/ (current = previous /\ current.status \in TerminalRun) =>
              events = <<>>
<1> DEFINE begin == IF previous.status # "running" /\ current.status = "running"
                    THEN <<RunEvent("workflow_started", "running")>> ELSE <<>>
           moves == TaskEvents(previous, current)
           end   == IF previous.status # current.status /\ current.status \in TerminalRun
                    THEN <<RunEvent("workflow_completed", current.status)>> ELSE <<>>
           events == DeriveRunEvents(previous, current)
<1>1. Listed(<<>>) /\ \A e : Listed(<<e>>) /\ <<e>> # <<>> /\ <<e>>[Len(<<e>>)] = e
  <2>1. <<>> \in Seq({}) /\ \A e : <<e>> \in Seq({e})
    OBVIOUS
  <2> QED  BY <2>1, Zenon DEF Listed
<1>2. Listed(begin) /\ Listed(end) /\ Listed(moves)
  BY <1>1, TaskEventsListed
<1>3. events = begin \o moves \o end
  BY DEF DeriveRunEvents
<1>4. current.status \in TerminalRun /\ previous.status # current.status =>
        end # <<>> /\ end[Len(end)] = RunEvent("workflow_completed", current.status)
  BY <1>1
<1>5. ASSUME current = NewWorkflowRun \/ (current = previous /\ current.status \in TerminalRun)
      PROVE  begin = <<>> /\ end = <<>> /\ moves = <<>>
  <2>1. Moved(previous, current) = {}
    <3>1. CASE current = previous
      BY <3>1 DEF Moved
    <3>2. CASE current = NewWorkflowRun
      <4>1. ASSUME NEW t \in Tasks PROVE current.tasks[t].status = "pending"
        BY <3>2 DEF NewWorkflowRun, NewTaskRun
      <4>2. ASSUME NEW from PROVE TaskTransitionEvent(from, "pending") = "none"
        BY DEF TaskTransitionEvent
      <4> QED  BY <4>1, <4>2 DEF Moved
    <3> QED  BY <1>5, <3>1, <3>2
  <2>2. moves = <<>>
    BY <2>1, TaskEventsListed
  <2>3. NewWorkflowRun.status = "pending"
    BY DEF NewWorkflowRun
  <2> QED  BY <1>5, <2>2, <2>3 DEF TerminalRun
<1> HIDE DEF begin, moves, end, events
<1>6. Listed(begin \o moves) /\ Listed(events)
  BY <1>2, <1>3, ListedTogether
<1>7. current.status \in TerminalRun /\ previous.status # current.status =>
        events # <<>> /\ events[Len(events)] = RunEvent("workflow_completed", current.status)
  BY <1>2, <1>3, <1>4, <1>6, ListedTogether
<1>8. ASSUME current = NewWorkflowRun \/ (current = previous /\ current.status \in TerminalRun)
      PROVE  events = <<>>
  BY <1>2, <1>3, <1>5, <1>6, <1>8, ListedTogether
<1> QED  BY <1>6, <1>7, <1>8 DEF events

\* What observe makes of a stream.
LEMMA ObservedStream ==
  ASSUME NEW stream, NEW snapshot \in Run,
         stream # NoStream => stream.latest \in Run /\ Listed(stream.events)
  PROVE  LET after == ObserveIn(stream, snapshot) IN
         /\ after # NoStream /\ after.latest = snapshot /\ Listed(after.events)
         /\ Len(stream.events) \in Nat /\ Len(after.events) \in Nat
         /\ Len(stream.events) <= Len(after.events)
         /\ \A n \in 1..Len(stream.events) : after.events[n] = stream.events[n]
         /\ stream = NoStream \/ snapshot = NewWorkflowRun \/
              (snapshot = stream.latest /\ snapshot.status \in TerminalRun) =>
              after.events = stream.events
         /\ stream # NoStream /\ snapshot.status \in TerminalRun
              /\ stream.latest.status # snapshot.status =>
              /\ after.events # <<>>
              /\ after.events[Len(after.events)] = RunEvent("workflow_completed", snapshot.status)
<1> DEFINE after == ObserveIn(stream, snapshot)
<1>0. Listed(<<>>)
  <2>1. <<>> \in Seq({})
    OBVIOUS
  <2> QED  BY <2>1 DEF Listed
<1>1. after.latest = snapshot /\ after # NoStream
  BY DefinitionAssumption DEF ObserveIn, NoStream
<1>2. CASE stream = NoStream
  <2>1. stream.events = <<>> /\ after.events = <<>>
    BY <1>2 DEF ObserveIn, NoStream
  <2> HIDE DEF after
  <2> QED  BY <1>0, <1>1, <1>2, <2>1 DEF after
<1>3. CASE stream # NoStream
  <2> DEFINE new == DeriveRunEvents(stream.latest, snapshot)
  <2>1. after.events = stream.events \o new
    BY <1>3, Zenon DEF ObserveIn
  <2>2. Listed(stream.events) /\ stream.latest \in Run
    BY <1>3
  <2>3. /\ Listed(new)
        /\ snapshot.status \in TerminalRun /\ stream.latest.status # snapshot.status =>
              new # <<>> /\ new[Len(new)] = RunEvent("workflow_completed", snapshot.status)
        /\ snapshot = NewWorkflowRun \/ (snapshot = stream.latest /\ snapshot.status \in TerminalRun) =>
              new = <<>>
    BY <2>2, DerivedEvents
  <2> HIDE DEF after, new
  <2>4. /\ Listed(after.events) /\ Len(stream.events) \in Nat /\ Len(new) \in Nat
        /\ Len(after.events) = Len(stream.events) + Len(new)
        /\ \A n \in 1..Len(stream.events) : after.events[n] = stream.events[n]
        /\ new = <<>> => after.events = stream.events
        /\ new # <<>> => after.events # <<>> /\ after.events[Len(after.events)] = new[Len(new)]
    BY <2>1, <2>2, <2>3, ListedTogether
  <2> QED  BY <1>1, <1>3, <2>3, <2>4 DEF after
<1> QED  BY <1>2, <1>3
-----------------------------------------------------------------------------
(* The streams and the subscribers.                                          *)

\* A run that has ended is not saved again.
NoNewSave == \A r \in RunIDs : Finished(r) /\ Unseen(r)' => Unseen(r)

\* What is appended to the stream of r leaves what was there.
Appends(r) ==
  LET old == streams[r].events
      new == streams'[r].events
  IN  /\ streams[r] # NoStream => streams'[r] # NoStream
      /\ Len(new) \in Nat /\ Len(old) <= Len(new)
      /\ \A n \in 1..Len(old) : new[n] = old[n]
      /\ streams[r] # NoStream /\ old = <<>> /\ Finished(r) /\ ~Unseen(r) => new = <<>>

\* Calls that save nothing leave nothing new to observe.
LEMMA NoSave ==
  ASSUME \A j \in CallIDs : calls'[j].unseen # NoRun =>
           calls[j].unseen # NoRun /\ calls'[j].run = calls[j].run
  PROVE  NoNewSave
BY DEF NoNewSave, Unseen

\* No step saves a run that has ended.
LEMMA EndIsSavedOnce == Inv /\ [Next]_vars => NoNewSave
<1> SUFFICES ASSUME Inv, [Next]_vars PROVE NoNewSave  OBVIOUS
<1>0. ASSUME UNCHANGED calls PROVE NoNewSave
  BY <1>0, NoSave
<1>1. ASSUME NEW i \in CallIDs, NEW pc, NEW unseen, NEW s, CallShape(i, pc, unseen, s)
      PROVE  NoNewSave
  <2> SUFFICES ASSUME NEW r \in RunIDs, Finished(r), NEW j \in CallIDs,
                      calls'[j].run = r, calls'[j].unseen # NoRun
               PROVE  calls[j].run = r /\ calls[j].unseen # NoRun
    BY DEF NoNewSave, Unseen
  <2>1. CASE j # i
    BY <1>1, <2>1 DEF CallShape
  <2>2. CASE j = i
    BY <1>1, <2>2 DEF CallShape, Finished
  <2> QED  BY <2>1, <2>2
<1>2. ASSUME NEW i \in CallIDs, CallStep(i) \/ GiveUp(i) PROVE NoNewSave
  <2>1. CASE Leave(i)
    <3>1. calls'[i].unseen = NoRun /\ \A j \in CallIDs \ {i} : calls'[j] = calls[j]
      BY <2>1 DEF Leave, NoCall, Inv, TypeInv, Call
    <3> QED  BY <3>1, NoSave
  <2>2. CASE Load(i) \/ Resume(i) \/ CheckContext(i) \/ Work(i) \/ CancelRun(i) \/ GiveUp(i) \/ Observe(i)
    BY <1>1, <2>2, CallStepShape
  <2> QED  BY <1>2, <2>1, <2>2 DEF CallStep
<1>3. ASSUME NEW r \in RunIDs, Start(r) PROVE NoNewSave
  <2>1. CASE UNCHANGED calls
    BY <2>1, <1>0
  <2>2. CASE Launch(r)
    <3> DEFINE new == [NoCall EXCEPT !.run = r, !.pc = "load"]
    <3>1. PICK i \in CallIDs : calls' = [calls EXCEPT ![i] = new]
      BY <2>2, Zenon DEF Launch
    <3>2. new.unseen = NoRun
      BY DEF NoCall
    <3> HIDE DEF new
    <3>3. calls'[i].unseen = NoRun /\ \A j \in CallIDs \ {i} : calls'[j] = calls[j]
      BY <3>1, <3>2 DEF Inv, TypeInv
    <3> QED  BY <3>3, NoSave
  <2> QED  BY <1>3, <2>1, <2>2 DEF Start
<1>4. ASSUME NEW r \in RunIDs, CancelCall(r) PROVE NoNewSave
  <2>1. CASE active[r] = 0
    BY <1>0, <1>4, <2>1 DEF CancelCall
  <2>2. CASE active[r] # 0
    <3>1. active[r] \in CallIDs /\ calls \in [CallIDs -> Call]
      BY <2>2 DEF Inv, TypeInv
    <3>2. calls' = [calls EXCEPT ![active[r]].done = TRUE]
      BY <1>4, <2>2 DEF CancelCall
    <3>3. \A j \in CallIDs : calls'[j].unseen = calls[j].unseen /\ calls'[j].run = calls[j].run
      BY <3>1, <3>2 DEF Call
    <3> QED  BY <3>3, NoSave
  <2> QED  BY <2>1, <2>2
<1>5. ASSUME NEW q \in Requests, RequestStep(q) PROVE NoNewSave
  <2>1. CASE ObserveCreated(q)
    BY <1>0, <2>1 DEF ObserveCreated, manager
  <2>2. CASE request[q].pc \in Handlers /\ (Start(request[q].run) \/ CancelCall(request[q].run))
    BY <1>3, <1>4, <2>2, HandlerRun
  <2> QED  BY <1>5, <2>1, <2>2
           DEF RequestStep, StartCreated, CancelActive, Revive, CancelAgain, At, Handlers
<1>6. CASE Shutdown
  <2>1. ASSUME NEW j \in CallIDs
        PROVE  calls'[j].unseen = calls[j].unseen /\ calls'[j].run = calls[j].run
    <3>1. calls[j] \in Call
      BY DEF Inv, TypeInv
    <3>2. [calls[j] EXCEPT !.done = TRUE].run = calls[j].run
          /\ [calls[j] EXCEPT !.done = TRUE].unseen = calls[j].unseen
      BY <3>1 DEF Call
    <3>3. calls'[j] = [calls[j] EXCEPT !.done = TRUE] \/ calls'[j] = calls[j]
      BY <1>6 DEF Shutdown
    <3> QED  BY <3>2, <3>3, Zenon
  <2> QED  BY <2>1, NoSave
<1>7. CASE Restart
  <2> DEFINE gone == [NoCall EXCEPT !.pc = "off"]
  <2>1. gone.unseen = NoRun
    BY DEF NoCall
  <2>2. \A j \in CallIDs : calls'[j] = gone \/ calls'[j] = calls[j]
    BY <1>7 DEF Restart
  <2> HIDE DEF gone
  <2> QED  BY <2>1, <2>2, NoSave
<1>8. CASE UNCHANGED vars
  BY <1>0, <1>8 DEF vars, manager
<1>9. ASSUME NEW q \in Requests, NEW r \in RunIDs, Create(q, r) \/ RequestCancel(q, r) PROVE NoNewSave
  BY <1>0, <1>9 DEF Create, RequestCancel, manager
<1>10. ASSUME NEW c \in Clients, ClientStep(c) \/ Disconnect(c) PROVE NoNewSave
  BY <1>0, <1>10 DEF ClientStep, Seed, Look, Disconnect, manager
<1>11. ASSUME NEW c \in Clients, NEW r \in RunIDs, NEW resumes \in BOOLEAN, Connect(c, r, resumes)
       PROVE  NoNewSave
  BY <1>0, <1>11 DEF Connect, manager
<1>12. CASE ShutdownEnds
  BY <1>0, <1>12 DEF ShutdownEnds
<1> QED  BY <1>2, <1>5, <1>6, <1>7, <1>8, <1>9, <1>10, <1>11, <1>12 DEF Next, CreateRun, RetryRun

\* The length of what a stream holds.
LEMMA StreamLength ==
  ASSUME NEW r \in RunIDs, TellsEnd(r)
  PROVE  Len(streams[r].events) \in Nat /\ (streams[r] = NoStream => streams[r].events = <<>>)
<1>1. CASE streams[r] = NoStream
  BY <1>1 DEF NoStream
<1>2. CASE streams[r] # NoStream
  BY <1>2, ListedTogether DEF TellsEnd
<1> QED  BY <1>1, <1>2

\* A stream to which nothing is appended goes on telling the end.
LEMMA StreamStays ==
  ASSUME NEW r \in RunIDs, TellsEnd(r), Finality, NoNewSave, streams'[r] = streams[r]
  PROVE  TellsEnd(r)' /\ Appends(r)
<1>1. Appends(r)
  BY StreamLength DEF Appends
<1>2. CASE streams[r] = NoStream
  BY <1>1, <1>2 DEF TellsEnd
<1>3. CASE streams[r] # NoStream /\ streams[r].latest.status \notin TerminalRun
  BY <1>1, <1>3 DEF TellsEnd
<1>4. CASE streams[r] # NoStream /\ streams[r].latest.status \in TerminalRun
  <2>1. stored[r] = streams[r].latest /\ streams[r].latest \in Run
    BY <1>4 DEF TellsEnd
  <2>2. Finished(r)
    BY <1>4, <2>1, DefinitionAssumption DEF Finished
  <2>3. stored'[r] = stored[r] /\ (Unseen(r)' => Unseen(r))
    BY <2>2 DEF Finality, NoNewSave
  <2>4. Outcomes(r)' = Outcomes(r)
    BY <2>3 DEF Outcomes
  <2> QED  BY <1>1, <1>4, <2>3, <2>4 DEF TellsEnd
<1> QED  BY <1>2, <1>3, <1>4

\* A subscriber that does nothing has read what it had read.
LEMMA ReaderStays ==
  ASSUME NEW c \in Clients, client[c] \in Client, Reads(c), Finality, NoNewSave,
         \A r \in RunIDs : TellsEnd(r) /\ Appends(r), client'[c] = client[c]
  PROVE  Reads(c)'
<1>1. Brings(c)'
  <2> SUFFICES ASSUME client[c].pc = "seed"
               PROVE  /\ client[c].snapshot \in Run
                      /\ client[c].snapshot.status \in TerminalRun =>
                           stored'[client[c].run] = client[c].snapshot
    BY Zenon DEF Brings
  <2>1. /\ client[c].snapshot \in Run /\ client[c].run \in RunIDs
        /\ client[c].snapshot.status \in TerminalRun => stored[client[c].run] = client[c].snapshot
    BY Zenon DEF Reads, Brings, ReadTo
  <2>2. client[c].snapshot.status \in TerminalRun => Finished(client[c].run)
    BY <2>1, DefinitionAssumption, Zenon DEF Finished
  <2> QED  BY <2>1, <2>2, Zenon DEF Finality
<1>2. PICK r, n : client[c].run = r /\ client[c].sequence = n /\ n \in Nat
  BY DEF Client
<1>3. CASE r \notin RunIDs
  <2>1. ReadTo(c)' /\ client[c].pc = "out"
    BY <1>2, <1>3, Zenon DEF Reads, ReadTo
  <2> QED  BY <1>1, <2>1, Zenon DEF Reads
<1>4. CASE r \in RunIDs
  <2>1. /\ Len(streams[r].events) \in Nat /\ Len(streams'[r].events) \in Nat
        /\ n <= Len(streams[r].events) /\ Len(streams[r].events) <= Len(streams'[r].events)
    BY <1>2, <1>4, StreamLength, Zenon DEF Reads, ReadTo, Appends
  <2>2. ReadTo(c)'
    <3>1. n <= Len(streams'[r].events)
      BY <1>2, <2>1
    <3> QED  BY <1>2, <1>4, <3>1, Zenon DEF ReadTo
  <2>3. ASSUME client[c].pc = "over" PROVE HeardEnd(r, n)'
    <3>1. HeardEnd(r, n)
      BY <1>2, <2>3, Zenon DEF Reads
    <3>2. Finished(r) /\ stored'[r] = stored[r] /\ (Unseen(r)' => Unseen(r))
      BY <1>4, <3>1, Zenon DEF HeardEnd, Finality, NoNewSave
    <3>3. Finished(r)' /\ Outcomes(r)' = Outcomes(r) /\ streams'[r] # NoStream
      BY <1>4, <3>1, <3>2, Zenon DEF HeardEnd, Finished, Outcomes, Appends
    <3>4. n = 0 => streams'[r].events = <<>> /\ ~Unseen(r)'
      BY <1>4, <3>1, <3>2, Zenon DEF HeardEnd, Appends
    <3>5. ASSUME n # 0 PROVE streams'[r].events[n] = streams[r].events[n]
      <4>1. n \in 1..Len(streams[r].events)
        BY <1>2, <2>1, <3>5
      <4> QED  BY <1>4, <4>1, Zenon DEF Appends
    <3> QED  BY <3>1, <3>3, <3>4, <3>5, Zenon DEF HeardEnd
  <2> QED  BY <1>1, <1>2, <2>2, <2>3, Zenon DEF Reads
<1> QED  BY <1>3, <1>4

\* A snapshot of run r is observed: its last save, or that of its creation.
LEMMA ObservationKeeps ==
  ASSUME Inv, StreamInv, Finality, NoNewSave, NEW r \in RunIDs, NEW snapshot \in Run,
         \/ snapshot = NewWorkflowRun
         \/ snapshot = stored[r] /\ Unseen(r) /\ ~Unseen(r)',
         UNCHANGED <<stored, client>>,
         streams' = [streams EXCEPT ![r] = ObserveIn(@, snapshot)]
  PROVE  StreamInv'
<1> DEFINE old == streams[r]
           new == ObserveIn(old, snapshot)
<1>0. streams = [p \in RunIDs |-> streams[p]] /\ TellsEnd(r)
  BY DEF StreamInv
<1>1. /\ streams' = [p \in RunIDs |-> streams'[p]] /\ streams'[r] = new
      /\ \A p \in RunIDs \ {r} : streams'[p] = streams[p]
  BY <1>0
<1>2. old # NoStream => old.latest \in Run /\ Listed(old.events)
  BY <1>0 DEF TellsEnd
<1>3. /\ new # NoStream /\ new.latest = snapshot /\ Listed(new.events)
      /\ Len(old.events) \in Nat /\ Len(new.events) \in Nat
      /\ Len(old.events) <= Len(new.events)
      /\ \A n \in 1..Len(old.events) : new.events[n] = old.events[n]
      /\ old = NoStream \/ snapshot = NewWorkflowRun \/
           (snapshot = old.latest /\ snapshot.status \in TerminalRun) => new.events = old.events
      /\ old # NoStream /\ snapshot.status \in TerminalRun /\ old.latest.status # snapshot.status =>
           /\ new.events # <<>>
           /\ new.events[Len(new.events)] = RunEvent("workflow_completed", snapshot.status)
  BY <1>2, ObservedStream
<1> HIDE DEF new
<1>4. Appends(r)
  BY <1>1, <1>3 DEF Appends
<1>5. ASSUME snapshot.status \in TerminalRun
      PROVE  /\ stored'[r] = snapshot
             /\ new.events = <<>> => ~Unseen(r)'
             /\ new.events # <<>> => new.events[Len(new.events)] \in Outcomes(r)'
  <2>1. NewWorkflowRun.status \notin TerminalRun
    BY DEF NewWorkflowRun, TerminalRun
  <2>2. snapshot = stored[r] /\ Unseen(r) /\ ~Unseen(r)' /\ stored'[r] = stored[r]
    BY <1>5, <2>1
  <2>3. Outcomes(r)' = Outcomes(r) /\ RunEvent("workflow_completed", snapshot.status) \in Outcomes(r)
    BY <2>2 DEF Outcomes
  <2>4. CASE old = NoStream
    BY <1>3, <2>2, <2>4 DEF NoStream
  <2>5. CASE old # NoStream /\ old.latest.status # snapshot.status
    BY <1>3, <1>5, <2>2, <2>3, <2>5
  <2>6. CASE old # NoStream /\ old.latest.status = snapshot.status
    <3>1. /\ stored[r] = old.latest
          /\ old.events # <<>> /\ old.events[Len(old.events)] \in Outcomes(r)
      BY <1>0, <1>5, <2>2, <2>6 DEF TellsEnd
    <3>2. new.events = old.events
      BY <1>3, <1>5, <2>2, <3>1
    <3> QED  BY <2>2, <2>3, <3>1, <3>2
  <2> QED  BY <2>4, <2>5, <2>6
<1>6. TellsEnd(r)'
  BY <1>1, <1>3, <1>5 DEF TellsEnd
<1>7. \A p \in RunIDs : TellsEnd(p) /\ TellsEnd(p)' /\ Appends(p)
  BY <1>1, <1>4, <1>6, StreamStays DEF StreamInv
<1>8. \A c \in Clients : Reads(c)'
  BY <1>7, ReaderStays DEF StreamInv
<1> QED  BY <1>1, <1>7, <1>8 DEF StreamInv

\* A step that touches neither streams nor subscribers.
LEMMA AsideKeeps ==
  ASSUME StreamInv, Finality, NoNewSave, UNCHANGED <<streams, client>>
  PROVE  StreamInv'
<1>1. \A r \in RunIDs : TellsEnd(r) /\ TellsEnd(r)' /\ Appends(r)
  BY StreamStays DEF StreamInv
<1>2. \A c \in Clients : Reads(c)'
  BY <1>1, ReaderStays DEF StreamInv
<1> QED  BY <1>1, <1>2 DEF StreamInv

\* The observations of the store decorator.
LEMMA ObserveKeeps ==
  ASSUME Inv, StreamInv, Finality, NoNewSave,
         (\E i \in CallIDs : Observe(i)) \/ (\E q \in Requests : ObserveCreated(q))
  PROVE  StreamInv'
<1>1. CASE silent
  BY <1>1, AsideKeeps, Zenon DEF Observe, ObserveCreated
<1>2. ASSUME NEW i \in CallIDs, Observe(i), ~silent PROVE StreamInv'
  <2>1. calls[i].unseen # NoRun
    BY <1>2 DEF Observe
  <2>2. PICK r \in RunIDs : Live(i) /\ calls[i].run = r /\ calls[i].unseen = stored[r]
    BY <2>1, LiveCall DEF Inv, Executing
  <2>3. stored[r] \in Run /\ Unseen(r) /\ calls \in [CallIDs -> Call]
    BY <2>1, <2>2, LiveCall DEF Unseen, Inv, TypeInv
  <2>4. calls'[i].unseen = NoRun /\ \A j \in CallIDs \ {i} : calls'[j] = calls[j]
    BY <1>2, <2>3 DEF Observe, Call
  <2>5. \A j \in CallIDs \ {i} : calls[j].unseen # NoRun => calls[j].run # r
    BY <2>2 DEF Inv, Executing, Held
  <2>6. ~Unseen(r)'
    BY <2>4, <2>5 DEF Unseen
  <2>7. UNCHANGED <<stored, client>> /\ streams' = [streams EXCEPT ![r] = ObserveIn(@, stored[r])]
    BY <1>2, <2>2 DEF Observe
  <2> QED  BY <2>3, <2>6, <2>7, ObservationKeeps, Zenon
<1>3. ASSUME NEW q \in Requests, ObserveCreated(q), ~silent PROVE StreamInv'
  <2>1. request[q].run \in RunIDs
    BY <1>3, HandlerRun DEF ObserveCreated, At, Handlers
  <2>2. /\ UNCHANGED <<stored, client>>
        /\ streams' = [streams EXCEPT ![request[q].run] = ObserveIn(@, NewWorkflowRun)]
    BY <1>3 DEF ObserveCreated
  <2> QED  BY <2>1, <2>2, NewRunType, ObservationKeeps, Zenon
<1> QED  BY <1>1, <1>2, <1>3

\* A subscriber opens the stream of a run this process has not written.
LEMMA SeedKeeps ==
  ASSUME StreamInv, Finality, NoNewSave, NEW c \in Clients, Seed(c)
  PROVE  StreamInv'
<1>0. client[c] \in Client /\ Reads(c) /\ client[c].pc = "seed" /\ UNCHANGED stored
  BY DEF StreamInv, Seed
<1>1. PICK r \in RunIDs : client[c].run = r
  BY <1>0, Zenon DEF Reads, ReadTo
<1> DEFINE old == streams[r]
           snapshot == client[c].snapshot
<1>2. snapshot \in Run /\ (snapshot.status \in TerminalRun => stored[r] = snapshot)
  BY <1>0, <1>1, Zenon DEF Reads, Brings
<1>3. /\ streams' = [p \in RunIDs |-> streams'[p]]
      /\ streams'[r] \in {old, SeedIn(old, snapshot)}
      /\ \A p \in RunIDs \ {r} : streams'[p] = streams[p]
  BY <1>1 DEF Seed, StreamInv
<1>4. TellsEnd(r)' /\ Appends(r)
  <2>1. CASE streams'[r] = old
    BY <2>1, StreamStays DEF StreamInv
  <2>2. CASE streams'[r] # old
    <3> DEFINE event == RunEvent("run_snapshot", snapshot.status)
    <3>1. old = NoStream /\ streams'[r] = [latest |-> snapshot, events |-> <<event>>]
      BY <1>3, <2>2 DEF SeedIn
    <3>2. old.events = <<>>
      BY <3>1 DEF NoStream
    <3>3. /\ streams'[r].latest = snapshot /\ streams'[r].events = <<event>>
          /\ <<event>> # <<>> /\ <<event>>[Len(<<event>>)] = event /\ Len(<<event>>) = 1
      BY <3>1
    <3>4. Listed(<<event>>)
      <4>1. <<event>> \in Seq({event})
        OBVIOUS
      <4> QED  BY <4>1, Zenon DEF Listed
    <3>5. snapshot.status \in TerminalRun => stored'[r] = snapshot /\ event \in Outcomes(r)'
      BY <1>0, <1>2 DEF Outcomes
    <3> HIDE DEF event
    <3>6. TellsEnd(r)'
      BY <1>2, <3>3, <3>4, <3>5 DEF TellsEnd
    <3>7. Appends(r)
      BY <3>1, <3>2, <3>3 DEF Appends
    <3> QED  BY <3>6, <3>7
  <2> QED  BY <2>1, <2>2
<1>5. \A p \in RunIDs : TellsEnd(p) /\ TellsEnd(p)' /\ Appends(p)
  BY <1>3, <1>4, StreamStays DEF StreamInv
<1>6. /\ client' \in [Clients -> Client] /\ \A d \in Clients \ {c} : client'[d] = client[d]
      /\ client'[c].pc = "look" /\ client'[c].run = r /\ client'[c].sequence = client[c].sequence
  BY <1>1, Zenon DEF Seed, StreamInv, Client
<1>7. Reads(c)'
  <2>1. client[c].sequence \in Nat
    BY <1>0 DEF Client
  <2>2. /\ Len(old.events) \in Nat /\ Len(streams'[r].events) \in Nat
        /\ client[c].sequence <= Len(old.events) /\ Len(old.events) <= Len(streams'[r].events)
    BY <1>0, <1>1, <1>5, StreamLength, Zenon DEF Reads, ReadTo, Appends
  <2>3. client[c].sequence <= Len(streams'[r].events)
    BY <2>1, <2>2
  <2> QED  BY <1>6, <2>3, Zenon DEF Reads, ReadTo, Brings
<1>8. \A d \in Clients : Reads(d)'
  BY <1>5, <1>6, <1>7, ReaderStays DEF StreamInv
<1> QED  BY <1>3, <1>5, <1>6, <1>8 DEF StreamInv

\* A subscriber alone goes on.
LEMMA ReaderKeeps ==
  ASSUME StreamInv, UNCHANGED <<stored, calls, streams>>, NEW c \in Clients, NEW value \in Client,
         client' = [client EXCEPT ![c] = value], Reads(c)'
  PROVE  StreamInv'
<1>1. \A r \in RunIDs : TellsEnd(r)'
  BY DEF StreamInv, TellsEnd, Unseen, Outcomes
<1>2. client' \in [Clients -> Client] /\ \A d \in Clients \ {c} : client'[d] = client[d]
  BY DEF StreamInv
<1>3. ASSUME NEW d \in Clients \ {c} PROVE Reads(d)'
  BY <1>2, Zenon DEF StreamInv, Reads, ReadTo, Brings, HeardEnd, Finished, Unseen, Outcomes
<1> QED  BY <1>1, <1>2, <1>3 DEF StreamInv

\* A turn of the subscriber's loop leaves it at the end of what there is.
LEMMA LookKeeps ==
  ASSUME StreamInv, NEW c \in Clients, Look(c)
  PROVE  StreamInv'
<1>0. client[c] \in Client /\ Reads(c) /\ client[c].pc \in {"look", "wait"}
      /\ UNCHANGED <<stored, calls, streams>>
  BY DEF StreamInv, Look, Notified, manager, broker
<1>1. PICK r \in RunIDs : client[c].run = r
  BY <1>0, Zenon DEF Reads, ReadTo
<1> DEFINE stream == streams[r]
           n == client[c].sequence
           terminal == stream # NoStream /\ stream.latest.status \in TerminalRun
           pc == IF terminal THEN "over" ELSE IF silent THEN "out" ELSE "wait"
           new == IF stream = NoStream THEN <<>> ELSE EventsAfter(stream, n)
           read == IF new = <<>> THEN n ELSE Len(stream.events)
           value == [client[c] EXCEPT !.pc = pc, !.sequence = read]
<1>2. client' = [client EXCEPT ![c] = value]
  BY <1>1, Zenon DEF Look, StreamInv
<1>3. TellsEnd(r) /\ n \in Nat /\ Len(stream.events) \in Nat /\ n <= Len(stream.events)
      /\ (stream = NoStream => stream.events = <<>>)
  <2>1. n \in Nat
    BY <1>0 DEF Client
  <2> QED  BY <1>0, <1>1, <2>1, StreamLength, Zenon DEF StreamInv, Reads, ReadTo
<1>4. read = Len(stream.events)
  <2>1. CASE stream = NoStream
    BY <1>3, <2>1
  <2>2. CASE stream # NoStream /\ n < Len(stream.events)
    <3>1. PICK S : stream.events \in Seq(S)
      BY <1>3, <2>2 DEF TellsEnd, Listed
    <3>2. ASSUME NEW s \in Seq(S), NEW m \in Nat, m < Len(s)
          PROVE  SubSeq(s, m + 1, Len(s)) # <<>>
      <4>1. SubSeq(s, m + 1, Len(s)) = [i \in 1..(Len(s) - m) |-> s[i + m]]
        BY <3>2
      <4> QED  BY <3>2, <4>1
    <3>3. SubSeq(stream.events, n + 1, Len(stream.events)) # <<>>
      BY <1>3, <2>2, <3>1, <3>2
    <3> QED  BY <2>2, <3>3 DEF EventsAfter
  <2>3. CASE stream # NoStream /\ ~(n < Len(stream.events))
    BY <1>3, <2>3 DEF EventsAfter
  <2> QED  BY <2>1, <2>2, <2>3
<1> HIDE DEF new, read
<1>5. /\ value \in Client /\ value.pc = pc /\ value.run = r /\ value.sequence = Len(stream.events)
      /\ client'[c] = value /\ pc # "seed"
  BY <1>0, <1>1, <1>2, <1>3, <1>4, Zenon DEF Client, StreamInv
<1> HIDE DEF value
<1>6. ASSUME pc = "over" PROVE HeardEnd(r, Len(stream.events))
  <2>1. terminal
    BY <1>6
  <2>2. /\ stored[r] = stream.latest /\ stream.latest \in Run
        /\ stream.events = <<>> => ~Unseen(r)
        /\ stream.events # <<>> => stream.events[Len(stream.events)] \in Outcomes(r)
    BY <1>3, <2>1 DEF TellsEnd
  <2>3. Finished(r)
    BY <2>1, <2>2, DefinitionAssumption DEF Finished
  <2>4. Len(stream.events) = 0 <=> stream.events = <<>>
    <3>1. PICK S : stream.events \in Seq(S)
      BY <1>3, <2>1 DEF TellsEnd, Listed
    <3> QED  BY <3>1
  <2> QED  BY <2>1, <2>2, <2>3, <2>4, Zenon DEF HeardEnd
<1>7. Reads(c)'
  <2>1. PICK n1 : n1 = Len(stream.events) /\ n1 <= n1
    BY <1>3
  <2>2. client'[c].run = r /\ client'[c].sequence = n1 /\ client'[c].pc = pc
        /\ Len(streams'[r].events) = n1
    BY <1>0, <1>5, <2>1, Zenon
  <2>3. HeardEnd(r, n1) => HeardEnd(r, n1)'
    BY <1>0, Zenon DEF HeardEnd, Finished, Unseen, Outcomes
  <2> HIDE DEF pc
  <2>4. ReadTo(c)' /\ Brings(c)'
    BY <1>5, <2>1, <2>2, Zenon DEF ReadTo, Brings
  <2> QED  BY <1>6, <2>1, <2>2, <2>3, <2>4, Zenon DEF Reads
<1> QED  BY <1>0, <1>2, <1>5, <1>7, ReaderKeeps, Zenon

\* A subscriber comes, with what it has read or from the start, or goes.
LEMMA ConnectKeeps ==
  ASSUME Inv, StreamInv, NEW c \in Clients,
         Disconnect(c) \/ \E r \in RunIDs, resumes \in BOOLEAN : Connect(c, r, resumes)
  PROVE  StreamInv'
<1>0. client[c] \in Client /\ Reads(c) /\ client \in [Clients -> Client]
  BY DEF StreamInv
<1>1. CASE Disconnect(c)
  <2> DEFINE value == [client[c] EXCEPT !.pc = "out"]
  <2>1. /\ value \in Client /\ value.pc = "out" /\ value.run = client[c].run
        /\ value.sequence = client[c].sequence
    BY <1>0 DEF Client
  <2>2. client' = [client EXCEPT ![c] = value] /\ UNCHANGED <<stored, calls, streams>>
    BY <1>0, <1>1 DEF Disconnect, manager, broker
  <2> HIDE DEF value
  <2>3. client'[c] = value
    BY <1>0, <2>2
  <2>4. Reads(c)'
    BY <1>0, <2>1, <2>2, <2>3, Zenon DEF Reads, ReadTo, Brings
  <2> QED  BY <2>1, <2>2, <2>4, ReaderKeeps, Zenon
<1>2. ASSUME NEW r \in RunIDs, NEW resumes \in BOOLEAN, Connect(c, r, resumes) PROVE StreamInv'
  <2> DEFINE back == [client[c] EXCEPT !.pc = "seed", !.snapshot = stored[r]]
             fresh == [NoClient EXCEPT !.pc = "seed", !.run = r, !.snapshot = stored[r], !.whole = TRUE]
             value == IF resumes THEN back ELSE fresh
  <2>1. /\ stored[r] # NoRun /\ (resumes => client[c].run = r)
        /\ client' = [client EXCEPT ![c] = value] /\ UNCHANGED <<stored, calls, streams>>
    BY <1>0, <1>2, Zenon DEF Connect, manager, broker
  <2>2. stored[r] \in Run
    BY <2>1 DEF Inv, TypeInv
  <2>3. TellsEnd(r) /\ Len(streams[r].events) \in Nat
    BY StreamLength DEF StreamInv
  <2>4. /\ resumes => value \in Client /\ value.pc = "seed" /\ value.snapshot = stored[r]
        /\ resumes => value.run = r /\ value.sequence = client[c].sequence
    BY <1>0, <2>1, <2>2, Zenon DEF Client
  <2>5. NoClient \in Client /\ NoClient.sequence = 0
    BY DEF NoClient, Client
  <2>6. /\ ~resumes => value \in Client /\ value.pc = "seed" /\ value.snapshot = stored[r]
        /\ ~resumes => value.run = r /\ value.sequence = 0
    <3>1. ASSUME NEW d \in Client
          PROVE  LET new == [d EXCEPT !.pc = "seed", !.run = r, !.snapshot = stored[r], !.whole = TRUE] IN
                 /\ new \in Client /\ new.pc = "seed" /\ new.snapshot = stored[r]
                 /\ new.run = r /\ new.sequence = d.sequence
      BY <2>2, Zenon DEF Client
    <3> QED  BY <2>5, <3>1, Zenon
  <2>7. value.sequence <= Len(streams[r].events)
    <3>1. resumes => client[c].sequence <= Len(streams[r].events)
      BY <1>0, <2>1, Zenon DEF Reads, ReadTo
    <3> HIDE DEF value
    <3> QED  BY <2>3, <2>4, <2>6, <3>1
  <2> HIDE DEF value
  <2>8. client'[c] = value
    BY <1>0, <2>1
  <2>9. Reads(c)'
    BY <2>1, <2>2, <2>4, <2>6, <2>7, <2>8, Zenon DEF Reads, ReadTo, Brings
  <2> QED  BY <2>1, <2>4, <2>6, <2>9, ReaderKeeps, Zenon
<1> QED  BY <1>1, <1>2

\* So it is before the first request and after a restart.
NoStreams == streams = [r \in RunIDs |-> NoStream] /\ client = [c \in Clients |-> NoClient]

\* Where there are no streams nothing has to be told.
LEMMA NothingIsTold == NoStreams => StreamInv
<1> SUFFICES ASSUME NoStreams PROVE StreamInv  OBVIOUS
<1> USE DEF NoStreams
<1>1. \A r \in RunIDs : TellsEnd(r)
  BY DEF TellsEnd
<1>2. NoClient \in Client /\ NoClient.pc = "out" /\ NoClient.sequence = 0
  BY DEF NoClient, Client
<1>3. \A r \in RunIDs : Len(streams[r].events) = 0
  BY DEF NoStream
<1>4. ASSUME NEW c \in Clients PROVE Reads(c)
  <2>1. client[c].pc = "out" /\ client[c].sequence = 0
    BY <1>2
  <2>2. \A r \in RunIDs : client[c].sequence <= Len(streams[r].events)
    BY <1>3, <2>1
  <2> QED  BY <2>1, <2>2, Zenon DEF Reads, ReadTo, Brings
<1> QED  BY <1>1, <1>2, <1>4 DEF StreamInv

\* Every step keeps what the streams tell and what the subscribers have read.
LEMMA NextTells == Inv /\ StreamInv /\ [Next]_vars => StreamInv'
<1> SUFFICES ASSUME Inv, StreamInv, [Next]_vars PROVE StreamInv'  OBVIOUS
<1>1. Finality /\ NoNewSave
  BY NextKeeps, EndIsSavedOnce
<1>2. ASSUME UNCHANGED <<streams, client>> PROVE StreamInv'
  BY <1>1, <1>2, AsideKeeps
<1>3. ASSUME NEW i \in CallIDs, CallStep(i) \/ GiveUp(i) PROVE StreamInv'
  <2>1. CASE Observe(i)
    BY <1>1, <2>1, ObserveKeeps
  <2>2. CASE ~Observe(i)
    BY <1>2, <1>3, <2>2
       DEF CallStep, Load, Resume, CheckContext, Work, CancelRun, GiveUp, Leave, aside, broker
  <2> QED  BY <2>1, <2>2
<1>4. ASSUME NEW q \in Requests, RequestStep(q) PROVE StreamInv'
  <2>1. CASE ObserveCreated(q)
    BY <1>1, <2>1, ObserveKeeps
  <2>2. CASE ~ObserveCreated(q)
    BY <1>2, <1>4, <2>2
       DEF RequestStep, StartCreated, CancelActive, Revive, CancelAgain, broker
  <2> QED  BY <2>1, <2>2
<1>5. ASSUME NEW q \in Requests, NEW r \in RunIDs, Create(q, r) \/ RequestCancel(q, r)
      PROVE  StreamInv'
  BY <1>2, <1>5 DEF Create, RequestCancel, broker
<1>6. ASSUME NEW c \in Clients, ClientStep(c) \/ Disconnect(c) PROVE StreamInv'
  BY <1>1, <1>6, SeedKeeps, LookKeeps, ConnectKeeps DEF ClientStep
<1>7. ASSUME NEW c \in Clients, NEW r \in RunIDs, NEW resumes \in BOOLEAN, Connect(c, r, resumes)
      PROVE  StreamInv'
  BY <1>7, ConnectKeeps
<1>8. CASE Shutdown \/ ShutdownEnds \/ UNCHANGED vars
  BY <1>2, <1>8 DEF Shutdown, ShutdownEnds, vars, broker
<1>9. CASE Restart
  <2>1. NoStreams'
    BY <1>9 DEF Restart, NoStreams
  <2> QED  BY <2>1, NothingIsTold, PTL
<1> QED  BY <1>3, <1>4, <1>5, <1>6, <1>7, <1>8, <1>9, Zenon DEF Next, CreateRun, RetryRun

\* A subscriber that asked for all events and whose stream has come to its end was
\* told the outcome that is stored, and told it last.
THEOREM OutcomesAreTold == Spec => []OutcomeIsTold
<1>1. Init => StreamInv
  BY NothingIsTold DEF Init, NoStreams
<1>2. StreamInv => OutcomeIsTold
  <2> SUFFICES ASSUME StreamInv, NEW c \in Clients, client[c].pc = "over",
                      streams[client[c].run].events # <<>>
               PROVE  /\ client[c].sequence > 0
                      /\ streams[client[c].run].events[client[c].sequence] \in Outcomes(client[c].run)
    BY Zenon DEF OutcomeIsTold, Outcomes
  <2>1. client[c].sequence \in Nat
    BY DEF StreamInv, Client
  <2>2. HeardEnd(client[c].run, client[c].sequence)
    BY Zenon DEF StreamInv, Reads
  <2>3. client[c].sequence # 0
    BY <2>2, Zenon DEF HeardEnd
  <2>4. streams[client[c].run].events[client[c].sequence] \in Outcomes(client[c].run)
    BY <2>2, <2>3, Zenon DEF HeardEnd
  <2> QED  BY <2>1, <2>3, <2>4
<1> QED  BY <1>1, <1>2, NextTells, ManagerCorrect, PTL DEF Spec
=============================================================================
