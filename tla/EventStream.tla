---------------------------- MODULE EventStream ----------------------------
(***************************************************************************)
(* The events of one workflow run as eventBroker of internal/api derives    *)
(* them from successive snapshots.  A stream is [latest, events]; the       *)
(* Sequence of an event is its place in events.  Run IDs, times and attempt *)
(* IDs are left out of an event.                                            *)
(***************************************************************************)
EXTENDS WorkflowRun, Sequences

CONSTANT NoTask   \* the task of an event about the whole run

\* The broker has no stream of the run.
NoStream == [latest |-> NoRun, events |-> <<>>]

RunEvent(type, status) == [type |-> type, task |-> NoTask, status |-> status]

\* Mutant: a running task that is given back is not reported.
TransitionWithoutRetry(from, to) ==
  CASE to = "succeeded"                    -> "task_succeeded"
    [] to = "failed"                       -> "task_failed"
    [] to = "canceled"                     -> "task_canceled"
    [] to = "ready" /\ from # "running"    -> "task_ready"
    [] to = "running"                      -> "task_started"
    [] OTHER                               -> "none"

\* taskTransitionEvent; "none" where the code returns the empty type.
TaskTransitionEvent(from, to) ==
  CASE to = "succeeded"                    -> "task_succeeded"
    [] to = "failed"                       -> "task_failed"
    [] to = "canceled"                     -> "task_canceled"
    [] to = "retry_wait"                   -> "retry_scheduled"
    [] to = "ready" /\ from = "running"    -> "retry_scheduled"
    [] to = "ready" /\ from # "running"    -> "task_ready"
    [] to = "running"                      -> "task_started"
    [] OTHER                               -> "none"

Priority(type) ==
  CASE type = "task_ready" -> 2 [] type = "task_started" -> 3 [] OTHER -> 1

Sooner(e, f) ==
  \/ Priority(e.type) < Priority(f.type)
  \/ Priority(e.type) = Priority(f.type) /\ e.task < f.task

Moved(previous, current) ==
  {t \in Tasks :
     /\ previous.tasks[t].status # current.tasks[t].status
     /\ TaskTransitionEvent(previous.tasks[t].status, current.tasks[t].status) # "none"}

TaskEvent(previous, current, t) ==
  [type   |-> TaskTransitionEvent(previous.tasks[t].status, current.tasks[t].status),
   task   |-> t,
   status |-> current.tasks[t].status]

\* The events of the tasks in order: before the n-th there are n - 1.
TaskEvents(previous, current) ==
  LET events == {TaskEvent(previous, current, t) : t \in Moved(previous, current)}
  IN  [n \in 1..Cardinality(events) |->
         CHOOSE e \in events : Cardinality({f \in events : Sooner(f, e)}) = n - 1]

\* Mutant: the end of the run comes before the ends of its tasks.
DeriveOutcomeFirst(previous, current) ==
  (IF previous.status # current.status
   THEN <<RunEvent("workflow_completed", current.status)>> ELSE <<>>)
    \o TaskEvents(previous, current)

DeriveRunEvents(previous, current) ==
  (IF previous.status # "running" /\ current.status = "running"
   THEN <<RunEvent("workflow_started", "running")>> ELSE <<>>)
    \o TaskEvents(previous, current)
    \o (IF previous.status # current.status /\ current.status \in TerminalRun
        THEN <<RunEvent("workflow_completed", current.status)>> ELSE <<>>)

\* Mutant: the snapshot to compare with is not replaced.
ObserveKeepsLatest(stream, snapshot) ==
  IF stream = NoStream
  THEN [latest |-> snapshot, events |-> <<>>]
  ELSE [stream EXCEPT !.events = @ \o DeriveRunEvents(stream.latest, snapshot)]

\* observe: the first snapshot of a run only opens its stream.
ObserveIn(stream, snapshot) ==
  IF stream = NoStream
  THEN [latest |-> snapshot, events |-> <<>>]
  ELSE [latest |-> snapshot,
        events |-> stream.events \o DeriveRunEvents(stream.latest, snapshot)]

\* seed: a subscriber opens the stream of a run this process has not written.
SeedIn(stream, snapshot) ==
  IF stream = NoStream
  THEN [latest |-> snapshot, events |-> <<RunEvent("run_snapshot", snapshot.status)>>]
  ELSE stream

\* eventsAfter.
EventsAfter(stream, sequence) ==
  IF sequence < Len(stream.events)
  THEN SubSeq(stream.events, sequence + 1, Len(stream.events))
  ELSE <<>>
=============================================================================
