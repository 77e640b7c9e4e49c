-------------------------- MODULE EngineLifecycle --------------------------
(***************************************************************************)
(* The engine's durable aggregate as a TaskLifecycle.                       *)
(***************************************************************************)
EXTENDS Engine

DurableStatus == IF stored = NoRun THEN NoRun ELSE stored.status

DurableTask ==
  [t \in Tasks |->
     IF stored = NoRun
     THEN [status |-> "pending", attempts |-> 0, owner |-> NoWorker]
     ELSE [status |-> stored.tasks[t].status, attempts |-> stored.tasks[t].attempts,
           owner |-> stored.tasks[t].lease]]

Lifecycle == INSTANCE TaskLifecycle WITH status <- DurableStatus, task <- DurableTask

\* Everything the engine writes, through crashes and repeated recoveries, is a
\* history the lifecycle allows.
ImplementsLifecycle == Lifecycle!Spec
=============================================================================
