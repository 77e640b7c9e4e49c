------------------------------ MODULE MCEngine ------------------------------
(***************************************************************************)
(* A chain: task 2 after task 1, which may be tried twice, with a backoff.  *)
(***************************************************************************)
EXTENDS EngineLifecycle

MCTasks == {1, 2}
MCDeps == [t \in MCTasks |-> IF t = 2 THEN {1} ELSE {}]
MCMaxAttempts == [t \in MCTasks |-> IF t = 1 THEN 2 ELSE 1]
MCBackoff == {1}
=============================================================================
