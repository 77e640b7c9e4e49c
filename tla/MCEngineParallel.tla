-------------------------- MODULE MCEngineParallel --------------------------
(***************************************************************************)
(* Tasks 1 and 2 can run at the same time.  Task 1 may be tried twice,      *)
(* without a backoff.  The slots are interchangeable.                       *)
(***************************************************************************)
EXTENDS EngineLifecycle, TLC

MCTasks == {1, 2}
MCDeps == [t \in MCTasks |-> {}]
MCMaxAttempts == [t \in MCTasks |-> IF t = 1 THEN 2 ELSE 1]
MCBackoff == {}
MCSlotSymmetry == Permutations(Slots)
=============================================================================
