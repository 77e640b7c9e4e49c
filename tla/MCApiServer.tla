---------------------------- MODULE MCApiServer ----------------------------
(***************************************************************************)
(* Runs of two tasks, 2 after 1, so that the failure of one task ends the   *)
(* other, with one worker and one subscriber.                               *)
(***************************************************************************)
EXTENDS ApiServer

MCTasks == {1, 2}
MCDeps == [t \in MCTasks |-> IF t = 2 THEN {1} ELSE {}]
MCMaxAttempts == [t \in MCTasks |-> 1]
MCMaxAttemptsRetry == [t \in MCTasks |-> 3 - t]
=============================================================================
