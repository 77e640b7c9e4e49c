---------------------------- MODULE MCDurableRun ----------------------------
(***************************************************************************)
(* Two engines, with one worker each, compete for one run of three tasks:   *)
(* t3 needs t1.  t1 may be tried twice, with a backoff; t2 and t3 have the  *)
(* default single attempt.  A worker can claim two tasks.                   *)
(***************************************************************************)
EXTENDS DurableRun, TLC

CONSTANTS t1, t2, t3, wa, wb, sa, sb

MCTasks == {t1, t2, t3}
MCDeps == (t1 :> {}) @@ (t2 :> {}) @@ (t3 :> {t1})
MCMaxAttempts == (t1 :> 2) @@ (t2 :> 1) @@ (t3 :> 1)
MCBackoff == {t1}
MCWorkers == {wa, wb}
MCSchedulers == {sa, sb}
MCWorkersOf == (sa :> {wa}) @@ (sb :> {wb})
=============================================================================
