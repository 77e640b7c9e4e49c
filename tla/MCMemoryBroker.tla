--------------------------- MODULE MCMemoryBroker ---------------------------
(***************************************************************************)
(* The subscription of one workflow run: two workers compete for three      *)
(* attempts.                                                                *)
(***************************************************************************)
EXTENDS MemoryBroker, TLC

CONSTANTS run, r1, r2

MCSubOf == (r1 :> run) @@ (r2 :> run)
=============================================================================
