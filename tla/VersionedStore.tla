--------------------------- MODULE VersionedStore ---------------------------
(***************************************************************************)
(* What execution.Store promises of one workflow run: CreateRun makes       *)
(* version one, and SaveRun replaces the run as a whole when the caller has *)
(* the version that is stored, in one step.                                 *)
(***************************************************************************)
EXTENDS Integers

CONSTANTS Callers, Parts

VARIABLES version,   \* 0: there is no run
          part,      \* part[p]: whose write this part of the run is
          base       \* base[c]: the version that caller c has, or 0

Init ==
  /\ version \in Nat /\ part \in [Parts -> Callers \cup {"nobody", "earlier"}]
  /\ base = [c \in Callers |-> 0]

Take(c) ==
  /\ base[c] = 0
  /\ \E v \in 1..version : base' = [base EXCEPT ![c] = v]
  /\ UNCHANGED <<version, part>>

CreateRun(c) ==
  /\ version = 0 /\ base[c] = 0
  /\ version' = 1 /\ part' = [p \in Parts |-> c]
  /\ UNCHANGED base

SaveRun(c) ==
  /\ version > 0 /\ base[c] = version
  /\ version' = version + 1 /\ part' = [p \in Parts |-> c]
  /\ UNCHANGED base

Next == \E c \in Callers : Take(c) \/ CreateRun(c) \/ SaveRun(c)

Spec == Init /\ [][Next]_<<version, part, base>>
=============================================================================
