----------------------------- MODULE PostgresTx -----------------------------
(***************************************************************************)
(* PostgreSQL as the store of internal/persistence uses it: rows under      *)
(* keys, and transactions at the default isolation level, READ COMMITTED.   *)
(* A statement sees the rows committed when it runs and the rows of its own *)
(* transaction; a row that a transaction wrote or selected FOR UPDATE is    *)
(* its own until it ends, and whoever else wants to write the row waits and *)
(* then sees what is left.  A foreign key holds the row it refers to        *)
(* against FOR UPDATE.  The database is not code of the repository: this is *)
(* what its documentation promises.                                         *)
(***************************************************************************)
EXTENDS TLC

CONSTANTS Clients,   \* whoever has a connection: requests, engines, startups
          Absent     \* no row under a key

VARIABLES db,   \* db[key]: the committed row
          tx    \* tx[c]: the open transaction of c

NoTx == [writes |-> <<>>, shares |-> {}]

\* The row as a statement of c sees it.
Row(c, key) == IF key \in DOMAIN tx[c].writes THEN tx[c].writes[key] ELSE db[key]

\* c need not wait to write the row, or to select it FOR UPDATE.
Free(c, key) ==
  \A d \in Clients \ {c} : key \notin DOMAIN tx[d].writes /\ key \notin tx[d].shares

\* A row under a foreign key is there, and c holds it from now on.
Refers(c, key) ==
  /\ \A d \in Clients \ {c} : key \notin DOMAIN tx[d].writes
  /\ Row(c, key) # Absent

\* c has the rows of this function in its transaction.
Write(c, rows) == tx' = [tx EXCEPT ![c].writes = rows @@ @]

WriteReferring(c, rows, key) ==
  tx' = [tx EXCEPT ![c] = [writes |-> rows @@ @.writes, shares |-> @.shares \cup {key}]]

\* SELECT ... FOR UPDATE, and pg_advisory_xact_lock.
Lock(c, key) == Write(c, key :> Row(c, key))

CommitRows(c) ==
  /\ db' = tx[c].writes @@ db
  /\ tx' = [tx EXCEPT ![c] = NoTx]

Rollback(c) == tx' = [tx EXCEPT ![c] = NoTx] /\ UNCHANGED db
=============================================================================
