--------------------------- MODULE PostgresStore ---------------------------
(***************************************************************************)
(* persistence.PostgresStore, statement by statement: the migrations of a   *)
(* startup, workflow definitions, and the aggregate of one workflow run     *)
(* (its parent row, its task rows, its workers and its leases).  Every      *)
(* client performs one operation; op[c] holds its arguments and local       *)
(* variables, and at which statement it is.  A row of the aggregate is      *)
(* known by the client that wrote it.  Statements that only write rows no   *)
(* other client can see or wait for are one step.                           *)
(***************************************************************************)
EXTENDS PostgresTx, Integers, Sequences

CONSTANTS Tasks,       \* task IDs of the workflow
          Contents,    \* definitions that callers submit under one workflow ID
          Releases,    \* checksums of the migrations of each release, in order
          Scenarios,   \* bound: databases the clients may find, and what they do together
          MaxFaults    \* bound: lost connections and canceled contexts

VARIABLES op,       \* op[c]: what client c is doing
          kinds,    \* the operations of this scenario
          faults

storeVars == <<db, tx, op, kinds, faults>>

Idle == [kind |-> "none", at |-> "idle"]
Ended == {"done", "refused", "collided", "failed"}

\* c begins an operation, goes on to its next statement, or returns an error
\* and the deferred rollback ends its transaction.
Begin(c, o) ==
  /\ op[c] = Idle /\ o.kind \in kinds
  /\ op' = [op EXCEPT ![c] = o]
  /\ UNCHANGED <<db, tx, kinds, faults>>
Goto(c, at) == op' = [op EXCEPT ![c].at = at] /\ UNCHANGED <<db, kinds, faults>>
Refuse(c)   == op' = [op EXCEPT ![c].at = "refused"] /\ Rollback(c) /\ UNCHANGED <<kinds, faults>>
At(c, at)   == op[c].at = at

\* The last statement of an operation.
Commit(c) ==
  /\ At(c, "commit")
  /\ CommitRows(c)
  /\ op' = [op EXCEPT ![c].at = "done"]
  /\ UNCHANGED <<kinds, faults>>

\* A connection is lost or a context is canceled: the operation fails and
\* nothing of its transaction stays.  Only the commit may have been carried out
\* before the caller hears of the failure.
Fail(c) ==
  /\ faults < MaxFaults /\ faults' = faults + 1
  /\ op[c] # Idle /\ op[c].at \notin Ended
  /\ op' = [op EXCEPT ![c].at = "failed"]
  /\ \/ Rollback(c)
     \/ At(c, "commit") /\ CommitRows(c)
  /\ UNCHANGED kinds

-----------------------------------------------------------------------------
(* Migrate.                                                                 *)

Versions == UNION {DOMAIN r : r \in Releases}
Migrated == \A v \in Versions : db[<<"schema", v>>] # Absent

StartMigrate(c) ==
  \E r \in Releases : Begin(c, [kind |-> "migrate", at |-> "ledger", release |-> r, next |-> 1])

\* CREATE TABLE IF NOT EXISTS looks for the table first; two that both miss it
\* collide in the catalog and the later one fails.
FindLedger(c) ==
  /\ At(c, "ledger")
  /\ IF db[<<"ledger">>] = Absent THEN Goto(c, "create") ELSE Goto(c, "migration")
  /\ UNCHANGED tx

CreateLedger(c) ==
  /\ At(c, "create")
  /\ IF db[<<"ledger">>] = Absent
     THEN /\ db' = [db EXCEPT ![<<"ledger">>] = "table"]
          /\ op' = [op EXCEPT ![c].at = "migration"]
          /\ UNCHANGED <<tx, kinds, faults>>
     ELSE Goto(c, "collided") /\ UNCHANGED tx

\* Mutant: the advisory lock is not taken.
ReadLedgerUnlocked(c) ==
  /\ At(c, "migration")
  /\ LET applied == db[<<"applied", op[c].next>>] IN
     IF applied = Absent THEN Goto(c, "apply") /\ UNCHANGED tx
     ELSE IF applied = op[c].release[op[c].next] THEN Goto(c, "verified") /\ UNCHANGED tx
     ELSE Refuse(c)

\* applyMigration takes the advisory lock and reads the ledger.
ReadLedger(c) ==
  /\ At(c, "migration")
  /\ Free(c, <<"advisory">>)
  /\ LET applied == db[<<"applied", op[c].next>>] IN
     IF applied = Absent THEN Lock(c, <<"advisory">>) /\ Goto(c, "apply")
     ELSE IF applied = op[c].release[op[c].next] THEN Lock(c, <<"advisory">>) /\ Goto(c, "verified")
     ELSE Refuse(c)

\* The SQL of a migration creates tables that must not be there yet and refers
\* to those of the one before.
ApplyMigration(c) ==
  LET v == op[c].next IN
  /\ At(c, "apply")
  /\ Free(c, <<"schema", v>>)
  /\ IF Row(c, <<"schema", v>>) # Absent \/ (v > 1 /\ Row(c, <<"schema", v - 1>>) = Absent)
     THEN Refuse(c)
     ELSE /\ Write(c, (<<"schema", v>> :> "tables") @@ (<<"applied", v>> :> op[c].release[v]))
          /\ Goto(c, "verified")

CommitMigration(c) ==
  /\ At(c, "verified")
  /\ CommitRows(c)
  /\ op' = [op EXCEPT ![c].next = @ + 1,
                      ![c].at = IF op[c].next = Len(op[c].release) THEN "done" ELSE "migration"]
  /\ UNCHANGED <<kinds, faults>>

-----------------------------------------------------------------------------
(* Workflow definitions.                                                    *)

\* SaveWorkflow, as an engine calls it.
StartSaveWorkflow(c) ==
  /\ Migrated
  /\ \E d \in Contents : Begin(c, [kind |-> "save_workflow", at |-> "definition", content |-> d])

\* Mutant: the definition under the ID is taken for the one submitted.
InsertDefinitionUnchecked(c) ==
  /\ At(c, "definition")
  /\ Free(c, <<"definition">>)
  /\ IF Row(c, <<"definition">>) = Absent
     THEN Write(c, <<"definition">> :> op[c].content)
     ELSE UNCHANGED tx
  /\ Goto(c, IF op[c].kind = "submit" THEN "owner" ELSE "commit")

\* savePostgresWorkflowTx: INSERT ... ON CONFLICT DO NOTHING waits for whoever is
\* inserting the ID; the loser compares the contents.
InsertDefinition(c) ==
  /\ At(c, "definition")
  /\ Free(c, <<"definition">>)
  /\ LET goOn == Goto(c, IF op[c].kind = "submit" THEN "owner" ELSE "commit") IN
     CASE Row(c, <<"definition">>) = Absent -> Write(c, <<"definition">> :> op[c].content) /\ goOn
       [] Row(c, <<"definition">>) = op[c].content -> UNCHANGED tx /\ goOn
       [] OTHER -> Refuse(c)

-----------------------------------------------------------------------------
(* The aggregate of a run.                                                  *)

ParentKey == <<"run">>
TaskKeys  == {<<"task", t>> : t \in Tasks}
ChildKeys == TaskKeys \cup {<<"workers">>, <<"leases">>}

Version == IF db[ParentKey] = Absent THEN 0 ELSE db[ParentKey].version

StartCreateRun(c) == Migrated /\ Begin(c, [kind |-> "create_run", at |-> "find"])

\* The snapshot to save was loaded or stored at a version the run has had.
StartSaveRun(c) ==
  /\ Migrated
  /\ \E v \in 1..Version : Begin(c, [kind |-> "save_run", at |-> "find", version |-> v])

\* loadPostgresWorkflowTx in CreateRun and SaveRun; definitions do not change.
FindDefinition(c) ==
  /\ At(c, "find")
  /\ IF Row(c, <<"definition">>) = Absent THEN Refuse(c)
     ELSE Goto(c, IF op[c].kind = "create_run" THEN "insert" ELSE "update") /\ UNCHANGED tx

InsertRun(c) ==
  /\ At(c, "insert")
  /\ Free(c, ParentKey)
  /\ IF Row(c, ParentKey) # Absent THEN Refuse(c)
     ELSE Write(c, ParentKey :> [version |-> 1, by |-> c]) /\ Goto(c, "children")

\* Mutant: the version is not part of the condition.
UpdateRunUnconditionally(c) ==
  /\ At(c, "update")
  /\ Free(c, ParentKey)
  /\ IF Row(c, ParentKey) = Absent THEN Refuse(c)
     ELSE /\ Write(c, ParentKey :> [version |-> Row(c, ParentKey).version + 1, by |-> c])
          /\ Goto(c, "children")

\* UPDATE workflow_runs ... WHERE version = $5: it waits for the contender that
\* has the row, and no row is left if that one committed.
UpdateRun(c) ==
  /\ At(c, "update")
  /\ Free(c, ParentKey)
  /\ IF Row(c, ParentKey) = Absent THEN Refuse(c)
     ELSE IF Row(c, ParentKey).version # op[c].version THEN Refuse(c)
     ELSE /\ Write(c, ParentKey :> [version |-> op[c].version + 1, by |-> c])
          /\ Goto(c, "children")

\* writePostgresRunChildren; or every task_runs row is updated, which must be
\* there, and the workers and leases are replaced.
WriteChildren(c) ==
  /\ At(c, "children")
  /\ \A k \in ChildKeys : Free(c, k)
  /\ IF op[c].kind = "save_run" /\ \E k \in TaskKeys : Row(c, k) = Absent
     THEN Refuse(c)
     ELSE Write(c, [k \in ChildKeys |-> c]) /\ Goto(c, "commit")

\* LoadRun begins a REPEATABLE READ transaction: what its first statement sees,
\* all of them see.  The statements in order:
LoadOrder == <<{ParentKey}, TaskKeys, {<<"workers">>}, {<<"leases">>}>>

StartLoadRun(c) ==
  Migrated /\ Begin(c, [kind |-> "load_run", at |-> "read", view |-> <<>>, seen |-> <<>>, next |-> 1])

\* Mutant: the transaction is READ COMMITTED.
ReadRowsCommitted(c) ==
  /\ At(c, "read")
  /\ IF op[c].next = 1 /\ db[ParentKey] = Absent THEN op' = [op EXCEPT ![c].at = "refused"]
     ELSE op' = [op EXCEPT ![c].seen = [k \in LoadOrder[op[c].next] |-> db[k]] @@ @,
                           ![c].next = @ + 1,
                           ![c].at = IF op[c].next = Len(LoadOrder) THEN "done" ELSE "read"]
  /\ UNCHANGED <<db, tx, kinds, faults>>

\* loadPostgresRunTx, one statement.
ReadRows(c) ==
  LET view == IF op[c].next = 1 THEN [k \in {ParentKey} \cup ChildKeys |-> db[k]] ELSE op[c].view IN
  /\ At(c, "read")
  /\ IF view[ParentKey] = Absent THEN op' = [op EXCEPT ![c].at = "refused"]
     ELSE op' = [op EXCEPT ![c].view = view,
                           ![c].seen = [k \in LoadOrder[op[c].next] |-> view[k]] @@ @,
                           ![c].next = @ + 1,
                           ![c].at = IF op[c].next = Len(LoadOrder) THEN "done" ELSE "read"]
  /\ UNCHANGED <<db, tx, kinds, faults>>

-----------------------------------------------------------------------------
StoreInit ==
  /\ \E s \in Scenarios : db = s.rows /\ kinds = s.kinds
  /\ tx = [c \in Clients |-> NoTx]
  /\ op = [c \in Clients |-> Idle]
  /\ faults = 0

StoreNext(c) ==
  \/ Commit(c) \/ Fail(c)
  \/ StartMigrate(c) \/ FindLedger(c) \/ CreateLedger(c)
  \/ ReadLedger(c) \/ ApplyMigration(c) \/ CommitMigration(c)
  \/ StartSaveWorkflow(c) \/ InsertDefinition(c)
  \/ StartCreateRun(c) \/ StartSaveRun(c) \/ FindDefinition(c)
  \/ InsertRun(c) \/ UpdateRun(c) \/ WriteChildren(c)
  \/ StartLoadRun(c) \/ ReadRows(c)
=============================================================================
