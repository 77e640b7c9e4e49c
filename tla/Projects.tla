------------------------------ MODULE Projects ------------------------------
(***************************************************************************)
(* The project handlers of internal/api over the security tables of         *)
(* PostgresStore, for one project and one workflow ID.  A handler reads     *)
(* with statements of their own and then writes in one transaction; every   *)
(* request is served by a process of its own, so that workflowMu excludes   *)
(* nobody.  A membership or project write carries its audit event; audit    *)
(* events are rows under the client that wrote them.  The time a handler    *)
(* reads is any of Times: clocks of two processes need not agree.           *)
(***************************************************************************)
EXTENDS PostgresStore, FiniteSets

CONSTANTS Users, Roles, Names,
          Times    \* readings of the clock; 1..n

vars == storeVars

\* Role.Allows.
Granted ==
  [member   |-> {"project:read", "workflow:write", "run:start", "run:read"},
   operator |-> {"task:read", "run:operate"},
   admin    |-> {"project:manage", "audit:read"}]

Allows(role, permission) ==
  permission \in CASE role = "member"   -> Granted["member"]
                   [] role = "operator" -> Granted["member"] \cup Granted["operator"]
                   [] role = "admin"    -> UNION {Granted[r] : r \in DOMAIN Granted}
                   [] OTHER             -> {}

User(u)   == <<"user", u>>
Member(u) == <<"member", u>>
Project   == <<"project">>
Audit(c)  == <<"audit", c>>

Event(action, actor, user, role, name, at) ==
  [action |-> action, actor |-> actor, user |-> user, role |-> role, name |-> name, at |-> at]

-----------------------------------------------------------------------------
(* What the handlers read before they write.                                *)

\* A request for one of these operations arrives.
StartCreateProject(c) ==
  /\ Migrated
  /\ \E u \in Users, n \in Names, now \in Times :
       Begin(c, [kind |-> "create_project", at |-> "creator", actor |-> u, target |-> u,
                 role |-> "admin", name |-> n, now |-> now])

StartPutMember(c) ==
  /\ Migrated
  /\ \E u, v \in Users, r \in Roles :
       Begin(c, [kind |-> "put_member", at |-> "authorize", actor |-> u, target |-> v, role |-> r])

StartRename(c) ==
  /\ Migrated
  /\ \E u \in Users, n \in Names :
       Begin(c, [kind |-> "rename", at |-> "authorize", actor |-> u, name |-> n])

StartSubmit(c) ==
  /\ Migrated
  /\ \E u \in Users, d \in Contents :
       Begin(c, [kind |-> "submit", at |-> "authorize", actor |-> u, content |-> d])

\* handleProjects: a creator that is known must not be disabled.
LoadCreator(c) ==
  /\ At(c, "creator")
  /\ IF db[User(op[c].actor)] = "disabled" THEN Refuse(c) ELSE Goto(c, "user") /\ UNCHANGED tx

\* authorizeProject.  Users do not change, so LoadUser and LoadMembership are
\* one step.
Authorize(c) ==
  LET u == op[c].actor
      permission == IF op[c].kind = "submit" THEN "workflow:write" ELSE "project:manage"
  IN
  /\ At(c, "authorize")
  /\ IF db[User(u)] # "active" \/ db[Member(u)] = Absent THEN Refuse(c)
     ELSE IF ~Allows(db[Member(u)].role, permission) THEN Refuse(c)
     ELSE Goto(c, "load") /\ UNCHANGED tx

Admins == {u \in Users : IF db[Member(u)] = Absent THEN FALSE ELSE db[Member(u)].role = "admin"}

\* handleProjectMember reads the clock and the membership it replaces.  saw is
\* history: the admins there were when the handler last looked.
LoadTarget(c) ==
  /\ op[c].kind = "put_member" /\ At(c, "load")
  /\ \E now \in Times :
       op' = [op EXCEPT ![c] = [at  |-> IF op[c].target \in Admins /\ op[c].role # "admin"
                                        THEN "admins" ELSE "user",
                                now |-> now, saw |-> Admins] @@ @]
  /\ UNCHANGED <<db, tx, kinds, faults>>

\* Mutant: the admins are not counted.
CountNoAdmins(c) == At(c, "admins") /\ Goto(c, "user") /\ UNCHANGED tx

\* ListMemberships; the last admin keeps the role.
CountAdmins(c) ==
  /\ At(c, "admins")
  /\ IF Cardinality(Admins) = 1 THEN Refuse(c)
     ELSE /\ op' = [op EXCEPT ![c].at = "user", ![c].saw = Admins]
          /\ UNCHANGED <<db, tx, kinds, faults>>

\* updateProject reads the project and then the clock.
LoadProject(c) ==
  /\ op[c].kind = "rename" /\ At(c, "load")
  /\ IF db[Project] = Absent THEN Refuse(c)
     ELSE \E now \in Times :
            /\ op' = [op EXCEPT ![c] = [at |-> "update_project", now |-> now] @@ @]
            /\ UNCHANGED <<db, tx, kinds, faults>>

\* handleWorkflows: a definition that is found is not saved again.
LoadWorkflow(c) ==
  /\ op[c].kind = "submit" /\ At(c, "load")
  /\ IF db[<<"definition">>] # Absent THEN Refuse(c) ELSE Goto(c, "definition") /\ UNCHANGED tx

-----------------------------------------------------------------------------
(* The transactions.                                                        *)

\* insertPostgresUser.
InsertUser(c) ==
  LET key == User(op[c].target) IN
  /\ At(c, "user")
  /\ Free(c, key)
  /\ CASE Row(c, key) = Absent     -> /\ Write(c, key :> "active")
                                      /\ Goto(c, IF op[c].kind = "create_project" THEN "project" ELSE "lock")
       [] Row(c, key) = "active"   -> /\ UNCHANGED tx
                                      /\ Goto(c, IF op[c].kind = "create_project" THEN "project" ELSE "lock")
       [] Row(c, key) = "disabled" -> Refuse(c)

\* CreateProject: INSERT INTO projects.
InsertProject(c) ==
  /\ At(c, "project")
  /\ Free(c, Project)
  /\ IF Row(c, Project) # Absent THEN Refuse(c)
     ELSE /\ Write(c, Project :> [name |-> op[c].name, at |-> op[c].now])
          /\ Goto(c, "lock")

\* upsertPostgresMembership: SELECT ... FOR UPDATE.
LockMember(c) ==
  LET key == Member(op[c].target) IN
  /\ At(c, "lock")
  /\ Free(c, key)
  /\ IF Row(c, key) = Absent THEN UNCHANGED tx /\ Goto(c, "upsert")
     ELSE IF op[c].now < Row(c, key).at THEN Refuse(c)
     ELSE Lock(c, key) /\ Goto(c, "upsert")

MemberEvent(c) ==
  Event(IF op[c].kind = "create_project" THEN "project.created" ELSE "membership.updated",
        op[c].actor, op[c].target, op[c].role, Absent, op[c].now)

\* Mutant: ON CONFLICT DO UPDATE has no condition on the time.
UpsertAlways(c) ==
  LET key == Member(op[c].target) IN
  /\ At(c, "upsert")
  /\ Free(c, key)
  /\ Write(c, (key :> [role |-> op[c].role, at |-> op[c].now]) @@ (Audit(c) :> MemberEvent(c)))
  /\ Goto(c, "commit")

\* INSERT ... ON CONFLICT DO UPDATE ... WHERE EXCLUDED.updated_at >= updated_at,
\* then the audit event.  A foreign key asks for the project.
UpsertMember(c) ==
  LET key == Member(op[c].target)
      old == Row(c, key)
  IN
  /\ At(c, "upsert")
  /\ Free(c, key)
  /\ IF (IF old = Absent THEN FALSE ELSE op[c].now < old.at) \/ Row(c, Project) = Absent
     THEN Refuse(c)
     ELSE /\ Write(c, (key :> [role |-> op[c].role, at |-> op[c].now]) @@ (Audit(c) :> MemberEvent(c)))
          /\ Goto(c, "commit")

\* SaveProject: the row is updated whatever its updated_at is.
UpdateProject(c) ==
  /\ At(c, "update_project")
  /\ Free(c, Project)
  /\ IF Row(c, Project) = Absent THEN Refuse(c)
     ELSE /\ Write(c, (Project :> [name |-> op[c].name, at |-> op[c].now])
                      @@ (Audit(c) :> Event("project.updated", op[c].actor, Absent, Absent,
                                            op[c].name, op[c].now)))
          /\ Goto(c, "commit")

\* SaveWorkflowForProject: the ownership refers to the membership of the owner.
\* An ownership that is there already has another creation time.
InsertOwner(c) ==
  /\ At(c, "owner")
  /\ Free(c, <<"owner">>)
  /\ IF Row(c, <<"owner">>) # Absent THEN Refuse(c)
     ELSE /\ Refers(c, Member(op[c].actor))
          /\ WriteReferring(c, <<"owner">> :> c, Member(op[c].actor))
          /\ Goto(c, "commit")

-----------------------------------------------------------------------------
Init == StoreInit

\* Every client has had its answer.
Finished == (\A c \in Clients : op[c].at \in Ended) /\ UNCHANGED vars

Next ==
  \/ \E c \in Clients :
       \/ StoreNext(c)
       \/ StartCreateProject(c) \/ LoadCreator(c)
       \/ StartPutMember(c) \/ LoadTarget(c) \/ CountAdmins(c)
       \/ StartRename(c) \/ LoadProject(c)
       \/ StartSubmit(c) \/ LoadWorkflow(c)
       \/ Authorize(c) \/ InsertUser(c) \/ InsertProject(c) \/ LockMember(c)
       \/ UpsertMember(c) \/ UpdateProject(c) \/ InsertOwner(c)
  \/ Finished

Spec == Init /\ [][Next]_vars

-----------------------------------------------------------------------------
(* What holds.                                                              *)

Done(c, kind) == op[c].kind = kind /\ op[c].at = "done"

\* Startups do not get in each other's way: one that is refused met another
\* release's migration under a version of its own, and one that returns finds
\* every migration of its release in the database.  Only the ledger of a new
\* database, which is created before the lock is taken, is a place where two can
\* collide.  (postgres_migrations.go:31, "An advisory transaction lock serializes
\* concurrent application startups".)
StartupsDoNotCollide ==
  \A c \in Clients : op[c].kind = "migrate" =>
    /\ op[c].at = "done" => \A v \in DOMAIN op[c].release :
                              /\ db[<<"applied", v>>] = op[c].release[v]
                              /\ db[<<"schema", v>>] # Absent
    /\ op[c].at = "refused" => db[<<"applied", op[c].next>>] \notin {Absent, op[c].release[op[c].next]}
    /\ op[c].at = "collided" => op[c].next = 1 /\ db[<<"ledger">>] # Absent

\* What LoadRun returned is the run as one writer left it, although it read the
\* rows with four statements while others saved.  (postgres_store.go:366, "the
\* parent version, task states, workers, and leases come from one database view".)
LoadsAreWhole ==
  \A c \in Clients : Done(c, "load_run") =>
    \A k \in ChildKeys : op[c].seen[k] = op[c].seen[ParentKey].by

\* The transactions of CreateRun and SaveRun are the single steps that the rest
\* of the system takes them for: a save replaces every row of the run at once,
\* and only if its caller had the version that was stored.
Store == INSTANCE VersionedStore WITH
  Callers <- Clients,
  Parts   <- {ParentKey} \cup ChildKeys,
  version <- Version,
  part    <- [k \in {ParentKey} \cup ChildKeys |->
                IF db[k] = Absent THEN "nobody" ELSE IF k = ParentKey THEN db[k].by ELSE db[k]],
  base    <- [c \in Clients |-> IF op[c].kind = "save_run" THEN op[c].version ELSE 0]
ImplementsVersionedStore == Store!Spec

\* The membership of a user is what the newest audit event about the user says,
\* whatever order requests read their clocks in and committed in; the name of the
\* project comes from an event too, though not always from the newest, because
\* SaveProject does not compare times.  (postgres_security.go:131, "PutMembership
\* upserts a project role and records its audit event atomically".)
Events == {db[Audit(s)] : s \in Clients \cup Users} \ {Absent}
About(u) == {e \in Events : e.user = u}
AuditTellsState ==
  /\ \A u \in Users : db[Member(u)] # Absent =>
       /\ \E e \in About(u) : e.at = db[Member(u)].at /\ e.role = db[Member(u)].role
       /\ \A e \in About(u) : e.at <= db[Member(u)].at
  /\ db[Project] # Absent =>
       \E e \in Events : /\ e.at = db[Project].at
                         /\ \/ e.action = "project.created"
                            \/ e.action = "project.updated" /\ e.name = db[Project].name

\* A project is left without an admin only by a request that decided on
\* memberships that had changed before it wrote: requests one after the other
\* never do it.  (projects.go:252, "a project must retain at least one admin".)
LastAdminLostOnlyInRace ==
  [][Admins # {} /\ Admins' = {} =>
       \E c \in Clients : /\ op[c].kind = "put_member" /\ op[c].at = "commit" /\ op'[c].at \in Ended
                          /\ op[c].saw # Admins]_vars

\* Whoever was told that a workflow was created, or saved, finds this definition
\* under the ID ever after, and in the first case is its owner.
\* (postgres_security.go:225, "commits the immutable definition and ownership row
\* in one transaction".)
AcceptedIsStored ==
  \A c \in Clients :
    /\ Done(c, "save_workflow") \/ Done(c, "submit") => db[<<"definition">>] = op[c].content
    /\ Done(c, "submit") => db[<<"owner">>] = c
=============================================================================
