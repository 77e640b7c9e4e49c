----------------------------- MODULE FileStore -----------------------------
(***************************************************************************)
(* persistence.FileStore: maps in memory, and an append-only journal that   *)
(* is replayed when the store is opened.  Operations are serialised by the  *)
(* store's mutex.  Reaching the disk can fail: the process may stop during  *)
(* an append, or the append may return an error and the process go on.      *)
(*                                                                          *)
(* Nothing in the program disables a user, so users are only their IDs.     *)
(***************************************************************************)
EXTENDS Naturals, Sequences, FiniteSets, SequencesExt

CONSTANTS Workflows, Contents,   \* workflow IDs and the definitions they may name
          Runs, Bodies,          \* run IDs and what a snapshot may hold
          Projects, Names, Users, Roles, Admin,
          Audits,                \* audit event IDs
          None,                  \* an absent entry of a map
          Torn,                  \* the rest of a record whose newline is missing
          Corrupt,               \* a line that is not one checksummed envelope
          Refused,               \* the journal cannot be opened
          Down,                  \* no process has the store open
          MaxRecords,            \* bound: lines of the journal
          MaxCrashes, MaxFailures

ASSUME FileStoreAssumption == Admin \in Roles

VARIABLES memory,    \* the maps of the open store, or Down
          journal,   \* the lines of the file
          promised,  \* what opening the store may show: the acknowledged state,
                     \* with or without the mutation that was being written
          appended,  \* this process has appended after an append of its own failed
          crashes, failures

vars == <<memory, journal, promised, appended, crashes, failures>>

Empty == [workflows |-> [w \in Workflows |-> None],
          runs      |-> [r \in Runs |-> None],
          projects  |-> [p \in Projects |-> None],
          members   |-> [p \in Projects |-> [u \in Users |-> None]],
          owners    |-> [w \in Workflows |-> None],
          audits    |-> [p \in Projects |-> <<>>]]

AuditIDs(m) == UNION {ToSet(m.audits[p]) : p \in Projects}
-----------------------------------------------------------------------------
(* Replaying one record: the checks of applyRecord, then its effect.         *)

Apply(m, rec) ==
  CASE rec.op = "save_workflow" ->
         [m EXCEPT !.workflows[rec.w] = rec.content]
    [] rec.op \in {"create_run", "save_run"} ->
         [m EXCEPT !.runs[rec.r] = [w |-> rec.w, version |-> rec.version, body |-> rec.body]]
    [] rec.op \in {"create_project", "save_project"} ->
         [m EXCEPT !.projects[rec.p] = rec.name,
                   !.members[rec.p] = IF rec.op = "create_project"
                                      THEN [@ EXCEPT ![rec.u] = Admin] ELSE @,
                   !.audits[rec.p] = Append(@, rec.audit)]
    [] rec.op = "put_membership" ->
         [m EXCEPT !.members[rec.p][rec.u] = rec.role,
                   !.audits[rec.p] = Append(@, rec.audit)]
    [] rec.op = "save_owned_workflow" ->
         [m EXCEPT !.workflows[rec.w] = rec.content,
                   !.owners[rec.w] = [p |-> rec.p, u |-> rec.u]]

Replayable(m, rec) ==
  CASE rec.op = "save_workflow" -> m.workflows[rec.w] \in {None, rec.content}
    [] rec.op = "create_run" ->
         m.workflows[rec.w] # None /\ m.runs[rec.r] = None /\ rec.version = 1
    [] rec.op = "save_run" ->
         m.workflows[rec.w] # None /\ m.runs[rec.r] # None /\ rec.version = m.runs[rec.r].version + 1
    [] rec.op = "create_project" -> m.projects[rec.p] = None /\ rec.audit \notin AuditIDs(m)
    [] rec.op \in {"save_project", "put_membership"} ->
         m.projects[rec.p] # None /\ rec.audit \notin AuditIDs(m)
    [] rec.op = "save_owned_workflow" ->
         /\ m.projects[rec.p] # None /\ m.members[rec.p][rec.u] # None
         /\ m.workflows[rec.w] \in {None, rec.content}
         /\ m.owners[rec.w] \in {None, [p |-> rec.p, u |-> rec.u]}

replayLine(m, line) ==
  IF m = Refused THEN Refused
  ELSE IF line = Corrupt THEN Refused
  ELSE IF Replayable(m, line) THEN Apply(m, line)
  ELSE Refused

\* Only the last line can lack its newline.
Complete(lines) == SelectSeq(lines, LAMBDA line : line # Torn)

replay(lines) == FoldLeft(replayLine, Empty, Complete(lines))
-----------------------------------------------------------------------------
Init ==
  /\ memory = Empty /\ journal = <<>> /\ promised = {Empty} /\ appended = FALSE
  /\ crashes = 0 /\ failures = 0

\* Bytes are appended at the end of the file: after an incomplete line they
\* continue that line.
Written(rec) ==
  IF journal # <<>> /\ Last(journal) = Torn THEN Append(Front(journal), Corrupt) ELSE Append(journal, rec)

\* What an append that was cut short leaves: nothing, a part of the record, or
\* all of it with its newline.
Partly(rec) ==
  {journal, Written(rec),
   IF journal # <<>> /\ Last(journal) = Torn THEN journal ELSE Append(journal, Torn)}

\* appendRecord succeeds; then the maps change.
Commit(rec) ==
  /\ journal' = Written(rec)
  /\ memory' = Apply(memory, rec)
  /\ promised' = {memory'}
  /\ UNCHANGED <<crashes, failures>>

\* appendRecord returns an error of write, sync or close: the caller is told,
\* the maps stay, and so does what reached the file.
CommitFails(rec) ==
  /\ failures < MaxFailures /\ failures' = failures + 1
  /\ journal' \in Partly(rec)
  /\ promised' = {memory, Apply(memory, rec)}
  /\ UNCHANGED <<memory, crashes>>

\* The process stops during appendRecord or before the caller hears of it.
CommitCrashes(rec) ==
  /\ crashes < MaxCrashes /\ crashes' = crashes + 1
  /\ journal' \in Partly(rec)
  /\ memory' = Down
  /\ promised' = {memory, Apply(memory, rec)}
  /\ UNCHANGED failures

appendRecord(rec) ==
  /\ Len(journal) < MaxRecords
  /\ appended' = (appended \/ Cardinality(promised) > 1)
  /\ Commit(rec) \/ CommitFails(rec) \/ CommitCrashes(rec)

\* Mutant: a definition can be saved again with other content.
SaveWorkflowAgain(w, c) ==
  /\ memory # Down
  /\ appendRecord([op |-> "save_workflow", w |-> w, content |-> c])

\* Saving the same content again returns without a record.
SaveWorkflow(w, c) ==
  /\ memory # Down /\ memory.workflows[w] = None
  /\ appendRecord([op |-> "save_workflow", w |-> w, content |-> c])

CreateRun(r, w, b) ==
  /\ memory # Down /\ memory.runs[r] = None /\ memory.workflows[w] # None
  /\ appendRecord([op |-> "create_run", r |-> r, w |-> w, version |-> 1, body |-> b])

\* expected: the version the caller last saw.
SaveRun(r, expected, b) ==
  /\ memory # Down /\ memory.runs[r] # None
  /\ expected = memory.runs[r].version
  /\ memory.workflows[memory.runs[r].w] # None
  /\ appendRecord([op |-> "save_run", r |-> r, w |-> memory.runs[r].w,
                   version |-> expected + 1, body |-> b])

CreateProject(p, n, u, a) ==
  /\ memory # Down /\ memory.projects[p] = None /\ a \notin AuditIDs(memory)
  /\ appendRecord([op |-> "create_project", p |-> p, name |-> n, u |-> u, audit |-> a])

SaveProject(p, n, a) ==
  /\ memory # Down /\ memory.projects[p] # None /\ a \notin AuditIDs(memory)
  /\ appendRecord([op |-> "save_project", p |-> p, name |-> n, audit |-> a])

PutMembership(p, u, role, a) ==
  /\ memory # Down /\ memory.projects[p] # None /\ a \notin AuditIDs(memory)
  /\ appendRecord([op |-> "put_membership", p |-> p, u |-> u, role |-> role, audit |-> a])

\* Mutant: the owner need not be a member.
SaveWorkflowForAnyone(w, c, p, u) ==
  /\ memory # Down /\ memory.projects[p] # None
  /\ memory.workflows[w] \in {None, c} /\ memory.owners[w] = None
  /\ appendRecord([op |-> "save_owned_workflow", w |-> w, content |-> c, p |-> p, u |-> u])

\* An ownership that is already recorded returns without a record.
SaveWorkflowForProject(w, c, p, u) ==
  /\ memory # Down
  /\ memory.projects[p] # None /\ memory.members[p][u] # None
  /\ memory.workflows[w] \in {None, c} /\ memory.owners[w] = None
  /\ appendRecord([op |-> "save_owned_workflow", w |-> w, content |-> c, p |-> p, u |-> u])

\* The process stops between two operations.
Crash ==
  /\ memory # Down /\ crashes < MaxCrashes
  /\ crashes' = crashes + 1 /\ memory' = Down
  /\ UNCHANGED <<journal, promised, appended, failures>>

\* Mutant: an incomplete final line stays in the file.
OpenWithoutTruncation ==
  /\ memory = Down /\ replay(journal) # Refused
  /\ memory' = replay(journal)
  /\ promised' = {memory'} /\ appended' = FALSE
  /\ UNCHANGED <<journal, crashes, failures>>

\* OpenFileStore: replay, and truncate the file after its last complete line.
OpenFileStore ==
  /\ memory = Down /\ replay(journal) # Refused
  /\ memory' = replay(journal)
  /\ journal' = Complete(journal)
  /\ promised' = {memory'} /\ appended' = FALSE
  /\ UNCHANGED <<crashes, failures>>

Next ==
  \/ \E w \in Workflows, c \in Contents : SaveWorkflow(w, c)
  \/ \E r \in Runs, w \in Workflows, b \in Bodies : CreateRun(r, w, b)
  \/ \E r \in Runs, v \in 1..MaxRecords, b \in Bodies : SaveRun(r, v, b)
  \/ \E p \in Projects, n \in Names, u \in Users, a \in Audits : CreateProject(p, n, u, a)
  \/ \E p \in Projects, n \in Names, a \in Audits : SaveProject(p, n, a)
  \/ \E p \in Projects, u \in Users, role \in Roles, a \in Audits : PutMembership(p, u, role, a)
  \/ \E w \in Workflows, c \in Contents, p \in Projects, u \in Users :
       SaveWorkflowForProject(w, c, p, u)
  \/ Crash
  \/ OpenFileStore

Spec == Init /\ [][Next]_vars
-----------------------------------------------------------------------------
\* What replay would show now is the acknowledged state, or that state with the
\* one mutation whose answer nobody received: no acknowledged mutation is lost,
\* none is half done, and the checks of applyRecord refuse nothing that the
\* operations let through.  This holds as long as a process that was told of a
\* failed append appends nothing more.
ReplayShowsPromised == ~appended => replay(journal) \in promised

\* A run belongs to a workflow that is stored, an owned workflow is stored and
\* its owner a member of the project, and every project has its creation on
\* record, with no audit event twice, before and after a restart.
ReferencesHold ==
  memory # Down =>
    /\ \A r \in Runs : memory.runs[r] # None => memory.workflows[memory.runs[r].w] # None
    /\ \A w \in Workflows :
         memory.owners[w] # None =>
           /\ memory.workflows[w] # None
           /\ memory.members[memory.owners[w].p][memory.owners[w].u] # None
    /\ \A p \in Projects : (memory.projects[p] # None) <=> (memory.audits[p] # <<>>)
    /\ \A p, q \in Projects : \A i \in DOMAIN memory.audits[p], j \in DOMAIN memory.audits[q] :
         memory.audits[p][i] = memory.audits[q][j] => p = q /\ i = j

\* A workflow's content and its owner never change once a reader could see
\* them, not even across restarts.
DefinitionsAreImmutable ==
  [][\A old \in promised, new \in promised' : \A w \in Workflows :
       Cardinality(promised) = 1 =>
         /\ old.workflows[w] # None => new.workflows[w] = old.workflows[w]
         /\ old.owners[w] # None => new.owners[w] = old.owners[w]]_vars

\* "An incomplete final record is truncated": whatever an append left behind,
\* the store can be opened again.
AlwaysOpens == replay(journal) # Refused
=============================================================================
