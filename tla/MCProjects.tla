----------------------------- MODULE MCProjects -----------------------------
(***************************************************************************)
(* Three clients at once, on a database that is new, that an older release  *)
(* left, or that is in use: with the users u1 and u2, of whom u1 is an      *)
(* admin or both are, u2 known from other projects, disabled or new;        *)
(* with a workflow and its run or without.                                  *)
(***************************************************************************)
EXTENDS Projects

CONSTANTS u1, u2, c1, c2, c3

MCReleases == {<<"a", "b">>, <<"a", "c">>}

Keys == {<<"ledger">>, <<"advisory">>, <<"definition">>, <<"owner">>, ParentKey, Project}
          \cup ChildKeys
          \cup {<<"applied", n>> : n \in 1..2} \cup {<<"schema", n>> : n \in 1..2}
          \cup {User(w) : w \in Users} \cup {Member(w) : w \in Users}
          \cup {Audit(w) : w \in Users \cup Clients}

New == [k \in Keys |-> Absent]

Old == (<<"ledger">> :> "table") @@ (<<"schema", 1>> :> "tables") @@ (<<"applied", 1>> :> "a") @@ New

Current == (<<"schema", 2>> :> "tables") @@ (<<"applied", 2>> :> "b") @@ Old

AddAdmins(d, admins) ==
  [w \in {Member(a) : a \in admins} |-> [role |-> "admin", at |-> 1]]
    @@ [w \in {User(a) : a \in admins} |-> "active"]
    @@ [w \in {Audit(a) : a \in admins} |->
          Event("project.created", w[2], w[2], "admin", Absent, 1)]
    @@ (Project :> [name |-> "n", at |-> 1]) @@ d

AddRun(d) ==
  (<<"definition">> :> "x") @@ (ParentKey :> [version |-> 1, by |-> "earlier"])
    @@ [k \in ChildKeys |-> "earlier"] @@ d

MCScenarios ==
  {[rows |-> d, kinds |-> {"migrate", "save_workflow", "create_run"}] : d \in {New, Old}}
    \cup {[rows |-> d, kinds |-> {"migrate", "create_run", "save_run", "load_run"}] :
            d \in {Current, AddRun(Current)}}
    \cup {[rows |-> AddAdmins(User(u2) :> "active" @@ Current, a), kinds |-> {"put_member", "rename"}] :
            a \in {{u1}, {u1, u2}}}
    \cup {[rows |-> User(u2) :> "disabled" @@ Current, kinds |-> {"create_project", "put_member"}],
          [rows |-> AddAdmins(Current, {u1}), kinds |-> {"submit", "save_workflow", "put_member"}]}

Symmetry == Permutations(Clients)
=============================================================================
