---------------------- MODULE WorkflowDefinitionProofs ----------------------
(***************************************************************************)
(* Every workflow that Validate accepts can be run to its end, whatever its *)
(* size and shape (NeverStuck), and the order found for it is the smallest  *)
(* one (OrderIsSmallest), for every set of definitions.                     *)
(*                                                                         *)
(* The inductive invariant is that of the sort: the tasks it has visited    *)
(* are listed once, after their dependencies, and the count it keeps for a  *)
(* task is the number of its dependencies that are not yet visited.  When   *)
(* the list is as long as the definition it contains every task, and the    *)
(* first task of it that is not completed has all its dependencies          *)
(* completed.  The heap holds exactly the tasks that could come next, so no *)
(* order can continue the list with a smaller task, and none at all when    *)
(* the heap is empty too soon.                                              *)
(***************************************************************************)
EXTENDS WorkflowDefinition, FiniteSetTheorems, TLAPS

\* A set of natural numbers that is not empty has a smallest element: what the
\* heap of the sort returns.
LEMMA MinInSet ==
  ASSUME NEW S \in SUBSET Nat, S # {}
  PROVE  Min(S) \in S /\ \A y \in S : Min(S) <= y
<1> DEFINE R == OpToRel(<, Nat)
<1>1. IsWellFoundedOn(R, Nat)
  BY NatLessThanWellFounded
<1>2. PICK x \in S : \A y \in S : <<y, x>> \notin R
  <2> HIDE DEF R
  <2> QED BY <1>1, WFMin
<1>3. \A y \in S : x <= y
  <2> SUFFICES ASSUME NEW y \in S, y < x PROVE FALSE
    OBVIOUS
  <2>1. <<y, x>> \in Nat \X Nat /\ <<y, x>>[1] < <<y, x>>[2]
    OBVIOUS
  <2>2. <<y, x>> \in R
    BY <2>1 DEF OpToRel
  <2> QED BY <2>2, <1>2
<1> QED BY <1>3 DEF Min

\* The elements of a sequence form a finite set, as many as its length if none
\* of them is listed twice.
LEMMA ElementsOfSequence ==
  ASSUME NEW n \in Nat, NEW f, f = [i \in 1..n |-> f[i]],
         NEW T, T = {f[i] : i \in 1..n}
  PROVE  /\ IsFiniteSet(T)
         /\ (\A i, j \in 1..n : f[i] = f[j] => i = j) => Cardinality(T) = n
<1>1. IsFiniteSet(1..n) /\ Cardinality(1..n) = n
  BY FS_Interval
<1>2. f \in Surjection(1..n, T)
  BY DEF Surjection
<1>3. (\A i, j \in 1..n : f[i] = f[j] => i = j) => f \in Injection(1..n, T)
  BY <1>2 DEF Injection, IsInjective, Surjection
<1>4. IsFiniteSet(T) /\ (Cardinality(T) = Cardinality(1..n) <=> f \in Injection(1..n, T))
  BY <1>1, <1>2, FS_Surjection
<1> QED BY <1>1, <1>3, <1>4
-----------------------------------------------------------------------------
\* What buildDependencyGraph has established for a definition it returns a
\* graph for.
LEMMA GraphFacts ==
  ASSUME NEW d \in Seq(TaskDefinition), WellFormed(d)
  PROVE  /\ Ids(d) \subseteq Nat /\ IsFiniteSet(Ids(d))
         /\ \A t \in Ids(d) : /\ Deps(d, t) \subseteq Ids(d) /\ t \notin Deps(d, t)
                              /\ IsFiniteSet(Deps(d, t))
                              /\ Indegree(d, t) = Cardinality(Deps(d, t))
<1>1. d \in [1..Len(d) -> TaskDefinition] /\ DOMAIN d = 1..Len(d) /\ Len(d) \in Nat
  OBVIOUS
<1>2. Ids(d) \subseteq Nat
  BY <1>1 DEF Ids, TaskDefinition
<1>3. IsFiniteSet(Ids(d))
  <2> DEFINE f == [i \in 1..Len(d) |-> d[i].id]
  <2>1. f = [i \in 1..Len(d) |-> f[i]]
    OBVIOUS
  <2>2. Ids(d) = {f[i] : i \in 1..Len(d)}
    BY <1>1 DEF Ids
  <2> HIDE DEF f
  <2> QED BY <1>1, <2>1, <2>2, ElementsOfSequence
<1>4. ASSUME NEW t \in Ids(d)
      PROVE  /\ Deps(d, t) \subseteq Ids(d) /\ t \notin Deps(d, t)
             /\ IsFiniteSet(Deps(d, t)) /\ Indegree(d, t) = Cardinality(Deps(d, t))
  <2> DEFINE i == CHOOSE j \in DOMAIN d : d[j].id = t
             s == d[i].deps
  <2>1. i \in DOMAIN d /\ d[i].id = t
    BY DEF Ids
  <2>2. Task(d, t) = d[i]
    BY DEF Task
  <2> HIDE DEF i
  <2>3. s \in Seq(Nat)
    BY <1>1, <2>1 DEF TaskDefinition
  <2>4. DOMAIN s = 1..Len(s) /\ Len(s) \in Nat /\ s = [k \in 1..Len(s) |-> s[k]]
    BY <2>3
  <2>5. Deps(d, t) = {s[k] : k \in 1..Len(s)}
    BY <2>2, <2>4 DEF Deps
  <2>6. \A k \in 1..Len(s) : /\ s[k] # t /\ s[k] \in Ids(d)
                             /\ \A j \in 1..Len(s) : s[j] = s[k] => j = k
    BY <2>1, <2>4 DEF WellFormed, ValidDependencies
  <2>7. Indegree(d, t) = Len(s)
    BY <2>2 DEF Indegree
  <2> HIDE DEF s
  <2>8. IsFiniteSet(Deps(d, t)) /\ Cardinality(Deps(d, t)) = Len(s)
    <3>1. \A i1, i2 \in 1..Len(s) : s[i1] = s[i2] => i1 = i2
      BY <2>6
    <3> QED BY <2>4, <2>5, <3>1, ElementsOfSequence
  <2> QED BY <2>5, <2>6, <2>7, <2>8
<1> QED BY <1>2, <1>3, <1>4
-----------------------------------------------------------------------------
Visited == {order[i] : i \in 1..Len(order)}

\* What the sort has done so far.
Sorted ==
  /\ WellFormed(definition)
  /\ order \in Seq(Ids(definition))
  /\ Len(order) = Cardinality(Visited)
  /\ \A i \in 1..Len(order) : Deps(definition, order[i]) \subseteq Before(order, i)

\* What it knows about the tasks that are left.
Counted ==
  /\ remaining \in [Ids(definition) -> Nat]
  /\ \A t \in Ids(definition) : remaining[t] = Cardinality(Deps(definition, t) \ Visited)
  /\ ready \subseteq Ids(definition) \ Visited
  /\ \A t \in Ids(definition) \ Visited : t \in ready <=> Deps(definition, t) \subseteq Visited

\* No order of the tasks leaves the one found so far with a smaller task.
Smallest ==
  \A p \in Orders(definition) : \A i \in 1..Len(order) :
    (\A j \in 1..i - 1 : p[j] = order[j]) => order[i] <= p[i]

SortInv ==
  /\ definition \in Seq(TaskDefinition)
  /\ phase \in {"given", "sorting", "accepted", "rejected"}
  /\ phase = "given" => order = <<>>
  /\ phase \in {"sorting", "accepted"} => Sorted /\ Smallest
  /\ phase = "sorting" => Counted
  /\ phase = "rejected" /\ WellFormed(definition) => Orders(definition) = {}
  /\ phase = "accepted" => Visited = Ids(definition)
  /\ completed \subseteq Ids(definition)

\* buildDependencyGraph establishes the invariant: nothing is visited and the
\* counts are those of the dependencies.
LEMMA BuildKeeps ==
  ASSUME SortInv, Build
  PROVE  SortInv'
<1> USE DEF SortInv, Build, executing
<1>1. CASE ~WellFormed(definition)
  BY <1>1
<1>2. CASE WellFormed(definition)
  <2>1. order = <<>> /\ order' = <<>> /\ definition' = definition /\ phase' = "sorting"
    BY <1>2
  <2>2. Visited' = {} /\ Len(order') = 0
    BY <2>1 DEF Visited
  <2>3. Sorted'
    BY <1>2, <2>1, <2>2, FS_EmptySet DEF Sorted
  <2>4. Counted'
    <3>1. \A t \in Ids(definition) : /\ Indegree(definition, t) = Cardinality(Deps(definition, t))
                                     /\ IsFiniteSet(Deps(definition, t))
      BY <1>2, GraphFacts
    <3>2. \A t \in Ids(definition) : Indegree(definition, t) \in Nat
      BY <3>1, FS_CardinalityType
    <3>3. \A t \in Ids(definition) : Indegree(definition, t) = 0 <=> Deps(definition, t) = {}
      BY <3>1, FS_EmptySet
    <3> QED BY <1>2, <2>1, <2>2, <3>1, <3>2, <3>3 DEF Counted
  <2>5. Smallest'
    BY <2>2 DEF Smallest
  <2> QED BY <2>1, <2>3, <2>4, <2>5
<1> QED BY <1>1, <1>2

\* An iteration of the sort keeps it: the task taken from the heap extends the
\* order, and the count of each of its dependents drops by one.
LEMMA VisitKeeps ==
  ASSUME SortInv, Visit
  PROVE  SortInv'
<1> DEFINE d == definition
           t == Pop(ready)
           dependents == {u \in Ids(d) : t \in Deps(d, u)}
<1>1. phase = "sorting" /\ phase' = "sorting" /\ d' = d /\ order' = Append(order, t)
  BY DEF Visit, SortInv
<1>2. Sorted /\ Smallest /\ Counted /\ d \in Seq(TaskDefinition) /\ WellFormed(d)
  BY <1>1 DEF SortInv, Sorted
<1>3. /\ Ids(d) \subseteq Nat /\ IsFiniteSet(Ids(d))
      /\ \A u \in Ids(d) : /\ Deps(d, u) \subseteq Ids(d) /\ u \notin Deps(d, u)
                           /\ IsFiniteSet(Deps(d, u))
  BY <1>2, GraphFacts
<1>4. /\ t \in ready /\ t \in Ids(d) /\ t \notin Visited /\ Deps(d, t) \subseteq Visited
      /\ \A u \in ready : t <= u
  <2>1. ready \in SUBSET Nat /\ ready # {}
    BY <1>2, <1>3 DEF Visit, Counted
  <2>2. t \in ready /\ \A u \in ready : t <= u
    BY <2>1, MinInSet DEF Pop
  <2> QED BY <1>2, <2>2 DEF Counted
<1>5. /\ remaining' = [u \in Ids(d) |-> IF u \in dependents THEN remaining[u] - 1 ELSE remaining[u]]
      /\ ready' = (ready \ {t}) \cup {u \in dependents : remaining'[u] = 0}
  BY DEF Visit
<1> HIDE DEF t
<1>6. /\ order \in Seq(Ids(d)) /\ order' \in Seq(Ids(d)) /\ Len(order') = Len(order) + 1
      /\ \A i \in 1..Len(order) : order'[i] = order[i]
      /\ order'[Len(order) + 1] = t /\ Len(order) \in Nat
  BY <1>1, <1>2, <1>4 DEF Sorted
<1>7. Visited' = Visited \cup {t}
  BY <1>6 DEF Visited
<1>8. Visited \subseteq Ids(d) /\ IsFiniteSet(Visited)
  <2>1. Visited \subseteq Ids(d)
    BY <1>6 DEF Visited
  <2> QED BY <2>1, <1>3, FS_Subset
<1>9. Sorted'
  <2>1. Cardinality(Visited') = Cardinality(Visited) + 1
    BY <1>4, <1>7, <1>8, FS_AddElement
  <2>2. Len(order') = Cardinality(Visited')
    BY <1>2, <1>6, <2>1 DEF Sorted
  <2>3. ASSUME NEW i \in 1..Len(order')
        PROVE  Deps(d, order'[i]) \subseteq Before(order, i)'
    <3>1. CASE i \in 1..Len(order)
      <4>1. Before(order, i)' = Before(order, i)
        BY <1>6, <3>1 DEF Before
      <4> QED BY <1>2, <1>6, <3>1, <4>1 DEF Sorted
    <3>2. CASE i = Len(order) + 1
      <4>1. Before(order, i)' = Visited
        BY <1>6, <3>2 DEF Before, Visited
      <4> QED BY <1>4, <1>6, <3>2, <4>1
    <3> QED BY <1>6, <3>1, <3>2
  <2> QED BY <1>1, <1>2, <1>6, <2>2, <2>3 DEF Sorted
<1>10. Counted'
  <2>1. ASSUME NEW u \in Ids(d)
        PROVE  remaining'[u] = Cardinality(Deps(d, u) \ Visited') /\ remaining'[u] \in Nat
    <3> DEFINE D == Deps(d, u) \ Visited
    <3>1. IsFiniteSet(D) /\ remaining[u] = Cardinality(D)
      <4>1. D \in SUBSET Deps(d, u)
        OBVIOUS
      <4> QED BY <1>2, <1>3, <4>1, FS_Subset DEF Counted
    <3>2. Deps(d, u) \ Visited' = D \ {t}
      BY <1>7
    <3>3. u \in dependents <=> t \in D
      BY <1>4
    <3>4. remaining'[u] = IF u \in dependents THEN remaining[u] - 1 ELSE remaining[u]
      BY <1>5
    <3> HIDE DEF D
    <3>5. /\ Cardinality(D \ {t}) = IF t \in D THEN Cardinality(D) - 1 ELSE Cardinality(D)
          /\ IsFiniteSet(D \ {t})
      BY <3>1, FS_RemoveElement
    <3>6. Cardinality(D \ {t}) \in Nat
      BY <3>5, FS_CardinalityType
    <3> QED BY <3>1, <3>2, <3>3, <3>4, <3>5, <3>6
  <2>2. ASSUME NEW u \in ready'
        PROVE  u \in Ids(d) /\ u \notin Visited' /\ Deps(d, u) \subseteq Visited'
    <3>1. CASE u \in ready \ {t}
      BY <1>2, <1>7, <3>1 DEF Counted
    <3>2. CASE u \in dependents /\ remaining'[u] = 0
      <4>1. u \in Ids(d) /\ t \in Deps(d, u) /\ u # t
        BY <1>3, <3>2
      <4>2. IsFiniteSet(Deps(d, u) \ Visited')
        <5>1. Deps(d, u) \ Visited' \in SUBSET Deps(d, u)
          OBVIOUS
        <5> QED BY <1>3, <4>1, <5>1, FS_Subset
      <4>3. Deps(d, u) \ Visited' = {}
        BY <2>1, <3>2, <4>1, <4>2, FS_EmptySet
      <4>4. u \notin Visited
        <5> SUFFICES ASSUME NEW i \in 1..Len(order), u = order[i] PROVE FALSE
          BY DEF Visited
        <5>1. Deps(d, u) \subseteq Before(order, i)
          BY <1>2 DEF Sorted
        <5>2. Before(order, i) \subseteq Visited
          BY <1>6 DEF Before, Visited
        <5> QED BY <1>4, <4>1, <5>1, <5>2
      <4> QED BY <1>7, <4>1, <4>3, <4>4
    <3> QED BY <1>5, <3>1, <3>2
  <2>3. ASSUME NEW u \in Ids(d) \ Visited', Deps(d, u) \subseteq Visited'
        PROVE  u \in ready'
    <3>1. CASE t \in Deps(d, u)
      <4>1. Deps(d, u) \ Visited' = {}
        BY <2>3
      <4>2. remaining'[u] = 0
        BY <2>1, <4>1, FS_EmptySet
      <4> QED BY <1>5, <3>1, <4>2
    <3>2. CASE t \notin Deps(d, u)
      BY <1>2, <1>5, <1>7, <2>3, <3>2 DEF Counted
    <3> QED BY <3>1, <3>2
  <2>4. remaining' \in [Ids(d) -> Nat]
    BY <1>5, <2>1
  <2> QED BY <1>1, <2>1, <2>2, <2>3, <2>4 DEF Counted
<1>11. Smallest'
  <2> SUFFICES ASSUME NEW p \in Orders(d), NEW i \in 1..Len(order'),
                      \A j \in 1..i - 1 : p[j] = order'[j]
               PROVE  order'[i] <= p[i]
    BY <1>1 DEF Smallest
  <2>1. CASE i \in 1..Len(order)
    <3>1. \A j \in 1..i - 1 : p[j] = order[j]
      BY <1>6, <2>1
    <3> QED BY <1>2, <1>6, <2>1, <3>1 DEF Smallest
  <2>2. CASE i = Len(order) + 1
    <3> DEFINE n == Cardinality(Ids(d))
    <3>1. i <= n /\ n \in Nat
      <4>1. Visited' \in SUBSET Ids(d)
        BY <1>4, <1>7, <1>8
      <4>2. Cardinality(Visited') <= n
        BY <1>3, <4>1, FS_Subset
      <4> QED BY <1>3, <1>6, <1>9, <2>2, <4>2, FS_CardinalityType DEF Sorted
    <3> HIDE DEF n
    <3>2. /\ p \in [1..n -> Ids(d)] /\ \A k, j \in 1..n : p[k] = p[j] => k = j
          /\ \A k \in 1..n : Deps(d, p[k]) \subseteq Before(p, k)
      BY DEF Orders, n
    <3>3. i \in 1..n /\ \A j \in 1..Len(order) : j \in 1..n /\ j # i /\ p[j] = order[j]
      BY <1>6, <2>2, <3>1
    <3>4. Before(p, i) = Visited
      BY <1>6, <2>2, <3>3 DEF Before, Visited
    <3>5. p[i] \in Ids(d) /\ p[i] \notin Visited /\ Deps(d, p[i]) \subseteq Visited
      BY <3>2, <3>3, <3>4 DEF Visited
    <3>6. p[i] \in ready
      BY <1>2, <3>5 DEF Counted
    <3> QED BY <1>4, <1>6, <2>2, <3>6
  <2> QED BY <1>6, <2>1, <2>2
<1> QED BY <1>1, <1>2, <1>9, <1>10, <1>11 DEF SortInv, Visit, executing

\* The end of the sort keeps it: a complete order is accepted, and a graph is
\* only rejected if it has none.
LEMMA FinishKeeps ==
  ASSUME SortInv, Finish
  PROVE  SortInv'
<1> DEFINE d == definition
           n == Cardinality(Ids(d))
<1>1. /\ phase = "sorting" /\ Sorted /\ Smallest /\ Counted /\ ready = {}
      /\ d' = d /\ order' = order /\ d \in Seq(TaskDefinition)
  BY DEF Finish, SortInv
<1>2. Visited' = Visited
  BY <1>1 DEF Visited
<1>3. Sorted' /\ Smallest'
  BY <1>1, <1>2 DEF Sorted, Smallest
<1>4. IsFiniteSet(Ids(d)) /\ n \in Nat
  BY <1>1, GraphFacts, FS_CardinalityType DEF Sorted
<1>5. Visited \in SUBSET Ids(d)
  <2>1. order \in Seq(Ids(d))
    BY <1>1 DEF Sorted
  <2> QED BY <2>1 DEF Visited
<1>6. Len(order) = n => Visited = Ids(d)
  BY <1>1, <1>4, <1>5, FS_Subset DEF Sorted
<1>7. ASSUME Len(order) # n, NEW p \in Orders(d)
      PROVE  FALSE
  <2> HIDE DEF n
  <2>1. /\ p \in [1..n -> Ids(d)] /\ \A k, j \in 1..n : p[k] = p[j] => k = j
        /\ \A k \in 1..n : Deps(d, p[k]) \subseteq Before(p, k)
    BY DEF Orders, n
  <2>2. IsFiniteSet(Visited) /\ Cardinality(Visited) < n /\ Cardinality(Visited) \in Nat
    <3>1. IsFiniteSet(Visited) /\ Cardinality(Visited) <= n
      BY <1>4, <1>5, FS_Subset DEF n
    <3>2. Cardinality(Visited) \in Nat /\ Cardinality(Visited) # n
      BY <1>1, <1>7, <3>1, FS_CardinalityType DEF Sorted
    <3> QED BY <1>4, <3>1, <3>2
  <2> DEFINE J == {k \in 1..n : p[k] \notin Visited}
  <2>3. J # {}
    <3> SUFFICES ASSUME p \in [1..n -> Visited] PROVE FALSE
      BY <2>1
    <3>1. IsFiniteSet(1..n) /\ Cardinality(1..n) = n
      BY <1>4, FS_Interval
    <3>2. Cardinality(Visited) < Cardinality(1..n)
      BY <2>2, <3>1
    <3>3. \E k, j \in 1..n : k # j /\ p[k] = p[j]
      BY <2>2, <3>1, <3>2, FS_PigeonHole
    <3> QED BY <2>1, <3>3
  <2>4. PICK k \in J : \A j \in J : k <= j
    <3>1. J \in SUBSET Nat
      BY <1>4
    <3> HIDE DEF J
    <3> QED BY <2>3, <3>1, MinInSet
  <2>5. Before(p, k) \subseteq Visited
    <3> SUFFICES ASSUME NEW j \in 1..k - 1 PROVE p[j] \in Visited
      BY DEF Before
    <3> QED BY <1>4, <2>4
  <2>6. p[k] \in ready
    BY <1>1, <2>1, <2>4, <2>5 DEF Counted
  <2> QED BY <1>1, <2>6
<1>8. Len(order) # n => Orders(d) = {}
  BY <1>7
<1> QED BY <1>1, <1>2, <1>3, <1>6, <1>8 DEF Finish, SortInv, executing

\* The invariant of the sort holds in every reachable state.
THEOREM SortIsRight == DefinitionSpec => []SortInv
<1>1. DefinitionInit => SortInv
  BY DefinitionsAssumption DEF DefinitionInit, SortInv
<1>2. SortInv /\ [DefinitionNext]_definitionVars => SortInv'
  <2> SUFFICES ASSUME SortInv, [DefinitionNext]_definitionVars PROVE SortInv'
    OBVIOUS
  <2>1. CASE Build
    BY <2>1, BuildKeeps
  <2>2. CASE Visit
    BY <2>2, VisitKeeps
  <2>3. CASE Finish
    BY <2>3, FinishKeeps
  <2>4. ASSUME UNCHANGED <<definition, sorting>>, completed' \subseteq Ids(definition)
        PROVE  SortInv'
    <3>1. Visited' = Visited
      BY <2>4 DEF Visited, sorting
    <3>2. (Sorted => Sorted') /\ (Counted => Counted') /\ (Smallest => Smallest')
      BY <2>4, <3>1 DEF Sorted, Counted, Smallest, sorting
    <3> QED BY <2>4, <3>1, <3>2 DEF SortInv, sorting
  <2>5. ASSUME NEW t \in Ids(definition), Complete(t)
        PROVE  SortInv'
    BY <2>4, <2>5 DEF Complete, SortInv
  <2>6. ASSUME NEW t \in Ids(definition), Retry(t)
        PROVE  SortInv'
    BY <2>4, <2>6 DEF Retry, SortInv
  <2>7. CASE UNCHANGED definitionVars
    BY <2>4, <2>7 DEF definitionVars, executing, SortInv
  <2> QED BY <2>1, <2>2, <2>3, <2>5, <2>6, <2>7 DEF DefinitionNext
<1> QED BY <1>1, <1>2, PTL DEF DefinitionSpec

\* A definition that Validate accepts never leaves a run without a task it can
\* start: the "stalled with unfinished tasks" branch of the scheduler is dead.
THEOREM AcceptedNeverStuck == DefinitionSpec => []NeverStuck
<1>1. SortInv => NeverStuck
  <2> SUFFICES ASSUME SortInv, phase = "accepted", completed # Ids(definition)
               PROVE  ReadyTasks(definition, completed) # {}
    BY DEF NeverStuck
  <2> DEFINE J == {i \in 1..Len(order) : order[i] \notin completed}
  <2>1. Sorted /\ Visited = Ids(definition) /\ Len(order) \in Nat
    BY DEF SortInv, Sorted
  <2>2. J # {} /\ J \in SUBSET Nat
    <3>1. PICK t \in Ids(definition) : t \notin completed
      BY DEF SortInv
    <3>2. PICK i \in 1..Len(order) : order[i] = t
      BY <2>1, <3>1 DEF Visited
    <3> QED BY <2>1, <3>1, <3>2
  <2>3. PICK i \in J : \A j \in J : i <= j
    <3> HIDE DEF J
    <3> QED BY <2>2, MinInSet
  <2>4. Before(order, i) \subseteq completed
    <3> SUFFICES ASSUME NEW j \in 1..i - 1 PROVE order[j] \in completed
      BY DEF Before
    <3> QED BY <2>1, <2>3
  <2>5. order[i] \in Ids(definition) /\ Deps(definition, order[i]) \subseteq completed
    BY <2>1, <2>4 DEF Sorted, Visited
  <2> QED BY <2>5 DEF ReadyTasks
<1> QED BY <1>1, SortIsRight, PTL

\* The order that TopologicalOrder returns is the lexicographically smallest
\* one in which every task follows its dependencies, and a cycle is reported
\* for exactly the graphs that have no such order.
THEOREM OrderFoundIsSmallest == DefinitionSpec => []OrderIsSmallest
<1>1. SortInv => OrderIsSmallest
  <2> SUFFICES ASSUME SortInv, phase = "accepted"
               PROVE  /\ order \in Orders(definition)
                      /\ \A p \in Orders(definition) : ~Smaller(p, order)
    BY DEF OrderIsSmallest, SortInv
  <2> DEFINE n == Cardinality(Ids(definition))
  <2>1. Sorted /\ Smallest /\ Visited = Ids(definition)
    BY DEF SortInv
  <2>2. Len(order) = n /\ Len(order) \in Nat /\ order \in [1..n -> Ids(definition)]
    BY <2>1 DEF Sorted
  <2> HIDE DEF n
  <2>3. \A i, j \in 1..n : order[i] = order[j] => i = j
    <3>1. IsFiniteSet(1..n) /\ Cardinality(1..n) = n
      BY <2>2, FS_Interval
    <3>2. order \in Surjection(1..n, Visited)
      BY <2>1, <2>2 DEF Surjection, Visited
    <3>3. order \in Injection(1..n, Visited)
      BY <2>1, <2>2, <3>1, <3>2, FS_Surjection DEF Sorted
    <3> QED BY <3>3 DEF Injection, IsInjective
  <2>4. order \in Orders(definition)
    BY <2>1, <2>2, <2>3 DEF Orders, Sorted, n
  <2>5. ASSUME NEW p \in Orders(definition), Smaller(p, order)
        PROVE  FALSE
    <3>1. p \in [1..n -> Ids(definition)]
      BY DEF Orders, n
    <3>2. PICK i \in 1..n : p[i] < order[i] /\ \A j \in 1..i - 1 : p[j] = order[j]
      BY <2>5, <3>1 DEF Smaller
    <3>3. order[i] <= p[i]
      BY <2>1, <2>2, <3>2 DEF Smallest
    <3>4. order[i] \in Nat /\ p[i] \in Nat
      <4>1. Ids(definition) \subseteq Nat
        BY <2>1, GraphFacts DEF SortInv, Sorted
      <4> QED BY <2>2, <3>1, <4>1
    <3> QED BY <3>2, <3>3, <3>4
  <2> QED BY <2>4, <2>5
<1> QED BY <1>1, SortIsRight, PTL
=============================================================================
