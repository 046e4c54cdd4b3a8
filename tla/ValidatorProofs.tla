-------------------------- MODULE ValidatorProofs --------------------------
(***************************************************************************)
(* The topological sort of the validator, and what a graph without errors   *)
(* is good for, for graphs of any size: it may be run, and the scheduler's   *)
(* theorems hold of it.                                                     *)
(*                                                                         *)
(* At every moment queue and open edges are a function of the order so far  *)
(* (Tracked), what is in the order has everything it depends on before it,  *)
(* and no knot has been entered (Untied).  When the queue is empty, what is *)
(* left over is therefore a knot, or nothing; and the order is as long as   *)
(* the list of nodes exactly when nothing is left and no id occurs twice.   *)
(*                                                                         *)
(* The recursive functions of the model are each solved once: one that      *)
(* counts rounds is an iteration (Recursion), one that looks back along the *)
(* order exists (Depths), and what they compute follows from the least      *)
(* argument at which it would not.  Ancestors are complete after as many    *)
(* rounds as there are nodes; the nodes of depth k are those that batch k   *)
(* adds, so depth and number of batches agree.                              *)
(***************************************************************************)
EXTENDS Validator, FiniteSetTheorems, WellFoundedInduction, TLAPS

Placed == {order[k] : k \in 1..Len(order)}

Tracked ==
  /\ open = {e \in Edges(nodes) : e[2] \notin Placed}
  /\ queue = {id \in NodeIds(nodes) : id \notin Placed /\ id \notin Into(open)}

Untied == \A S \in SUBSET NodeIds(nodes) : Knot(nodes, S) => S \cap Placed = {}

\* What a verdict on a graph of the right shape is made of.
Judged ==
  /\ verdict.errors = (UNION {NodeErrors(graph, i) : i \in DOMAIN nodes})
                      \cup MissingDependencies(graph) \cup CycleErrors
                      \cup BudgetErrors(graph, verdict.depth)
                      \cup RepairErrors(graph)
  /\ verdict.depth = Depth(nodes, order)

SortInv ==
  /\ stage \in {"idle", "sorting", "judged"}
  /\ submission \in Submissions
  /\ stage = "idle" => open = {} /\ queue = {} /\ order = <<>>
  /\ stage = "sorting" => Shaped
  /\ Shaped => order \in Seq(NodeIds(nodes)) /\ OrderRespectsDependencies
  /\ Shaped /\ stage # "idle" => Tracked /\ Untied
  /\ Sorted => queue = {} /\ Judged

-----------------------------------------------------------------------------
(* Graphs of the right shape.                                              *)

\* The nodes of a submission that got past the check of the shape are a list.
LEMMA ShapedNodes ==
  ASSUME submission \in Submissions, Shaped
  PROVE  Len(nodes) \in Nat /\ DOMAIN nodes = 1..Len(nodes)
<1>1. graph # Malformed
  BY DEF Shaped, ShapeIssues
<1>2. graph.nodes # Malformed
  BY <1>1 DEF Shaped, ShapeIssues
<1> QED
  BY <1>1, <1>2, SubmissionAssumption DEF graph, nodes

\* An edge joins a node of the graph to an id of the graph.
LEMMA EdgeParts ==
  ASSUME NEW e \in Edges(nodes)
  PROVE  /\ e[1] \in DOMAIN nodes /\ e[2] \in NodeIds(nodes)
         /\ e[2] \in nodes[e[1]].dependsOn
         /\ nodes[e[1]].id \in NodeIds(nodes)
BY DEF Edges, NodeIds

\* The ids of a list are finitely many, and as many as the list is long exactly
\* when none occurs twice.
LEMMA CountIds ==
  ASSUME NEW ns, Len(ns) \in Nat, DOMAIN ns = 1..Len(ns)
  PROVE  /\ IsFiniteSet(NodeIds(ns))
         /\ Cardinality(NodeIds(ns)) \in Nat
         /\ Cardinality(NodeIds(ns)) <= Len(ns)
         /\ Cardinality(NodeIds(ns)) = Len(ns) <=> ~Duplicated(ns)
<1> DEFINE f == [i \in 1..Len(ns) |-> ns[i].id]
<1>1. f \in Surjection(1..Len(ns), NodeIds(ns))
  BY DEF Surjection, NodeIds
<1>2. IsFiniteSet(1..Len(ns)) /\ Cardinality(1..Len(ns)) = Len(ns)
  <2>1. Len(ns) \in Int /\ 1 \in Int
    OBVIOUS
  <2>2. /\ IsFiniteSet(1..Len(ns))
        /\ Cardinality(1..Len(ns)) = IF 1 > Len(ns) THEN 0 ELSE Len(ns) - 1 + 1
    BY <2>1, FS_Interval
  <2> QED
    BY <2>2
<1>3. f \in Injection(1..Len(ns), NodeIds(ns)) <=> ~Duplicated(ns)
  BY <1>1 DEF Surjection, Injection, IsInjective, Duplicated
<1> HIDE DEF f
<1>4. /\ IsFiniteSet(NodeIds(ns)) /\ Cardinality(NodeIds(ns)) <= Len(ns)
      /\ Cardinality(NodeIds(ns)) = Len(ns) <=> ~Duplicated(ns)
  BY <1>1, <1>2, <1>3, FS_Surjection
<1> QED
  BY <1>4, FS_CardinalityType

\* An order without repetitions is as long as the set of what is in it.
LEMMA CountPlaced ==
  ASSUME NEW Ids, order \in Seq(Ids),
         \A k \in 1..Len(order) : \A j \in 1..(k - 1) : order[j] # order[k]
  PROVE  IsFiniteSet(Placed) /\ Cardinality(Placed) = Len(order)
<1>1. Len(order) \in Nat /\ order \in [1..Len(order) -> Ids]
  OBVIOUS
<1>2. order \in Surjection(1..Len(order), Placed)
  BY <1>1 DEF Surjection, Placed
<1>3. order \in Injection(1..Len(order), Placed)
  <2>1. \A j, k \in 1..Len(order) : j < k => order[j] # order[k]
    BY <1>1
  <2>2. \A j, k \in 1..Len(order) : j = k \/ j < k \/ k < j
    BY <1>1
  <2> QED
    BY <1>2, <2>1, <2>2 DEF Injection, IsInjective, Surjection
<1>4. IsFiniteSet(1..Len(order)) /\ Cardinality(1..Len(order)) = Len(order)
  BY <1>1, FS_Interval
<1> QED
  BY <1>2, <1>3, <1>4, FS_Surjection

\* No other rule reports a cycle.
LEMMA OnlyCycleErrors ==
  /\ \A g, i : "CYCLE_DETECTED" \notin NodeErrors(g, i)
  /\ \A g : "CYCLE_DETECTED" \notin MissingDependencies(g)
  /\ \A g, depth : "CYCLE_DETECTED" \notin BudgetErrors(g, depth)
  /\ \A g : "CYCLE_DETECTED" \notin RepairErrors(g)
<1>1. \A g, i : "CYCLE_DETECTED" \notin NodeErrors(g, i)
  BY DEF NodeErrors, When
<1>2. \A g : "CYCLE_DETECTED" \notin MissingDependencies(g)
  BY DEF MissingDependencies, When
<1>3. \A g, depth : "CYCLE_DETECTED" \notin BudgetErrors(g, depth)
  BY DEF BudgetErrors, When
<1>4. \A g : "CYCLE_DETECTED" \notin RepairErrors(g)
  BY DEF RepairErrors, When
<1> QED
  BY <1>1, <1>2, <1>3, <1>4

LEMMA CycleReported ==
  ASSUME Judged
  PROVE  "CYCLE_DETECTED" \in verdict.errors <=> Len(order) # Len(nodes)
<1>1. "CYCLE_DETECTED" \notin UNION {NodeErrors(graph, i) : i \in DOMAIN nodes}
  BY OnlyCycleErrors
<1>2. "CYCLE_DETECTED" \in verdict.errors <=> "CYCLE_DETECTED" \in CycleErrors
  BY <1>1, OnlyCycleErrors DEF Judged
<1> QED
  BY <1>2 DEF CycleErrors, When

-----------------------------------------------------------------------------
(* The invariant.                                                          *)

LEMMA SortInit == Init => SortInv
<1> SUFFICES ASSUME Init PROVE SortInv
  OBVIOUS
<1>1. Len(order) = 0
  BY DEF Init
<1>2. order \in Seq(NodeIds(nodes)) /\ OrderRespectsDependencies
  BY <1>1 DEF Init, OrderRespectsDependencies
<1> QED
  BY <1>2 DEF Init, SortInv, Sorted

LEMMA RefusePreserves == SortInv /\ Refuse => SortInv'
<1> SUFFICES ASSUME SortInv, Refuse PROVE SortInv'
  OBVIOUS
<1>1. ~Shaped /\ ~Shaped' /\ stage' = "judged" /\ UNCHANGED submission
  BY DEF Refuse, Shaped, graph
<1> QED
  BY <1>1 DEF SortInv, Sorted

LEMMA BeginSortPreserves == SortInv /\ BeginSort => SortInv'
<1> SUFFICES ASSUME SortInv, BeginSort PROVE SortInv'
  OBVIOUS
<1>1. /\ Shaped /\ Shaped' /\ stage' = "sorting"
      /\ UNCHANGED <<submission, order, nodes>>
      /\ order = <<>>
  BY DEF BeginSort, Shaped, graph, nodes, SortInv
<1>2. Placed = {} /\ Placed' = {}
  BY <1>1 DEF Placed
<1>3. Tracked'
  BY <1>1, <1>2 DEF Tracked, BeginSort, Into, Edges
<1>4. Untied'
  BY <1>2 DEF Untied
<1>5. OrderRespectsDependencies'
  BY <1>1 DEF SortInv, OrderRespectsDependencies
<1> QED
  BY <1>1, <1>3, <1>4, <1>5 DEF SortInv, Sorted

\* One iteration: the id taken has no open edge, so all it depends on is placed,
\* and it is in no knot.
LEMMA SortStepPreserves == SortInv /\ SortStep => SortInv'
<1> SUFFICES ASSUME SortInv, SortStep PROVE SortInv'
  OBVIOUS
<1>1. PICK id \in queue :
        LET released == {e \in open : e[2] = id}
        IN /\ order' = Append(order, id)
           /\ open' = open \ released
           /\ queue' = (queue \ {id}) \cup Freed(released, open \ released)
  BY DEF SortStep
<1>2. /\ Shaped /\ Shaped' /\ stage = "sorting" /\ stage' = "sorting"
      /\ UNCHANGED <<submission, nodes>>
  BY DEF SortStep, Shaped, graph, nodes, SortInv
<1>3. /\ Tracked /\ Untied /\ order \in Seq(NodeIds(nodes))
      /\ OrderRespectsDependencies
  BY <1>2 DEF SortInv
<1>4. /\ id \in NodeIds(nodes) /\ id \notin Placed
      /\ \A e \in open : nodes[e[1]].id # id
  BY <1>3 DEF Tracked, Into
<1>5. /\ order' \in Seq(NodeIds(nodes)) /\ Len(order') = Len(order) + 1
      /\ Len(order) \in Nat
      /\ \A k \in 1..Len(order) : order'[k] = order[k]
      /\ order'[Len(order) + 1] = id
  BY <1>1, <1>3, <1>4
<1>6. Placed' = Placed \cup {id}
  <2>1. 1..Len(order') = (1..Len(order)) \cup {Len(order) + 1}
    BY <1>5
  <2>2. Placed' = {order'[k] : k \in 1..Len(order)} \cup {order'[Len(order) + 1]}
    BY <2>1 DEF Placed
  <2> QED
    BY <1>5, <2>2 DEF Placed
<1>7. Tracked'
  <2>1. open' = {e \in Edges(nodes) : e[2] \notin Placed'}
    BY <1>1, <1>3, <1>6 DEF Tracked
  <2>2. queue' = {x \in NodeIds(nodes) : x \notin Placed' /\ x \notin Into(open')}
    <3> DEFINE released == {e \in open : e[2] = id}
    <3>1. open = released \cup open' /\ released \subseteq Edges(nodes)
      BY <1>1, <1>3 DEF Tracked
    <3>2. Into(open) = Into(released) \cup Into(open')
      BY <3>1 DEF Into
    <3>3. Into(released) \subseteq NodeIds(nodes)
      BY <3>1, EdgeParts DEF Into
    <3>4. Into(released) \cap Placed' = {}
      <4> SUFFICES ASSUME NEW e \in released, nodes[e[1]].id \in Placed'
                   PROVE  FALSE
        BY DEF Into
      <4>1. e \in Edges(nodes) /\ e[2] = id /\ e \in open
        BY <3>1
      <4>2. nodes[e[1]].id # id
        BY <1>4, <4>1
      <4>3. PICK k \in 1..Len(order) : order[k] = nodes[e[1]].id
        BY <1>6, <4>2 DEF Placed
      <4>4. \E j \in 1..(k - 1) : order[j] = id
        BY <1>2, <1>3, <4>1, <4>3, EdgeParts DEF OrderRespectsDependencies
      <4> QED
        BY <1>4, <1>5, <4>3, <4>4 DEF Placed
    <3>5. queue' = (queue \ {id}) \cup (Into(released) \ Into(open'))
      BY <1>1 DEF Freed
    <3> HIDE DEF released
    <3>6. queue = {x \in NodeIds(nodes) : x \notin Placed /\ x \notin Into(open)}
      BY <1>3 DEF Tracked
    <3> QED
      BY <1>4, <1>6, <3>2, <3>3, <3>4, <3>5, <3>6
  <2> QED
    BY <1>2, <2>1, <2>2 DEF Tracked, Into
<1>8. Untied'
  <2> SUFFICES ASSUME NEW S \in SUBSET NodeIds(nodes), Knot(nodes, S), id \in S
               PROVE  FALSE
    BY <1>2, <1>3, <1>6 DEF Untied, Knot
  <2>1. PICK i \in DOMAIN nodes : nodes[i].id = id /\ nodes[i].dependsOn \cap S # {}
    BY DEF Knot
  <2>2. PICK d \in S : d \in nodes[i].dependsOn
    BY <2>1
  <2>3. d \notin Placed /\ d \in NodeIds(nodes)
    BY <1>3 DEF Untied
  <2>4. <<i, d>> \in open
    BY <1>3, <2>2, <2>3 DEF Tracked, Edges
  <2> QED
    BY <1>4, <2>1, <2>4
<1>9. OrderRespectsDependencies'
  <2> SUFFICES ASSUME NEW k \in 1..Len(order')
               PROVE  /\ \A j \in 1..(k - 1) : order'[j] # order'[k]
                      /\ \A i \in DOMAIN nodes :
                           nodes[i].id = order'[k] =>
                             \A d \in nodes[i].dependsOn \cap NodeIds(nodes) :
                               \E j \in 1..(k - 1) : order'[j] = d
    BY <1>2 DEF OrderRespectsDependencies
  <2>1. CASE k \in 1..Len(order)
    <3>1. \A j \in 1..(k - 1) : order'[j] = order[j]
      BY <1>5, <2>1
    <3> QED
      BY <1>2, <1>3, <1>5, <2>1, <3>1 DEF OrderRespectsDependencies
  <2>2. CASE k = Len(order) + 1
    <3>1. \A j \in 1..(k - 1) : order'[j] # id
      BY <1>4, <1>5, <2>2 DEF Placed
    <3>2. ASSUME NEW i \in DOMAIN nodes, nodes[i].id = id,
                 NEW d \in nodes[i].dependsOn \cap NodeIds(nodes)
          PROVE  \E j \in 1..(k - 1) : order'[j] = d
      <4>1. <<i, d>> \in Edges(nodes) /\ <<i, d>> \notin open
        BY <1>4, <3>2 DEF Edges
      <4>2. d \in Placed
        BY <1>3, <4>1 DEF Tracked
      <4> QED
        BY <1>5, <2>2, <4>2 DEF Placed
    <3>3. order'[k] = id
      BY <1>5, <2>2
    <3> QED
      BY <3>1, <3>2, <3>3
  <2> QED
    BY <1>5, <2>1, <2>2
<1> QED
  BY <1>2, <1>5, <1>7, <1>8, <1>9 DEF SortInv, Sorted, SortStep

LEMMA JudgePreserves == SortInv /\ Judge => SortInv'
<1> SUFFICES ASSUME SortInv, Judge PROVE SortInv'
  OBVIOUS
<1>1. /\ Shaped /\ Shaped' /\ stage = "sorting" /\ stage' = "judged"
      /\ queue = {} /\ UNCHANGED <<submission, nodes, open, queue, order>>
  BY DEF Judge, Shaped, graph, nodes, SortInv
<1>2. Tracked' /\ Untied' /\ OrderRespectsDependencies'
      /\ order' \in Seq(NodeIds(nodes'))
  BY <1>1 DEF SortInv, Tracked, Untied, OrderRespectsDependencies, Placed, Into
<1>3. Judged'
  BY <1>1 DEF Judge, Judged, CycleErrors, graph
<1> QED
  BY <1>1, <1>2, <1>3 DEF SortInv, Sorted

LEMMA SortInvariant == Spec => []SortInv
<1>1. SortInv /\ UNCHANGED vars => SortInv'
  <2> SUFFICES ASSUME SortInv, UNCHANGED vars PROVE SortInv'
    OBVIOUS
  <2>1. UNCHANGED <<stage, submission, open, queue, order, verdict, nodes, Shaped,
                    Sorted>>
    BY DEF vars, nodes, graph, Shaped, Sorted
  <2>2. UNCHANGED <<Placed, Tracked, Untied, OrderRespectsDependencies, Judged>>
    BY <2>1 DEF Placed, Tracked, Untied, OrderRespectsDependencies, Judged,
                CycleErrors, Into, graph
  <2> QED
    BY <2>1, <2>2 DEF SortInv
<1>2. SortInv /\ [Next]_vars => SortInv'
  BY <1>1, RefusePreserves, BeginSortPreserves, SortStepPreserves,
     JudgePreserves DEF Next
<1> QED
  BY <1>2, SortInit, PTL DEF Spec

\* The order is as long as the list of nodes exactly when it is of all the ids
\* and no id occurs twice.
LEMMA Complete ==
  ASSUME SortInv, Sorted
  PROVE  /\ Len(order) = Cardinality(Placed) /\ Placed \subseteq NodeIds(nodes)
         /\ Len(order) = Len(nodes) <=> NodeIds(nodes) = Placed /\ ~Duplicated(nodes)
<1>1. /\ order \in Seq(NodeIds(nodes)) /\ OrderRespectsDependencies /\ Shaped
      /\ Len(nodes) \in Nat /\ DOMAIN nodes = 1..Len(nodes)
  BY ShapedNodes DEF SortInv, Sorted
<1>2. IsFiniteSet(Placed) /\ Cardinality(Placed) = Len(order)
  BY <1>1, CountPlaced DEF OrderRespectsDependencies
<1>3. Placed \subseteq NodeIds(nodes)
  BY <1>1 DEF Placed
<1>4. /\ IsFiniteSet(NodeIds(nodes)) /\ Cardinality(NodeIds(nodes)) \in Nat
      /\ Cardinality(NodeIds(nodes)) <= Len(nodes)
      /\ Cardinality(NodeIds(nodes)) = Len(nodes) <=> ~Duplicated(nodes)
  BY <1>1, CountIds
<1>5. /\ Cardinality(Placed) <= Cardinality(NodeIds(nodes))
      /\ Cardinality(NodeIds(nodes)) = Cardinality(Placed)
           => NodeIds(nodes) = Placed
  BY <1>3, <1>4, FS_Subset
<1>6. Len(order) \in Nat
  BY <1>1
<1> QED
  BY <1>2, <1>3, <1>4, <1>5, <1>6

-----------------------------------------------------------------------------
(* Recursion over the natural numbers: that a recursive definition has a     *)
(* solution, and what the least counterexample shows of it.                  *)

LEMMA LeastOf ==
  ASSUME NEW S \in SUBSET Nat, S # {}
  PROVE  \E m \in S : \A k \in S : m <= k
<1> DEFINE Less == {p \in Nat \X Nat : p[1] < p[2]}
<1>1. IsWellFoundedOn(Less, Nat)
  BY NatLessThanWellFounded DEF OpToRel
<1>2. PICK m \in S : \A k \in S : ~ (<<k, m>> \in Less)
  <2> HIDE DEF Less
  <2> QED
    BY <1>1, WFMin
<1>3. ASSUME NEW k \in S PROVE m <= k
  <2>1. <<k, m>> \notin Less /\ m \in Nat /\ k \in Nat
    BY <1>2
  <2> QED
    BY <2>1
<1> QED
  BY <1>3

\* A set of numbers that holds 0, and with k also k + 1, holds them all.
LEMMA Inductively ==
  ASSUME NEW S, 0 \in S, \A k \in Nat : k \in S => k + 1 \in S PROVE Nat \subseteq S
<1> SUFFICES ASSUME Nat \ S # {} PROVE FALSE
  OBVIOUS
<1>1. PICK m \in Nat \ S : \A k \in Nat \ S : m <= k
  BY LeastOf
<1>2. m - 1 \in Nat /\ m - 1 \in S
  BY <1>1
<1> QED
  BY <1>1, <1>2

\* A step may be iterated.
LEMMA Iteration ==
  ASSUME NEW D, NEW x \in D, NEW step \in [D -> D]
  PROVE  \E f \in [Nat -> D] : f[0] = x /\ \A k \in Nat : f[k + 1] = step[f[k]]
<1> DEFINE Upto(g, n) == /\ g \in [0..n -> D] /\ g[0] = x
                         /\ \A k \in 0..(n - 1) : g[k + 1] = step[g[k]]
<1>1. \A n \in Nat : \E g : Upto(g, n)
  <2> DEFINE S == {n \in Nat : \E g : Upto(g, n)}
  <2>1. 0 \in S
    <3>1. Upto([k \in 0..0 |-> x], 0)
      OBVIOUS
    <3> QED
      BY <3>1
  <2>2. ASSUME NEW n \in Nat, n \in S PROVE n + 1 \in S
    <3>1. PICK g : Upto(g, n)
      BY <2>2
    <3> DEFINE h == [k \in 0..(n + 1) |-> IF k = n + 1 THEN step[g[n]] ELSE g[k]]
    <3>2. h \in [0..(n + 1) -> D] /\ h[0] = x
      BY <3>1
    <3>3. ASSUME NEW k \in 0..n PROVE h[k + 1] = step[h[k]]
      <4>1. CASE k = n
        BY <3>1, <4>1
      <4>2. CASE k # n
        <5>1. k \in 0..(n - 1) /\ k + 1 \in 0..n /\ k \in 0..n
          BY <3>3, <4>2
        <5>2. g[k + 1] = step[g[k]]
          BY <3>1, <5>1
        <5> QED
          BY <5>1, <5>2
      <4> QED
        BY <4>1, <4>2
    <3>4. Upto(h, n + 1)
      BY <3>2, <3>3
    <3> HIDE DEF h, Upto
    <3> QED
      BY <3>4
  <2> HIDE DEF S
  <2>3. Nat \subseteq S
    BY <2>1, <2>2, Inductively
  <2> QED
    BY <2>3 DEF S
<1>2. ASSUME NEW n \in Nat, NEW m \in Nat, NEW g, NEW h, Upto(g, n), Upto(h, m)
      PROVE  \A k \in Nat : k <= n /\ k <= m => g[k] = h[k]
  <2> DEFINE S == {k \in Nat : k <= n /\ k <= m => g[k] = h[k]}
  <2>1. 0 \in S
    BY <1>2
  <2>2. ASSUME NEW k \in Nat, k \in S PROVE k + 1 \in S
    <3> SUFFICES ASSUME k + 1 <= n, k + 1 <= m PROVE g[k + 1] = h[k + 1]
      OBVIOUS
    <3>1. k \in 0..(n - 1) /\ k \in 0..(m - 1) /\ g[k] = h[k]
      BY <2>2
    <3> QED
      BY <1>2, <3>1
  <2> HIDE DEF S
  <2>3. Nat \subseteq S
    BY <2>1, <2>2, Inductively
  <2> QED
    BY <2>3 DEF S
<1> DEFINE G(n) == CHOOSE g : Upto(g, n)
           f == [n \in Nat |-> G(n)[n]]
<1>3. \A n \in Nat : Upto(G(n), n)
  BY <1>1
<1>4. \A n \in Nat : f[n] = G(n)[n]
  OBVIOUS
<1> HIDE DEF G
<1>5. f \in [Nat -> D] /\ f[0] = x
  BY <1>3
<1>6. ASSUME NEW k \in Nat PROVE f[k + 1] = step[f[k]]
  <2>1. Upto(G(k), k) /\ Upto(G(k + 1), k + 1)
    BY <1>3
  <2>2. G(k)[k] = G(k + 1)[k]
    <3>1. k + 1 \in Nat /\ k <= k /\ k <= k + 1
      OBVIOUS
    <3> HIDE DEF Upto
    <3> QED
      BY <1>2, <2>1, <3>1
  <2>3. G(k + 1)[k + 1] = step[G(k + 1)[k]]
    BY <2>1
  <2> QED
    BY <1>4, <2>2, <2>3
<1> QED
  BY <1>5, <1>6

\* So may one that looks at all there has been.
Prefix(s, k) == [i \in 1..k |-> s[i]]

LEMMA Recursion ==
  ASSUME NEW D, NEW n \in Nat, NEW step \in [Seq(D) -> D]
  PROVE  \E s \in [1..n -> D] : \A k \in 1..n : s[k] = step[Prefix(s, k - 1)]
<1> DEFINE Solves(s, m) ==
             /\ s \in [1..m -> D]
             /\ \A k \in 1..m : s[k] = step[Prefix(s, k - 1)]
           S == {m \in Nat : \E s : Solves(s, m)}
<1>1. 0 \in S
  <2>1. Solves([i \in 1..0 |-> step[<<>>]], 0)
    OBVIOUS
  <2> QED
    BY <2>1
<1>2. ASSUME NEW m \in Nat, m \in S PROVE m + 1 \in S
  <2>1. PICK s : Solves(s, m)
    BY <1>2
  <2> DEFINE t == [k \in 1..(m + 1) |-> IF k = m + 1 THEN step[s] ELSE s[k]]
  <2>2. s \in Seq(D) /\ s = Prefix(s, m)
    BY <2>1 DEF Prefix
  <2>3. t \in [1..(m + 1) -> D] /\ t[m + 1] = step[s] /\ \A i \in 1..m : t[i] = s[i]
    BY <2>1, <2>2
  <2> HIDE DEF t
  <2>4. ASSUME NEW k \in 1..(m + 1) PROVE t[k] = step[Prefix(t, k - 1)]
    <3>1. Prefix(t, k - 1) = Prefix(s, k - 1)
      BY <2>3 DEF Prefix
    <3>2. CASE k = m + 1
      <4>1. Prefix(s, k - 1) = s
        BY <2>2, <3>2
      <4> QED
        BY <2>3, <3>1, <3>2, <4>1
    <3>3. CASE k # m + 1
      <4>1. k \in 1..m
        BY <3>3
      <4>2. s[k] = step[Prefix(s, k - 1)]
        BY <2>1, <4>1
      <4> QED
        BY <2>3, <3>1, <4>1, <4>2
    <3> QED
      BY <3>2, <3>3
  <2>5. Solves(t, m + 1)
    BY <2>3, <2>4
  <2> HIDE DEF Solves
  <2> QED
    BY <2>5
<1> HIDE DEF S
<1>3. Nat \subseteq S
  BY <1>1, <1>2, Inductively
<1> QED
  BY <1>3 DEF S

-----------------------------------------------------------------------------
(* Ancestors and gates.                                                    *)

\* o is an order of all the nodes of ns in which each comes after what it depends
\* on: what the sort makes of a graph without errors.
Sequenced(ns, o) ==
  /\ Len(ns) \in Nat /\ DOMAIN ns = 1..Len(ns) /\ ~Duplicated(ns)
  /\ o \in Seq(NodeIds(ns)) /\ Len(o) = Len(ns)
  /\ \A id \in NodeIds(ns) : \E k \in 1..Len(o) : o[k] = id
  /\ \A j, k \in 1..Len(o) : j < k => o[j] # o[k]
  /\ \A k \in 1..Len(o) :
       \A d \in DependsOn(ns, o[k]) : \E j \in 1..(k - 1) : o[j] = d

\* Without duplicates byId finds the node itself.
LEMMA FoundById ==
  ASSUME NEW ns, ~Duplicated(ns), DOMAIN ns \subseteq Nat, NEW i \in DOMAIN ns
  PROVE  ById(ns, ns[i].id) = ns[i] /\ DependsOn(ns, ns[i].id) = ns[i].dependsOn
<1>1. \A j \in DOMAIN ns : ns[j].id = ns[i].id => j = i
  BY DEF Duplicated
<1>2. i \in DOMAIN ns /\ \A l \in DOMAIN ns : ns[l].id = ns[i].id => l <= i
  BY <1>1
<1> QED
  BY <1>1, <1>2 DEF ById, DependsOn, NodeIds

\* What AncestorIds has visited after each of its rounds.
Within(ns, id) ==
  CHOOSE w : w = [k \in Nat |->
                    IF k = 0 THEN DependsOn(ns, id)
                    ELSE w[k - 1] \cup UNION {DependsOn(ns, m) : m \in w[k - 1]}]

LEMMA WithinRounds ==
  ASSUME NEW ns, NEW id, Len(ns) \in Nat
  PROVE  /\ AncestorIds(ns, id) = Within(ns, id)[Len(ns)]
         /\ Within(ns, id)[0] = DependsOn(ns, id)
         /\ \A k \in Nat :
              Within(ns, id)[k + 1] =
                Within(ns, id)[k] \cup UNION {DependsOn(ns, m) : m \in Within(ns, id)[k]}
<1> DEFINE all == DependsOn(ns, id) \cup UNION {DependsOn(ns, m) : m \in NodeIds(ns)}
           next(X) == X \cup UNION {DependsOn(ns, m) : m \in X}
           D == SUBSET all
           step == [X \in D |-> next(X)]
           Solves(w) == w = [k \in Nat |-> IF k = 0 THEN DependsOn(ns, id)
                                           ELSE next(w[k - 1])]
<1>1. \A m : m \notin NodeIds(ns) => DependsOn(ns, m) = {}
  BY DEF DependsOn
<1>2. \A X \in D : next(X) \in D
  BY <1>1
<1>3. step \in [D -> D] /\ DependsOn(ns, id) \in D
  BY <1>2
<1>4. \A X \in D : step[X] = next(X)
  OBVIOUS
<1>5. PICK f \in [Nat -> D] :
        f[0] = DependsOn(ns, id) /\ \A k \in Nat : f[k + 1] = step[f[k]]
  <2> HIDE DEF step, D, next
  <2>1. PICK E, F : E = D /\ F = step
    OBVIOUS
  <2>2. PICK x : x = DependsOn(ns, id)
    OBVIOUS
  <2>3. F \in [E -> E] /\ x \in E
    BY <1>3, <2>1, <2>2
  <2>4. \E f \in [Nat -> E] : f[0] = x /\ \A k \in Nat : f[k + 1] = F[f[k]]
    BY ONLY <2>3, Iteration
  <2> QED
    BY <2>1, <2>2, <2>4
<1> HIDE DEF step, D
<1>6. \A k \in Nat : f[k + 1] = next(f[k])
  BY <1>4, <1>5
<1> HIDE DEF next
<1>7. Solves(f)
  <2>1. ASSUME NEW k \in Nat
        PROVE  f[k] = IF k = 0 THEN DependsOn(ns, id) ELSE next(f[k - 1])
    <3>1. k = 0 \/ (k - 1 \in Nat /\ (k - 1) + 1 = k)
      OBVIOUS
    <3> QED
      BY <1>5, <1>6, <3>1
  <2>2. f = [k \in Nat |-> f[k]]
    BY <1>5
  <2> QED
    BY <2>1, <2>2
<1>8. Within(ns, id) = CHOOSE w : Solves(w)
  BY DEF Within, next
<1>9. Solves(Within(ns, id))
  <2> HIDE DEF Solves
  <2> QED
    BY <1>7, <1>8
<1>10. Within(ns, id)[0] = DependsOn(ns, id)
  BY <1>9
<1>11. ASSUME NEW k \in Nat PROVE Within(ns, id)[k + 1] = next(Within(ns, id)[k])
  <2>1. k + 1 \in Nat /\ k + 1 # 0 /\ (k + 1) - 1 = k
    OBVIOUS
  <2> QED
    BY <1>9, <2>1
<1>12. AncestorIds(ns, id) = Within(ns, id)[Len(ns)]
  BY DEF AncestorIds, Within
<1> QED
  BY <1>10, <1>11, <1>12 DEF next

\* A history asks for what its nodes depend on, under the id of the node.
LEMMA HistoryOfIds ==
  ASSUME NEW ns, NEW o, Sequenced(ns, o), NEW H \in SUBSET NodeIds(ns)
  PROVE  H \in Histories(ns) <=> \A m \in H : DependsOn(ns, m) \subseteq H
<1>1. \A i \in DOMAIN ns : DependsOn(ns, ns[i].id) = ns[i].dependsOn
  BY FoundById DEF Sequenced
<1>2. \A m \in H : \E i \in DOMAIN ns : ns[i].id = m
  BY DEF NodeIds
<1> QED
  BY <1>1, <1>2 DEF Histories

\* Everything among the ancestors of a node has been there before the node, in any
\* run that respects dependencies.
LEMMA AncestorsHappened ==
  ASSUME NEW ns, NEW o, Sequenced(ns, o), NEW H \in Histories(ns),
         NEW id, DependsOn(ns, id) \subseteq H
  PROVE  AncestorIds(ns, id) \subseteq H
<1> DEFINE S == {k \in Nat : Within(ns, id)[k] \subseteq H}
<1>1. \A m \in H : DependsOn(ns, m) \subseteq H
  BY HistoryOfIds DEF Histories
<1>2. Len(ns) \in Nat
  BY DEF Sequenced
<1>3. 0 \in S
  BY <1>1, <1>2, WithinRounds
<1>4. ASSUME NEW k \in Nat, k \in S PROVE k + 1 \in S
  <2>1. Within(ns, id)[k + 1] =
          Within(ns, id)[k] \cup UNION {DependsOn(ns, m) : m \in Within(ns, id)[k]}
    BY <1>2, WithinRounds
  <2>2. Within(ns, id)[k] \subseteq H
    BY <1>4
  <2>3. Within(ns, id)[k + 1] \subseteq H
    BY <1>1, <2>1, <2>2
  <2> QED
    BY <2>3
<1> HIDE DEF S
<1>5. Nat \subseteq S
  BY <1>3, <1>4, Inductively
<1>6. Len(ns) \in S
  BY <1>2, <1>5
<1>7. Within(ns, id)[Len(ns)] \subseteq H
  BY <1>6 DEF S
<1> QED
  BY <1>2, <1>7, WithinRounds

\* What a round adds lies one place further towards the beginning of the order, so
\* that as many rounds as there are nodes find everything.
LEMMA AncestorsComplete ==
  ASSUME NEW ns, NEW o, Sequenced(ns, o), NEW id \in NodeIds(ns)
  PROVE  /\ AncestorIds(ns, id) \in Histories(ns)
         /\ DependsOn(ns, id) \subseteq AncestorIds(ns, id)
         /\ {id} \cup AncestorIds(ns, id) \in Histories(ns)
<1> DEFINE W(k) == Within(ns, id)[k]
           last == Len(ns)
           S == {k \in Nat :
                   /\ W(0) \subseteq W(k) /\ W(k) \subseteq NodeIds(ns)
                   /\ \A m \in W(k + 1) :
                        m \in W(k) \/ \E j \in 1..last : o[j] = m /\ j <= last - 2 - k}
<1>1. last \in Nat /\ DOMAIN ns = 1..last /\ ~Duplicated(ns) /\ Len(o) = last
  BY DEF Sequenced
<1>2. /\ W(0) = DependsOn(ns, id)
      /\ \A k \in Nat : W(k + 1) = W(k) \cup UNION {DependsOn(ns, m) : m \in W(k)}
      /\ AncestorIds(ns, id) = W(last)
  BY <1>1, WithinRounds
<1>3. \A m : m \notin NodeIds(ns) => DependsOn(ns, m) = {}
  BY DEF DependsOn
<1> HIDE DEF W, last
<1>4. ASSUME NEW j \in 1..last, NEW d \in DependsOn(ns, o[j])
      PROVE  \E i \in 1..last : i < j /\ o[i] = d
  <2>1. PICK i \in 1..(j - 1) : o[i] = d
    BY <1>1, <1>4 DEF Sequenced
  <2>2. i \in 1..last /\ i < j
    BY <1>1
  <2> QED
    BY <2>1, <2>2
<1>5. \A i \in 1..last : o[i] \in NodeIds(ns)
  BY <1>1 DEF Sequenced
<1>6. \A m : DependsOn(ns, m) \subseteq NodeIds(ns)
  <2> SUFFICES ASSUME NEW m \in NodeIds(ns), NEW d \in DependsOn(ns, m)
               PROVE  d \in NodeIds(ns)
    BY <1>3
  <2>1. PICK j \in 1..last : o[j] = m
    BY <1>1 DEF Sequenced
  <2> QED
    BY <1>4, <1>5, <2>1
<1>7. 0 \in S
  <2> SUFFICES ASSUME NEW m \in W(0 + 1), m \notin W(0)
               PROVE  \E j \in 1..last : o[j] = m /\ j <= last - 2 - 0
    BY <1>2, <1>6
  <2>1. PICK x \in W(0) : m \in DependsOn(ns, x)
    BY <1>2
  <2>2. PICK p \in 1..last : o[p] = id
    BY <1>1 DEF Sequenced
  <2>3. PICK q \in 1..last : q < p /\ o[q] = x
    BY <1>2, <1>4, <2>1, <2>2
  <2>4. PICK r \in 1..last : r < q /\ o[r] = m
    BY <1>4, <2>1, <2>3
  <2>5. r <= last - 2 - 0
    BY <1>1, <2>2, <2>3, <2>4
  <2> QED
    BY <2>4, <2>5
<1>8. ASSUME NEW k \in Nat, k \in S PROVE k + 1 \in S
  <2>1. /\ W(0) \subseteq W(k) /\ W(k) \subseteq NodeIds(ns)
        /\ \A m \in W(k + 1) :
             m \in W(k) \/ \E j \in 1..last : o[j] = m /\ j <= last - 2 - k
    BY <1>8
  <2>2. /\ W(k + 1) = W(k) \cup UNION {DependsOn(ns, m) : m \in W(k)}
        /\ W(k + 1 + 1) = W(k + 1) \cup UNION {DependsOn(ns, m) : m \in W(k + 1)}
        /\ k + 1 \in Nat
    BY <1>2
  <2>3. W(0) \subseteq W(k + 1) /\ W(k + 1) \subseteq NodeIds(ns)
    BY <1>6, <2>1, <2>2
  <2>4. ASSUME NEW m \in W(k + 1 + 1), m \notin W(k + 1)
        PROVE  \E j \in 1..last : o[j] = m /\ j <= last - 2 - (k + 1)
    <3>1. PICK x \in W(k + 1) : m \in DependsOn(ns, x)
      BY <2>2, <2>4
    <3>2. x \notin W(k)
      BY <2>2, <2>4, <3>1
    <3>3. PICK q \in 1..last : o[q] = x /\ q <= last - 2 - k
      BY <2>1, <3>2
    <3>4. PICK r \in 1..last : r < q /\ o[r] = m
      BY <1>4, <3>1, <3>3
    <3>5. r <= last - 2 - (k + 1)
      BY <1>1, <3>3, <3>4
    <3> QED
      BY <3>4, <3>5
  <2> QED
    BY <2>2, <2>3, <2>4
<1>9. last \in S
  <2> HIDE DEF S
  <2>1. Nat \subseteq S
    BY <1>7, <1>8, Inductively
  <2> QED
    BY <1>1, <2>1
<1>10. W(last + 1) = W(last) /\ W(0) \subseteq W(last) /\ W(last) \subseteq NodeIds(ns)
  <2>1. \A m \in W(last + 1) : m \in W(last)
    BY <1>1, <1>9
  <2> QED
    BY <1>1, <1>2, <1>9, <2>1
<1>11. \A m \in {id} \cup W(last) : DependsOn(ns, m) \subseteq W(last)
  BY <1>1, <1>2, <1>10
<1>12. W(last) \in Histories(ns) /\ {id} \cup W(last) \in Histories(ns)
  BY <1>10, <1>11, HistoryOfIds
<1> QED
  BY <1>2, <1>10, <1>12

\* The ancestors are the transitive closure of the dependencies.
LEMMA AncestorsClosed ==
  ASSUME NEW ns, NEW o, Sequenced(ns, o), NEW id \in NodeIds(ns)
  PROVE  /\ DependsOn(ns, id) \subseteq NodeIds(ns)
         /\ AncestorIds(ns, id) \subseteq NodeIds(ns)
         /\ AncestorIds(ns, id) =
              DependsOn(ns, id) \cup UNION {AncestorIds(ns, m) : m \in DependsOn(ns, id)}
<1> DEFINE A(n) == AncestorIds(ns, n)
           D(n) == DependsOn(ns, n)
           H == D(id) \cup UNION {A(m) : m \in D(id)}
<1>1. \A n \in NodeIds(ns) : A(n) \in Histories(ns) /\ D(n) \subseteq A(n)
  BY AncestorsComplete
<1>2. \A n \in NodeIds(ns) : A(n) \subseteq NodeIds(ns) /\ D(n) \subseteq NodeIds(ns)
  BY <1>1 DEF Histories
<1>3. \A n \in NodeIds(ns) : \A m \in A(n) : D(m) \subseteq A(n)
  BY <1>1, <1>2, HistoryOfIds
<1>4. ASSUME NEW m \in D(id) PROVE A(m) \subseteq A(id)
  <2>1. D(m) \subseteq A(id)
    BY <1>1, <1>3
  <2> QED
    BY <1>1, <2>1, AncestorsHappened
<1>5. H \in Histories(ns)
  <2> HIDE DEF A, D
  <2>1. H \subseteq NodeIds(ns)
    BY <1>2
  <2>2. \A x \in H : D(x) \subseteq H
    BY <1>1, <1>2, <1>3
  <2> QED
    BY <2>1, <2>2, HistoryOfIds DEF D
<1>6. A(id) \subseteq H
  BY <1>5, AncestorsHappened
<1> QED
  BY <1>1, <1>2, <1>4, <1>6

-----------------------------------------------------------------------------
(* Depths and batches.                                                     *)

Greatest(S) == IF S = {} THEN 0 ELSE CHOOSE m \in S : \A k \in S : k <= m
Over(f, I) == Greatest({f[i] : i \in I})

\* The greatest of some values of a finite sequence of numbers is one of them.
LEMMA GreatestOf ==
  ASSUME NEW S \in SUBSET Nat, NEW b \in Nat, \A x \in S : x <= b
  PROVE  /\ Greatest(S) \in Nat /\ \A x \in S : x <= Greatest(S)
         /\ S # {} => Greatest(S) \in S
<1>1. CASE S = {}
  BY <1>1 DEF Greatest
<1>2. CASE S # {}
  <2> DEFINE Above == {m \in Nat : \A x \in S : x <= m}
  <2>1. PICK m \in Above : \A k \in Above : m <= k
    <3>1. b \in Above
      OBVIOUS
    <3> HIDE DEF Above
    <3>2. Above \in SUBSET Nat /\ Above # {}
      BY <3>1 DEF Above
    <3> QED
      BY <3>2, LeastOf
  <2>2. m \in S
    <3> SUFFICES ASSUME m \notin S PROVE FALSE
      OBVIOUS
    <3>1. \A x \in S : x <= m - 1
      BY <2>1
    <3>2. m - 1 \in Nat
      <4>1. PICK x \in S : x <= m - 1
        BY <1>2, <3>1
      <4>2. x \in Nat /\ m \in Nat
        BY <2>1
      <4> QED
        BY <4>1, <4>2
    <3>3. m - 1 \in Above
      BY <3>1, <3>2
    <3> QED
      BY <2>1, <3>3
  <2>3. \A x \in S : x <= m
    BY <2>1
  <2>4. Greatest(S) \in S /\ \A x \in S : x <= Greatest(S)
    BY <1>2, <2>2, <2>3 DEF Greatest
  <2> QED
    BY <2>4
<1> QED
  BY <1>1, <1>2

\* A finite sequence of numbers is bounded.
LEMMA Bounded ==
  ASSUME NEW n \in Nat, NEW s \in [1..n -> Nat]
  PROVE  \E b \in Nat : \A i \in 1..n : s[i] <= b
<1> DEFINE S == {k \in Nat : k <= n => \E b \in Nat : \A i \in 1..k : s[i] <= b}
<1>1. 0 \in S
  OBVIOUS
<1>2. ASSUME NEW k \in Nat, k \in S PROVE k + 1 \in S
  <2> SUFFICES ASSUME k + 1 <= n
               PROVE  \E b \in Nat : \A i \in 1..(k + 1) : s[i] <= b
    OBVIOUS
  <2>1. PICK b \in Nat : \A i \in 1..k : s[i] <= b
    BY <1>2
  <2>2. s[k + 1] \in Nat
    OBVIOUS
  <2>3. b + s[k + 1] \in Nat
    BY <2>2
  <2>4. ASSUME NEW i \in 1..(k + 1) PROVE s[i] <= b + s[k + 1]
    <3>1. s[i] \in Nat /\ (i = k + 1 \/ i \in 1..k)
      OBVIOUS
    <3> QED
      BY <2>1, <2>2, <3>1
  <2> QED
    BY <2>3, <2>4
<1> HIDE DEF S
<1>3. n \in S
  BY <1>1, <1>2, Inductively
<1> QED
  BY <1>3 DEF S

\* So the greatest of some of its values has what one expects of it.
LEMMA GreatestIn ==
  ASSUME NEW n \in Nat, NEW s \in [1..n -> Nat], NEW I \in SUBSET (1..n)
  PROVE  /\ Over(s, I) \in Nat /\ \A i \in I : s[i] <= Over(s, I)
         /\ I # {} => \E i \in I : s[i] = Over(s, I)
         /\ I = {} => Over(s, I) = 0
<1> DEFINE S == {s[i] : i \in I}
<1>1. PICK b \in Nat : \A i \in 1..n : s[i] <= b
  BY Bounded
<1>2. S \in SUBSET Nat /\ \A x \in S : x <= b
  BY <1>1
<1>3. /\ Greatest(S) \in Nat /\ \A x \in S : x <= Greatest(S)
      /\ S # {} => Greatest(S) \in S
  <2> HIDE DEF S
  <2> QED
    BY <1>2, GreatestOf
<1>4. \A i \in I : s[i] \in S
  OBVIOUS
<1>5. S # {} => \E i \in I : s[i] = Greatest(S)
  BY <1>3
<1>6. S = {} => Greatest(S) = 0
  BY DEF Greatest
<1>7. S = {} <=> I = {}
  OBVIOUS
<1> HIDE DEF S
<1>8. /\ \A i \in I : s[i] <= Greatest(S)
      /\ I # {} => \E i \in I : s[i] = Greatest(S)
      /\ I = {} => Greatest(S) = 0
  BY <1>3, <1>4, <1>5, <1>6, <1>7
<1> QED
  BY <1>3, <1>8 DEF S, Over

\* The places of the dependencies that come before place k.
Before(ns, o, k) == {i \in 1..(k - 1) : o[i] \in DependsOn(ns, o[k])}

\* The depth of every node, as Depth computes it.
Depths(ns, o) ==
  CHOOSE d : d = [k \in 1..Len(o) |-> 1 + Over(d, Before(ns, o, k))]

LEMMA DepthRounds ==
  ASSUME NEW ns, NEW o, Len(o) \in Nat
  PROVE  /\ Depth(ns, o) = Over(Depths(ns, o), 1..Len(o))
         /\ Depths(ns, o) \in [1..Len(o) -> Nat]
         /\ \A k \in 1..Len(o) :
              Depths(ns, o)[k] = 1 + Over(Depths(ns, o), Before(ns, o, k))
<1> DEFINE next(s, k) == 1 + Over(s, Before(ns, o, k))
           step == [s \in Seq(Nat) |-> next(s, Len(s) + 1)]
           Solves(d) == d = [k \in 1..Len(o) |-> next(d, k)]
<1>1. ASSUME NEW s \in Seq(Nat) PROVE next(s, Len(s) + 1) \in Nat
  <2>1. PICK n \in Nat : n = Len(s)
    OBVIOUS
  <2>2. PICK I : I = Before(ns, o, n + 1)
    OBVIOUS
  <2>3. I \in SUBSET (1..n) /\ s \in [1..n -> Nat]
    BY <2>1, <2>2 DEF Before
  <2>4. Over(s, I) \in Nat
    BY <2>3, GreatestIn
  <2> QED
    BY <2>1, <2>2, <2>4
<1>2. step \in [Seq(Nat) -> Nat]
  <2> HIDE DEF next
  <2> QED
    BY <1>1
<1>3. \A s \in Seq(Nat) : step[s] = next(s, Len(s) + 1)
  OBVIOUS
<1>4. PICK s \in [1..Len(o) -> Nat] :
        \A k \in 1..Len(o) : s[k] = step[Prefix(s, k - 1)]
  <2> HIDE DEF step
  <2>1. PICK F, n, D : F = step /\ n = Len(o) /\ D = Nat
    OBVIOUS
  <2>2. F \in [Seq(D) -> D] /\ n \in Nat
    BY <1>2, <2>1
  <2>3. \E s \in [1..n -> D] : \A k \in 1..n : s[k] = F[Prefix(s, k - 1)]
    BY ONLY <2>2, Recursion
  <2> QED
    BY <2>1, <2>3
<1> HIDE DEF step
<1>5. ASSUME NEW k \in 1..Len(o) PROVE s[k] = next(s, k)
  <2> DEFINE t == Prefix(s, k - 1)
  <2>1. t \in Seq(Nat) /\ Len(t) = k - 1 /\ \A i \in 1..(k - 1) : t[i] = s[i]
    BY DEF Prefix
  <2>2. s[k] = step[t]
    BY <1>4
  <2> HIDE DEF t
  <2>3. Len(t) + 1 = k
    BY <2>1
  <2>4. s[k] = next(t, k)
    <3> HIDE DEF next
    <3> QED
      BY <1>3, <2>1, <2>2, <2>3
  <2>5. Over(t, Before(ns, o, k)) = Over(s, Before(ns, o, k))
    <3>1. {t[j] : j \in Before(ns, o, k)} = {s[j] : j \in Before(ns, o, k)}
      BY <2>1 DEF Before
    <3> QED
      BY <3>1 DEF Over
  <2> QED
    BY <2>4, <2>5
<1> HIDE DEF next
<1>6. Solves(s)
  BY <1>4, <1>5
<1>7. Depths(ns, o) = CHOOSE d : Solves(d)
  BY DEF Depths, next
<1>8. Solves(Depths(ns, o))
  <2> HIDE DEF Solves
  <2> QED
    BY <1>6, <1>7
<1>9. PICK d : d = Depths(ns, o)
  OBVIOUS
<1>10. /\ d = [k \in 1..Len(o) |-> next(d, k)]
       /\ \A k \in 1..Len(o) : d[k] = next(d, k)
  BY <1>8, <1>9
<1> DEFINE S == {n \in Nat : \A i \in 1..n : i <= Len(o) => d[i] \in Nat}
<1>11. 0 \in S
  OBVIOUS
<1>12. ASSUME NEW n \in Nat, n \in S PROVE n + 1 \in S
  <2> SUFFICES ASSUME n + 1 <= Len(o) PROVE d[n + 1] \in Nat
    BY <1>12
  <2> DEFINE t == [i \in 1..n |-> d[i]]
  <2>1. t \in Seq(Nat) /\ Len(t) = n /\ \A i \in 1..n : t[i] = d[i]
    BY <1>12
  <2> HIDE DEF t
  <2>2. next(t, n + 1) \in Nat
    BY <1>1, <2>1
  <2>3. Over(t, Before(ns, o, n + 1)) = Over(d, Before(ns, o, n + 1))
    <3>1. {t[j] : j \in Before(ns, o, n + 1)} = {d[j] : j \in Before(ns, o, n + 1)}
      BY <2>1 DEF Before
    <3> QED
      BY <3>1 DEF Over
  <2>4. next(d, n + 1) = next(t, n + 1)
    BY <2>3 DEF next
  <2>5. n + 1 \in 1..Len(o)
    OBVIOUS
  <2> QED
    BY <1>10, <2>2, <2>4, <2>5
<1>13. Len(o) \in S
  <2> HIDE DEF S
  <2> QED
    BY <1>11, <1>12, Inductively
<1>14. d \in [1..Len(o) -> Nat]
  BY <1>10, <1>13
<1>15. Depth(ns, o) = Over(Depths(ns, o), 1..Len(o))
  BY DEF Depth, Depths, Over, Greatest, Before
<1> QED
  BY <1>9, <1>10, <1>14, <1>15 DEF next

\* The nodes that may complete once those of X have.
Ready(ns, X) == {ns[i].id : i \in {j \in DOMAIN ns : ns[j].dependsOn \subseteq X}}

\* What has completed after each batch.
After(ns) ==
  CHOOSE a : a = [k \in Nat |-> IF k = 0 THEN {} ELSE a[k - 1] \cup Ready(ns, a[k - 1])]

LEMMA BatchRounds ==
  ASSUME NEW ns
  PROVE  /\ Batches(ns) =
              CHOOSE k \in 0..Len(ns) :
                After(ns)[k] = NodeIds(ns) /\ \A j \in 0..(k - 1) : After(ns)[j] # NodeIds(ns)
         /\ After(ns)[0] = {}
         /\ \A k \in Nat :
              After(ns)[k + 1] = After(ns)[k] \cup Ready(ns, After(ns)[k])
<1> DEFINE next(X) == X \cup Ready(ns, X)
           D == SUBSET NodeIds(ns)
           step == [X \in D |-> next(X)]
           Solves(a) == a = [k \in Nat |-> IF k = 0 THEN {} ELSE next(a[k - 1])]
<1>1. \A X \in D : next(X) \in D
  BY DEF NodeIds, Ready
<1>2. {} \in D
  OBVIOUS
<1>3. step \in [D -> D] /\ \A X \in D : step[X] = next(X)
  <2> HIDE DEF D, next
  <2> QED
    BY <1>1
<1>4. PICK f \in [Nat -> D] : f[0] = {} /\ \A k \in Nat : f[k + 1] = step[f[k]]
  <2> HIDE DEF step, D, next
  <2>1. PICK E, F, x : E = D /\ F = step /\ x = {}
    OBVIOUS
  <2>2. F \in [E -> E] /\ x \in E
    BY <1>2, <1>3, <2>1
  <2>3. \E f \in [Nat -> E] : f[0] = x /\ \A k \in Nat : f[k + 1] = F[f[k]]
    BY ONLY <2>2, Iteration
  <2> QED
    BY <2>1, <2>3
<1> HIDE DEF step, D
<1>5. \A k \in Nat : f[k + 1] = next(f[k])
  BY <1>3, <1>4
<1> HIDE DEF next
<1>6. Solves(f)
  <2>1. ASSUME NEW k \in Nat PROVE f[k] = IF k = 0 THEN {} ELSE next(f[k - 1])
    <3>1. k = 0 \/ (k - 1 \in Nat /\ (k - 1) + 1 = k)
      OBVIOUS
    <3> QED
      BY <1>4, <1>5, <3>1
  <2>2. f = [k \in Nat |-> f[k]]
    BY <1>4
  <2> QED
    BY <2>1, <2>2
<1>7. After(ns) = CHOOSE a : Solves(a)
  BY DEF After, next
<1>8. Solves(After(ns))
  <2> HIDE DEF Solves
  <2> QED
    BY <1>6, <1>7
<1>9. After(ns)[0] = {}
  BY <1>8
<1>10. ASSUME NEW k \in Nat PROVE After(ns)[k + 1] = next(After(ns)[k])
  <2>1. k + 1 \in Nat /\ k + 1 # 0 /\ (k + 1) - 1 = k
    OBVIOUS
  <2> QED
    BY <1>8, <2>1
<1>11. Batches(ns) =
         CHOOSE k \in 0..Len(ns) :
           After(ns)[k] = NodeIds(ns) /\ \A j \in 0..(k - 1) : After(ns)[j] # NodeIds(ns)
  BY DEF Batches, After, Ready
<1> QED
  BY <1>9, <1>10, <1>11 DEF next

\* The nodes that have completed after k batches are those of depth up to k.
LEMMA BatchesFollowDepths ==
  ASSUME NEW ns, NEW o, Sequenced(ns, o)
  PROVE  \A k \in Nat : \A p \in 1..Len(o) :
           o[p] \in After(ns)[k] <=> Depths(ns, o)[p] <= k
<1> DEFINE n == Len(o)
           d == Depths(ns, o)
           A(k) == After(ns)[k]
           S == {k \in Nat : \A p \in 1..n : o[p] \in A(k) <=> d[p] <= k}
<1>1. /\ n \in Nat /\ Len(ns) = n /\ DOMAIN ns = 1..n /\ ~Duplicated(ns)
      /\ \A p \in 1..n : o[p] \in NodeIds(ns)
  BY DEF Sequenced
<1>2. /\ d \in [1..n -> Nat]
      /\ \A p \in 1..n : d[p] = 1 + Over(d, Before(ns, o, p))
  BY <1>1, DepthRounds
<1>3. ASSUME NEW p \in 1..n
      PROVE  /\ d[p] \in Nat /\ d[p] >= 1
             /\ \A k \in Nat : d[p] <= k + 1 <=> \A j \in Before(ns, o, p) : d[j] <= k
  <2>1. PICK I, g : I = Before(ns, o, p) /\ g = Over(d, I)
    OBVIOUS
  <2>2. I \in SUBSET (1..n)
    BY <1>1, <2>1 DEF Before
  <2>3. /\ g \in Nat /\ \A j \in I : d[j] <= g
        /\ I # {} => \E j \in I : d[j] = g
        /\ I = {} => g = 0
    <3> HIDE DEF d, n
    <3> QED
      BY <1>1, <1>2, <2>1, <2>2, GreatestIn
  <2>4. d[p] = 1 + g
    <3> HIDE DEF d, n
    <3> QED
      BY <1>2, <2>1
  <2> HIDE DEF d, n
  <2>5. \A j \in I : d[j] \in Nat
    BY <1>2, <2>2
  <2>6. ASSUME NEW k \in Nat PROVE d[p] <= k + 1 <=> \A j \in I : d[j] <= k
    <3>1. CASE I = {}
      BY <2>3, <2>4, <3>1
    <3>2. CASE I # {}
      BY <2>3, <2>4, <2>5, <3>2
    <3> QED
      BY <3>1, <3>2
  <2> QED
    BY <2>1, <2>3, <2>4, <2>6
<1>4. /\ A(0) = {}
      /\ \A k \in Nat : A(k + 1) = A(k) \cup Ready(ns, A(k))
  BY BatchRounds
<1> HIDE DEF n, d, A
<1>5. 0 \in S
  BY <1>3, <1>4
<1>6. ASSUME NEW k \in Nat, k \in S PROVE k + 1 \in S
  <2> SUFFICES ASSUME NEW p \in 1..n PROVE o[p] \in A(k + 1) <=> d[p] <= k + 1
    OBVIOUS
  <2>1. \A q \in 1..n : o[q] \in A(k) <=> d[q] <= k
    BY <1>6
  <2>2. PICK i \in DOMAIN ns : ns[i].id = o[p]
    BY <1>1 DEF NodeIds
  <2>3. /\ ns[i].dependsOn = DependsOn(ns, o[p])
        /\ \A j \in DOMAIN ns : ns[j].id = o[p] => j = i
    BY <1>1, <2>2, FoundById DEF Duplicated
  <2>4. o[p] \in A(k + 1) <=> o[p] \in A(k) \/ DependsOn(ns, o[p]) \subseteq A(k)
    BY <1>4, <2>2, <2>3 DEF Ready
  <2>5. DependsOn(ns, o[p]) \subseteq A(k) <=> \A j \in Before(ns, o, p) : d[j] <= k
    <3>1. \A j \in Before(ns, o, p) : j \in 1..n /\ o[j] \in DependsOn(ns, o[p])
      BY <1>1 DEF Before
    <3>2. \A x \in DependsOn(ns, o[p]) : \E j \in Before(ns, o, p) : o[j] = x
      <4>1. \A x \in DependsOn(ns, o[p]) : \E j \in 1..(p - 1) : o[j] = x
        BY DEF Sequenced, n
      <4> QED
        BY <4>1 DEF Before
    <3> QED
      BY <2>1, <3>1, <3>2
  <2>6. o[p] \in A(k) => d[p] <= k + 1
    BY <1>3, <2>1
  <2> QED
    BY <1>3, <2>4, <2>5, <2>6
<1>7. Nat \subseteq S
  <2> HIDE DEF S
  <2> QED
    BY <1>5, <1>6, Inductively
<1> QED
  BY <1>7 DEF n, d, A

\* The depth of a graph is the number of its batches.
LEMMA DepthIsBatches ==
  ASSUME NEW ns, NEW o, Sequenced(ns, o)
  PROVE  Depth(ns, o) \in Nat /\ Depth(ns, o) = Batches(ns)
<1> DEFINE n == Len(o)
           d == Depths(ns, o)
           A(k) == After(ns)[k]
           M == Depth(ns, o)
           Fits(k) == A(k) = NodeIds(ns) /\ \A j \in 0..(k - 1) : A(j) # NodeIds(ns)
<1>1. /\ n \in Nat /\ Len(ns) = n /\ \A p \in 1..n : o[p] \in NodeIds(ns)
      /\ \A id \in NodeIds(ns) : \E p \in 1..n : o[p] = id
  BY DEF Sequenced
<1>2. /\ d \in [1..n -> Nat] /\ M = Over(d, 1..n)
      /\ \A p \in 1..n : d[p] = 1 + Over(d, Before(ns, o, p))
  <2>1. d \in [1..n -> Nat]
    BY <1>1, DepthRounds
  <2>2. M = Over(d, 1..n)
    BY <1>1, DepthRounds
  <2>3. \A p \in 1..n : d[p] = 1 + Over(d, Before(ns, o, p))
    BY <1>1, DepthRounds
  <2> QED
    BY <2>1, <2>2, <2>3
<1>3. \A k \in Nat : \A p \in 1..n : o[p] \in A(k) <=> d[p] <= k
  BY BatchesFollowDepths
<1>4. /\ A(0) = {}
      /\ \A k \in Nat : A(k + 1) = A(k) \cup Ready(ns, A(k))
      /\ Batches(ns) = CHOOSE k \in 0..Len(ns) : Fits(k)
  <2>1. Batches(ns) = CHOOSE k \in 0..Len(ns) : Fits(k)
    BY BatchRounds
  <2> QED
    BY <2>1, BatchRounds
<1> HIDE DEF n, d, A, M
<1>5. /\ M \in Nat /\ \A p \in 1..n : d[p] <= M
      /\ 1..n # {} => \E p \in 1..n : d[p] = M
      /\ 1..n = {} => M = 0
  <2>1. PICK I, g : I = 1..n /\ g = Over(d, I)
    OBVIOUS
  <2>2. I \in SUBSET (1..n)
    BY <2>1
  <2>3. M = g
    BY <1>2, <2>1
  <2>4. /\ g \in Nat /\ \A j \in I : d[j] <= g
        /\ I # {} => \E j \in I : d[j] = g
        /\ I = {} => g = 0
    BY <1>1, <1>2, <2>1, <2>2, GreatestIn
  <2> QED
    BY <2>1, <2>3, <2>4
<1>6. \A p \in 1..n : d[p] <= p
  <2> DEFINE S == {m \in Nat : \A p \in 1..n : p <= m => d[p] <= p}
  <2>1. 0 \in S
    OBVIOUS
  <2>2. ASSUME NEW m \in Nat, m \in S PROVE m + 1 \in S
    <3> SUFFICES ASSUME NEW p \in 1..n, p = m + 1 PROVE d[p] <= p
      BY <1>1, <2>2
    <3>1. PICK I, g : I = Before(ns, o, p) /\ g = Over(d, I)
      OBVIOUS
    <3>2. I \in SUBSET (1..n) /\ \A j \in I : j <= m /\ j \in Nat
      BY <1>1, <3>1 DEF Before
    <3>4. /\ g \in Nat /\ \A j \in I : d[j] <= g
          /\ I # {} => \E j \in I : d[j] = g
          /\ I = {} => g = 0
      BY <1>1, <1>2, <3>1, <3>2, GreatestIn
    <3>5. d[p] = 1 + g
      BY <1>2, <3>1
    <3>6. CASE I = {}
      BY <3>4, <3>5, <3>6
    <3>7. CASE I # {}
      <4>1. PICK j \in I : d[j] = g
        BY <3>4, <3>7
      <4>2. d[j] <= j /\ j <= m /\ d[j] \in Nat /\ j \in Nat
        BY <1>2, <2>2, <3>2
      <4> QED
        BY <3>5, <4>1, <4>2
    <3> QED
      BY <3>6, <3>7
  <2> HIDE DEF S
  <2>3. Nat \subseteq S
    BY <2>1, <2>2, Inductively
  <2>4. n \in S
    BY <1>1, <2>3
  <2> QED
    BY <1>1, <2>4 DEF S
<1>7. \A k \in Nat : A(k) \subseteq NodeIds(ns)
  <2> DEFINE S == {k \in Nat : A(k) \subseteq NodeIds(ns)}
  <2>1. 0 \in S
    BY <1>4
  <2>2. ASSUME NEW k \in Nat, k \in S PROVE k + 1 \in S
    <3>1. A(k) \subseteq NodeIds(ns)
      BY <2>2
    <3>2. A(k + 1) = A(k) \cup Ready(ns, A(k))
      BY <1>4
    <3>3. Ready(ns, A(k)) \subseteq NodeIds(ns)
      BY DEF NodeIds, Ready
    <3>4. A(k + 1) \subseteq NodeIds(ns)
      BY <3>1, <3>2, <3>3
    <3> QED
      BY <3>4
  <2>3. Nat \subseteq S
    <3> HIDE DEF S
    <3> QED
      BY <2>1, <2>2, Inductively
  <2> QED
    BY <2>3
<1>8. \A k \in Nat : A(k) = NodeIds(ns) <=> M <= k
  <2> SUFFICES ASSUME NEW k \in Nat PROVE A(k) = NodeIds(ns) <=> M <= k
    OBVIOUS
  <2>1. A(k) = NodeIds(ns) <=> \A p \in 1..n : d[p] <= k
    BY <1>1, <1>3, <1>7
  <2>2. (\A p \in 1..n : d[p] <= k) <=> M <= k
    <3>1. CASE 1..n = {}
      BY <1>5, <3>1
    <3>2. CASE 1..n # {}
      <4>1. PICK p \in 1..n : d[p] = M
        BY <1>5, <3>2
      <4>2. \A q \in 1..n : d[q] \in Nat
        BY <1>2
      <4> QED
        BY <1>5, <4>1, <4>2
    <3> QED
      BY <3>1, <3>2
  <2> QED
    BY <2>1, <2>2
<1>9. M \in 0..n /\ Fits(M)
  <2>1. M <= n
    <3>1. CASE 1..n = {}
      BY <1>1, <1>5, <3>1
    <3>2. CASE 1..n # {}
      <4>1. PICK p \in 1..n : d[p] = M
        BY <1>5, <3>2
      <4> QED
        BY <1>1, <1>5, <1>6, <4>1
    <3> QED
      BY <3>1, <3>2
  <2> QED
    BY <1>1, <1>5, <1>8, <2>1
<1>10. ASSUME NEW k \in 0..n, Fits(k) PROVE k = M
  <2>1. M <= k
    BY <1>1, <1>8, <1>10
  <2>2. ~ M \in 0..(k - 1)
    BY <1>5, <1>8, <1>10
  <2> QED
    BY <1>1, <1>5, <2>1, <2>2
<1>11. (CHOOSE k \in 0..Len(ns) : Fits(k)) = M
  <2> HIDE DEF Fits
  <2> QED
    BY <1>1, <1>9, <1>10
<1> QED
  BY <1>4, <1>5, <1>11 DEF M

-----------------------------------------------------------------------------
(* Theorems.                                                               *)

\* For graphs of any size, the sort keeps to the nodes of the graph.
THEOREM TypeCorrect == Spec => []TypeOK
<1>1. SortInv => TypeOK
  BY EdgeParts DEF SortInv, TypeOK, Tracked, Edges
<1> QED
  BY <1>1, SortInvariant, PTL

\* For graphs of any size, with cycles, duplicates and missing nodes too, nothing
\* is put into the order before what it depends on.
THEOREM DependenciesFirst == Spec => []OrderRespectsDependencies
<1>1. SortInv => OrderRespectsDependencies
  BY DEF SortInv, OrderRespectsDependencies
<1> QED
  BY <1>1, SortInvariant, PTL

\* For graphs of any size, a cycle is reported exactly when some nodes wait for
\* one another or two share an id.
THEOREM CyclesFound == Spec => []CycleFoundExactly
<1>1. SortInv => CycleFoundExactly
  <2> SUFFICES ASSUME SortInv, Sorted
               PROVE  Len(order) # Len(nodes)
                        <=> \/ Duplicated(nodes)
                            \/ \E S \in SUBSET NodeIds(nodes) : Knot(nodes, S)
    BY CycleReported DEF CycleFoundExactly, SortInv
  <2>1. Tracked /\ Untied /\ queue = {}
    BY DEF SortInv, Sorted
  <2>2. ASSUME NodeIds(nodes) # Placed
        PROVE  \E S \in SUBSET NodeIds(nodes) : Knot(nodes, S)
    <3> DEFINE L == NodeIds(nodes) \ Placed
    <3>1. L # {} /\ L \in SUBSET NodeIds(nodes)
      BY <2>2, Complete
    <3>2. ASSUME NEW id \in L
          PROVE  \E i \in DOMAIN nodes : nodes[i].id = id /\ nodes[i].dependsOn \cap L # {}
      <4>1. id \in Into(open)
        BY <2>1, <3>2 DEF Tracked
      <4>2. PICK e \in open : nodes[e[1]].id = id
        BY <4>1 DEF Into
      <4>3. e \in Edges(nodes) /\ e[2] \notin Placed
        BY <2>1, <4>2 DEF Tracked
      <4> QED
        BY <4>2, <4>3, EdgeParts
    <3> QED
      BY <3>1, <3>2 DEF Knot
  <2>3. ASSUME NEW S \in SUBSET NodeIds(nodes), Knot(nodes, S)
        PROVE  NodeIds(nodes) # Placed
    BY <2>1, <2>3 DEF Untied, Knot
  <2> QED
    BY <2>2, <2>3, Complete
<1> QED
  BY <1>1, SortInvariant, PTL

\* An estimate of tokens is a number.
Estimate(g, n) ==
  CASE n.kind = "parallel_map" -> 8000 * g.budgets.maxFanout
    [] n.kind \in {"agent", "verifier"} -> 8000
    [] OTHER -> 500

Totals(g) ==
  CHOOSE t : t = [i \in 0..Len(g.nodes) |->
                    IF i = 0 THEN 0 ELSE t[i - 1] + Estimate(g, g.nodes[i])]

LEMMA EstimatedNumber ==
  ASSUME NEW g, Len(g.nodes) \in Nat, g.budgets.maxFanout \in Nat
  PROVE  EstimatedTokens(g) \in Nat
<1>plus. \A x, y \in Nat : x + y \in Nat
  OBVIOUS
<1> DEFINE n == Len(g.nodes)
           cost(i) == Estimate(g, g.nodes[i])
           D == Nat \X Nat
           step == [p \in D |-> <<p[1] + 1, p[2] + cost(p[1] + 1)>>]
           Solves(t) == t = [i \in 0..n |-> IF i = 0 THEN 0 ELSE t[i - 1] + cost(i)]
<1>1. \A i : cost(i) \in Nat
  BY DEF Estimate
<1>2. EstimatedTokens(g) = Totals(g)[n] /\ Totals(g) = CHOOSE t : Solves(t)
  BY DEF EstimatedTokens, Totals, Estimate
<1>0. n \in Nat
  OBVIOUS
<1> HIDE DEF cost, n
<1>3. \A p \in D : <<p[1] + 1, p[2] + cost(p[1] + 1)>> \in D
  BY <1>1
<1>4. step \in [D -> D] /\ <<0, 0>> \in D
  BY <1>3
<1>5. \A p \in D : step[p] = <<p[1] + 1, p[2] + cost(p[1] + 1)>>
  OBVIOUS
<1>6. PICK f \in [Nat -> D] : f[0] = <<0, 0>> /\ \A k \in Nat : f[k + 1] = step[f[k]]
  <2> HIDE DEF step, D
  <2>1. PICK E, F, x : E = D /\ F = step /\ x = <<0, 0>>
    OBVIOUS
  <2>2. F \in [E -> E] /\ x \in E
    BY <1>4, <2>1
  <2>3. \E h \in [Nat -> E] : h[0] = x /\ \A k \in Nat : h[k + 1] = F[h[k]]
    BY ONLY <2>2, Iteration
  <2> QED
    BY <2>1, <2>3
<1> HIDE DEF step
<1>7. \A k \in Nat : f[k + 1] = <<f[k][1] + 1, f[k][2] + cost(f[k][1] + 1)>>
  BY <1>5, <1>6
<1>8. \A k \in Nat : f[k][1] = k
  <2> DEFINE S == {k \in Nat : f[k][1] = k}
  <2>1. 0 \in S /\ \A k \in Nat : k \in S => k + 1 \in S
    BY <1>6, <1>7
  <2> HIDE DEF S
  <2>2. Nat \subseteq S
    BY <2>1, Inductively
  <2> QED
    BY <2>2 DEF S
<1> DEFINE t == [i \in 0..n |-> f[i][2]]
<1>9. Solves(t)
  <2>1. ASSUME NEW i \in 0..n
        PROVE  f[i][2] = IF i = 0 THEN 0 ELSE t[i - 1] + cost(i)
    <3>1. CASE i = 0
      BY <1>6, <3>1
    <3>2. CASE i # 0
      <4>1. i - 1 \in Nat /\ (i - 1) + 1 = i /\ i - 1 \in 0..n
        BY <1>0, <3>2
      <4>2. f[i][2] = f[i - 1][2] + cost(i)
        BY <1>7, <1>8, <4>1
      <4> QED
        BY <3>2, <4>1, <4>2
    <3> QED
      BY <3>1, <3>2
  <2> QED
    BY <2>1
<1>10. Solves(Totals(g))
  <2> HIDE DEF Solves, t
  <2> QED
    BY <1>2, <1>9
<1>11. /\ Totals(g)[0] = 0
       /\ \A k \in 1..n : Totals(g)[k] = Totals(g)[k - 1] + cost(k)
  <2> HIDE DEF t
  <2>1. \A i \in 0..n : Totals(g)[i] = IF i = 0 THEN 0 ELSE Totals(g)[i - 1] + cost(i)
    BY <1>10
  <2>2. 0 \in 0..n /\ \A k \in 1..n : k \in 0..n /\ k # 0
    BY <1>0
  <2> QED
    BY <2>1, <2>2
<1> HIDE DEF t, D, Solves
<1> DEFINE S == {k \in Nat : k <= n => Totals(g)[k] \in Nat}
<1>12. 0 \in S
  BY <1>11
<1>13. ASSUME NEW k \in Nat, k \in S PROVE k + 1 \in S
  <2>1. CASE k + 1 <= n
    <3>1. k + 1 \in 1..n /\ (k + 1) - 1 = k /\ k <= n
      BY <1>0, <2>1
    <3>2. Totals(g)[k + 1] = Totals(g)[k] + cost(k + 1)
      BY <1>11, <3>1
    <3>3. Totals(g)[k] \in Nat /\ cost(k + 1) \in Nat
      BY <1>1, <1>13, <3>1
    <3>4. Totals(g)[k + 1] \in Nat
      BY <1>plus, <3>2, <3>3, Zenon
    <3> QED
      BY <3>4
  <2>2. CASE ~ (k + 1 <= n)
    BY <2>2
  <2> QED
    BY <2>1, <2>2
<1> HIDE DEF S
<1>14. n \in S
  BY <1>0, <1>12, <1>13, Inductively
<1>15. Totals(g)[n] \in Nat
  BY <1>0, <1>14 DEF S
<1> QED
  BY <1>2, <1>15

\* The order of a graph without errors is of all its nodes.
LEMMA ValidSequenced ==
  ASSUME SortInv, Sorted, verdict.errors = {}
  PROVE  Sequenced(nodes, order) /\ Len(order) = Cardinality(NodeIds(nodes))
<1>1. /\ order \in Seq(NodeIds(nodes)) /\ OrderRespectsDependencies /\ Shaped /\ Judged
      /\ Len(nodes) \in Nat /\ DOMAIN nodes = 1..Len(nodes)
  BY ShapedNodes DEF SortInv, Sorted
<1>2. Len(order) = Len(nodes)
  BY <1>1, CycleReported
<1>3. NodeIds(nodes) = Placed /\ ~Duplicated(nodes) /\ Len(order) = Cardinality(Placed)
  BY <1>2, Complete
<1>4. \A i \in DOMAIN nodes : nodes[i].dependsOn \subseteq NodeIds(nodes)
  <2>1. MissingDependencies(graph) = {}
    BY <1>1 DEF Judged
  <2> QED
    BY <2>1 DEF MissingDependencies, When, nodes
<1>5. \A j, k \in 1..Len(order) : j < k => order[j] # order[k]
  BY <1>1 DEF OrderRespectsDependencies
<1>6. ASSUME NEW k \in 1..Len(order), NEW x \in DependsOn(nodes, order[k])
      PROVE  \E j \in 1..(k - 1) : order[j] = x
  <2>1. PICK i \in DOMAIN nodes : nodes[i].id = order[k]
    BY <1>1 DEF NodeIds
  <2>2. x \in nodes[i].dependsOn \cap NodeIds(nodes)
    BY <1>1, <1>3, <1>4, <2>1, FoundById
  <2> QED
    BY <1>1, <2>1, <2>2 DEF OrderRespectsDependencies
<1>7. \A id \in NodeIds(nodes) : \E k \in 1..Len(order) : order[k] = id
  BY <1>3 DEF Placed
<1> QED
  BY <1>1, <1>2, <1>3, <1>5, <1>6, <1>7 DEF Sequenced

\* What the rules say of a consequential node of a graph without errors.
LEMMA ValidGated ==
  ASSUME SortInv, Sorted, verdict.errors = {}, NEW i \in DOMAIN nodes,
         nodes[i].permission \in ConsequentialPermissions
  PROVE  HasGateAncestor(nodes, nodes[i].id) /\ ~HasUnsafeAncestor(nodes, nodes[i].id)
<1>1. UNION {NodeErrors(graph, j) : j \in DOMAIN nodes} = {}
  BY DEF SortInv, Judged
<1>2. NodeErrors(graph, i) = {}
  BY <1>1
<1> QED
  BY <1>2 DEF NodeErrors, When, nodes

\* What the rules say of the budgets of a graph without errors.
LEMMA ValidBudgets ==
  ASSUME SortInv, Sorted, verdict.errors = {}
  PROVE  /\ graph.budgets.maxParallel \in Nat \ {0}
         /\ OrElse(graph.budgets.maxActualTokens,
                   graph.budgets.maxEstimatedTokens) \in Nat
<1> DEFINE b == graph.budgets
<1>1. /\ b.maxParallel \in 1..100 /\ b.maxEstimatedTokens \in Int
      /\ b.maxActualTokens = Absent \/ b.maxActualTokens \in Nat
  <2>1. BudgetIssues(b) = {}
    BY DEF Sorted, Shaped, ShapeIssues
  <2>2. /\ \A f \in BudgetFields : b[f] \in Int
        /\ b.maxActualTokens = Absent
             \/ (b.maxActualTokens \in Int /\ ~ (b.maxActualTokens < 1))
        /\ b.maxParallel \in Int => b.maxParallel \in 1..100
    BY <2>1 DEF BudgetIssues, When
  <2>3. b["maxParallel"] \in Int /\ b["maxEstimatedTokens"] \in Int
    BY <2>2 DEF BudgetFields
  <2> QED
    BY <2>2, <2>3
<1>2. b.maxFanout \in 1..100 /\ ~ (EstimatedTokens(graph) > b.maxEstimatedTokens)
  <2>1. BudgetErrors(graph, verdict.depth) = {}
    BY DEF SortInv, Judged
  <2> QED
    BY <2>1 DEF BudgetErrors, When
<1>3. EstimatedTokens(graph) \in Nat
  <2>1. Len(graph.nodes) \in Nat
    BY ShapedNodes DEF SortInv, Sorted, nodes
  <2>2. graph.budgets.maxFanout \in Nat
    BY <1>2
  <2> QED
    BY <2>1, <2>2, EstimatedNumber
<1>4. b.maxEstimatedTokens \in Nat
  BY <1>1, <1>2, <1>3
<1> QED
  BY <1>1, <1>4 DEF OrElse

\* A graph without errors meets the assumptions under which the theorems about
\* the scheduler hold: the two bodies of proof fit together.
LEMMA ValidAssumptions ==
  ASSUME SortInv, Sorted, verdict.errors = {}
  PROVE  AssumptionsMet
<1> DEFINE ids == NodeIds(nodes)
           rank == [id \in ids |-> CHOOSE k \in 1..Len(order) : order[k] = id]
<1>1. Sequenced(nodes, order)
  BY ValidSequenced
<1>2. \A id \in ids :
        /\ DependsOn(nodes, id) \subseteq ids /\ AncestorIds(nodes, id) \subseteq ids
        /\ AncestorIds(nodes, id) =
             DependsOn(nodes, id)
               \cup UNION {AncestorIds(nodes, m) : m \in DependsOn(nodes, id)}
  BY <1>1, AncestorsClosed
<1>3. \A id \in ids : rank[id] \in 1..Len(order) /\ order[rank[id]] = id
  BY <1>1 DEF Sequenced
<1>4. Len(order) \in Nat
  BY <1>1 DEF Sequenced
<1>5. ASSUME NEW n \in ids, NEW m \in DependsOn(nodes, n) PROVE rank[m] < rank[n]
  <2>1. m \in ids
    BY <1>2
  <2>2. PICK j \in 1..(rank[n] - 1) : order[j] = m
    <3> HIDE DEF rank
    <3>1. PICK k \in 1..Len(order) : k = rank[n] /\ order[k] = n
      BY <1>3
    <3>2. \E j \in 1..(k - 1) : order[j] = m
      BY <1>1, <1>5, <3>1 DEF Sequenced
    <3> QED
      BY <3>1, <3>2
  <2>3. j = rank[m]
    <3> HIDE DEF rank
    <3>1. j \in 1..Len(order) /\ rank[m] \in 1..Len(order) /\ order[j] = order[rank[m]]
      BY <1>3, <1>4, <2>1, <2>2
    <3>2. ~ (j < rank[m]) /\ ~ (rank[m] < j)
      BY <1>1, <3>1 DEF Sequenced
    <3> QED
      BY <3>1, <3>2
  <2> HIDE DEF rank
  <2> QED
    BY <1>3, <1>4, <2>2, <2>3
<1>6. \A n \in ids, m \in ids : rank[n] = rank[m] => n = m
  BY <1>3
<1>7. \A i, j \in DOMAIN nodes : nodes[i].id = nodes[j].id => nodes[i].kind = nodes[j].kind
  BY <1>1 DEF Sequenced, Duplicated
<1>8. \A K, L : K \cap L = {} => OfKind(nodes, K) \cap OfKind(nodes, L) = {}
  BY <1>7 DEF OfKind
<1>9. /\ OfKind(nodes, {"human_gate"}) \cap OfKind(nodes, {"deterministic", "reduce"}) = {}
      /\ OfKind(nodes, {"parallel_map"}) \cap OfKind(nodes, {"human_gate"}) = {}
      /\ OfKind(nodes, {"parallel_map"}) \cap OfKind(nodes, {"deterministic", "reduce"}) = {}
  BY <1>8
<1>10. rank \in [ids -> Nat]
  BY <1>3, <1>4
<1> DEFINE deps == [id \in ids |-> DependsOn(nodes, id)]
           ancestors == [id \in ids |-> AncestorIds(nodes, id)]
<1>11. deps \in [ids -> SUBSET ids] /\ ancestors \in [ids -> SUBSET ids]
  BY <1>2
<1>12. ASSUME NEW n \in ids
       PROVE  ancestors[n] = deps[n] \cup UNION {ancestors[m] : m \in deps[n]}
  <2>1. {ancestors[m] : m \in deps[n]} = {AncestorIds(nodes, m) : m \in DependsOn(nodes, n)}
    BY <1>2
  <2> QED
    BY <1>2, <2>1
<1>13. \A n \in ids : \A m \in deps[n] : rank[m] < rank[n]
  BY <1>5
<1> HIDE DEF ids, rank, deps, ancestors
<1>14. /\ OfKind(nodes, {"human_gate"}) \cap OfKind(nodes, {"deterministic", "reduce"}) = {}
       /\ OfKind(nodes, {"parallel_map"})
            \cap (OfKind(nodes, {"human_gate"})
                    \cup OfKind(nodes, {"deterministic", "reduce"})) = {}
  BY <1>9
<1>15. /\ deps \in [ids -> SUBSET ids] /\ ancestors \in [ids -> SUBSET ids]
       /\ \A n \in ids : ancestors[n] = deps[n] \cup UNION {ancestors[m] : m \in deps[n]}
       /\ rank \in [ids -> Nat]
       /\ \A n \in ids, m \in ids : rank[n] = rank[m] => n = m
       /\ \A n \in ids : \A m \in deps[n] : rank[m] < rank[n]
  BY <1>6, <1>10, <1>11, <1>12, <1>13
<1> QED
  BY <1>14, <1>15, ValidBudgets, Zenon
     DEF AssumptionsMet, ids, rank, deps, ancestors

\* For graphs of any size, one without errors is one the scheduler may be given.
THEOREM ValidIsRunnable == Spec => []ValidMeansRunnable
<1>1. SortInv => ValidMeansRunnable
  <2> SUFFICES ASSUME SortInv, Sorted, verdict.errors = {}
               PROVE  /\ Len(order) = Cardinality(NodeIds(nodes))
                      /\ \A i \in DOMAIN nodes :
                           nodes[i].permission \in ConsequentialPermissions =>
                             /\ \A H \in Histories(nodes) :
                                  nodes[i].id \in H =>
                                    \E j \in DOMAIN nodes :
                                      nodes[j].id \in H /\ nodes[j].kind = "human_gate"
                             /\ \E H \in Histories(nodes) :
                                  /\ nodes[i].id \in H
                                  /\ H \cap SideEffecting(nodes) \subseteq {nodes[i].id}
                      /\ verdict.depth = Batches(nodes)
                      /\ verdict.depth <= graph.budgets.maxDepth
                      /\ AssumptionsMet
    BY DEF ValidMeansRunnable
  <2>1. Sequenced(nodes, order) /\ Len(order) = Cardinality(NodeIds(nodes))
    BY ValidSequenced
  <2>2. ~Duplicated(nodes) /\ DOMAIN nodes \subseteq Nat
    BY <2>1 DEF Sequenced
  <2>3. ASSUME NEW i \in DOMAIN nodes,
               nodes[i].permission \in ConsequentialPermissions,
               NEW H \in Histories(nodes), nodes[i].id \in H
        PROVE  \E j \in DOMAIN nodes : nodes[j].id \in H /\ nodes[j].kind = "human_gate"
    <3>1. PICK m \in AncestorIds(nodes, nodes[i].id) \cap NodeIds(nodes) :
            ById(nodes, m).kind = "human_gate"
      BY <2>3, ValidGated DEF HasGateAncestor
    <3>2. PICK j \in DOMAIN nodes : nodes[j].id = m
      BY <3>1 DEF NodeIds
    <3>3. nodes[j].kind = "human_gate"
      BY <2>2, <3>1, <3>2, FoundById
    <3>4. m \in H
      <4>1. DependsOn(nodes, nodes[i].id) \subseteq H
        BY <2>1, <2>3, HistoryOfIds DEF Histories
      <4> QED
        BY <2>1, <3>1, <4>1, AncestorsHappened
    <3> QED
      BY <3>2, <3>3, <3>4
  <2>4. ASSUME NEW i \in DOMAIN nodes,
               nodes[i].permission \in ConsequentialPermissions
        PROVE  \E H \in Histories(nodes) :
                 nodes[i].id \in H /\ H \cap SideEffecting(nodes) \subseteq {nodes[i].id}
    <3>1. PICK id, H : id = nodes[i].id /\ H = {id} \cup AncestorIds(nodes, id)
      OBVIOUS
    <3>2. H \in Histories(nodes)
      BY <2>1, <3>1, AncestorsComplete DEF NodeIds
    <3>3. ASSUME NEW m \in H \cap SideEffecting(nodes), m # id PROVE FALSE
      <4>1. PICK j \in DOMAIN nodes :
              /\ nodes[j].id = m /\ nodes[j].kind # "human_gate"
              /\ PermissionRank[nodes[j].permission] > 1
        BY <3>3 DEF SideEffecting
      <4>2. ById(nodes, m) = nodes[j] /\ m \in NodeIds(nodes)
        BY <2>2, <4>1, FoundById DEF NodeIds
      <4>3. PermissionRank["read"] = 1
        BY DEF PermissionRank
      <4>4. HasUnsafeAncestor(nodes, id)
        BY <3>1, <3>3, <4>1, <4>2, <4>3 DEF HasUnsafeAncestor
      <4> QED
        BY <2>4, <3>1, <4>4, ValidGated
    <3> QED
      BY <3>1, <3>2, <3>3
  <2>5. verdict.depth = Batches(nodes)
    BY <2>1, DepthIsBatches DEF SortInv, Judged
  <2>6. verdict.depth <= graph.budgets.maxDepth
    <3>1. ~ (verdict.depth > graph.budgets.maxDepth)
      BY DEF SortInv, Judged, BudgetErrors, When
    <3>2. graph.budgets.maxDepth \in Int
      BY DEF Sorted, Shaped, ShapeIssues, BudgetIssues, BudgetFields, When
    <3>3. verdict.depth \in Int
      BY <2>1, DepthIsBatches DEF SortInv, Judged
    <3> QED
      BY <3>1, <3>2, <3>3
  <2> QED
    BY <2>1, <2>3, <2>4, <2>5, <2>6, ValidAssumptions
<1> QED
  BY <1>1, SortInvariant, PTL
=============================================================================
