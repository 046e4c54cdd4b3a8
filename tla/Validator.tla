----------------------------- MODULE Validator -----------------------------
(***************************************************************************)
(* validateGraph (validator.ts): the check of the shape, the rules for      *)
(* nodes and budgets, and Kahn's algorithm, one action per iteration of its *)
(* loop.  The indegree of an id is kept as the edges into it that are still *)
(* open (validator.ts 83-91 counts them, per id, and skips dependencies     *)
(* that do not exist).  Errors are the set of their codes.                  *)
(***************************************************************************)
EXTENDS GraphSpec, FiniteSets

CONSTANTS
  Submissions,   \* the graphs callers validate, with what is expected of them
  ValidNodeIds,  \* the strings isValidNodeId lets pass
  SortRank       \* the place of a string in the order of Array.sort

\* A graph that got past the types has a finite list of nodes.
ASSUME SubmissionAssumption ==
  \A s \in Submissions :
    \/ s.graph = Malformed
    \/ s.graph.nodes = Malformed
    \/ /\ Len(s.graph.nodes) \in Nat
       /\ DOMAIN s.graph.nodes = 1..Len(s.graph.nodes)

VARIABLES
  stage,       \* "idle", "sorting" or "judged"
  submission,  \* what is being validated
  open,        \* the edges <<index of a node, dependency>> not yet removed
  queue,       \* ids whose indegree is zero and that are not in the order yet
  order,       \* topologicalOrder
  verdict      \* errors, warnings and depth of the result

vars == <<stage, submission, open, queue, order, verdict>>

graph == submission.graph
nodes == graph.nodes
NoVerdict == [errors |-> {}, warnings |-> {}, depth |-> 0]

When(condition, code) == IF condition THEN {code} ELSE {}

-----------------------------------------------------------------------------
(* The shape.                                                              *)

BudgetFields == {"maxNodes", "maxParallel", "maxFanout", "maxDepth",
                 "maxRepairRounds", "timeoutMs", "maxEstimatedTokens"}

BudgetIssues(b) ==
  IF b = Malformed THEN {"INVALID_BUDGETS"}
  ELSE When(\E f \in BudgetFields : b[f] \notin Int, "INVALID_BUDGET_VALUE")
       \cup When(/\ b.maxActualTokens # Absent
                 /\ b.maxActualTokens \notin Int \/ b.maxActualTokens < 1,
                 "INVALID_BUDGET_VALUE")
       \cup When(b.maxParallel \in Int /\ b.maxParallel \notin 1..100,
                 "INVALID_PARALLEL_BUDGET")

NodeShapeIssues(n) ==
  IF n = Malformed THEN {"INVALID_NODE_SHAPE"}
  ELSE When(n.form # "good", n.form)
       \cup When(n.id = Malformed, "INVALID_NODE_SHAPE")
       \cup When(n.kind \notin NodeKinds, "INVALID_NODE_KIND")
       \cup When(n.permission \notin NodePermissions,
                 "INVALID_NODE_PERMISSION")
       \cup When(n.dependsOn = Malformed, "INVALID_DEPENDENCIES")
       \cup When(n.executor \notin Executors \cup {Absent},
                 "INVALID_EXECUTOR")
       \cup When(/\ n.maxConcurrency # Absent
                 /\ n.maxConcurrency \notin Int \/ n.maxConcurrency < 1,
                 "INVALID_NODE_FIELD")
       \cup When(n.isolation \notin {"shared", "worktree", Absent},
                 "INVALID_NODE_FIELD")

RepairPolicyIssues(p) ==
  When(p # Absent /\ (p = Malformed \/ p.form # "good"),
       "INVALID_REPAIR_POLICY")

ShapeIssues(g) ==
  IF g = Malformed THEN {"INVALID_GRAPH_SHAPE"}
  ELSE When(g.form # "good", g.form)
       \cup When(g.autonomy \notin AutonomyLevels, "INVALID_AUTONOMY")
       \cup BudgetIssues(g.budgets)
       \cup (IF g.nodes = Malformed THEN {"INVALID_NODES"}
             ELSE RepairPolicyIssues(g.repairPolicy)
                  \cup UNION {NodeShapeIssues(g.nodes[i]) :
                                i \in DOMAIN g.nodes})

-----------------------------------------------------------------------------
(* Ancestors and gates.                                                    *)

\* byId is a Map: of several nodes with one id it keeps the last.
ById(ns, id) ==
  ns[CHOOSE i \in DOMAIN ns :
       ns[i].id = id /\ \A j \in DOMAIN ns : ns[j].id = id => j <= i]

DependsOn(ns, id) == IF id \in NodeIds(ns) THEN ById(ns, id).dependsOn ELSE {}

\* Mutant of AncestorIds: the visit does not go on from what it has found.
ParentIds(ns, id) == DependsOn(ns, id)

AncestorIds(ns, id) ==
  LET within[k \in Nat] ==
        IF k = 0 THEN DependsOn(ns, id)
        ELSE LET nearer == within[k - 1]
             IN nearer \cup UNION {DependsOn(ns, m) : m \in nearer}
  IN within[Len(ns)]

HasGateAncestor(ns, id) ==
  \E m \in AncestorIds(ns, id) \cap NodeIds(ns) :
    ById(ns, m).kind = "human_gate"

HasUnsafeAncestor(ns, id) ==
  \E m \in AncestorIds(ns, id) \cap NodeIds(ns) :
    /\ ById(ns, m).kind # "human_gate"
    /\ PermissionRank[ById(ns, m).permission] > PermissionRank["read"]

-----------------------------------------------------------------------------
(* The rules.                                                              *)

OrElse(value, default) == IF value = Absent THEN default ELSE value

NodeErrors(g, i) ==
  LET n == g.nodes[i]
      consequential == n.permission \in ConsequentialPermissions
  IN When(n.id \notin ValidNodeIds, "INVALID_NODE_ID")
     \cup When(\E j \in 1..(i - 1) : g.nodes[j].id = n.id, "DUPLICATE_NODE")
     \cup When(n.id \in n.dependsOn, "SELF_DEPENDENCY")
     \cup When(/\ n.kind \in {"agent", "parallel_map", "verifier"}
               /\ n.executor = Absent, "MISSING_EXECUTOR")
     \cup When(/\ n.kind = "parallel_map"
               /\ OrElse(n.maxConcurrency, 1) > g.budgets.maxParallel,
               "PARALLEL_BUDGET_EXCEEDED")
     \cup When(/\ g.autonomy # "plan_only"
               /\ PermissionRank[n.permission] > AutonomyRank[g.autonomy],
               "PERMISSION_EXCEEDS_AUTONOMY")
     \cup When(consequential /\ ~HasGateAncestor(g.nodes, n.id),
               "MISSING_HUMAN_GATE")
     \cup When(consequential /\ HasUnsafeAncestor(g.nodes, n.id),
               "CONSEQUENTIAL_PREFLIGHT_SIDE_EFFECT")
     \cup When(/\ n.kind = "parallel_map" /\ n.permission = "write"
               /\ OrElse(n.maxConcurrency, g.budgets.maxParallel) > 1,
               IF n.isolation = "worktree"
               THEN "UNENFORCED_WORKTREE_ISOLATION"
               ELSE "UNISOLATED_PARALLEL_WRITE")

\* Mutant of MissingDependencies: the loop leaves out the first node.
MissingDependenciesFromSecond(g) ==
  When(\E i \in DOMAIN g.nodes :
         i > 1 /\ g.nodes[i].dependsOn \ NodeIds(g.nodes) # {},
       "MISSING_DEPENDENCY")

MissingDependencies(g) ==
  When(\E i \in DOMAIN g.nodes : g.nodes[i].dependsOn \ NodeIds(g.nodes) # {},
       "MISSING_DEPENDENCY")

EstimatedTokens(g) ==
  LET estimate(n) ==
        CASE n.kind = "parallel_map" -> 8000 * g.budgets.maxFanout
          [] n.kind \in {"agent", "verifier"} -> 8000
          [] OTHER -> 500
      total[i \in 0..Len(g.nodes)] ==
        IF i = 0 THEN 0 ELSE total[i - 1] + estimate(g.nodes[i])
  IN total[Len(g.nodes)]

BudgetErrors(g, depth) ==
  When(g.nodes = <<>>, "EMPTY_GRAPH")
  \cup When(Len(g.nodes) > g.budgets.maxNodes, "NODE_BUDGET_EXCEEDED")
  \cup When(depth > g.budgets.maxDepth, "DEPTH_BUDGET_EXCEEDED")
  \cup When(g.budgets.maxRepairRounds \notin 0..5, "INVALID_REPAIR_BUDGET")
  \cup When(g.budgets.maxFanout \notin 1..100, "INVALID_FANOUT_BUDGET")
  \cup When(g.budgets.timeoutMs <= 0, "INVALID_TIMEOUT")
  \cup When(EstimatedTokens(g) > g.budgets.maxEstimatedTokens,
            "TOKEN_BUDGET_EXCEEDED")

Warnings(g) ==
  When(/\ EstimatedTokens(g) <= g.budgets.maxEstimatedTokens
       /\ 10 * EstimatedTokens(g) > 8 * g.budgets.maxEstimatedTokens,
       "TOKEN_BUDGET_NEAR_LIMIT")

RepairErrors(g) ==
  IF g.repairPolicy = Absent THEN {}
  ELSE LET p == g.repairPolicy
           first == {i \in DOMAIN g.nodes :
                       /\ g.nodes[i].id = p.candidate
                       /\ \A j \in 1..(i - 1) : g.nodes[j].id # p.candidate}
       IN IF ~p.enabled THEN {}
          ELSE When(first = {}, "INVALID_REPAIR_CANDIDATE")
               \cup When(p.verifier \notin NodeIds(g.nodes),
                         "INVALID_REPAIR_VERIFIER")
               \cup When(\E i \in first :
                           PermissionRank[g.nodes[i].permission]
                             > PermissionRank["read"],
                         "UNSAFE_SIDE_EFFECTING_REPAIR")

\* The depth of a node counts the dependencies that come before it in the order.
Depth(ns, sorted) ==
  LET greatest(S) ==
        IF S = {} THEN 0 ELSE CHOOSE m \in S : \A k \in S : k <= m
      depth[k \in 1..Len(sorted)] ==
        1 + greatest({depth[j] : j \in
              {i \in 1..(k - 1) : sorted[i] \in DependsOn(ns, sorted[k])}})
  IN greatest({depth[k] : k \in 1..Len(sorted)})

-----------------------------------------------------------------------------
(* The topological sort.                                                   *)

\* Mutant of Edges: a dependency that does not exist counts as well.
EdgesUnchecked(ns) ==
  {e \in (DOMAIN ns) \X UNION {ns[i].dependsOn : i \in DOMAIN ns} :
     e[2] \in ns[e[1]].dependsOn}

Edges(ns) ==
  {e \in (DOMAIN ns) \X NodeIds(ns) : e[2] \in ns[e[1]].dependsOn}

\* The ids of which at least one edge is among those.
Into(edges) == {nodes[e[1]].id : e \in edges}

Init ==
  /\ stage = "idle"
  /\ submission \in Submissions
  /\ open = {} /\ queue = {} /\ order = <<>>
  /\ verdict = NoVerdict

\* validateGraph returns at once when the shape is wrong.
Refuse ==
  /\ stage = "idle"
  /\ ShapeIssues(graph) # {}
  /\ stage' = "judged"
  /\ verdict' = [NoVerdict EXCEPT !.errors = ShapeIssues(graph)]
  /\ UNCHANGED <<submission, open, queue, order>>

BeginSort ==
  /\ stage = "idle"
  /\ ShapeIssues(graph) = {}
  /\ stage' = "sorting"
  /\ open' = Edges(nodes)
  /\ queue' = {id \in NodeIds(nodes) : id \notin Into(Edges(nodes))}
  /\ UNCHANGED <<submission, order, verdict>>

\* Mutant of Freed: an id is freed by its first dependency.
FreedEarly(released, left) == Into(released)

\* The ids whose indegree has become zero.
Freed(released, left) == Into(released) \ Into(left)

SortStep ==
  /\ stage = "sorting"
  /\ \E id \in queue :
       LET released == {e \in open : e[2] = id}
       IN /\ \A other \in queue : SortRank[id] <= SortRank[other]
          /\ order' = Append(order, id)
          /\ open' = open \ released
          /\ queue' = (queue \ {id}) \cup Freed(released, open \ released)
  /\ UNCHANGED <<stage, submission, verdict>>

\* Mutant of CycleErrors: the length is compared with the number of ids.
CycleErrorsById ==
  When(Len(order) # Cardinality(NodeIds(nodes)), "CYCLE_DETECTED")

CycleErrors == When(Len(order) # Len(nodes), "CYCLE_DETECTED")

Judge ==
  /\ stage = "sorting" /\ queue = {}
  /\ stage' = "judged"
  /\ LET depth == Depth(nodes, order)
     IN verdict' =
          [errors |-> (UNION {NodeErrors(graph, i) : i \in DOMAIN nodes})
                      \cup MissingDependencies(graph) \cup CycleErrors
                      \cup BudgetErrors(graph, depth) \cup RepairErrors(graph),
           warnings |-> Warnings(graph),
           depth |-> depth]
  /\ UNCHANGED <<submission, open, queue, order>>

Next == Refuse \/ BeginSort \/ SortStep \/ Judge

Spec == Init /\ [][Next]_vars

-----------------------------------------------------------------------------
(* Properties.                                                             *)

Shaped == ShapeIssues(graph) = {}
Sorted == Shaped /\ stage = "judged"

\* The sort keeps to the nodes of the graph: the queue, the order and the open
\* edges name nodes that exist (validator.ts 83-106).
TypeOK ==
  /\ stage \in {"idle", "sorting", "judged"}
  /\ Shaped =>
       /\ queue \subseteq NodeIds(nodes)
       /\ open \subseteq (DOMAIN nodes) \X NodeIds(nodes)
       /\ order \in Seq(NodeIds(nodes))

\* A node comes after everything it depends on, and once, at every moment of
\* the sort and also in a graph with cycles, duplicates or missing nodes: the
\* scheduler walks this order (runtime.ts 738) without looking back.
OrderRespectsDependencies ==
  Shaped =>
    \A k \in 1..Len(order) :
      /\ \A j \in 1..(k - 1) : order[j] # order[k]
      /\ \A i \in DOMAIN nodes :
           nodes[i].id = order[k] =>
             \A d \in nodes[i].dependsOn \cap NodeIds(nodes) :
               \E j \in 1..(k - 1) : order[j] = d

Duplicated(ns) ==
  \E i \in DOMAIN ns, j \in DOMAIN ns : i # j /\ ns[i].id = ns[j].id

\* A set of ids that wait for one another for ever.
Knot(ns, S) ==
  /\ S # {}
  /\ \A id \in S : \E i \in DOMAIN ns : ns[i].id = id /\ ns[i].dependsOn \cap S # {}

\* A cycle is reported exactly when some nodes could never be scheduled, or
\* when two nodes share an id so that the order is too short (validator.ts 108).
CycleFoundExactly ==
  Sorted =>
    ("CYCLE_DETECTED" \in verdict.errors
       <=> Duplicated(nodes) \/ \E S \in SUBSET NodeIds(nodes) : Knot(nodes, S))

\* The sets of nodes that may have completed at some moment of a run.
Histories(ns) ==
  {H \in SUBSET NodeIds(ns) :
     \A i \in DOMAIN ns : ns[i].id \in H => ns[i].dependsOn \subseteq H}

SideEffecting(ns) ==
  {ns[i].id : i \in {j \in DOMAIN ns : /\ ns[j].kind # "human_gate"
                                       /\ PermissionRank[ns[j].permission] > 1}}

\* The batches of a run whose nodes all complete, maxParallel permitting.
Batches(ns) ==
  LET after[k \in Nat] ==
        IF k = 0 THEN {}
        ELSE LET before == after[k - 1]
             IN before \cup {ns[i].id : i \in {j \in DOMAIN ns :
                                               ns[j].dependsOn \subseteq before}}
  IN CHOOSE k \in 0..Len(ns) : /\ after[k] = NodeIds(ns)
                               /\ \A j \in 0..(k - 1) : after[j] # NodeIds(ns)

OfKind(ns, kinds) ==
  {ns[i].id : i \in {j \in DOMAIN ns : ns[j].kind \in kinds}}

\* What GraphRuntime assumes of the graph: GraphAssumption, KindAssumption and
\* BudgetAssumption, in that order, but for what is no matter of the graph (Main,
\* and the costs of executions).
AssumptionsMet ==
  LET ids == NodeIds(nodes)
      deps == [id \in ids |-> DependsOn(nodes, id)]
      ancestors == [id \in ids |-> AncestorIds(nodes, id)]
      rank == [id \in ids |-> CHOOSE k \in 1..Len(order) : order[k] = id]
      gates == OfKind(nodes, {"human_gate"})
      local == OfKind(nodes, {"deterministic", "reduce"})
      fanned == OfKind(nodes, {"parallel_map"})
  IN /\ deps \in [ids -> SUBSET ids]
     /\ ancestors \in [ids -> SUBSET ids]
     /\ \A n \in ids :
          ancestors[n] = deps[n] \cup UNION {ancestors[m] : m \in deps[n]}
     /\ rank \in [ids -> Nat]
     /\ \A n \in ids, m \in ids : rank[n] = rank[m] => n = m
     /\ \A n \in ids : \A m \in deps[n] : rank[m] < rank[n]
     /\ gates \cap local = {} /\ fanned \cap (gates \cup local) = {}
     /\ graph.budgets.maxParallel \in Nat \ {0}
     /\ OrElse(graph.budgets.maxActualTokens,
               graph.budgets.maxEstimatedTokens) \in Nat

\* A graph without errors is one the scheduler may be given: the order is of all
\* its nodes, no history of a run holds a consequential node without a gate that
\* was passed, a consequential node needs no other side effect to have happened,
\* and the depth is the number of batches and within the budget.  The scheduler
\* takes it as it is and never asks again whether a dependency exists, whether the
\* order is of all the ids, or whether the budgets are numbers it can count with
\* (runtime.ts 539, 732-787, 157): what GraphRuntime assumes must be true of it.
ValidMeansRunnable ==
  Sorted /\ verdict.errors = {} =>
    /\ Len(order) = Cardinality(NodeIds(nodes))
    /\ \A i \in DOMAIN nodes :
         nodes[i].permission \in ConsequentialPermissions =>
           /\ \A H \in Histories(nodes) :
                nodes[i].id \in H =>
                  \E j \in DOMAIN nodes :
                    nodes[j].id \in H /\ nodes[j].kind = "human_gate"
           /\ \E H \in Histories(nodes) :
                /\ nodes[i].id \in H
                /\ H \cap SideEffecting(nodes) \subseteq {nodes[i].id}
    /\ verdict.depth = Batches(nodes)
    /\ verdict.depth <= graph.budgets.maxDepth
    /\ AssumptionsMet
=============================================================================
