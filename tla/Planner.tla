------------------------------ MODULE Planner ------------------------------
(***************************************************************************)
(* planGraph (planner.ts): from a request to a graph.  A prompt is the set  *)
(* of the features its complexity is scored by, and the class the prompt    *)
(* compiler has given it; labels, prompts and output schemas of nodes are   *)
(* left out.                                                                *)
(***************************************************************************)
EXTENDS GraphSpec, SequencesExt

DefaultBudgets ==
  [maxNodes |-> 16, maxParallel |-> 4, maxFanout |-> 8, maxDepth |-> 9,
   maxRepairRounds |-> 2, timeoutMs |-> 900000, maxEstimatedTokens |-> 200000,
   maxActualTokens |-> 500000]

Weight == [long |-> 2, veryLong |-> 2, lines |-> 2, breadth |-> 3,
           verification |-> 2, sequence |-> 1]

ComplexityScore(features) ==
  LET score == FoldSet(LAMBDA f, total : total + Weight[f], 0, features)
  IN IF score > 10 THEN 10 ELSE score

PermissionFor(autonomy, classification) ==
  CASE classification = "destructive_action" -> "destructive"
    [] classification = "external_action" -> "external"
    [] OTHER -> IF autonomy \in {"workspace", "consequential"}
                THEN "write" ELSE "read"

Step(id, kind, deps, permission, executor) ==
  [id |-> id, kind |-> kind, dependsOn |-> deps, permission |-> permission,
   executor |-> executor, maxConcurrency |-> Absent, isolation |-> Absent,
   form |-> "good"]

Shared(node) == [node EXCEPT !.isolation = "shared"]
Wide(node) == [node EXCEPT !.maxConcurrency = 4]

DirectNodes(permission, primary, verifier) ==
  << Shared(Step("execute", "agent", {}, permission, primary)),
     Step("verify", "verifier", {"execute"}, "read", verifier) >>

GraphNodes(permission, primary, verifier) ==
  LET candidate == IF permission = "write" THEN "implement" ELSE "synthesize"
  IN << Step("scope", "agent", {}, "read", primary),
        Wide(Step("investigate", "parallel_map", {"scope"}, "read", primary)),
        Step("reduce", "reduce", {"investigate"}, "none", Absent),
        Wide(Step("cross_check", "parallel_map", {"reduce"}, "read", verifier)),
        Step("synthesize", "agent", {"cross_check"}, "read", primary) >>
     \o (IF permission = "write"
         THEN << Shared(Step("implement", "agent", {"synthesize"}, "write",
                             primary)) >>
         ELSE << >>)
     \o << Step("acceptance", "verifier", {candidate}, "read", verifier) >>

Confirmation(deps) == Step("confirm", "human_gate", deps, "none", Absent)

\* Mutant of GatedGraph: the action hangs from the synthesis alone.
GatedGraphUnlinked(nodes, permission, primary) ==
  SelectSeq(nodes, LAMBDA n : n.id # "acceptance")
  \o << Confirmation({"synthesize"}),
        Shared(Step("act", "agent", {"synthesize"}, permission, primary)) >>
  \o [i \in 1..1 |->
        [SelectSeq(nodes, LAMBDA n : n.id = "acceptance")[i]
          EXCEPT !.dependsOn = {"act"}]]

\* A consequential action behind a gate, put before the acceptance.
GatedGraph(nodes, permission, primary) ==
  SelectSeq(nodes, LAMBDA n : n.id # "acceptance")
  \o << Confirmation({"synthesize"}),
        Shared(Step("act", "agent", {"synthesize", "confirm"}, permission,
                    primary)) >>
  \o [i \in 1..1 |->
        [SelectSeq(nodes, LAMBDA n : n.id = "acceptance")[i]
          EXCEPT !.dependsOn = {"act"}]]

GatedDirect(nodes) ==
  << Confirmation({}) >>
  \o [i \in 1..Len(nodes) |->
        IF nodes[i].dependsOn = {}
        THEN [nodes[i] EXCEPT !.dependsOn = {"confirm"}] ELSE nodes[i]]

\* The first of the names that a node has, or the last name.
FirstPresent(names, nodes) ==
  LET present == {i \in 1..Len(names) :
                    i = Len(names) \/ \E j \in 1..Len(nodes) :
                                         nodes[j].id = names[i]}
  IN names[CHOOSE i \in present : \A j \in present : i <= j]

PlanGraph(request) ==
  LET permission == PermissionFor(request.autonomy, request.classification)
      consequential == permission \in {"external", "destructive"}
      useGraph == request.forceGraph \/ ComplexityScore(request.features) >= 4
      plain == IF useGraph
               THEN GraphNodes(permission, request.primary, request.verifier)
               ELSE DirectNodes(permission, request.primary, request.verifier)
      nodes == CASE ~consequential -> plain
                 [] consequential /\ useGraph ->
                      GatedGraph(plain, permission, request.primary)
                 [] OTHER -> GatedDirect(plain)
  IN [autonomy |-> request.autonomy,
      budgets |-> DefaultBudgets,
      nodes |-> nodes,
      repairPolicy |->
        [enabled |-> ~consequential /\ permission # "write",
         candidate |-> FirstPresent(<<"act", "implement", "synthesize",
                                      "execute">>, nodes),
         verifier |-> FirstPresent(<<"acceptance", "verify">>, nodes),
         form |-> "good"],
      form |-> "good"]
=============================================================================
