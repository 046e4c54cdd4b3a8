---------------------------- MODULE MCEvaluation ----------------------------
(***************************************************************************)
(* For TLC: every request with a prompt just below, at or far above the     *)
(* threshold for a graph; every graph of three nodes drawn from four types, *)
(* over every choice of dependencies, the third node being a third one or a *)
(* second "a"; and plans and drafts with one field of the wrong type.       *)
(***************************************************************************)
EXTENDS Evaluation

\* Of a prompt only its score counts, and of the score only whether it is four:
\* with these three, the requests below make every plan there is.
Prompts == {{"breadth"}, {"long", "verification"}, DOMAIN Weight}

Classifications == {"conversation", "explanation", "investigation", "implementation",
                    "external_action", "destructive_action", "other"}

MCRequests ==
  [features : Prompts, classification : Classifications,
   autonomy : AutonomyLevels, forceGraph : BOOLEAN,
   primary : Executors, verifier : Executors]

Types == {[kind |-> "agent", permission |-> p] :
            p \in {"read", "write", "external"}}
         \cup {[kind |-> "human_gate", permission |-> "none"]}

DraftNode(id, type, deps) ==
  Step(id, type.kind, deps, type.permission, "local")

DraftBudgets == [DefaultBudgets EXCEPT !.maxDepth = 3,
                                       !.maxEstimatedTokens = 24000]

Draft(ns) == [Base EXCEPT !.autonomy = "consequential",
                          !.budgets = DraftBudgets, !.nodes = ns,
                          !.repairPolicy = Absent]

HandDrafts ==
  {Draft(<<DraftNode("a", ta, da), DraftNode("b", tb, db),
           DraftNode(id, tc, dc)>>) :
     ta \in Types, tb \in Types, tc \in Types, id \in {"c", "a"},
     da \in SUBSET {"b", "c"}, db \in SUBSET {"a", "c"},
     dc \in SUBSET {"a", "b", "c"}}

\* The cases of planner-validator.test.ts and other ways to spoil a plan.
OddDrafts ==
  { Malformed, Draft(<<>>),
    [Base EXCEPT !.nodes = Malformed], [Base EXCEPT !.budgets = Malformed],
    [Base EXCEPT !.repairPolicy = Malformed],
    [Base EXCEPT !.repairPolicy.form = "unsupported"],
    [Base EXCEPT !.form = "INVALID_GRAPH_METADATA"],
    [Base EXCEPT !.autonomy = Malformed, !.budgets.maxNodes = Malformed],
    [Base EXCEPT !.budgets.maxActualTokens = 0],
    [Base EXCEPT !.budgets.maxActualTokens = Absent],
    [Base EXCEPT !.budgets.maxParallel = 101],
    [Base EXCEPT !.budgets.maxFanout = 0, !.budgets.timeoutMs = 0],
    [Base EXCEPT !.nodes[1] = Malformed],
    [Base EXCEPT !.nodes[1].id = Malformed, !.nodes[1].form = "INVALID_OPERATION"],
    [Base EXCEPT !.nodes[1].dependsOn = Malformed, !.nodes[1].kind = Malformed],
    [Base EXCEPT !.nodes[1].executor = "shell",
                 !.nodes[1].maxConcurrency = 0],
    [Base EXCEPT !.nodes[1].isolation = "vm", !.nodes[1].permission = "root"],
    [Base EXCEPT !.autonomy = "workspace", !.nodes[2].permission = "write",
                 !.nodes[2].isolation = "worktree"],
    [Base EXCEPT !.repairPolicy.candidate = "missing",
                 !.repairPolicy.verifier = "missing"],
    [Base EXCEPT !.autonomy = "workspace", !.nodes[5].permission = "write"] }

Names == <<"../escape", "a", "acceptance", "act", "b", "c", "confirm",
           "cross_check", "execute", "implement", "investigate", "reduce",
           "scope", "synthesize", "verify">>

MCValidNodeIds == {Names[i] : i \in 2..Len(Names)}

MCSortRank ==
  [name \in {Names[i] : i \in DOMAIN Names} |->
     CHOOSE i \in DOMAIN Names : Names[i] = name]

MCDrafts == HandDrafts \cup OddDrafts
=============================================================================
