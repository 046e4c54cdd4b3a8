----------------------------- MODULE Evaluation -----------------------------
(***************************************************************************)
(* Planner and validator together: the plans of all requests, the spoiled   *)
(* plans of the built-in evaluation (evaluation.ts) and of the validator's  *)
(* tests, and graphs somebody has drafted by hand, all submitted to         *)
(* validateGraph.  What is expected of a submission goes with it: of a plan *)
(* exactly these errors, of a case at least these.                          *)
(***************************************************************************)
EXTENDS Planner, Validator

CONSTANTS
  Requests,  \* what planGraph may be asked
  Drafts     \* graphs that do not come from the planner

\* Consequential work needs an autonomy that covers it, or is only planned.
PlanErrors(request) ==
  IF /\ PermissionFor(request.autonomy, request.classification)
          \in ConsequentialPermissions
     /\ request.autonomy \notin {"plan_only", "consequential"}
  THEN {"PERMISSION_EXCEEDS_AUTONOMY"} ELSE {}

Plans ==
  {[graph |-> PlanGraph(r), origin |-> "plan", expected |-> PlanErrors(r)] :
     r \in Requests}

Case(g, code) == [graph |-> g, origin |-> "case", expected |-> {code}]

\* The graph that mutatedGraph hands to each case.
Base ==
  PlanGraph([features |-> {"breadth"}, classification |-> "investigation",
             autonomy |-> "read_only", forceGraph |-> TRUE,
             primary |-> "local", verifier |-> "local"])

FirstOf(kind) ==
  CHOOSE i \in DOMAIN Base.nodes :
    /\ Base.nodes[i].kind = kind
    /\ \A j \in 1..(i - 1) : Base.nodes[j].kind # kind

agent == FirstOf("agent")
fan == FirstOf("parallel_map")

\* Rules on nodes and budgets.
RuleCases ==
  { Case([Base EXCEPT !.nodes[1].dependsOn = @ \cup {"acceptance"}],
         "CYCLE_DETECTED"),
    Case([Base EXCEPT !.nodes[1].dependsOn = @ \cup {"missing"}],
         "MISSING_DEPENDENCY"),
    Case([Base EXCEPT !.budgets.maxNodes = 1], "NODE_BUDGET_EXCEEDED"),
    Case([Base EXCEPT !.nodes[fan].maxConcurrency = 100],
         "PARALLEL_BUDGET_EXCEEDED"),
    Case([Base EXCEPT !.budgets.maxDepth = 1], "DEPTH_BUDGET_EXCEEDED"),
    Case([Base EXCEPT !.nodes[agent].permission = "write"],
         "PERMISSION_EXCEEDS_AUTONOMY"),
    Case([Base EXCEPT !.autonomy = "consequential",
                      !.nodes[agent].permission = "external"],
         "MISSING_HUMAN_GATE"),
    Case([Base EXCEPT !.autonomy = "workspace",
                      !.nodes[fan].permission = "write",
                      !.nodes[fan].isolation = "shared",
                      !.nodes[fan].maxConcurrency = 2],
         "UNISOLATED_PARALLEL_WRITE"),
    Case([Base EXCEPT !.budgets.maxRepairRounds = 100],
         "INVALID_REPAIR_BUDGET"),
    Case([Base EXCEPT !.budgets.maxEstimatedTokens = 1],
         "TOKEN_BUDGET_EXCEEDED") }

\* Rules on ids, executors and self-dependencies.
IdCases ==
  { Case([Base EXCEPT !.nodes = Append(@, Base.nodes[1])], "DUPLICATE_NODE"),
    Case([Base EXCEPT !.nodes[1].id = "../escape"], "INVALID_NODE_ID"),
    Case([Base EXCEPT !.nodes[agent].executor = Absent], "MISSING_EXECUTOR"),
    Case([Base EXCEPT !.nodes[1].dependsOn = @ \cup {Base.nodes[1].id}],
         "SELF_DEPENDENCY") }

AllSubmissions ==
  Plans \cup RuleCases \cup IdCases
    \cup {[graph |-> g, origin |-> "draft", expected |-> {}] : g \in Drafts}

-----------------------------------------------------------------------------
(* Properties.                                                             *)

\* Every plan is valid, whatever the prompt, unless its action exceeds the
\* autonomy it was asked for: depth, node, token and parallel budgets, gates and
\* the repair policy of the planner agree with the validator (planner.ts 204-306
\* against validator.ts 442-683; docs/architecture.md:34).
PlansAccepted ==
  stage = "judged" /\ submission.origin = "plan" =>
    verdict.errors = submission.expected

\* Each case of the evaluation is found out: the mutation is reported under its
\* own code, whatever else it breaks (evaluation.ts 91-348).
CasesRejected ==
  stage = "judged" /\ submission.origin = "case" =>
    submission.expected \subseteq verdict.errors
=============================================================================
