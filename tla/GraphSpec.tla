----------------------------- MODULE GraphSpec -----------------------------
(***************************************************************************)
(* The vocabulary of a graph (types.ts 3-75), as planner and validator see  *)
(* it.  A graph comes from the planner or from a file that anybody may have *)
(* edited, so a field may hold a value of the wrong type (Malformed) or be  *)
(* missing (Absent).  dependsOn is a set; "form" stands for the fields that *)
(* only the check of the shape looks at: it is "good", or the defect they   *)
(* have.                                                                    *)
(***************************************************************************)
EXTENDS Integers, Sequences

CONSTANTS
  Malformed,  \* a value that is not of the type its field asks for
  Absent      \* undefined: a field that is not there

PermissionRank ==
  [none |-> 0, read |-> 1, write |-> 2, external |-> 3, destructive |-> 4]

AutonomyRank ==
  [plan_only |-> 0, read_only |-> 1, workspace |-> 2, consequential |-> 4]

NodeKinds == {"deterministic", "agent", "parallel_map", "reduce", "verifier",
              "human_gate"}
NodePermissions == DOMAIN PermissionRank
AutonomyLevels == DOMAIN AutonomyRank
Executors == {"codex", "claude", "local"}

ConsequentialPermissions == {"external", "destructive"}

NodeIds(nodes) == {nodes[i].id : i \in DOMAIN nodes}
=============================================================================
