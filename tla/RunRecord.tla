----------------------------- MODULE RunRecord -----------------------------
(***************************************************************************)
(* What the checkpoints of a run tell, whatever writes them, loses them or  *)
(* resumes from them: an execution of the graph in the order of its         *)
(* dependencies.  A node is shown running once what it depends on is        *)
(* completed, and done only after it was shown running; it is skipped only  *)
(* under a failure; tokens only grow; an ending is true, and stands until   *)
(* the run is opened again, which nothing in doubt allows.  GraphRuntime    *)
(* implements it.                                                           *)
(***************************************************************************)
EXTENDS Naturals

CONSTANTS Nodes, Deps, Gates, SideEffecting, TokenBudget

VARIABLES
  status,   \* "absent" before the first checkpoint
  state,    \* what the checkpoint shows of each node
  usage,    \* the tokens it accounts for
  refused   \* the file system has refused a write

States == {"pending", "running", "completed", "blocked", "failed", "skipped"}

\* What the next checkpoint may show of a node.
Successors == [pending |-> {"pending", "running", "skipped"},
               running |-> {"running", "completed", "blocked", "failed"},
               completed |-> {"completed"},
               blocked |-> {"blocked"},
               failed |-> {"failed"},
               skipped |-> {"skipped"}]

InDoubt == {n \in SideEffecting : state[n] \in {"running", "failed"}}

Init ==
  /\ status = "absent"
  /\ state = [n \in Nodes |-> "pending"]
  /\ usage = 0
  /\ refused = FALSE

\* The run begins, or begins again with what is completed.
Open ==
  /\ status # "completed" /\ InDoubt = {}
  /\ status' = "running"
  /\ state' \in [Nodes -> States]
  /\ \A n \in Nodes : state'[n] # state[n] => state[n] # "completed" /\ state'[n] = "pending"
  /\ UNCHANGED <<usage, refused>>

\* A completion whose own write is refused may be taken back.
May(n) == Successors[state[n]] \cup IF refused /\ state[n] = "completed" THEN {"failed"} ELSE {}

\* Nodes are reached in order, and skipped under a failure.
Warranted(n) ==
  IF state'[n] = "skipped" THEN \E d \in Deps[n] : state'[d] \in {"failed", "skipped"}
  ELSE \A d \in Deps[n] : state'[d] = "completed"

\* An ending is true.
Truthful ==
  /\ status' = "completed" =>
       usage' <= TokenBudget /\ \A n \in Nodes : state'[n] = "completed"
  /\ status' = "needs_confirmation" =>
       InDoubt' = {} /\ \E g \in Gates : state'[g] = "blocked"

\* Until it has ended.  After a refused write nodes may outlast the end of the run.
Progress ==
  /\ status = "running" \/ refused
  /\ status' \in {"running", "needs_confirmation", "completed", "failed"} /\ Truthful
  /\ state' \in [Nodes -> States]
  /\ \A n \in Nodes : state'[n] \in May(n) /\ (state'[n] # state[n] => Warranted(n))
  /\ usage' \in Nat /\ usage' >= usage
  /\ UNCHANGED refused

\* The operator vouches for what became of a node in doubt.
Reconcile(n) ==
  /\ n \in InDoubt
  /\ status' = "running"
  /\ \E s \in {"pending", "completed"} : state' = [state EXCEPT ![n] = s]
  /\ UNCHANGED <<usage, refused>>

Refuse ==
  /\ refused' = TRUE
  /\ UNCHANGED <<status, state, usage>>

Next == Open \/ Progress \/ Refuse \/ \E n \in SideEffecting : Reconcile(n)

Spec == Init /\ [][Next]_<<status, state, usage, refused>>
=============================================================================
