---------------------------- MODULE GraphRuntime ----------------------------
(***************************************************************************)
(* The scheduler of packages/graph-orchestrator: runGraph (runtime.ts), the *)
(* two write chains it awaits (persistence.ts) and the reconciliation of a *)
(* checkpoint by the operator (reconciliation.ts), over a graph of nodes    *)
(* whose run may crash, fail and be resumed any number of times.            *)
(*                                                                         *)
(* Every await of the code is a boundary between two actions; what the code *)
(* does between two awaits is one action.  A write is enqueued when it is   *)
(* called, reaches the disk later and in order, and only then lets its      *)
(* caller go on, so a crash may fall before the write, or after it and      *)
(* before the caller has seen it.                                           *)
(*                                                                         *)
(* Abstracted: prompts, outputs and tokens' text; the elapsed time is only  *)
(* "the deadline has passed or not"; a parallel_map is one execution that   *)
(* may use tokens before it fails.  The fan-out itself is in FanOut; the     *)
(* repair phase and the numbers of audit events are in RepairLoop.          *)
(***************************************************************************)
EXTENDS Integers, Sequences, FiniteSets

CONSTANTS
  Nodes,           \* the nodes of the graph
  Main,            \* the coroutine of runGraph itself, as a writer
  Deps,            \* node.dependsOn
  Ancestors,       \* the transitive closure of Deps
  Rank,            \* position in validation.topologicalOrder
  Gates,           \* nodes of kind human_gate
  Local,           \* nodes of kind deterministic or reduce
  Fanned,          \* nodes of kind parallel_map
  SideEffecting,   \* nodes whose permission is write, external or destructive
  Consequential,   \* nodes whose permission is external or destructive
  MaxParallel,     \* budgets.maxParallel
  TokenBudget,     \* budgets.maxActualTokens ?? budgets.maxEstimatedTokens
  Costs,           \* the token counts one execution may report
  MaxInvocations,  \* bound: runs and resumes of this run id
  MaxCrashes,      \* bound: deaths of the process
  MaxIoFailures    \* bound: writes the file system refuses

ASSUME GraphAssumption ==
  /\ Main \notin Nodes
  /\ Deps \in [Nodes -> SUBSET Nodes]
  /\ Ancestors \in [Nodes -> SUBSET Nodes]
  /\ \A n \in Nodes :
       Ancestors[n] = Deps[n] \cup UNION {Ancestors[m] : m \in Deps[n]}
  /\ Rank \in [Nodes -> Nat]
  /\ \A n \in Nodes, m \in Nodes : Rank[n] = Rank[m] => n = m
  /\ \A n \in Nodes : \A m \in Deps[n] : Rank[m] < Rank[n]

ASSUME KindAssumption ==
  /\ Gates \subseteq Nodes /\ Local \subseteq Nodes /\ Fanned \subseteq Nodes
  /\ Gates \cap Local = {} /\ Fanned \cap (Gates \cup Local) = {}
  /\ Consequential \subseteq SideEffecting /\ SideEffecting \subseteq Nodes

ASSUME BudgetAssumption ==
  /\ MaxParallel \in Nat \ {0}
  /\ TokenBudget \in Nat
  /\ Costs \subseteq Nat

VARIABLES
  phase,        \* where runGraph's own coroutine is; "down": no process
  pc,           \* where each node's coroutine of the current batch is
  state,        \* nodes[n].state
  kind,         \* nodes[n].failureKind
  scope,        \* nodes[n].failureScope
  outputs,      \* the nodes that have an entry in outputs
  usage,        \* usage.inputTokens + usage.outputTokens
  expired,      \* the deadline of the run has passed
  approvals,    \* the gates whose approval token options.approvals holds
  events,       \* JsonlEventStore: appends not yet written, by writer
  checkpoints,  \* CheckpointStore: saves not yet written, in order
  rejected,     \* writers whose last write was refused
  disk,         \* <run-id>.checkpoint.json
  attempts,     \* executions of a side-effecting node not known void
  live,         \* what the executor of a side-effecting node's last attempt does
  invocations, crashes, ioFailures  \* counters for the bounds

progress == <<state, kind, scope, outputs, usage>>
queues == <<events, checkpoints>>
world == <<attempts, live>>
bounds == <<invocations, crashes, ioFailures>>
vars == <<phase, pc, progress, expired, approvals, queues, rejected, disk,
          world, bounds>>

Writers == Nodes \cup {Main}
Executed == Nodes \ (Gates \cup Local)
States == {"pending", "running", "completed", "blocked", "failed", "skipped"}
Kinds == {"none", "executor", "timeout", "budget"}
Scopes == {"none", "branch", "graph"}
Statuses == {"absent", "running", "needs_confirmation", "completed", "failed"}
Phases == {"down", "opening", "openSaving", "schedule", "skipping",
           "skipSaving", "batch", "blocking", "completing", "failing",
           "storing", "storingFailure", "exited"}
Pcs == {"idle", "starting", "saving", "executing", "ending", "endSaving",
        "settled"}

Checkpoint == [status : Statuses, state : [Nodes -> States],
               kind : [Nodes -> Kinds], scope : [Nodes -> Scopes],
               outputs : SUBSET Nodes, usage : Nat, expired : BOOLEAN]

NoCheckpoint == [status |-> "absent", state |-> [n \in Nodes |-> "pending"],
                 kind |-> [n \in Nodes |-> "none"],
                 scope |-> [n \in Nodes |-> "none"],
                 outputs |-> {}, usage |-> 0, expired |-> FALSE]

-----------------------------------------------------------------------------
(* The write chains.                                                       *)

\* What saveCheckpoint serialises when it is called.
Snapshot(status) ==
  [status |-> status, state |-> state, kind |-> kind, scope |-> scope,
   outputs |-> outputs, usage |-> usage, expired |-> expired]

Log(w) == events' = Append(events, w)

Save(w, status) ==
  checkpoints' = Append(checkpoints, [by |-> w, snap |-> Snapshot(status)])

\* Mutant of Written: a refused write goes unnoticed.
WrittenOrRefused(w) ==
  /\ \A i \in 1..Len(events) : events[i] # w
  /\ \A i \in 1..Len(checkpoints) : checkpoints[i].by # w

\* The write that w awaits has been made.
Written(w) ==
  /\ w \notin rejected
  /\ \A i \in 1..Len(events) : events[i] # w
  /\ \A i \in 1..Len(checkpoints) : checkpoints[i].by # w

EventWritten ==
  /\ events # <<>>
  /\ events' = Tail(events)
  /\ UNCHANGED <<phase, pc, progress, expired, approvals, checkpoints,
                 rejected, disk, world, bounds>>

\* Mutant of CheckpointWritten: saves are not chained, a later one may overtake.
CheckpointWrittenUnchained ==
  /\ checkpoints # <<>>
  /\ \E i \in 1..Len(checkpoints) :
       /\ disk' = checkpoints[i].snap
       /\ checkpoints' = SubSeq(checkpoints, 1, i - 1)
                          \o SubSeq(checkpoints, i + 1, Len(checkpoints))
  /\ UNCHANGED <<phase, pc, progress, expired, approvals, events, rejected,
                 world, bounds>>

CheckpointWritten ==
  /\ checkpoints # <<>>
  /\ disk' = Head(checkpoints).snap
  /\ checkpoints' = Tail(checkpoints)
  /\ UNCHANGED <<phase, pc, progress, expired, approvals, events, rejected,
                 world, bounds>>

EventRefused ==
  /\ events # <<>>
  /\ ioFailures < MaxIoFailures
  /\ ioFailures' = ioFailures + 1
  /\ rejected' = rejected \cup {Head(events)}
  /\ events' = Tail(events)
  /\ UNCHANGED <<phase, pc, progress, expired, approvals, checkpoints, disk,
                 world, invocations, crashes>>

CheckpointRefused ==
  /\ checkpoints # <<>>
  /\ ioFailures < MaxIoFailures
  /\ ioFailures' = ioFailures + 1
  /\ rejected' = rejected \cup {Head(checkpoints).by}
  /\ checkpoints' = Tail(checkpoints)
  /\ UNCHANGED <<phase, pc, progress, expired, approvals, events, disk,
                 world, invocations, crashes>>

-----------------------------------------------------------------------------
(* Starting, resuming and losing the process.                              *)

\* usageExceedsBudget
OverBudget(u) == u > TokenBudget

\* Mutant of Uncertain: a node that was still running at the crash is not in doubt.
UncertainIfFailed(n) == n \in SideEffecting /\ disk.state[n] = "failed"

\* Mutant of Uncertain: a node that has failed is not in doubt.
UncertainIfRunning(n) == n \in SideEffecting /\ disk.state[n] = "running"

\* A node that may have acted and is not known to have finished.
Uncertain(n) == n \in SideEffecting /\ disk.state[n] \in {"running", "failed"}

\* Mutant of GatesReapproved: the checkpoint is taken for an approval.
GatesTrusted(A) == TRUE

\* A completed gate is only good for an invocation that approves it again.
GatesReapproved(A) ==
  \A g \in Gates : disk.state[g] = "completed" => g \in A /\ g \in disk.outputs

\* Resume takes the node over as the checkpoint has it.
Kept(n) ==
  \/ disk.state[n] = "completed"
  \/ disk.status = "needs_confirmation" /\ disk.state[n] \in {"failed", "skipped"}
  \/ OverBudget(disk.usage)

\* Over budget, what a resume keeps of a failed node is a budget failure.
Rebranded(n) ==
  /\ OverBudget(disk.usage)
  /\ disk.state[n] = "failed"
  /\ disk.status # "needs_confirmation"

RestoredUsage == disk.usage

Restored ==
  /\ state' = [n \in Nodes |-> IF Kept(n) THEN disk.state[n] ELSE "pending"]
  /\ kind' = [n \in Nodes |-> IF Rebranded(n) THEN "budget"
                              ELSE IF Kept(n) THEN disk.kind[n] ELSE "none"]
  /\ scope' = [n \in Nodes |-> IF Rebranded(n) THEN "graph"
                               ELSE IF Kept(n) THEN disk.scope[n] ELSE "none"]
  /\ outputs' = {n \in disk.outputs : disk.state[n] = "completed"}
  /\ usage' = RestoredUsage
  /\ expired' = disk.expired

\* runGraph up to its first await; A are the approvals of this invocation.
Start(A) ==
  /\ phase = "down" /\ invocations = 0 /\ MaxInvocations > 0
  /\ invocations' = 1
  /\ approvals' = A
  /\ phase' = "opening"
  /\ Log(Main)
  /\ UNCHANGED <<pc, progress, expired, checkpoints, rejected, disk, world,
                 crashes, ioFailures>>

Resume(A) ==
  /\ phase = "down" /\ invocations < MaxInvocations
  /\ disk.status \notin {"absent", "completed"}
  /\ GatesReapproved(A)
  /\ \A n \in Nodes : ~Uncertain(n)
  /\ Restored
  /\ invocations' = invocations + 1
  /\ approvals' = A
  /\ phase' = "opening"
  /\ Log(Main)
  /\ UNCHANGED <<pc, checkpoints, rejected, disk, world, crashes, ioFailures>>

\* Everything a process keeps in memory is gone.
PowerOff ==
  /\ phase' = "down"
  /\ pc' = [n \in Nodes |-> "idle"]
  /\ state' = [n \in Nodes |-> "pending"]
  /\ kind' = [n \in Nodes |-> "none"]
  /\ scope' = [n \in Nodes |-> "none"]
  /\ outputs' = {} /\ usage' = 0 /\ expired' = FALSE /\ approvals' = {}
  /\ events' = <<>> /\ checkpoints' = <<>> /\ rejected' = {}
  /\ UNCHANGED <<disk, world>>

Crash ==
  /\ phase # "down" /\ crashes < MaxCrashes
  /\ crashes' = crashes + 1
  /\ PowerOff
  /\ UNCHANGED <<invocations, ioFailures>>

\* runGraph has returned and nothing is left for the event loop to do.
Exit ==
  /\ phase = "exited"
  /\ \A n \in Nodes : pc[n] \in {"idle", "settled"}
  /\ events = <<>> /\ checkpoints = <<>>
  /\ PowerOff
  /\ UNCHANGED bounds

TimePasses ==
  /\ phase # "down" /\ ~expired
  /\ expired' = TRUE
  /\ UNCHANGED <<phase, pc, progress, approvals, queues, rejected, disk,
                 world, bounds>>

-----------------------------------------------------------------------------
(* One node of a batch: the callback of batch.map.                         *)

\* failureScope of an error that is not a budget or a deadline.
Scope(n) == IF n \in SideEffecting THEN "graph" ELSE "branch"

\* The inner catch: the node has failed, its node_failed event is on its way.
Fail(n, k, s) ==
  /\ state' = [state EXCEPT ![n] = "failed"]
  /\ kind' = [kind EXCEPT ![n] = k]
  /\ scope' = [scope EXCEPT ![n] = s]
  /\ pc' = [pc EXCEPT ![n] = "ending"]
  /\ Log(n)

\* The execution gave a valid output and reports u tokens.
Publish(n, u) ==
  /\ usage' = usage + u
  /\ \/ /\ OverBudget(usage + u)
        /\ Fail(n, "budget", "graph")
        /\ UNCHANGED outputs
     \/ /\ ~OverBudget(usage + u)
        /\ outputs' = outputs \cup {n}
        /\ state' = [state EXCEPT ![n] = "completed"]
        /\ pc' = [pc EXCEPT ![n] = "ending"]
        /\ Log(n)
        /\ UNCHANGED <<kind, scope>>

\* The outer catch: run_failed is on its way.
RunFails == phase' = "failing" /\ Log(Main)

\* Mutant of StartLogged: the node goes on without its checkpoint.
StartLoggedOnly(n) ==
  /\ pc[n] = "starting" /\ Written(n)
  /\ pc' = [pc EXCEPT ![n] = "saving"]
  /\ UNCHANGED <<phase, progress, expired, approvals, queues, rejected, disk,
                 world, bounds>>

\* node_started is written.
StartLogged(n) ==
  /\ pc[n] = "starting" /\ Written(n)
  /\ pc' = [pc EXCEPT ![n] = "saving"]
  /\ Save(n, "running")
  /\ UNCHANGED <<phase, progress, expired, approvals, events, rejected, disk,
                 world, bounds>>

\* The checkpoint that shows the node running is written: it may act.
Ready(n) == pc[n] = "saving" /\ Written(n)

DeadlinePassed(n) ==
  /\ Ready(n) /\ expired
  /\ Fail(n, "timeout", "graph")
  /\ UNCHANGED <<phase, outputs, usage, expired, approvals, checkpoints,
                 rejected, disk, world, bounds>>

PassGate(n) ==
  /\ Ready(n) /\ ~expired /\ n \in Gates /\ n \in approvals
  /\ Publish(n, 0)
  /\ UNCHANGED <<phase, expired, approvals, checkpoints, rejected, disk,
                 world, bounds>>

StopAtGate(n) ==
  /\ Ready(n) /\ ~expired /\ n \in Gates /\ n \notin approvals
  /\ state' = [state EXCEPT ![n] = "blocked"]
  /\ pc' = [pc EXCEPT ![n] = "ending"]
  /\ Log(n)
  /\ UNCHANGED <<phase, kind, scope, outputs, usage, expired, approvals,
                 checkpoints, rejected, disk, world, bounds>>

RunLocally(n) ==
  /\ Ready(n) /\ ~expired /\ n \in Local
  /\ Publish(n, 0)
  /\ UNCHANGED <<phase, expired, approvals, checkpoints, rejected, disk,
                 world, bounds>>

\* A missing executor, a fan-out above maxFanout, a local operation that throws.
FailBeforeExecution(n) ==
  /\ Ready(n) /\ ~expired /\ n \notin Gates
  /\ Fail(n, "executor", Scope(n))
  /\ UNCHANGED <<phase, outputs, usage, expired, approvals, checkpoints,
                 rejected, disk, world, bounds>>

\* Only side-effecting executions are followed.
Became(n, what) ==
  IF n \in SideEffecting THEN [live EXCEPT ![n] = what] ELSE live

Launch(n) ==
  /\ Ready(n) /\ ~expired /\ n \in Executed
  /\ pc' = [pc EXCEPT ![n] = "executing"]
  /\ attempts' = IF n \in SideEffecting
                 THEN [attempts EXCEPT ![n] = @ + 1] ELSE attempts
  /\ live' = Became(n, "working")
  /\ UNCHANGED <<phase, progress, expired, approvals, queues, rejected, disk,
                 bounds>>

\* The executor answers.
Return(n, u) ==
  /\ pc[n] = "executing"
  /\ live' = Became(n, "ended")
  /\ Publish(n, u)
  /\ UNCHANGED <<phase, expired, approvals, checkpoints, rejected, disk,
                 attempts, bounds>>

\* What a failed execution can still report: a parallel_map the tokens of the
\* items that succeeded, any other node nothing.
PartialCosts(n) == IF n \in Fanned THEN Costs \cup {0} ELSE {0}

\* The executor throws, or its output is not valid.  "timeout" is an executor
\* that gave up by itself.  An item of a parallel_map that its own watchdog
\* abandoned stays at work although an earlier item decides the failure.
Raise(n, k, u) ==
  /\ pc[n] = "executing"
  /\ \/ live' = Became(n, "ended")
     \/ n \in Fanned /\ expired /\ live' = Became(n, "abandoned")
  /\ usage' = usage + u
  /\ Fail(n, k, Scope(n))
  /\ UNCHANGED <<phase, outputs, expired, approvals, checkpoints, rejected,
                 disk, attempts, bounds>>

\* Mutant of Watchdog: no timer is set.
NoWatchdog(n, u) == FALSE

\* invokeExecutor's timer: the executor is told to stop, and no longer waited for.
Watchdog(n, u) ==
  /\ pc[n] = "executing" /\ expired
  /\ live' = Became(n, "abandoned")
  /\ usage' = usage + u
  /\ Fail(n, "timeout", "graph")
  /\ UNCHANGED <<phase, outputs, expired, approvals, checkpoints, rejected,
                 disk, attempts, bounds>>

\* An abandoned or orphaned executor comes to its end.
ExecutorEnds(n) ==
  /\ n \in SideEffecting /\ live[n] # "ended" /\ pc[n] # "executing"
  /\ live' = Became(n, "ended")
  /\ UNCHANGED <<phase, pc, progress, expired, approvals, queues, rejected,
                 disk, attempts, bounds>>

\* node_completed, node_blocked or node_failed is written.
EndLogged(n) ==
  /\ pc[n] = "ending" /\ Written(n)
  /\ pc' = [pc EXCEPT ![n] = "endSaving"]
  /\ Save(n, "running")
  /\ UNCHANGED <<phase, progress, expired, approvals, events, rejected, disk,
                 world, bounds>>

EndSaved(n) ==
  /\ pc[n] = "endSaving" /\ Written(n)
  /\ pc' = [pc EXCEPT ![n] = "settled"]
  /\ UNCHANGED <<phase, progress, expired, approvals, queues, rejected, disk,
                 world, bounds>>

\* A refused write after the node completed falls into the inner catch.
CompletionRefused(n) ==
  /\ n \in rejected /\ pc[n] \in {"ending", "endSaving"}
  /\ state[n] = "completed"
  /\ rejected' = rejected \ {n}
  /\ Fail(n, "executor", Scope(n))
  /\ UNCHANGED <<phase, outputs, usage, expired, approvals, checkpoints, disk,
                 world, bounds>>

\* Any other refused write of a node rejects Promise.all, once; the other
\* nodes of the batch go on.
NodeRefused(n) ==
  /\ n \in rejected /\ pc[n] \in {"starting", "saving", "ending", "endSaving"}
  /\ pc[n] \in {"ending", "endSaving"} => state[n] # "completed"
  /\ rejected' = rejected \ {n}
  /\ pc' = [pc EXCEPT ![n] = "settled"]
  /\ IF phase = "batch" THEN RunFails ELSE UNCHANGED <<phase, events>>
  /\ UNCHANGED <<progress, expired, approvals, checkpoints, disk, world,
                 bounds>>

-----------------------------------------------------------------------------
(* runGraph's own coroutine.                                               *)

MainWrote(p) == phase = p /\ Written(Main)

OpenLogged ==
  /\ MainWrote("opening")
  /\ phase' = "openSaving"
  /\ Save(Main, "running")
  /\ UNCHANGED <<pc, progress, expired, approvals, events, rejected, disk,
                 world, bounds>>

OpenSaved ==
  /\ MainWrote("openSaving")
  /\ IF OverBudget(usage) THEN RunFails
     ELSE phase' = "schedule" /\ UNCHANGED events
  /\ UNCHANGED <<pc, progress, expired, approvals, checkpoints, rejected,
                 disk, world, bounds>>

Pending == {n \in Nodes : state[n] = "pending"}

\* Mutant of Doomed: one failure dooms all that is pending.
AllDoomed == {n \in Pending : \E d \in Nodes : state[d] \in {"failed", "skipped"}}

\* Mutant of Doomed: a skipped dependency does not doom.
DoomedByFailure == {n \in Pending : \E d \in Deps[n] : state[d] = "failed"}

\* skipFailedDescendants: who is to be skipped next, in topological order.
Doomed == {n \in Pending : \E d \in Deps[n] : state[d] \in {"failed", "skipped"}}

Skip(n) ==
  /\ phase = "schedule" \/ MainWrote("skipping")
  /\ n \in Doomed /\ \A m \in Doomed : Rank[n] <= Rank[m]
  /\ state' = [state EXCEPT ![n] = "skipped"]
  /\ phase' = "skipping"
  /\ Log(Main)
  /\ UNCHANGED <<pc, kind, scope, outputs, usage, expired, approvals,
                 checkpoints, rejected, disk, world, bounds>>

SkipsLogged ==
  /\ MainWrote("skipping") /\ Doomed = {}
  /\ phase' = "skipSaving"
  /\ Save(Main, "running")
  /\ UNCHANGED <<pc, progress, expired, approvals, events, rejected, disk,
                 world, bounds>>

SkipsSaved ==
  /\ MainWrote("skipSaving")
  /\ phase' = "schedule"
  /\ UNCHANGED <<pc, progress, expired, approvals, queues, rejected, disk,
                 world, bounds>>

Blocked == {n \in Nodes : state[n] = "blocked"}

\* Nothing is left to skip: the scheduler may decide.
Deciding == phase = "schedule" /\ Doomed = {}

Runnable == {n \in Pending : \A d \in Deps[n] : state[d] = "completed"}

\* q is the first maxParallel runnable nodes, in order.
IsBatch(q) ==
  /\ \A i, j \in DOMAIN q : i < j => Rank[q[i]] < Rank[q[j]]
  /\ \A n \in Runnable : (\A i \in DOMAIN q : q[i] # n) =>
       Len(q) = MaxParallel /\ \A i \in DOMAIN q : Rank[q[i]] < Rank[n]

Dispatch ==
  /\ Deciding /\ Blocked = {} /\ Runnable # {}
  /\ \E k \in 1..MaxParallel : \E q \in [1..k -> Runnable] :
       /\ IsBatch(q)
       /\ LET batch == {q[i] : i \in 1..k} IN
          /\ state' = [n \in Nodes |-> IF n \in batch THEN "running" ELSE state[n]]
          /\ pc' = [n \in Nodes |-> IF n \in batch THEN "starting" ELSE pc[n]]
       /\ events' = events \o q
  /\ phase' = "batch"
  /\ UNCHANGED <<kind, scope, outputs, usage, expired, approvals, checkpoints,
                 rejected, disk, world, bounds>>

\* Mutant of GlobalFailure: every failure is one of a branch.
NoGlobalFailure == FALSE

\* A failure of the batch that stops the whole graph.
GlobalFailure == \E n \in Nodes :
  pc[n] = "settled" /\ state[n] = "failed" /\ scope[n] = "graph"

\* Mutant of BatchSettled: a global failure does not wait for the other nodes.
BatchSettledOrFailed ==
  GlobalFailure \/ \A n \in Nodes : pc[n] \in {"idle", "settled"}

\* Promise.all waits for every node of the batch.
BatchSettled == \A n \in Nodes : pc[n] \in {"idle", "settled"}

BatchDone ==
  /\ phase = "batch" /\ BatchSettled
  /\ pc' = [n \in Nodes |-> IF pc[n] = "settled" THEN "idle" ELSE pc[n]]
  /\ IF GlobalFailure THEN RunFails
     ELSE phase' = "schedule" /\ UNCHANGED events
  /\ UNCHANGED <<progress, expired, approvals, checkpoints, rejected, disk,
                 world, bounds>>

Block ==
  /\ Deciding /\ Blocked # {}
  /\ phase' = "blocking"
  /\ Log(Main)
  /\ UNCHANGED <<pc, progress, expired, approvals, checkpoints, rejected,
                 disk, world, bounds>>

\* Mutant of BranchFailures: failed branches are forgotten at the end.
NoBranchFailures == {}

\* branchFailureError
BranchFailures == {n \in Nodes : state[n] = "failed" /\ scope[n] = "branch"}

Finish ==
  /\ Deciding /\ Blocked = {} /\ Pending = {}
  /\ IF BranchFailures # {} THEN RunFails
     ELSE phase' = "completing" /\ Log(Main)
  /\ UNCHANGED <<pc, progress, expired, approvals, checkpoints, rejected,
                 disk, world, bounds>>

\* Mutant of FinalStatus: a blocked run is saved with a status of its own.
FinalStatusBlocked == [blocking |-> "blocked", completing |-> "completed",
                       failing |-> "failed"]

\* The status that each way of ending the invocation saves.
FinalStatus == [blocking |-> "needs_confirmation", completing |-> "completed",
                failing |-> "failed"]

EndingLogged ==
  /\ phase \in DOMAIN FinalStatus /\ Written(Main)
  /\ phase' = IF phase = "failing" THEN "storingFailure" ELSE "storing"
  /\ Save(Main, FinalStatus[phase])
  /\ UNCHANGED <<pc, progress, expired, approvals, events, rejected, disk,
                 world, bounds>>

EndingSaved ==
  /\ phase \in {"storing", "storingFailure"} /\ Written(Main)
  /\ phase' = "exited"
  /\ UNCHANGED <<pc, progress, expired, approvals, queues, rejected, disk,
                 world, bounds>>

\* A refused write of runGraph itself: inside its try block the run fails, before
\* it and inside its catch block runGraph rejects.
MainRefused ==
  /\ Main \in rejected
  /\ rejected' = rejected \ {Main}
  /\ IF phase \in {"opening", "openSaving", "failing", "storingFailure"}
     THEN phase' = "exited" /\ UNCHANGED events
     ELSE RunFails
  /\ UNCHANGED <<pc, progress, expired, approvals, checkpoints, disk, world,
                 bounds>>

-----------------------------------------------------------------------------
(* The operator: reconcileCheckpoint, with no process running the graph.   *)

\* Mutant of NeedsTermination: no evidence of termination is asked for.
NoTerminationNeeded(n) == FALSE

\* requiresTerminationConfirmation
NeedsTermination(n) == disk.kind[n] = "timeout"

ReconcileCompleted(n) ==
  /\ phase = "down" /\ Uncertain(n)
  /\ disk' = [disk EXCEPT !.status = "running", !.state[n] = "completed",
                          !.kind[n] = "none", !.outputs = @ \cup {n}]
  /\ UNCHANGED <<phase, pc, progress, expired, approvals, queues, rejected,
                 world, bounds>>

\* The evidence is taken to be true: the attempt had no effect, and where the
\* code asks for its termination, it has terminated.
ReconcileNotApplied(n) ==
  /\ phase = "down" /\ Uncertain(n)
  /\ NeedsTermination(n) => live[n] = "ended"
  /\ disk' = [disk EXCEPT !.status = "running", !.state[n] = "pending",
                          !.kind[n] = "none", !.outputs = @ \ {n}]
  /\ attempts' = [attempts EXCEPT ![n] = 0]
  /\ UNCHANGED <<phase, pc, progress, expired, approvals, queues, rejected,
                 live, bounds>>

-----------------------------------------------------------------------------
Init ==
  /\ phase = "down"
  /\ pc = [n \in Nodes |-> "idle"]
  /\ state = [n \in Nodes |-> "pending"]
  /\ kind = [n \in Nodes |-> "none"]
  /\ scope = [n \in Nodes |-> "none"]
  /\ outputs = {} /\ usage = 0 /\ expired = FALSE /\ approvals = {}
  /\ events = <<>> /\ checkpoints = <<>> /\ rejected = {}
  /\ disk = NoCheckpoint
  /\ attempts = [n \in SideEffecting |-> 0]
  /\ live = [n \in SideEffecting |-> "ended"]
  /\ invocations = 0 /\ crashes = 0 /\ ioFailures = 0

\* What the file system and the event loop do by themselves.
Io == EventWritten \/ CheckpointWritten

NodeContinues(n) ==
  \/ StartLogged(n) \/ DeadlinePassed(n) \/ PassGate(n) \/ StopAtGate(n)
  \/ RunLocally(n) \/ FailBeforeExecution(n) \/ Launch(n)
  \/ EndLogged(n) \/ EndSaved(n) \/ CompletionRefused(n) \/ NodeRefused(n)
  \/ \E u \in PartialCosts(n) : Watchdog(n, u)

MainContinues ==
  \/ OpenLogged \/ OpenSaved \/ (\E n \in Nodes : Skip(n)) \/ SkipsLogged
  \/ SkipsSaved \/ Dispatch \/ BatchDone \/ Block \/ Finish \/ EndingLogged
  \/ EndingSaved \/ MainRefused \/ Exit

ExecutorAnswers(n) ==
  \/ \E u \in Costs : Return(n, u)
  \/ \E k \in {"executor", "timeout"}, u \in PartialCosts(n) : Raise(n, k, u)
  \/ ExecutorEnds(n)

Operator ==
  \/ \E A \in SUBSET Gates : Start(A) \/ Resume(A)
  \/ \E n \in Nodes : ReconcileCompleted(n) \/ ReconcileNotApplied(n)

Next ==
  \/ Io \/ EventRefused \/ CheckpointRefused
  \/ \E n \in Nodes : NodeContinues(n) \/ ExecutorAnswers(n)
  \/ MainContinues \/ TimePasses \/ Crash \/ Operator

Spec == Init /\ [][Next]_vars

\* The event loop runs every callback that is due, the file system answers and
\* time goes on.  Nothing is assumed of executors: they may never answer.
Fairness ==
  /\ WF_vars(Io) /\ WF_vars(MainContinues) /\ WF_vars(TimePasses)
  /\ \A n \in Nodes : WF_vars(NodeContinues(n))

FairSpec == Spec /\ Fairness

-----------------------------------------------------------------------------
(* Properties.                                                             *)

\* Every variable has its type; a checkpoint on disk or on its way has a status
\* that loadCheckpoint accepts.
TypeOK ==
  /\ phase \in Phases /\ pc \in [Nodes -> Pcs]
  /\ state \in [Nodes -> States] /\ kind \in [Nodes -> Kinds]
  /\ scope \in [Nodes -> Scopes]
  /\ outputs \in SUBSET Nodes /\ usage \in Nat /\ expired \in BOOLEAN
  /\ approvals \in SUBSET Gates
  /\ events \in Seq(Writers)
  /\ checkpoints \in Seq([by : Writers, snap : Checkpoint])
  /\ rejected \in SUBSET Writers
  /\ disk \in Checkpoint
  /\ attempts \in [SideEffecting -> Nat] 
  /\ live \in [SideEffecting -> {"ended", "working", "abandoned"}]
  /\ invocations \in Nat /\ crashes \in Nat /\ ioFailures \in Nat

\* "Interrupted side-effecting nodes are never replayed automatically": whatever
\* crashes, refused writes and resumes happen, a side-effecting node is executed
\* again only after the operator has attested that its last execution had no effect.
AtMostOnce == \A n \in SideEffecting : attempts[n] <= 1

\* The checkpoint is written ahead of the effect: at every instant, what a crash
\* would leave on disk shows a side-effecting node that has been executed (and
\* not declared void) as running, failed or completed, never as still to do.
EffectOnRecord ==
  \A n \in SideEffecting : attempts[n] > 0 =>
    disk.status # "absent" /\ disk.state[n] \in {"running", "failed", "completed"}

\* A consequential node executes only in an invocation whose caller supplied the
\* approval of every gate above it; a gate passed before a crash or a pause does
\* not count by itself.
GatesApproved ==
  \A n \in Consequential : pc[n] = "executing" => Ancestors[n] \cap Gates \subseteq approvals

\* A paused run can be resumed with an approval alone: its checkpoint has no
\* side-effecting node in doubt, and a gate whose dependencies are done waits.
PauseIsClean ==
  disk.status = "needs_confirmation" =>
    /\ \A n \in Nodes : ~Uncertain(n)
    /\ \E g \in Gates : /\ disk.state[g] = "blocked"
                        /\ \A d \in Deps[g] : disk.state[d] = "completed"

\* A failure that does not stop the graph costs only its descendants: when such a
\* run has failed, every node is done, failed, or skipped under a failed ancestor.
\* (A resume over budget, or a refused write, fails the run without such a node.)
BranchesIsolated ==
  /\ disk.status = "failed" /\ ~OverBudget(disk.usage) /\ ioFailures = 0
  /\ \A n \in Nodes : disk.state[n] = "failed" => disk.scope[n] = "branch"
  => \A n \in Nodes :
       \/ disk.state[n] \in {"completed", "failed"}
       \/ /\ disk.state[n] = "skipped"
          /\ \E m \in Ancestors[n] : disk.state[m] = "failed"

\* A completed run has completed every node, within its token budget.
CompletedIsWhole ==
  disk.status = "completed" =>
    /\ \A n \in Nodes : disk.state[n] = "completed"
    /\ disk.outputs = Nodes
    /\ ~OverBudget(disk.usage)

\* The scheduler never has pending nodes and nothing to do with them: the code's
\* "no executable nodes remain" cannot be thrown.
NeverStuck == Deciding /\ Blocked = {} /\ Pending # {} => Runnable # {}

\* No checkpoint forgets tokens an earlier one recorded, over crashes, resumes and
\* reconciliations.
UsageKept == [][disk'.usage >= disk.usage]_disk

\* A node once recorded as completed stays so in every later checkpoint; "completed
\* nodes are not replayed during resume".  (A refused write takes a completion that
\* another node's checkpoint may have recorded back: CompletionRefused.)
CompletionKept ==
  [][ioFailures = 0 =>
       \A n \in Nodes : disk.state[n] = "completed" => disk'.state[n] = "completed"]_disk

\* The final checkpoint of an invocation is its last write: only the next
\* invocation or a reconciliation replaces it.  (After a refused write the final
\* checkpoint does not wait for the nodes still at work: NodeRefused.)
FinalCheckpointStands ==
  [][ioFailures = 0 /\ disk.status \in {"needs_confirmation", "completed", "failed"}
       => phase \in {"down", "openSaving"}]_disk

\* Every invocation comes to an end, although executors may never answer.
Terminates == phase # "down" ~> phase = "down"

\* A timed-out side effect is marked not_applied only with evidence that it has
\* terminated: an attempt that the watchdog gave up, and that may still be at work,
\* is never declared void.
NoOverlap ==
  [][\A n \in SideEffecting : live[n] = "abandoned" /\ attempts[n] > 0
       => attempts'[n] > 0]_attempts

\* Unless a crash or a second refused write forgets the timeout, such an attempt never
\* overlaps the next one.  (One refused write lets runGraph return while the node is
\* at work, another one then loses what came of it.  Of a fan-out, an earlier item
\* can decide the failure while a later one is abandoned: Raise.)
NoOverlapUncrashed ==
  [][crashes = 0 /\ ioFailures <= 1 => \A n \in SideEffecting \ Fanned :
       live[n] = "abandoned" /\ attempts[n] > 0 => attempts'[n] > 0]_attempts

\* The checkpoint on disk read as a ledger of effects: a node shown running or
\* failed is entered, one shown completed is settled.
Effects == SideEffecting \ Gates

Entry(n) == CASE disk.state[n] \in {"running", "failed"} -> "entered"
              [] disk.state[n] = "completed" -> "settled"
              [] OTHER -> "clear"

Ledger == INSTANCE EffectLedger WITH
  book <- [n \in Effects |-> Entry(n)],
  acts <- [n \in Effects |-> attempts[n]]

\* A run, over all its crashes and resumes, keeps the ledger: an effect is on disk
\* before it is tried, is tried once per entry, and its entry is cleared only by a
\* reconciliation.  (executeNode after the awaited save; assertResumeCheckpoint.)
EffectsFollowTheLedger == Ledger!Spec

Record == INSTANCE RunRecord WITH
  status <- disk.status, state <- disk.state, usage <- disk.usage, refused <- ioFailures > 0

\* The checkpoints of a run tell an execution of its graph in the order of the
\* dependencies: over all crashes, refused writes and resumes no checkpoint shows a
\* node done that none has shown running, or running before what it depends on, or
\* skipped without a failure; and an ending is true and stands until a resume.
CheckpointsTellTheRun == Record!Spec
=============================================================================
