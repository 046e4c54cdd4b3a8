---------------------------- MODULE SchedulerProofs ----------------------------
(***************************************************************************)
(* What the scheduler of GraphRuntime knows about its nodes, for every       *)
(* graph and any number of crashes, refused writes and resumes.              *)
(*                                                                         *)
(* Gates: nodes are reached in dependency order, so a node that has been    *)
(* dispatched has only completed ancestors, in memory and in every           *)
(* checkpoint; the gates above it are completed, and a gate that is          *)
(* completed in memory has been approved, by PassGate in this invocation or  *)
(* by the test resume makes of what it takes over.                          *)
(*                                                                         *)
(* Outcomes: between two batches nothing is running, what has failed has     *)
(* failed as a branch, and what is skipped has a failed ancestor.  So the    *)
(* scheduler always has a node to run, and each way of ending the run finds  *)
(* the nodes as the checkpoint it saves will claim.                          *)
(***************************************************************************)
EXTENDS GraphRuntimeProofs, WellFoundedInduction

Reached == {"running", "failed", "completed", "blocked"}

Below(n) == {d \in Nodes : n \in Ancestors[d]}

InOrder(st) ==
  \A n \in Nodes : st[n] \in Reached => \A m \in Ancestors[n] : st[m] = "completed"

Busy == {"batch", "failing", "storingFailure", "exited"}

Acting == {"starting", "saving", "executing"}

\* A node of the present batch acts on nodes nothing below which has been reached,
\* not even while its own completion can still be taken back.
InBatch(n) ==
  pc[n] # "idle" => /\ phase \in Busy
                    /\ \A d \in Below(n) : state[d] \notin Reached
                    /\ pc[n] \in Acting => state[n] = "running"
                    /\ pc[n] = "executing" => n \in Executed

Queue == \A i \in 1..Len(checkpoints) : InOrder(checkpoints[i].snap.state)

Approved == phase # "down" => \A g \in Gates : state[g] = "completed" => g \in approvals

GateInv ==
  /\ TypeOK /\ Asleep
  /\ InOrder(state) /\ InOrder(disk.state) /\ Queue
  /\ \A n \in Nodes : InBatch(n)
  /\ Approved

\* What a step must establish anew.
Renewed == /\ InOrder(state)' /\ InOrder(disk.state)' /\ Queue'
           /\ \A n \in Nodes : InBatch(n)'
           /\ Approved'

-----------------------------------------------------------------------------
(* The queue of checkpoints.                                               *)

LEMMA QueueUnchanged ==
  ASSUME GateInv, checkpoints' = checkpoints PROVE Queue'
BY DEF GateInv, Queue, InOrder

LEMMA QueueSaved ==
  ASSUME GateInv, NEW w \in Writers, NEW s \in Statuses, Save(w, s) PROVE Queue'
<1> DEFINE new == [by |-> w, snap |-> Snapshot(s)]
<1>1. new \in [by : Writers, snap : Checkpoint] /\ new.snap.state = state
  BY SnapshotType DEF GateInv, Snapshot
<1>2. /\ Len(checkpoints) \in Nat /\ Len(checkpoints') = Len(checkpoints) + 1
      /\ \A i \in 1..Len(checkpoints) : checkpoints'[i] = checkpoints[i]
      /\ checkpoints'[Len(checkpoints) + 1] = new
  BY <1>1, QueueAppend DEF GateInv, TypeOK, Save
<1>3. \A i \in 1..Len(checkpoints') : i \in 1..Len(checkpoints) \/ checkpoints'[i] = new
  BY <1>2
<1> QED
  BY <1>1, <1>2, <1>3 DEF GateInv, Queue, InOrder

LEMMA QueueWritten ==
  ASSUME GateInv, checkpoints # <<>>, checkpoints' = Tail(checkpoints),
         disk' = Head(checkpoints).snap \/ disk' = disk
  PROVE  Queue' /\ InOrder(disk.state)'
<1>1. /\ Head(checkpoints) = checkpoints[1] /\ Len(checkpoints) \in Nat \ {0}
      /\ Len(checkpoints') = Len(checkpoints) - 1
      /\ \A i \in 1..Len(checkpoints') : checkpoints'[i] = checkpoints[i + 1]
  BY QueueHead DEF GateInv, TypeOK
<1>2. \A i \in 1..Len(checkpoints') : i + 1 \in 1..Len(checkpoints)
  BY <1>1
<1>3. 1 \in 1..Len(checkpoints)
  BY <1>1
<1> QED
  BY <1>1, <1>2, <1>3 DEF GateInv, Queue, InOrder

-----------------------------------------------------------------------------
(* The shapes of a step.                                                   *)

\* The states of the nodes stay; the nodes of the batch go on or are done.
LEMMA SameState ==
  ASSUME GateInv, UNCHANGED <<state, disk, approvals>>, Queue',
         phase' # "down" => phase # "down",
         \A n \in Nodes : pc'[n] # "idle" =>
           /\ pc[n] # "idle" /\ phase' \in Busy
           /\ pc'[n] \in Acting => pc[n] \in Acting
           /\ pc'[n] = "executing" => n \in Executed
  PROVE  Renewed
<1>1. InOrder(state)' /\ InOrder(disk.state)' /\ Approved'
  BY DEF GateInv, InOrder, Approved
<1>2. ASSUME NEW n \in Nodes PROVE InBatch(n)'
  BY DEF GateInv, InBatch, Below
<1> QED
  BY <1>1, <1>2 DEF Renewed

\* One node of the batch gets a result.
LEMMA OneMoves ==
  ASSUME GateInv, NEW n \in Nodes, pc[n] # "idle", state[n] \in Reached, NEW v \in Reached,
         state' = [state EXCEPT ![n] = v],
         pc' = [pc EXCEPT ![n] = "ending"],
         UNCHANGED <<phase, checkpoints, disk, approvals>>,
         v = "completed" /\ n \in Gates => n \in approvals
  PROVE  Renewed
<1>1. /\ \A m \in Nodes : m # n => state'[m] = state[m] /\ pc'[m] = pc[m]
      /\ state'[n] = v /\ pc'[n] = "ending"
  BY DEF GateInv, TypeOK
<1>2. InBatch(n) /\ \A d \in Below(n) : state[d] \notin Reached /\ d # n
  BY DEF GateInv, InBatch
<1>3. \A m \in Nodes : Ancestors[m] \subseteq Nodes
  BY GraphAssumption
<1>4. InOrder(state)'
  <2> SUFFICES ASSUME NEW m \in Nodes, state'[m] \in Reached, NEW a \in Ancestors[m]
               PROVE  state'[a] = "completed"
    BY DEF InOrder
  <2>1. state[m] \in Reached
    BY <1>1
  <2>2. a # n /\ a \in Nodes
    BY <1>2, <1>3, <2>1 DEF Below
  <2> QED
    BY <1>1, <2>1, <2>2 DEF GateInv, InOrder
<1>5. ASSUME NEW m \in Nodes PROVE InBatch(m)'
  <2>1. InBatch(m) /\ phase' = phase
    BY DEF GateInv
  <2>2. ASSUME pc'[m] # "idle", NEW d \in Below(m) PROVE state'[d] \notin Reached
    <3>1. pc[m] # "idle" /\ state[d] \notin Reached
      BY <1>1, <2>1, <2>2 DEF InBatch
    <3> QED
      BY <1>1, <3>1 DEF Below
  <2>3. pc'[m] \in Acting => m # n
    BY <1>1 DEF Acting
  <2>4. pc'[m] # "idle" => phase \in Busy
    BY <1>1, <1>2, <2>1 DEF InBatch
  <2>5. \A d : d \in Below(m)' <=> d \in Below(m)
    BY DEF Below
  <2> QED
    BY <1>1, <2>1, <2>2, <2>3, <2>4, <2>5 DEF InBatch, Acting
<1>6. InOrder(disk.state)' /\ Queue' /\ Approved'
  BY <1>1, QueueUnchanged, KindAssumption DEF GateInv, InOrder, Approved
<1> QED
  BY <1>4, <1>5, <1>6 DEF Renewed

LEMMA FailStep ==
  ASSUME GateInv, NEW n \in Nodes, pc[n] # "idle", state[n] \in Reached, NEW k, NEW c,
         Fail(n, k, c), UNCHANGED <<phase, checkpoints, disk, approvals>>
  PROVE  Renewed
BY OneMoves DEF Fail, Reached

LEMMA PublishStep ==
  ASSUME GateInv, NEW n \in Nodes, pc[n] # "idle", state[n] \in Reached, NEW u,
         Publish(n, u), n \in Gates => n \in approvals,
         UNCHANGED <<phase, checkpoints, disk, approvals>>
  PROVE  Renewed
<1>1. CASE Fail(n, "budget", "graph")
  BY <1>1, FailStep
<1>2. CASE state' = [state EXCEPT ![n] = "completed"] /\ pc' = [pc EXCEPT ![n] = "ending"]
  BY <1>2, OneMoves DEF Reached
<1> QED
  BY <1>1, <1>2 DEF Publish

\* With no process left, memory holds nothing that could be out of order.
LEMMA GateOffStep ==
  ASSUME GateInv, PowerOff PROVE Renewed
<1>1. /\ phase' = "down" /\ disk' = disk /\ Len(checkpoints') = 0
      /\ \A n \in Nodes : pc'[n] = "idle" /\ state'[n] = "pending"
  BY DEF PowerOff
<1> QED
  BY <1>1 DEF Renewed, GateInv, InOrder, Queue, InBatch, Approved, Reached

\* While no batch runs, the nodes of a batch have not been touched.
LEMMA AllIdle ==
  ASSUME GateInv, phase \notin Busy PROVE \A n \in Nodes : pc[n] = "idle"
BY DEF GateInv, InBatch

LEMMA SkipStep ==
  ASSUME GateInv, NEW n \in Nodes, Skip(n) PROVE Renewed
<1> USE DEF bounds, world, queues, progress
<1>1. /\ phase \notin Busy /\ phase # "down" /\ state[n] = "pending"
      /\ UNCHANGED <<pc, checkpoints, disk, approvals>>
  BY DEF Skip, MainWrote, Busy, Doomed, Pending
<1>2. \A m \in Nodes : pc'[m] = "idle"
  BY <1>1, AllIdle
<1>3. /\ \A m \in Nodes : m # n => state'[m] = state[m]
      /\ state'[n] = "skipped"
  BY DEF Skip, GateInv, TypeOK
<1>4. \A m \in Nodes : Ancestors[m] \subseteq Nodes
  BY GraphAssumption
<1>5. InOrder(state)'
  <2> SUFFICES ASSUME NEW m \in Nodes, state'[m] \in Reached, NEW a \in Ancestors[m]
               PROVE  state'[a] = "completed"
    BY DEF InOrder
  <2>1. state[m] \in Reached
    BY <1>3 DEF Reached
  <2>2. state[a] = "completed" /\ a \in Nodes
    BY <1>4, <2>1 DEF GateInv, InOrder
  <2> QED
    BY <1>1, <1>3, <2>2
<1>6. InOrder(disk.state)' /\ Queue'
  BY <1>1, QueueUnchanged DEF GateInv, InOrder
<1>7. Approved'
  BY <1>1, <1>3, KindAssumption DEF GateInv, Approved
<1>8. \A m \in Nodes : InBatch(m)'
  BY <1>2 DEF InBatch
<1> QED
  BY <1>5, <1>6, <1>7, <1>8 DEF Renewed

\* A runnable node has completed dependencies, and so completed ancestors.
LEMMA RunnableAncestors ==
  ASSUME GateInv, NEW n \in Runnable PROVE \A a \in Ancestors[n] : state[a] = "completed"
<1> SUFFICES ASSUME NEW a \in Ancestors[n] PROVE state[a] = "completed"
  OBVIOUS
<1>1. n \in Nodes /\ \A d \in Deps[n] : state[d] = "completed" /\ d \in Nodes
  BY GraphAssumption DEF Runnable, Pending
<1>2. a \in Deps[n] \/ \E d \in Deps[n] : a \in Ancestors[d]
  BY <1>1, GraphAssumption
<1>3. CASE a \in Deps[n]
  BY <1>1, <1>3
<1>4. ASSUME NEW d \in Deps[n], a \in Ancestors[d] PROVE state[a] = "completed"
  BY <1>1, <1>4 DEF GateInv, InOrder, Reached
<1> QED
  BY <1>2, <1>3, <1>4

\* Dispatch starts a set of runnable nodes.
LEMMA DispatchedSet ==
  ASSUME Dispatch
  PROVE  \E B \in SUBSET Runnable :
           /\ state' = [n \in Nodes |-> IF n \in B THEN "running" ELSE state[n]]
           /\ pc' = [n \in Nodes |-> IF n \in B THEN "starting" ELSE pc[n]]
<1>1. PICK k \in 1..MaxParallel : \E q \in [1..k -> Runnable] :
        /\ state' = [n \in Nodes |-> IF n \in {q[i] : i \in 1..k}
                                     THEN "running" ELSE state[n]]
        /\ pc' = [n \in Nodes |-> IF n \in {q[i] : i \in 1..k}
                                  THEN "starting" ELSE pc[n]]
  BY DEF Dispatch
<1>2. PICK q \in [1..k -> Runnable] :
        /\ state' = [n \in Nodes |-> IF n \in {q[i] : i \in 1..k}
                                     THEN "running" ELSE state[n]]
        /\ pc' = [n \in Nodes |-> IF n \in {q[i] : i \in 1..k}
                                  THEN "starting" ELSE pc[n]]
  BY <1>1
<1>3. {q[i] : i \in 1..k} \in SUBSET Runnable
  OBVIOUS
<1> QED
  BY <1>2, <1>3

LEMMA GateDispatchStep ==
  ASSUME GateInv, Dispatch PROVE Renewed
<1> USE DEF bounds, world, queues, progress
<1>1. PICK B \in SUBSET Runnable :
        /\ state' = [n \in Nodes |-> IF n \in B THEN "running" ELSE state[n]]
        /\ pc' = [n \in Nodes |-> IF n \in B THEN "starting" ELSE pc[n]]
  BY DispatchedSet
<1>2. /\ phase = "schedule" /\ phase' = "batch" /\ phase \notin Busy /\ phase' \in Busy
      /\ UNCHANGED <<checkpoints, disk, approvals>>
  BY DEF Dispatch, Deciding, Busy
<1>3. \A n \in Nodes : pc[n] = "idle"
  BY <1>2, AllIdle
<1>4. \A n \in B : n \in Nodes /\ state[n] = "pending"
  BY DEF Runnable, Pending
<1>5. \A n \in Nodes : Ancestors[n] \subseteq Nodes
  BY GraphAssumption
<1>6. InOrder(state)'
  <2> SUFFICES ASSUME NEW n \in Nodes, state'[n] \in Reached, NEW a \in Ancestors[n]
               PROVE  state'[a] = "completed"
    BY DEF InOrder
  <2>1. state[a] = "completed"
    <3>1. CASE n \in B
      BY <3>1, RunnableAncestors
    <3>2. CASE n \notin B
      BY <1>1, <3>2 DEF GateInv, InOrder
    <3> QED
      BY <3>1, <3>2
  <2>2. a \in Nodes /\ a \notin B
    BY <1>4, <1>5, <2>1
  <2> QED
    BY <1>1, <2>1, <2>2
<1>7. ASSUME NEW n \in Nodes PROVE InBatch(n)'
  <2>1. CASE n \notin B
    BY <1>1, <1>3, <2>1 DEF InBatch
  <2>2. CASE n \in B
    <3>1. pc'[n] = "starting" /\ state'[n] = "running"
      BY <1>1, <2>2
    <3>2. ASSUME NEW d \in Nodes, n \in Ancestors[d], state'[d] \in Reached PROVE FALSE
      <4>1. state'[n] = "completed"
        BY <1>6, <3>2 DEF InOrder
      <4> QED
        BY <3>1, <4>1
    <3> QED
      BY <1>2, <3>1, <3>2 DEF InBatch, Below
  <2> QED
    BY <2>1, <2>2
<1>8. InOrder(disk.state)' /\ Queue'
  BY <1>2, QueueUnchanged DEF GateInv, InOrder
<1>9. Approved'
  BY <1>1, <1>2, KindAssumption DEF GateInv, Approved
<1> QED
  BY <1>6, <1>7, <1>8, <1>9 DEF Renewed

LEMMA GateStartStep ==
  ASSUME GateInv, NEW A \in SUBSET Gates, Start(A) PROVE Renewed
<1> USE DEF bounds, world, queues, progress
<1>1. /\ phase = "down" /\ UNCHANGED <<state, checkpoints, disk>>
      /\ \A n \in Nodes : pc'[n] = "idle" /\ state'[n] = "pending"
  BY DEF Start, GateInv, Asleep
<1>2. InOrder(state)' /\ InOrder(disk.state)' /\ Queue'
  BY <1>1, QueueUnchanged DEF GateInv, InOrder
<1>3. Approved'
  BY <1>1, KindAssumption DEF Approved
<1> QED
  BY <1>1, <1>2, <1>3 DEF Renewed, InBatch

\* Resume keeps every completed node, and takes over a completed gate only when it
\* is approved again.
LEMMA GateResumeStep ==
  ASSUME GateInv, NEW A \in SUBSET Gates, Resume(A) PROVE Renewed
<1> USE DEF bounds, world, queues, progress
<1>1. /\ \A n \in Nodes : pc'[n] = "idle"
      /\ approvals' = A /\ UNCHANGED <<checkpoints, disk>>
  BY DEF Resume, GateInv, Asleep
<1>2. \A n \in Nodes : /\ state'[n] = disk.state[n] \/ state'[n] = "pending"
                       /\ disk.state[n] = "completed" => state'[n] = "completed"
  BY DEF Resume, Restored, Kept
<1>3. InOrder(state)'
  <2> SUFFICES ASSUME NEW n \in Nodes, state'[n] \in Reached, NEW a \in Ancestors[n]
               PROVE  state'[a] = "completed"
    BY DEF InOrder
  <2>1. disk.state[n] \in Reached
    BY <1>2 DEF Reached
  <2>2. disk.state[a] = "completed" /\ a \in Nodes
    BY <2>1, GraphAssumption DEF GateInv, InOrder
  <2> QED
    BY <1>2, <2>2
<1>4. Approved'
  <2>1. \A g \in Gates : disk.state[g] = "completed" => g \in A
    BY DEF Resume, GatesReapproved
  <2> QED
    BY <1>1, <1>2, <2>1, KindAssumption DEF Approved
<1>5. InOrder(disk.state)' /\ Queue'
  BY <1>1, QueueUnchanged DEF GateInv, InOrder
<1> QED
  BY <1>1, <1>3, <1>4, <1>5 DEF Renewed, InBatch

\* Nothing below a node in doubt has been reached, so the operator's verdict on it
\* cannot put a checkpoint out of order.
LEMMA GateLedgerStep ==
  ASSUME GateInv, NEW n \in Nodes, ReconcileCompleted(n) \/ ReconcileNotApplied(n)
  PROVE  Renewed
<1> USE DEF bounds, world, queues, progress
<1>1. /\ phase = "down" /\ disk.state[n] \in {"running", "failed"}
      /\ UNCHANGED <<phase, pc, state, checkpoints, approvals>>
  BY DEF ReconcileCompleted, ReconcileNotApplied, Uncertain
<1>2. PICK v \in {"completed", "pending"} : disk'.state = [disk.state EXCEPT ![n] = v]
  BY DEF ReconcileCompleted, ReconcileNotApplied, GateInv, TypeOK, Checkpoint
<1>3. disk.state \in [Nodes -> States]
  BY DEF GateInv, TypeOK, Checkpoint
<1>4. \A m \in Nodes : m # n => disk'.state[m] = disk.state[m]
  BY <1>2, <1>3
<1>5. \A m \in Nodes : disk'.state[m] \in Reached => disk.state[m] \in Reached
  BY <1>1, <1>4 DEF Reached
<1>6. InOrder(disk.state)'
  <2> SUFFICES ASSUME NEW m \in Nodes, disk'.state[m] \in Reached, NEW a \in Ancestors[m]
               PROVE  disk'.state[a] = "completed"
    BY DEF InOrder
  <2>1. disk.state[a] = "completed" /\ a \in Nodes
    BY <1>5, GraphAssumption DEF GateInv, InOrder
  <2>2. a # n
    BY <1>1, <2>1
  <2> QED
    BY <1>4, <2>1, <2>2
<1>7. InOrder(state)' /\ Queue' /\ Approved'
  BY <1>1, QueueUnchanged DEF GateInv, InOrder, Approved
<1>8. \A m \in Nodes : InBatch(m)'
  BY <1>1 DEF GateInv, Asleep, InBatch
<1> QED
  BY <1>6, <1>7, <1>8 DEF Renewed

LEMMA GateNodeStep ==
  ASSUME GateInv, NEW n \in Nodes, NodeContinues(n) PROVE Renewed
<1> USE DEF bounds, world, queues, progress
<1>0. /\ n \in Writers /\ "running" \in Statuses
      /\ phase # "down" /\ (pc[n] # "idle" => phase \in Busy)
      /\ pc[n] \in Acting => state[n] \in Reached
  BY NodeAwake DEF GateInv, Writers, Statuses, InBatch, Reached, Acting
<1>1. Ready(n) => pc[n] # "idle" /\ state[n] \in Reached
  BY <1>0 DEF Ready, Acting
<1>2. CASE StartLogged(n)
  BY <1>0, <1>2, QueueSaved, SameState
     DEF StartLogged, GateInv, TypeOK, InBatch, Acting
<1>3. CASE DeadlinePassed(n)
  BY <1>1, <1>3, FailStep DEF DeadlinePassed
<1>4. CASE PassGate(n)
  BY <1>1, <1>4, PublishStep DEF PassGate
<1>5. CASE StopAtGate(n)
  BY <1>1, <1>5, OneMoves DEF StopAtGate, Reached
<1>6. CASE RunLocally(n)
  BY <1>1, <1>6, PublishStep, KindAssumption DEF RunLocally
<1>7. CASE FailBeforeExecution(n)
  BY <1>1, <1>7, FailStep DEF FailBeforeExecution
<1>8. CASE Launch(n)
  BY <1>0, <1>8, QueueUnchanged, SameState
     DEF Launch, Ready, GateInv, TypeOK, InBatch, Acting
<1>9. CASE EndLogged(n)
  BY <1>0, <1>9, QueueSaved, SameState DEF EndLogged, GateInv, TypeOK, InBatch, Acting
<1>10. CASE EndSaved(n)
  BY <1>0, <1>10, QueueUnchanged, SameState DEF EndSaved, GateInv, TypeOK, InBatch, Acting
<1>11. CASE CompletionRefused(n)
  BY <1>11, FailStep DEF CompletionRefused, Reached
<1>12. CASE NodeRefused(n)
  <2>1. phase' \in Busy /\ pc[n] # "idle" /\ pc' = [pc EXCEPT ![n] = "settled"]
    BY <1>0, <1>12 DEF NodeRefused, RunFails, Busy
  <2>2. \A m \in Nodes : /\ pc'[m] # "idle" => pc[m] # "idle"
                         /\ pc'[m] \in Acting => pc'[m] = pc[m]
                         /\ pc'[m] = "executing" => m \in Executed
    BY <2>1 DEF GateInv, TypeOK, InBatch, Acting
  <2> QED
    BY <1>0, <1>12, <2>1, <2>2, QueueUnchanged, SameState DEF NodeRefused
<1>13. ASSUME NEW u \in PartialCosts(n), Watchdog(n, u) PROVE Renewed
  BY <1>0, <1>13, FailStep DEF Watchdog, Acting
<1> QED
  BY <1>2, <1>3, <1>4, <1>5, <1>6, <1>7, <1>8, <1>9, <1>10, <1>11, <1>12, <1>13
     DEF NodeContinues

LEMMA GateAnswerStep ==
  ASSUME GateInv, NEW n \in Nodes, ExecutorAnswers(n) PROVE Renewed
<1> USE DEF bounds, world, queues, progress
<1>0. pc[n] = "executing" => state[n] \in Reached /\ n \notin Gates
  BY DEF GateInv, InBatch, Acting, Reached, Executed
<1>1. ASSUME NEW u \in Costs, Return(n, u) PROVE Renewed
  BY <1>0, <1>1, PublishStep DEF Return
<1>2. ASSUME NEW k \in {"executor", "timeout"}, NEW u \in PartialCosts(n), Raise(n, k, u)
      PROVE Renewed
  BY <1>0, <1>2, FailStep DEF Raise
<1>3. CASE ExecutorEnds(n)
  BY <1>3, QueueUnchanged, SameState DEF ExecutorEnds, GateInv, InBatch
<1> QED
  BY <1>1, <1>2, <1>3 DEF ExecutorAnswers

LEMMA GateMainStep ==
  ASSUME GateInv, MainContinues PROVE Renewed
<1> USE DEF bounds, world, queues, progress
<1>0. Main \in Writers /\ "running" \in Statuses
  BY DEF Writers, Statuses
<1>1. \A n \in Nodes : pc[n] = "executing" => n \in Executed
  BY DEF GateInv, InBatch
<1>2. CASE Exit
  BY <1>2, GateOffStep DEF Exit
<1>3. CASE ~Exit
  <2>1. phase # "down"
    BY <1>3, MainAwake DEF GateInv
  <2>2. CASE Dispatch \/ \E n \in Nodes : Skip(n)
    BY <2>2, GateDispatchStep, SkipStep
  <2>3. CASE BatchDone
    <3>1. \A n \in Nodes : pc'[n] = "idle"
      BY <2>3 DEF BatchDone, BatchSettled
    <3> QED
      BY <2>1, <2>3, <3>1, QueueUnchanged, SameState DEF BatchDone
  <2>4. CASE /\ ~Dispatch /\ ~BatchDone /\ \A n \in Nodes : ~Skip(n)
    <3>1. UNCHANGED <<pc, state, disk, approvals>>
      BY <1>3, <2>4 DEF MainContinues, OpenLogged, OpenSaved, SkipsLogged, SkipsSaved,
           Block, Finish, EndingLogged, EndingSaved, MainRefused
    <3>2. Queue'
      <4>1. CASE OpenLogged \/ SkipsLogged
        BY <1>0, <4>1, QueueSaved DEF OpenLogged, SkipsLogged
      <4>2. CASE EndingLogged
        <5>1. FinalStatus[phase] \in Statuses
          BY <4>2 DEF EndingLogged, FinalStatus, Statuses
        <5> QED
          BY <1>0, <4>2, <5>1, QueueSaved DEF EndingLogged
      <4>3. CASE ~(OpenLogged \/ SkipsLogged \/ EndingLogged)
        BY <1>3, <2>4, <4>3, QueueUnchanged DEF MainContinues, OpenSaved, SkipsSaved,
             Block, Finish, EndingSaved, MainRefused
      <4> QED
        BY <4>1, <4>2, <4>3
    <3>3. phase \in Busy => phase' \in Busy
      BY <1>3, <2>4 DEF MainContinues, OpenLogged, OpenSaved, SkipsLogged, SkipsSaved,
           Block, Finish, EndingLogged, EndingSaved, MainRefused, MainWrote, Deciding,
           RunFails, FinalStatus, Busy
    <3>4. \A n \in Nodes : pc[n] # "idle" => phase \in Busy
      BY DEF GateInv, InBatch
    <3> QED
      BY <1>1, <2>1, <3>1, <3>2, <3>3, <3>4, SameState
  <2> QED
    BY <2>2, <2>3, <2>4
<1> QED
  BY <1>2, <1>3

LEMMA GateInvStep == GateInv /\ [Next]_vars => GateInv'
<1> SUFFICES ASSUME GateInv, [Next]_vars PROVE Renewed
  BY StepType, AsleepStep DEF GateInv, Renewed
<1> USE DEF bounds, world, queues, progress
<1>1. CASE EventWritten \/ EventRefused \/ TimePasses \/ UNCHANGED vars
  <2>1. UNCHANGED <<phase, pc, state, disk, approvals, checkpoints>>
    BY <1>1 DEF EventWritten, EventRefused, TimePasses, vars
  <2> QED
    BY <2>1, QueueUnchanged, SameState DEF GateInv, InBatch
<1>2. CASE CheckpointWritten \/ CheckpointRefused
  <2>1. UNCHANGED <<phase, pc, state, approvals>>
    BY <1>2 DEF CheckpointWritten, CheckpointRefused
  <2>2. Queue' /\ InOrder(disk.state)'
    BY <1>2, QueueWritten DEF CheckpointWritten, CheckpointRefused
  <2>3. InOrder(state)' /\ Approved' /\ \A n \in Nodes : InBatch(n)'
    BY <2>1 DEF GateInv, InOrder, Approved, InBatch, Below
  <2> QED
    BY <2>2, <2>3 DEF Renewed
<1>3. CASE Crash
  BY <1>3, GateOffStep DEF Crash
<1>4. CASE Operator
  BY <1>4, GateStartStep, GateResumeStep, GateLedgerStep DEF Operator
<1> QED
  BY <1>1, <1>2, <1>3, <1>4, GateNodeStep, GateAnswerStep, GateMainStep DEF Next, Io

LEMMA GateInitInv == Init => GateInv
<1> SUFFICES ASSUME Init PROVE GateInv
  OBVIOUS
<1>1. TypeOK /\ Asleep /\ Len(checkpoints) = 0
  BY InitType, InitAsleep DEF Init
<1>2. \A n \in Nodes : state[n] = "pending" /\ disk.state[n] = "pending" /\ pc[n] = "idle"
  BY DEF Init, NoCheckpoint
<1>3. phase = "down"
  BY DEF Init
<1> QED
  BY <1>1, <1>2, <1>3 DEF GateInv, InOrder, Queue, InBatch, Approved, Reached

-----------------------------------------------------------------------------

\* A consequential node executes only below gates that this invocation's caller has
\* approved, for every graph and any number of crashes, pauses, resumes and refused
\* writes.
THEOREM GatesBindEachInvocation == Spec => []GatesApproved
<1>1. GateInv => GatesApproved
  <2> SUFFICES ASSUME GateInv, NEW n \in Consequential, pc[n] = "executing",
                      NEW g \in Ancestors[n] \cap Gates
               PROVE  g \in approvals
    BY DEF GatesApproved
  <2>1. n \in Nodes /\ state[n] \in Reached /\ phase # "down"
    BY KindAssumption DEF GateInv, InBatch, Acting, Reached, Busy
  <2>2. state[g] = "completed"
    BY <2>1 DEF GateInv, InOrder
  <2> QED
    BY <2>1, <2>2 DEF GateInv, Approved
<1> QED
  BY <1>1, GateInitInv, GateInvStep, PTL DEF Spec

-----------------------------------------------------------------------------
(* Outcomes: what the scheduler finds between two batches, and what a       *)
(* checkpoint with each status shows.                                       *)

\* The phases in which no batch is at work and the run has not failed.
Calm == {"schedule", "skipping", "skipSaving", "blocking", "completing"}

\* What holds of the nodes in memory and in every checkpoint.
Sound(st, sc, out) ==
  /\ \A n \in Nodes : st[n] = "completed" => n \in out
  /\ \A n \in Nodes : st[n] = "blocked" => n \in Gates
  /\ \A n \in SideEffecting : st[n] = "failed" => sc[n] # "branch"

Justified(st) ==
  \A n \in Nodes : st[n] = "skipped" => \E m \in Ancestors[n] : st[m] = "failed"

Quiet(st, sc) ==
  \A n \in Nodes : st[n] # "running" /\ (st[n] = "failed" => sc[n] = "branch")

\* Every node is done, or will not be for a reason that does not stop the graph.
Finished(st) ==
  \A n \in Nodes :
    \/ st[n] \in {"completed", "failed"}
    \/ st[n] = "skipped" /\ \E m \in Ancestors[n] : st[m] = "failed"

\* Why a run has failed, if not for a refused write.
Accounted(st, sc, u) ==
  \/ OverBudget(u)
  \/ \E n \in Nodes : st[n] = "failed" /\ sc[n] # "branch"
  \/ Finished(st)

\* What a checkpoint shows.
Good(c) ==
  /\ Sound(c.state, c.scope, c.outputs)
  /\ c.status = "needs_confirmation" =>
       /\ Quiet(c.state, c.scope) /\ Justified(c.state)
       /\ \E g \in Gates : c.state[g] = "blocked"
  /\ c.status = "completed" =>
       (\A n \in Nodes : c.state[n] = "completed") /\ ~OverBudget(c.usage)

Explained(c) == c.status = "failed" => Accounted(c.state, c.scope, c.usage)

Records ==
  /\ Good(disk) /\ \A i \in 1..Len(checkpoints) : Good(checkpoints[i].snap)
  /\ ioFailures = 0 =>
       Explained(disk) /\ \A i \in 1..Len(checkpoints) : Explained(checkpoints[i].snap)

\* While a batch is at work: a node is running exactly as long as it acts, and only
\* the nodes of this batch have failed for the whole graph.
Working ==
  /\ Justified(state)
  /\ \A n \in Nodes : state[n] = "running" => pc[n] \in Acting
  /\ \A n \in Nodes : state[n] = "failed" =>
       scope[n] = "branch" \/ (scope[n] = "graph" /\ pc[n] # "idle")
  /\ OverBudget(usage) => \E n \in Nodes : state[n] = "failed"

\* What the process remembers, by the phase it is in.
Memory ==
  /\ Sound(state, scope, outputs)
  /\ phase \in {"opening", "openSaving"} =>
       OverBudget(usage) \/ (Quiet(state, scope) /\ Justified(state))
  /\ phase \in Calm => /\ Quiet(state, scope) /\ Justified(state)
                       /\ OverBudget(usage) => BranchFailures # {}
  /\ phase = "batch" => Working
  /\ phase = "blocking" => Blocked # {}
  /\ phase = "completing" => Blocked = {} /\ Pending = {} /\ BranchFailures = {}
  /\ phase = "failing" /\ ioFailures = 0 => Accounted(state, scope, usage)
  /\ rejected # {} => ioFailures # 0

SchedulerInv == GateInv /\ Records /\ Memory

-----------------------------------------------------------------------------
(* The checkpoints.                                                        *)

LEMMA RecordsUnchanged ==
  ASSUME Records, UNCHANGED <<checkpoints, disk>>, ioFailures' = 0 => ioFailures = 0
  PROVE  Records'
BY DEF Records

LEMMA RecordsSaved ==
  ASSUME TypeOK, Records, NEW w \in Writers, NEW s \in Statuses, Save(w, s),
         UNCHANGED <<disk, ioFailures>>,
         Good(Snapshot(s)), ioFailures = 0 => Explained(Snapshot(s))
  PROVE  Records'
<1> DEFINE new == [by |-> w, snap |-> Snapshot(s)]
<1>1. new \in [by : Writers, snap : Checkpoint] /\ new.snap = Snapshot(s)
  BY SnapshotType
<1>2. /\ Len(checkpoints) \in Nat /\ Len(checkpoints') = Len(checkpoints) + 1
      /\ \A i \in 1..Len(checkpoints) : checkpoints'[i] = checkpoints[i]
      /\ checkpoints'[Len(checkpoints) + 1] = new
  BY <1>1, QueueAppend DEF TypeOK, Save
<1>3. \A i \in 1..Len(checkpoints') :
        \/ i \in 1..Len(checkpoints) /\ checkpoints'[i].snap = checkpoints[i].snap
        \/ checkpoints'[i].snap = Snapshot(s)
  BY <1>1, <1>2
<1>4. \A i \in 1..Len(checkpoints') : Good(checkpoints'[i].snap)
  BY <1>3 DEF Records
<1>5. ioFailures = 0 => \A i \in 1..Len(checkpoints') : Explained(checkpoints'[i].snap)
  BY <1>3 DEF Records
<1> QED
  BY <1>4, <1>5 DEF Records

LEMMA RecordsWritten ==
  ASSUME TypeOK, Records, checkpoints # <<>>, checkpoints' = Tail(checkpoints),
         disk' = Head(checkpoints).snap \/ disk' = disk,
         ioFailures' = 0 => ioFailures = 0
  PROVE  Records'
<1>1. /\ Head(checkpoints) = checkpoints[1] /\ Len(checkpoints) \in Nat \ {0}
      /\ Len(checkpoints') = Len(checkpoints) - 1
      /\ \A i \in 1..Len(checkpoints') : checkpoints'[i] = checkpoints[i + 1]
  BY QueueHead DEF TypeOK
<1>2. /\ \A i \in 1..Len(checkpoints') : i + 1 \in 1..Len(checkpoints)
      /\ 1 \in 1..Len(checkpoints)
  BY <1>1
<1> QED
  BY <1>1, <1>2 DEF Records

\* A checkpoint of a run that goes on claims nothing.
LEMMA RunningIsGood ==
  ASSUME Memory PROVE Good(Snapshot("running")) /\ Explained(Snapshot("running"))
BY DEF Memory, Snapshot, Good, Explained

\* Each way of ending the run finds the nodes as its checkpoint will claim.
LEMMA EndingIsGood ==
  ASSUME TypeOK, Memory, phase \in DOMAIN FinalStatus
  PROVE  /\ Good(Snapshot(FinalStatus[phase]))
         /\ ioFailures = 0 => Explained(Snapshot(FinalStatus[phase]))
<1> SUFFICES ASSUME NEW c, c = Snapshot(FinalStatus[phase])
             PROVE  Good(c) /\ (ioFailures = 0 => Explained(c))
  OBVIOUS
<1>1. /\ c.state = state /\ c.scope = scope /\ c.outputs = outputs /\ c.usage = usage
      /\ c.status = FinalStatus[phase]
  BY DEF Snapshot
<1>2. Sound(state, scope, outputs)
  BY DEF Memory
<1>3. CASE phase = "blocking"
  <2>1. Quiet(state, scope) /\ Justified(state) /\ Blocked # {}
    BY <1>3 DEF Memory, Calm
  <2>2. \E g \in Gates : state[g] = "blocked"
    BY <1>2, <2>1 DEF Blocked, Sound
  <2>3. c.status = "needs_confirmation"
    BY <1>1, <1>3 DEF FinalStatus
  <2> QED
    BY <1>1, <1>2, <2>1, <2>2, <2>3 DEF Good, Explained
<1>4. CASE phase = "completing"
  <2>1. /\ Quiet(state, scope) /\ Justified(state)
        /\ Blocked = {} /\ Pending = {} /\ BranchFailures = {} /\ ~OverBudget(usage)
    BY <1>4 DEF Memory, Calm
  <2>2. \A n \in Nodes : state[n] \notin {"pending", "running", "blocked", "failed"}
    BY <2>1 DEF Quiet, Blocked, Pending, BranchFailures
  <2>3. \A n \in Nodes : state[n] # "skipped"
    BY <2>1, <2>2, GraphAssumption DEF Justified
  <2>4. \A n \in Nodes : state[n] = "completed"
    BY <2>2, <2>3 DEF TypeOK, States
  <2>5. c.status = "completed"
    BY <1>1, <1>4 DEF FinalStatus
  <2> QED
    BY <1>1, <1>2, <2>1, <2>4, <2>5 DEF Good, Explained
<1>5. CASE phase = "failing"
  <2>1. c.status = "failed"
    BY <1>1, <1>5 DEF FinalStatus
  <2>2. ioFailures = 0 => Accounted(state, scope, usage)
    BY <1>5 DEF Memory
  <2> QED
    BY <1>1, <1>2, <2>1, <2>2 DEF Good, Explained
<1> QED
  BY <1>3, <1>4, <1>5 DEF FinalStatus
-----------------------------------------------------------------------------
(* The nodes in memory, step by step.                                      *)

LEMMA Paths ==
  \A n \in Nodes : /\ Ancestors[n] \subseteq Nodes
                   /\ \A d \in Deps[n] : d \in Nodes /\ d \in Ancestors[n]
                   /\ \A d \in Deps[n] : Ancestors[d] \subseteq Ancestors[n]
<1> SUFFICES ASSUME NEW n \in Nodes
             PROVE  /\ Ancestors[n] \subseteq Nodes
                    /\ \A d \in Deps[n] : d \in Nodes /\ d \in Ancestors[n]
                    /\ \A d \in Deps[n] : Ancestors[d] \subseteq Ancestors[n]
  OBVIOUS
<1>1. Ancestors[n] = Deps[n] \cup UNION {Ancestors[m] : m \in Deps[n]}
  BY GraphAssumption
<1>2. Deps[n] \subseteq Nodes /\ Ancestors[n] \subseteq Nodes
  BY GraphAssumption
<1> QED
  BY <1>1, <1>2

\* A batch gets one result: of a node that acts, or of one whose completion is
\* taken back.
LEMMA OneResult ==
  ASSUME GateInv, Memory, NEW n \in Nodes, pc[n] # "idle",
         NEW v \in {"failed", "completed", "blocked"},
         state[n] = "running" \/ (state[n] = "completed" /\ v = "failed"),
         state' = [state EXCEPT ![n] = v], pc' = [pc EXCEPT ![n] = "ending"],
         scope' \in [Nodes -> Scopes],
         \A m \in Nodes : m # n => scope'[m] = scope[m],
         v = "failed" => scope'[n] \in {"branch", "graph"},
         v = "failed" /\ n \in SideEffecting => scope'[n] = "graph",
         v = "completed" => n \in outputs', outputs \subseteq outputs',
         v = "blocked" => n \in Gates,
         usage' \in Nat, usage' >= usage, OverBudget(usage') => OverBudget(usage) \/ v = "failed",
         UNCHANGED <<phase, ioFailures>>, rejected' \subseteq rejected
  PROVE  Memory'
<1>1. /\ \A m \in Nodes : m # n => state'[m] = state[m] /\ pc'[m] = pc[m]
      /\ state'[n] = v /\ pc'[n] = "ending"
  BY DEF GateInv, TypeOK
<1>2. phase \in Busy
  BY DEF GateInv, InBatch
<1>3. /\ phase \notin Calm /\ phase \notin {"opening", "openSaving"}
      /\ phase # "blocking" /\ phase # "completing"
  BY <1>2 DEF Busy, Calm
<1>4. Sound(state', scope', outputs')
  BY <1>1, KindAssumption DEF Memory, Sound
<1>5. \A m \in Nodes : state[m] = "failed" => m # n /\ state'[m] = "failed" /\ scope'[m] = scope[m]
  BY <1>1
<1>6. Justified(state) => Justified(state')
  <2> SUFFICES ASSUME Justified(state), NEW d \in Nodes, state'[d] = "skipped"
               PROVE  \E m \in Ancestors[d] : state'[m] = "failed"
    BY DEF Justified
  <2>1. state[d] = "skipped"
    BY <1>1
  <2>2. PICK m \in Ancestors[d] : state[m] = "failed"
    BY <2>1 DEF Justified
  <2> QED
    BY <1>5, <2>2, Paths
<1>7. OverBudget(usage) => OverBudget(usage')
  BY BudgetAssumption DEF OverBudget, GateInv, TypeOK
<1>8. phase = "batch" => Working'
  <2> SUFFICES ASSUME phase = "batch" PROVE Working'
    OBVIOUS
  <2>1. Working
    BY DEF Memory
  <2>2. \A m \in Nodes : state'[m] = "running" => pc'[m] \in Acting
    BY <1>1, <2>1 DEF Working
  <2>3. \A m \in Nodes : state'[m] = "failed" =>
          scope'[m] = "branch" \/ (scope'[m] = "graph" /\ pc'[m] # "idle")
    BY <1>1, <2>1 DEF Working
  <2>4. OverBudget(usage') => \E m \in Nodes : state'[m] = "failed"
    BY <1>1, <1>5, <2>1 DEF Working
  <2> QED
    BY <1>6, <2>1, <2>2, <2>3, <2>4 DEF Working
<1>9. phase = "failing" /\ ioFailures = 0 => Accounted(state', scope', usage')
  <2> SUFFICES ASSUME Accounted(state, scope, usage) PROVE Accounted(state', scope', usage')
    BY DEF Memory
  <2>1. CASE OverBudget(usage)
    BY <1>7, <2>1 DEF Accounted
  <2>2. CASE \E m \in Nodes : state[m] = "failed" /\ scope[m] # "branch"
    BY <1>5, <2>2 DEF Accounted
  <2>3. CASE Finished(state)
    <3>1. state[n] # "running"
      BY <2>3 DEF Finished
    <3>2. v = "failed"
      BY <3>1
    <3>3. \A m \in Nodes : \A a \in Ancestors[m] : state[a] = "failed" => state'[a] = "failed"
      BY <1>5, Paths
    <3> QED
      BY <1>1, <2>3, <3>2, <3>3 DEF Accounted, Finished
  <2> QED
    BY <2>1, <2>2, <2>3 DEF Accounted
<1> QED
  BY <1>3, <1>4, <1>8, <1>9 DEF Memory

LEMMA FailResult ==
  ASSUME GateInv, Memory, NEW n \in Nodes, pc[n] # "idle",
         state[n] \in {"running", "completed"}, NEW k,
         NEW c \in {"branch", "graph"}, n \in SideEffecting => c = "graph", Fail(n, k, c),
         UNCHANGED <<phase, outputs, ioFailures>>, rejected' \subseteq rejected,
         usage' \in Nat, usage' >= usage
  PROVE  Memory'
<1>1. /\ state' = [state EXCEPT ![n] = "failed"] /\ pc' = [pc EXCEPT ![n] = "ending"]
      /\ scope' = [scope EXCEPT ![n] = c] /\ scope \in [Nodes -> Scopes] /\ c \in Scopes
  BY DEF Fail, GateInv, TypeOK, Scopes
<1>2. /\ scope' \in [Nodes -> Scopes] /\ scope'[n] = c
      /\ \A m \in Nodes : m # n => scope'[m] = scope[m]
  BY <1>1
<1> QED
  BY <1>1, <1>2, OneResult

LEMMA PublishResult ==
  ASSUME GateInv, Memory, NEW n \in Nodes, pc[n] # "idle", state[n] = "running",
         NEW u \in Nat, Publish(n, u), UNCHANGED <<phase, ioFailures, rejected>>
  PROVE  Memory'
<1>1. usage \in Nat /\ usage' = usage + u /\ scope \in [Nodes -> Scopes]
  BY DEF Publish, GateInv, TypeOK
<1>2. CASE Fail(n, "budget", "graph") /\ UNCHANGED outputs
  BY <1>1, <1>2, FailResult
<1>3. CASE /\ ~OverBudget(usage + u) /\ outputs' = outputs \cup {n}
           /\ state' = [state EXCEPT ![n] = "completed"]
           /\ pc' = [pc EXCEPT ![n] = "ending"] /\ UNCHANGED <<kind, scope>>
  <2>1. usage' \in Nat /\ usage' >= usage /\ ~OverBudget(usage')
    BY <1>1, <1>3
  <2>2. /\ scope' \in [Nodes -> Scopes] /\ n \in outputs' /\ outputs \subseteq outputs'
        /\ \A m \in Nodes : m # n => scope'[m] = scope[m]
    BY <1>1, <1>3
  <2>3. /\ UNCHANGED <<phase, ioFailures>> /\ rejected' \subseteq rejected
        /\ "completed" \in {"failed", "completed", "blocked"}
    OBVIOUS
  <2> QED
    BY <1>3, <2>1, <2>2, <2>3, OneResult
<1> QED
  BY <1>2, <1>3 DEF Publish

\* The states of the nodes stay, and the nodes of the batch go on.
LEMMA SameResults ==
  ASSUME Memory, UNCHANGED <<phase, state, scope, outputs, usage>>,
         ioFailures' = 0 => ioFailures = 0, rejected' # {} => ioFailures' # 0,
         phase = "batch" => \A m \in Nodes : /\ pc[m] # "idle" => pc'[m] # "idle"
                                             /\ pc[m] \in Acting => pc'[m] \in Acting
  PROVE  Memory'
<1>1. Working => (phase = "batch" => Working')
  BY DEF Working
<1> QED
  BY <1>1 DEF Memory, Blocked, Pending, BranchFailures

LEMMA OffResults == ASSUME PowerOff PROVE Memory'
<1>1. /\ phase' = "down" /\ rejected' = {}
      /\ \A n \in Nodes : state'[n] = "pending"
  BY DEF PowerOff
<1>2. Sound(state', scope', outputs')
  BY <1>1, KindAssumption DEF Sound
<1> QED
  BY <1>1, <1>2 DEF Memory, Calm
LEMMA OutcomeNodeStep ==
  ASSUME SchedulerInv, NEW n \in Nodes, NodeContinues(n) PROVE Records' /\ Memory'
<1> USE DEF bounds, world, queues, progress
<1>0. /\ GateInv /\ TypeOK /\ Records /\ Memory /\ n \in Writers /\ "running" \in Statuses
      /\ pc \in [Nodes -> Pcs] /\ usage \in Nat
  BY DEF SchedulerInv, GateInv, TypeOK, Writers, Statuses
<1>1. pc[n] \in Acting => state[n] = "running" /\ pc[n] # "idle"
  BY DEF SchedulerInv, GateInv, InBatch, Acting
<1>2. Ready(n) => pc[n] \in Acting
  BY DEF Ready, Acting
<1>3. rejected # {} => ioFailures # 0
  BY <1>0 DEF Memory
<1>4. Scope(n) \in {"branch", "graph"} /\ (n \in SideEffecting => Scope(n) = "graph")
  BY DEF Scope
<1>5. CASE StartLogged(n) \/ EndLogged(n)
  <2>1. /\ Save(n, "running")
        /\ UNCHANGED <<phase, state, scope, outputs, usage, disk, ioFailures, rejected>>
        /\ \A m \in Nodes : /\ pc[m] # "idle" => pc'[m] # "idle"
                            /\ pc[m] \in Acting => pc'[m] \in Acting
    BY <1>0, <1>5 DEF StartLogged, EndLogged, Acting
  <2>2. Records'
    BY <1>0, <2>1, RecordsSaved, RunningIsGood
  <2> QED
    BY <1>0, <1>3, <2>1, <2>2, SameResults
<1>6. CASE ~(StartLogged(n) \/ EndLogged(n))
  <2>1. UNCHANGED <<checkpoints, disk, ioFailures>>
    BY <1>6 DEF NodeContinues, DeadlinePassed, PassGate, StopAtGate, RunLocally,
         FailBeforeExecution, Launch, EndSaved, CompletionRefused, NodeRefused, Watchdog
  <2>2. Records'
    BY <1>0, <2>1, RecordsUnchanged
  <2>3. CASE DeadlinePassed(n)
    BY <1>0, <1>1, <1>2, <2>2, <2>3, FailResult DEF DeadlinePassed
  <2>4. CASE PassGate(n) \/ RunLocally(n)
    BY <1>0, <1>1, <1>2, <2>2, <2>4, 0 \in Nat, PublishResult DEF PassGate, RunLocally
  <2>5. CASE StopAtGate(n)
    <3>1. /\ scope' \in [Nodes -> Scopes] /\ usage' \in Nat /\ usage' = usage /\ usage' >= usage
          /\ n \in Gates /\ "blocked" \in {"failed", "completed", "blocked"}
          /\ outputs' = outputs /\ scope' = scope /\ UNCHANGED <<phase, ioFailures, rejected>>
      BY <1>0, <2>5 DEF StopAtGate, TypeOK
    <3>2. state' = [state EXCEPT ![n] = "blocked"] /\ pc' = [pc EXCEPT ![n] = "ending"]
      BY <2>5 DEF StopAtGate
    <3> QED
      BY <1>0, <1>1, <1>2, <2>2, <2>5, <3>1, <3>2, OneResult DEF StopAtGate
  <2>6. CASE FailBeforeExecution(n)
    BY <1>0, <1>1, <1>2, <1>4, <2>2, <2>6, FailResult DEF FailBeforeExecution
  <2>7. CASE Launch(n) \/ EndSaved(n)
    <3>1. /\ UNCHANGED <<phase, state, scope, outputs, usage, ioFailures, rejected>>
          /\ \A m \in Nodes : /\ pc[m] # "idle" => pc'[m] # "idle"
                              /\ pc[m] \in Acting => pc'[m] \in Acting
      BY <1>0, <2>7 DEF Launch, EndSaved, Acting
    <3> QED
      BY <1>0, <1>3, <2>2, <3>1, SameResults
  <2>8. CASE CompletionRefused(n)
    <3>1. pc[n] # "idle" /\ state[n] = "completed" /\ rejected' \subseteq rejected
      BY <2>8 DEF CompletionRefused
    <3> QED
      BY <1>0, <1>4, <2>2, <2>8, <3>1, FailResult DEF CompletionRefused
  <2>9. CASE NodeRefused(n)
    <3>1. /\ ioFailures' # 0 /\ phase' # "batch" /\ phase' \notin Calm
          /\ phase' \notin {"opening", "openSaving", "blocking", "completing"}
          /\ UNCHANGED <<state, scope, outputs>>
      <4>1. phase \in Busy /\ n \in rejected
        BY <2>9 DEF NodeRefused, SchedulerInv, GateInv, InBatch
      <4>2. phase' = IF phase = "batch" THEN "failing" ELSE phase
        BY <2>9 DEF NodeRefused, RunFails
      <4> QED
        BY <1>3, <2>1, <2>9, <4>1, <4>2 DEF NodeRefused, Busy, Calm
    <3> QED
      BY <1>0, <2>2, <3>1 DEF Memory
  <2>10. ASSUME NEW u \in PartialCosts(n), Watchdog(n, u) PROVE Memory'
    <3>1. u \in Nat /\ usage' = usage + u
      BY <2>10, BudgetAssumption DEF Watchdog, PartialCosts
    <3>2. usage' \in Nat /\ usage' >= usage
      BY <1>0, <3>1
    <3> QED
      BY <1>0, <1>1, <2>10, <3>2, FailResult DEF Watchdog, Acting
  <2> QED
    BY <1>6, <2>2, <2>3, <2>4, <2>5, <2>6, <2>7, <2>8, <2>9, <2>10 DEF NodeContinues
<1> QED
  BY <1>5, <1>6

LEMMA OutcomeAnswerStep ==
  ASSUME SchedulerInv, NEW n \in Nodes, ExecutorAnswers(n) PROVE Records' /\ Memory'
<1> USE DEF bounds, world, queues, progress
<1>0. GateInv /\ Records /\ Memory /\ usage \in Nat
  BY DEF SchedulerInv, GateInv, TypeOK
<1>1. UNCHANGED <<checkpoints, disk, ioFailures, rejected, phase>>
  BY DEF ExecutorAnswers, Return, Raise, ExecutorEnds
<1>2. Records'
  BY <1>0, <1>1, RecordsUnchanged
<1>3. pc[n] = "executing" => state[n] = "running"
  BY <1>0 DEF GateInv, InBatch, Acting
<1>4. Scope(n) \in {"branch", "graph"} /\ (n \in SideEffecting => Scope(n) = "graph")
  BY DEF Scope
<1>5. ASSUME NEW u \in Costs, Return(n, u) PROVE Memory'
  BY <1>0, <1>1, <1>3, <1>5, PublishResult, BudgetAssumption DEF Return
<1>6. ASSUME NEW k \in {"executor", "timeout"}, NEW u \in PartialCosts(n), Raise(n, k, u)
      PROVE  Memory'
  <2>1. u \in Nat /\ usage' = usage + u
    BY <1>6, BudgetAssumption DEF Raise, PartialCosts
  <2>2. usage' \in Nat /\ usage' >= usage
    BY <1>0, <2>1
  <2> QED
    BY <1>0, <1>1, <1>3, <1>4, <1>6, <2>2, FailResult DEF Raise
<1>7. CASE ExecutorEnds(n)
  <2>1. UNCHANGED <<phase, state, scope, outputs, usage>> /\ pc' = pc /\ ioFailures' = ioFailures
    BY <1>7 DEF ExecutorEnds
  <2>2. rejected' # {} => ioFailures' # 0
    BY <1>0, <1>1 DEF Memory
  <2> QED
    BY <1>0, <1>2, <2>1, <2>2, SameResults
<1> QED
  BY <1>2, <1>5, <1>6, <1>7 DEF ExecutorAnswers
LEMMA OutcomeDispatchStep ==
  ASSUME SchedulerInv, Dispatch PROVE Memory'
<1> USE DEF bounds, world, queues, progress
<1>1. PICK B \in SUBSET Runnable :
        /\ state' = [n \in Nodes |-> IF n \in B THEN "running" ELSE state[n]]
        /\ pc' = [n \in Nodes |-> IF n \in B THEN "starting" ELSE pc[n]]
  BY DispatchedSet
<1>2. /\ phase = "schedule" /\ phase' = "batch"
      /\ UNCHANGED <<scope, outputs, usage, ioFailures, rejected>>
  BY DEF Dispatch, Deciding
<1>3. /\ Sound(state, scope, outputs) /\ Quiet(state, scope) /\ Justified(state)
      /\ OverBudget(usage) => BranchFailures # {}
      /\ rejected # {} => ioFailures # 0
  BY <1>2 DEF SchedulerInv, Memory, Calm
<1>4. \A n \in Nodes : \/ state'[n] = state[n] /\ n \notin B
                       \/ n \in B /\ state[n] = "pending" /\ state'[n] = "running" /\ pc'[n] = "starting"
  BY <1>1 DEF Runnable, Pending
<1>5. Sound(state', scope', outputs')
  BY <1>2, <1>3, <1>4, KindAssumption DEF Sound
<1>6. Justified(state')
  BY <1>3, <1>4, Paths DEF Justified
<1>7. \A n \in Nodes : state'[n] = "running" => pc'[n] \in Acting
  BY <1>3, <1>4 DEF Quiet, Acting
<1>8. \A n \in Nodes : state'[n] = "failed" => scope'[n] = "branch"
  BY <1>2, <1>3, <1>4 DEF Quiet
<1>9. OverBudget(usage') => \E n \in Nodes : state'[n] = "failed"
  BY <1>2, <1>3, <1>4 DEF BranchFailures
<1>10. Working'
  BY <1>6, <1>7, <1>8, <1>9 DEF Working
<1> QED
  BY <1>2, <1>3, <1>5, <1>10 DEF Memory, Calm

\* What is skipped has a failed ancestor, at any distance.
LEMMA OutcomeSkipStep ==
  ASSUME SchedulerInv, NEW n \in Nodes, Skip(n) PROVE Memory'
<1> USE DEF bounds, world, queues, progress
<1>1. /\ phase \in Calm /\ phase' = "skipping" /\ n \in Doomed
      /\ UNCHANGED <<scope, outputs, usage, ioFailures, rejected>>
  BY DEF Skip, MainWrote, Calm
<1>2. /\ Sound(state, scope, outputs) /\ Quiet(state, scope) /\ Justified(state)
      /\ OverBudget(usage) => BranchFailures # {}
      /\ rejected # {} => ioFailures # 0
  BY <1>1 DEF SchedulerInv, Memory
<1>3. /\ \A m \in Nodes : m # n => state'[m] = state[m]
      /\ state'[n] = "skipped" /\ state[n] = "pending"
  BY <1>1 DEF Skip, SchedulerInv, GateInv, TypeOK, Doomed, Pending
<1>4. Sound(state', scope', outputs') /\ Quiet(state', scope')
  BY <1>1, <1>2, <1>3, KindAssumption DEF Sound, Quiet
<1>5. \E m \in Ancestors[n] : state[m] = "failed"
  <2>1. PICK d \in Deps[n] : state[d] \in {"failed", "skipped"}
    BY <1>1 DEF Doomed
  <2> QED
    BY <1>2, <2>1, Paths DEF Justified
<1>6. Justified(state')
  <2> SUFFICES ASSUME NEW m \in Nodes, state'[m] = "skipped"
               PROVE  \E a \in Ancestors[m] : state'[a] = "failed"
    BY DEF Justified
  <2>1. PICK a \in Ancestors[m] : state[a] = "failed"
    BY <1>2, <1>3, <1>5 DEF Justified
  <2> QED
    BY <1>3, <2>1, Paths
<1>7. BranchFailures # {} => BranchFailures' # {}
  BY <1>1, <1>3 DEF BranchFailures
<1> QED
  BY <1>1, <1>2, <1>4, <1>6, <1>7 DEF Memory, Calm

\* A batch that is over without a failure of the whole graph leaves the nodes quiet.
LEMMA OutcomeBatchStep ==
  ASSUME SchedulerInv, BatchDone PROVE Memory'
<1> USE DEF bounds, world, queues, progress
<1>1. /\ phase = "batch" /\ BatchSettled
      /\ UNCHANGED <<state, scope, outputs, usage, ioFailures, rejected>>
  BY DEF BatchDone
<1>2. Sound(state, scope, outputs) /\ Working /\ (rejected # {} => ioFailures # 0)
  BY <1>1 DEF SchedulerInv, Memory
<1>3. CASE GlobalFailure
  <2>1. phase' = "failing"
    BY <1>3 DEF BatchDone, RunFails
  <2>2. Accounted(state, scope, usage)
    BY <1>3 DEF GlobalFailure, Accounted
  <2> QED
    BY <1>1, <1>2, <2>1, <2>2 DEF Memory, Calm
<1>4. CASE ~GlobalFailure
  <2>1. phase' = "schedule"
    BY <1>4 DEF BatchDone
  <2>2. Quiet(state, scope)
    BY <1>1, <1>2, <1>4 DEF Working, GlobalFailure, Quiet, BatchSettled, Acting
  <2>3. OverBudget(usage) => BranchFailures # {}
    BY <1>2, <2>2 DEF Working, Quiet, BranchFailures
  <2>4. BranchFailures' = BranchFailures
    BY <1>1 DEF BranchFailures
  <2> QED
    BY <1>1, <1>2, <2>1, <2>2, <2>3, <2>4 DEF Memory, Calm, Working
<1> QED
  BY <1>3, <1>4

LEMMA OutcomeFinishStep ==
  ASSUME SchedulerInv, Finish PROVE Memory'
<1> USE DEF bounds, world, queues, progress
<1>1. /\ phase = "schedule" /\ Blocked = {} /\ Pending = {}
      /\ UNCHANGED <<state, scope, outputs, usage, ioFailures, rejected>>
  BY DEF Finish, Deciding
<1>2. /\ Sound(state, scope, outputs) /\ Quiet(state, scope) /\ Justified(state)
      /\ OverBudget(usage) => BranchFailures # {}
      /\ rejected # {} => ioFailures # 0
  BY <1>1 DEF SchedulerInv, Memory, Calm
<1>3. CASE BranchFailures # {}
  <2>1. phase' = "failing"
    BY <1>3 DEF Finish, RunFails
  <2>2. \A n \in Nodes : state[n] \notin {"pending", "blocked", "running"} /\ state[n] \in States
    BY <1>1, <1>2 DEF Pending, Blocked, Quiet, SchedulerInv, GateInv, TypeOK
  <2>3. Finished(state)
    BY <1>2, <2>2 DEF Finished, Justified, States
  <2> QED
    BY <1>1, <1>2, <2>1, <2>3 DEF Memory, Calm, Accounted
<1>4. CASE BranchFailures = {}
  <2>1. phase' = "completing"
    BY <1>4 DEF Finish
  <2>2. Blocked' = Blocked /\ Pending' = Pending /\ BranchFailures' = BranchFailures
    BY <1>1 DEF Blocked, Pending, BranchFailures
  <2> QED
    BY <1>1, <1>2, <1>4, <2>1, <2>2 DEF Memory, Calm
<1> QED
  BY <1>3, <1>4
LEMMA OutcomeMainStep ==
  ASSUME SchedulerInv, MainContinues PROVE Records' /\ Memory'
<1> USE DEF bounds, world, queues, progress
<1>0. /\ GateInv /\ TypeOK /\ Records /\ Memory /\ Main \in Writers /\ "running" \in Statuses
      /\ rejected # {} => ioFailures # 0
  BY DEF SchedulerInv, GateInv, Memory, Writers, Statuses
<1>1. CASE OpenLogged \/ SkipsLogged
  <2>1. /\ Save(Main, "running") /\ (phase = "opening" \/ phase = "skipping")
        /\ phase' = (IF phase = "opening" THEN "openSaving" ELSE "skipSaving")
        /\ UNCHANGED <<state, scope, outputs, usage, disk, ioFailures, rejected>>
    BY <1>1 DEF OpenLogged, SkipsLogged, MainWrote
  <2>2. Records'
    BY <1>0, <2>1, RecordsSaved, RunningIsGood
  <2>3. Memory'
    BY <1>0, <2>1 DEF Memory, Calm, BranchFailures
  <2> QED
    BY <2>2, <2>3
<1>2. CASE EndingLogged
  <2>1. /\ phase \in DOMAIN FinalStatus /\ Save(Main, FinalStatus[phase])
        /\ phase' \in {"storing", "storingFailure"}
        /\ UNCHANGED <<state, scope, outputs, usage, disk, ioFailures, rejected>>
    BY <1>2 DEF EndingLogged
  <2>2. FinalStatus[phase] \in Statuses
    BY <2>1 DEF FinalStatus, Statuses
  <2>3. Records'
    BY <1>0, <2>1, <2>2, RecordsSaved, EndingIsGood
  <2>4. Memory'
    BY <1>0, <2>1 DEF Memory, Calm
  <2> QED
    BY <2>3, <2>4
<1>3. CASE ~(OpenLogged \/ SkipsLogged \/ EndingLogged)
  <2>1. disk' = disk /\ ioFailures' = ioFailures
    BY <1>3 DEF MainContinues, OpenSaved, Skip, SkipsSaved, Dispatch, BatchDone, Block,
         Finish, EndingSaved, MainRefused, Exit, PowerOff
  <2>2. checkpoints' = checkpoints
    <3>1. CASE Exit
      BY <3>1 DEF Exit, PowerOff
    <3> QED
      BY <1>3, <3>1 DEF MainContinues, OpenSaved, Skip, SkipsSaved, Dispatch, BatchDone,
           Block, Finish, EndingSaved, MainRefused
  <2>3. Records'
    BY <1>0, <2>1, <2>2, RecordsUnchanged
  <2>4. CASE OpenSaved
    <3>1. /\ phase = "openSaving"
          /\ phase' = IF OverBudget(usage) THEN "failing" ELSE "schedule"
          /\ UNCHANGED <<state, scope, outputs, usage, rejected>>
      BY <2>4 DEF OpenSaved, MainWrote, RunFails
    <3> QED
      BY <1>0, <2>1, <2>3, <3>1 DEF Memory, Calm, Accounted, BranchFailures
  <2>5. CASE SkipsSaved
    <3>1. /\ phase = "skipSaving" /\ phase' = "schedule"
          /\ UNCHANGED <<state, scope, outputs, usage, rejected>>
      BY <2>5 DEF SkipsSaved, MainWrote
    <3> QED
      BY <1>0, <2>1, <2>3, <3>1 DEF Memory, Calm, BranchFailures
  <2>6. CASE Block
    <3>1. /\ phase = "schedule" /\ phase' = "blocking" /\ Blocked # {}
          /\ UNCHANGED <<state, scope, outputs, usage, rejected>>
      BY <2>6 DEF Block, Deciding
    <3> QED
      BY <1>0, <2>1, <2>3, <3>1 DEF Memory, Calm, BranchFailures, Blocked
  <2>7. CASE EndingSaved
    <3>1. /\ phase' = "exited" /\ UNCHANGED <<state, scope, outputs, usage, rejected>>
      BY <2>7 DEF EndingSaved
    <3> QED
      BY <1>0, <2>1, <2>3, <3>1 DEF Memory, Calm
  <2>8. CASE MainRefused
    <3>1. /\ phase' \in {"exited", "failing"} /\ ioFailures' # 0
          /\ UNCHANGED <<state, scope, outputs, usage>>
      BY <1>0, <2>1, <2>8 DEF MainRefused, RunFails
    <3> QED
      BY <1>0, <2>3, <3>1 DEF Memory, Calm
  <2>9. CASE Exit
    BY <2>3, <2>9, OffResults DEF Exit
  <2> QED
    BY <1>3, <2>3, <2>4, <2>5, <2>6, <2>7, <2>8, <2>9, OutcomeDispatchStep, OutcomeSkipStep,
       OutcomeBatchStep, OutcomeFinishStep DEF MainContinues
<1> QED
  BY <1>1, <1>2, <1>3

\* Only a paused run hands failed and skipped nodes on to the next invocation.
LEMMA OutcomeResumeStep ==
  ASSUME SchedulerInv, NEW A \in SUBSET Gates, Resume(A) PROVE Records' /\ Memory'
<1> USE DEF bounds, world, queues, progress
<1>0. /\ Good(disk) /\ Records /\ phase = "down" /\ Restored
      /\ phase' = "opening" /\ rejected = {} /\ rejected' = {}
      /\ UNCHANGED <<checkpoints, disk, ioFailures>>
  BY DEF SchedulerInv, Records, Resume, GateInv, Asleep
<1>1. Records'
  BY <1>0, RecordsUnchanged
<1>2. Sound(disk.state, disk.scope, disk.outputs)
  BY <1>0 DEF Good
<1>3. /\ outputs' = {n \in disk.outputs : disk.state[n] = "completed"} /\ usage' = disk.usage
      /\ \A n \in Nodes :
           /\ state'[n] = IF Kept(n) THEN disk.state[n] ELSE "pending"
           /\ scope'[n] = IF Rebranded(n) THEN "graph"
                          ELSE IF Kept(n) THEN disk.scope[n] ELSE "none"
  BY <1>0 DEF Restored, RestoredUsage
<1>4. Sound(state', scope', outputs')
  BY <1>2, <1>3, KindAssumption DEF Sound
<1>5. ASSUME ~OverBudget(usage') PROVE Quiet(state', scope') /\ Justified(state')
  <2>1. \A n \in Nodes : /\ ~Rebranded(n)
                         /\ Kept(n) <=> \/ disk.state[n] = "completed"
                                        \/ /\ disk.status = "needs_confirmation"
                                           /\ disk.state[n] \in {"failed", "skipped"}
    BY <1>3, <1>5 DEF Rebranded, Kept
  <2>2. CASE disk.status = "needs_confirmation"
    <3>1. Quiet(disk.state, disk.scope) /\ Justified(disk.state)
      BY <1>0, <2>2 DEF Good
    <3>2. Quiet(state', scope')
      BY <1>3, <2>1, <3>1 DEF Quiet
    <3>3. Justified(state')
      <4> SUFFICES ASSUME NEW n \in Nodes, state'[n] = "skipped"
                   PROVE  \E m \in Ancestors[n] : state'[m] = "failed"
        BY DEF Justified
      <4>1. PICK m \in Ancestors[n] : disk.state[m] = "failed"
        BY <1>3, <3>1 DEF Justified
      <4> QED
        BY <1>3, <2>1, <2>2, <4>1, Paths
    <3> QED
      BY <3>2, <3>3
  <2>3. CASE disk.status # "needs_confirmation"
    <3>1. \A n \in Nodes : state'[n] \in {"completed", "pending"}
      BY <1>3, <2>1, <2>3
    <3> QED
      BY <3>1 DEF Quiet, Justified
  <2> QED
    BY <2>2, <2>3
<1> QED
  BY <1>0, <1>1, <1>4, <1>5 DEF Memory, Calm

LEMMA OutcomeOperatorStep ==
  ASSUME SchedulerInv, Operator PROVE Records' /\ Memory'
<1> USE DEF bounds, world, queues, progress
<1>0. GateInv /\ TypeOK /\ Records /\ Memory
  BY DEF SchedulerInv, GateInv
<1>1. ASSUME NEW A \in SUBSET Gates, Start(A) PROVE Records' /\ Memory'
  <2>1. /\ UNCHANGED <<checkpoints, disk, ioFailures, state, scope, outputs, usage, rejected>>
        /\ phase' = "opening" /\ \A n \in Nodes : state[n] = "pending"
    BY <1>0, <1>1 DEF Start, GateInv, Asleep
  <2>2. Quiet(state, scope) /\ Justified(state)
    BY <2>1 DEF Quiet, Justified
  <2> QED
    BY <1>0, <2>1, <2>2, RecordsUnchanged DEF Memory, Calm
<1>2. ASSUME NEW n \in Nodes, ReconcileCompleted(n) \/ ReconcileNotApplied(n)
      PROVE  Records' /\ Memory'
  <2>1. UNCHANGED <<phase, pc, state, scope, outputs, usage, rejected, ioFailures>> /\ phase = "down"
    BY <1>2 DEF ReconcileCompleted, ReconcileNotApplied
  <2>2. Memory'
    BY <1>0, <2>1 DEF Memory, Calm
  <2>3. Len(checkpoints') = 0
    BY <1>0, <1>2, <2>1 DEF GateInv, Asleep, ReconcileCompleted, ReconcileNotApplied
  <2>4. disk \in Checkpoint /\ Sound(disk.state, disk.scope, disk.outputs)
    BY <1>0 DEF TypeOK, Records, Good
  <2>5. /\ disk'.status = "running" /\ disk'.scope = disk.scope
        /\ \/ /\ disk'.state = [disk.state EXCEPT ![n] = "completed"]
              /\ disk'.outputs = disk.outputs \cup {n}
           \/ /\ disk'.state = [disk.state EXCEPT ![n] = "pending"]
              /\ disk'.outputs = disk.outputs \ {n}
    BY <1>2, <2>4 DEF ReconcileCompleted, ReconcileNotApplied, Checkpoint
  <2>6. /\ \A m \in Nodes : m # n => /\ disk'.state[m] = disk.state[m]
                                     /\ m \in disk'.outputs <=> m \in disk.outputs
        /\ disk'.state[n] = "pending" \/ (disk'.state[n] = "completed" /\ n \in disk'.outputs)
    BY <2>4, <2>5 DEF Checkpoint
  <2>7. Sound(disk'.state, disk'.scope, disk'.outputs)
    BY <2>4, <2>5, <2>6, KindAssumption DEF Sound
  <2> QED
    BY <2>2, <2>3, <2>5, <2>7 DEF Records, Good, Explained
<1> QED
  BY <1>1, <1>2, OutcomeResumeStep DEF Operator

LEMMA SchedulerInvStep == SchedulerInv /\ [Next]_vars => SchedulerInv'
<1> SUFFICES ASSUME SchedulerInv, [Next]_vars PROVE Records' /\ Memory'
  BY GateInvStep DEF SchedulerInv
<1> USE DEF bounds, world, queues, progress
<1>0. /\ TypeOK /\ Records /\ Memory /\ ioFailures \in Nat
      /\ rejected # {} => ioFailures # 0
  BY DEF SchedulerInv, GateInv, Memory, TypeOK
<1>1. CASE EventWritten \/ EventRefused \/ TimePasses \/ UNCHANGED vars
  <2>1. UNCHANGED <<phase, pc, state, scope, outputs, usage, disk, checkpoints>>
    BY <1>1 DEF EventWritten, EventRefused, TimePasses, vars
  <2>2. (ioFailures' = 0 => ioFailures = 0) /\ (rejected' # {} => ioFailures' # 0)
    BY <1>0, <1>1 DEF EventWritten, EventRefused, TimePasses, vars
  <2> QED
    BY <1>0, <2>1, <2>2, RecordsUnchanged, SameResults
<1>2. CASE CheckpointWritten \/ CheckpointRefused
  <2>1. UNCHANGED <<phase, pc, state, scope, outputs, usage>>
    BY <1>2 DEF CheckpointWritten, CheckpointRefused
  <2>2. (ioFailures' = 0 => ioFailures = 0) /\ (rejected' # {} => ioFailures' # 0)
    BY <1>0, <1>2 DEF CheckpointWritten, CheckpointRefused
  <2>3. Records'
    BY <1>0, <1>2, <2>2, RecordsWritten DEF CheckpointWritten, CheckpointRefused
  <2> QED
    BY <1>0, <2>1, <2>2, <2>3, SameResults
<1>3. CASE Crash
  <2>1. UNCHANGED <<disk, ioFailures>> /\ Len(checkpoints') = 0
    BY <1>3 DEF Crash, PowerOff
  <2>2. Records'
    BY <1>0, <2>1 DEF Records
  <2> QED
    BY <1>3, <2>2, OffResults DEF Crash
<1> QED
  BY <1>1, <1>2, <1>3, OutcomeOperatorStep, OutcomeNodeStep, OutcomeAnswerStep,
     OutcomeMainStep DEF Next, Io

LEMMA SchedulerInitInv == Init => SchedulerInv
<1> SUFFICES ASSUME Init PROVE Records /\ Memory
  BY GateInitInv DEF SchedulerInv
<1>1. Len(checkpoints) = 0 /\ phase = "down" /\ rejected = {} /\ disk = NoCheckpoint
  BY DEF Init
<1>2. /\ \A n \in Nodes : state[n] = "pending" /\ disk.state[n] = "pending"
      /\ disk.status = "absent"
  BY DEF Init, NoCheckpoint
<1>3. Good(disk) /\ Explained(disk) /\ Sound(state, scope, outputs)
  BY <1>2, KindAssumption DEF Good, Explained, Sound
<1> QED
  BY <1>1, <1>3 DEF Records, Memory, Calm

LEMMA SchedulerInductive == Spec => []SchedulerInv
BY SchedulerInitInv, SchedulerInvStep, PTL DEF Spec
\* A set of ranks has a least one.
LEMMA LeastRank ==
  ASSUME NEW S \in SUBSET Nat, S # {}
  PROVE  \E m \in S : \A k \in S : m <= k
<1> DEFINE Less == {p \in Nat \X Nat : p[1] < p[2]}
<1>1. IsWellFoundedOn(Less, Nat)
  BY NatLessThanWellFounded DEF OpToRel
<1>2. PICK m \in S : \A k \in S : ~ (<<k, m>> \in Less)
  <2> HIDE DEF Less
  <2> QED
    BY <1>1, WFMin
<1>3. ASSUME NEW k \in S PROVE m <= k
  <2>1. <<k, m>> \notin Less /\ m \in Nat /\ k \in Nat
    BY <1>2
  <2> QED
    BY <2>1
<1> QED
  BY <1>3

\* The pending node of least rank.
LEMMA FirstPending ==
  ASSUME Pending # {}
  PROVE  \E n \in Pending : \A m \in Pending : Rank[n] <= Rank[m]
<1> DEFINE Ranks == {Rank[n] : n \in Pending}
<1>1. \A n \in Pending : n \in Nodes /\ Rank[n] \in Nat
  BY GraphAssumption DEF Pending
<1>2. Ranks \in SUBSET Nat /\ Ranks # {}
  BY <1>1
<1>3. PICK r \in Ranks : \A k \in Ranks : r <= k
  <2> HIDE DEF Ranks
  <2> QED
    BY <1>2, LeastRank
<1>4. PICK n \in Pending : Rank[n] = r
  BY <1>3
<1> QED
  BY <1>3, <1>4

-----------------------------------------------------------------------------

\* The scheduler never has pending nodes and nothing to run: "no executable nodes
\* remain" cannot be thrown.  The first pending node in topological order has only
\* dependencies that are over, and none that failed, or it would have been skipped.
THEOREM SchedulerNeverStuck == Spec => []NeverStuck
<1>1. SchedulerInv => NeverStuck
  <2> SUFFICES ASSUME SchedulerInv, Deciding, Blocked = {}, Pending # {}
               PROVE  Runnable # {}
    BY DEF NeverStuck
  <2>1. PICK n \in Pending : \A m \in Pending : Rank[n] <= Rank[m]
    BY FirstPending
  <2>2. Quiet(state, scope)
    BY DEF SchedulerInv, Memory, Calm, Deciding
  <2>3. ASSUME NEW d \in Deps[n] PROVE state[d] = "completed"
    <3>1. n \in Nodes /\ d \in Nodes /\ Rank[d] < Rank[n]
      BY Paths, GraphAssumption DEF Pending
    <3>2. Rank[d] \in Nat /\ Rank[n] \in Nat
      BY <3>1, GraphAssumption
    <3>3. d \notin Pending
      BY <2>1, <3>1, <3>2
    <3>4. state[d] \notin {"failed", "skipped"}
      BY <2>1 DEF Deciding, Doomed
    <3>5. state[d] # "running" /\ state[d] # "blocked" /\ state[d] \in States
      BY <2>2, <3>1 DEF Quiet, Blocked, SchedulerInv, GateInv, TypeOK
    <3> QED
      BY <3>1, <3>3, <3>4, <3>5 DEF Pending, States
  <2> QED
    BY <2>1, <2>3 DEF Runnable
<1> QED
  BY <1>1, SchedulerInductive, PTL

\* A checkpoint that says "completed" shows every node completed with its output,
\* within the token budget: whatever was paused, refused, resumed and reconciled
\* before.  (The branch failures and the budget are looked at once, at the end.)
THEOREM CompletedRunsAreWhole == Spec => []CompletedIsWhole
<1>1. SchedulerInv => CompletedIsWhole
  <2> SUFFICES ASSUME SchedulerInv, disk.status = "completed"
               PROVE  /\ \A n \in Nodes : disk.state[n] = "completed"
                      /\ disk.outputs = Nodes
                      /\ ~OverBudget(disk.usage)
    BY DEF CompletedIsWhole
  <2>1. Good(disk) /\ disk.outputs \subseteq Nodes
    BY DEF SchedulerInv, Records, GateInv, TypeOK, Checkpoint
  <2>2. \A n \in Nodes : disk.state[n] = "completed" /\ n \in disk.outputs
    BY <2>1 DEF Good, Sound
  <2> QED
    BY <2>1, <2>2 DEF Good
<1> QED
  BY <1>1, SchedulerInductive, PTL

\* A run that waits for an approval can be resumed with the approval alone: no side
\* effect is in doubt, and a gate is waiting whose dependencies are done.
THEOREM PausedRunsAreClean == Spec => []PauseIsClean
<1>1. SchedulerInv => PauseIsClean
  <2> SUFFICES ASSUME SchedulerInv, disk.status = "needs_confirmation"
               PROVE  /\ \A n \in Nodes : ~Uncertain(n)
                      /\ \E g \in Gates : /\ disk.state[g] = "blocked"
                                          /\ \A d \in Deps[g] : disk.state[d] = "completed"
    BY DEF PauseIsClean
  <2>1. Good(disk) /\ InOrder(disk.state)
    BY DEF SchedulerInv, Records, GateInv
  <2>2. \A n \in Nodes : ~Uncertain(n)
    BY <2>1 DEF Good, Sound, Quiet, Uncertain
  <2>3. PICK g \in Gates : disk.state[g] = "blocked"
    BY <2>1 DEF Good
  <2>4. \A d \in Deps[g] : disk.state[d] = "completed"
    BY <2>1, <2>3, Paths, KindAssumption DEF InOrder, Reached
  <2> QED
    BY <2>2, <2>3, <2>4
<1> QED
  BY <1>1, SchedulerInductive, PTL

\* When a run has failed by its branches alone, every node is done, has failed, or
\* was skipped under a failed ancestor: a branch failure stops nothing else.
THEOREM FailedBranchesAreIsolated == Spec => []BranchesIsolated
<1>1. SchedulerInv => BranchesIsolated
  BY DEF SchedulerInv, Records, Explained, Accounted, Finished, BranchesIsolated
<1> QED
  BY <1>1, SchedulerInductive, PTL
=============================================================================
