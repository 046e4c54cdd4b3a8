------------------------ MODULE GraphRuntimeProofs ------------------------
(***************************************************************************)
(* Types and side effects of GraphRuntime, for every graph, every budget    *)
(* and any number of crashes, refused writes and resumes.                   *)
(***************************************************************************)
EXTENDS GraphRuntime, TLAPS

(***************************************************************************)
(* Types.                                                                  *)
(***************************************************************************)

\* A queue may be empty; its head and the rest are of the type of the queue.
LEMMA EmptyQueue == \A S : <<>> \in Seq(S)
OBVIOUS

LEMMA QueueHead ==
  ASSUME NEW S, NEW q \in Seq(S), q # <<>>
  PROVE  /\ Head(q) \in S /\ Tail(q) \in Seq(S)
         /\ Head(q) = q[1] /\ Len(q) \in Nat \ {0} /\ Len(Tail(q)) = Len(q) - 1
         /\ \A i \in 1..Len(Tail(q)) : Tail(q)[i] = q[i + 1]
OBVIOUS

LEMMA QueueItems == \A S : \A q \in Seq(S) : \A i \in 1..Len(q) : q[i] \in S
OBVIOUS

LEMMA QueueAppend ==
  ASSUME NEW S, NEW q \in Seq(S), NEW x \in S
  PROVE  /\ Append(q, x) \in Seq(S) /\ Len(q) \in Nat
         /\ Len(Append(q, x)) = Len(q) + 1
         /\ \A i \in 1..Len(q) : Append(q, x)[i] = q[i]
         /\ Append(q, x)[Len(q) + 1] = x
OBVIOUS

LEMMA SnapshotType ==
  ASSUME TypeOK, NEW s \in Statuses PROVE Snapshot(s) \in Checkpoint
BY DEF TypeOK, Snapshot, Checkpoint

LEMMA SaveType ==
  ASSUME TypeOK, NEW w \in Writers, NEW s \in Statuses, Save(w, s)
  PROVE  checkpoints' \in Seq([by : Writers, snap : Checkpoint])
<1>1. Snapshot(s) \in Checkpoint
  BY SnapshotType
<1>2. [by |-> w, snap |-> Snapshot(s)] \in [by : Writers, snap : Checkpoint]
  BY <1>1
<1> QED
  BY <1>2 DEF TypeOK, Save

LEMMA LogType ==
  ASSUME TypeOK, NEW w \in Writers, Log(w) PROVE events' \in Seq(Writers)
BY DEF TypeOK, Log

LEMMA FailType ==
  ASSUME TypeOK, NEW n \in Nodes, NEW k \in Kinds, NEW s \in Scopes, Fail(n, k, s)
  PROVE  /\ state' \in [Nodes -> States] /\ kind' \in [Nodes -> Kinds]
         /\ scope' \in [Nodes -> Scopes] /\ pc' \in [Nodes -> Pcs]
         /\ events' \in Seq(Writers)
<1>1. events' \in Seq(Writers)
  BY LogType DEF Fail, Writers
<1> QED
  BY <1>1 DEF TypeOK, Fail, States, Pcs

LEMMA PublishType ==
  ASSUME TypeOK, NEW n \in Nodes, NEW u \in Nat, Publish(n, u)
  PROVE  /\ state' \in [Nodes -> States] /\ kind' \in [Nodes -> Kinds]
         /\ scope' \in [Nodes -> Scopes] /\ pc' \in [Nodes -> Pcs]
         /\ events' \in Seq(Writers)
         /\ outputs' \in SUBSET Nodes /\ usage' \in Nat
<1>1. usage' \in Nat
  BY DEF TypeOK, Publish
<1>2. CASE Fail(n, "budget", "graph") /\ UNCHANGED outputs
  <2>1. "budget" \in Kinds /\ "graph" \in Scopes
    BY DEF Kinds, Scopes
  <2> QED
    BY <1>1, <1>2, <2>1, FailType DEF TypeOK
<1>3. CASE /\ outputs' = outputs \cup {n}
           /\ state' = [state EXCEPT ![n] = "completed"]
           /\ pc' = [pc EXCEPT ![n] = "ending"]
           /\ Log(n)
           /\ UNCHANGED <<kind, scope>>
  <2>1. events' \in Seq(Writers)
    BY <1>3, LogType DEF Writers
  <2> QED
    BY <1>1, <1>3, <2>1 DEF TypeOK, States, Pcs
<1> QED
  BY <1>2, <1>3 DEF Publish

LEMMA InitType == Init => TypeOK
<1> SUFFICES ASSUME Init PROVE TypeOK
  OBVIOUS
<1>1. NoCheckpoint \in Checkpoint
  BY DEF NoCheckpoint, Checkpoint, States, Kinds, Scopes, Statuses
<1>2. events \in Seq(Writers) /\ checkpoints \in Seq([by : Writers, snap : Checkpoint])
  BY EmptyQueue DEF Init
<1> QED
  BY <1>1, <1>2 DEF Init, TypeOK, Phases, Pcs, States, Kinds, Scopes

LEMMA PowerOffType ==
  ASSUME TypeOK, PowerOff, bounds' \in Nat \X Nat \X Nat PROVE TypeOK'
<1>1. events' \in Seq(Writers) /\ checkpoints' \in Seq([by : Writers, snap : Checkpoint])
  BY EmptyQueue DEF PowerOff
<1>2. invocations' \in Nat /\ crashes' \in Nat /\ ioFailures' \in Nat
  BY DEF bounds
<1> QED
  BY <1>1, <1>2 DEF TypeOK, PowerOff, Phases, Pcs, States, Kinds, Scopes, Writers, world

LEMMA IoType ==
  ASSUME TypeOK, Io \/ EventRefused \/ CheckpointRefused PROVE TypeOK'
<1> USE DEF progress, world, bounds, queues
<1>1. CASE EventWritten
  BY <1>1 DEF TypeOK, EventWritten
<1>2. CASE CheckpointWritten
  <2>1. Head(checkpoints) \in [by : Writers, snap : Checkpoint]
    BY <1>2, QueueHead DEF TypeOK, CheckpointWritten
  <2> QED
    BY <1>2, <2>1 DEF TypeOK, CheckpointWritten
<1>3. CASE EventRefused
  BY <1>3 DEF TypeOK, EventRefused
<1>4. CASE CheckpointRefused
  <2>1. Head(checkpoints) \in [by : Writers, snap : Checkpoint]
    BY <1>4, QueueHead DEF TypeOK, CheckpointRefused
  <2> QED
    BY <1>4, <2>1 DEF TypeOK, CheckpointRefused
<1> QED
  BY <1>1, <1>2, <1>3, <1>4 DEF Io

LEMMA NodeType ==
  ASSUME TypeOK, NEW n \in Nodes, NodeContinues(n) PROVE TypeOK'
<1> USE DEF progress, world, bounds, queues
<1>0. /\ n \in Writers /\ "running" \in Statuses /\ Scope(n) \in Scopes
      /\ {"executor", "timeout", "budget"} \subseteq Kinds /\ "graph" \in Scopes
      /\ 0 \in Nat /\ PartialCosts(n) \subseteq Nat
  BY BudgetAssumption DEF Writers, Statuses, Scope, Scopes, Kinds, PartialCosts
<1>1. CASE StartLogged(n)
  <2>1. checkpoints' \in Seq([by : Writers, snap : Checkpoint])
    BY <1>0, <1>1, SaveType DEF StartLogged
  <2> QED
    BY <1>1, <2>1 DEF TypeOK, StartLogged, Pcs
<1>2. CASE DeadlinePassed(n)
  BY <1>0, <1>2, FailType DEF TypeOK, DeadlinePassed
<1>3. CASE PassGate(n)
  BY <1>0, <1>3, PublishType DEF TypeOK, PassGate
<1>4. CASE StopAtGate(n)
  <2>1. events' \in Seq(Writers)
    BY <1>0, <1>4, LogType DEF StopAtGate
  <2> QED
    BY <1>4, <2>1 DEF TypeOK, StopAtGate, States, Pcs
<1>5. CASE RunLocally(n)
  BY <1>0, <1>5, PublishType DEF TypeOK, RunLocally
<1>6. CASE FailBeforeExecution(n)
  BY <1>0, <1>6, FailType DEF TypeOK, FailBeforeExecution
<1>7. CASE Launch(n)
  BY <1>7 DEF TypeOK, Launch, Pcs, Became
<1>8. CASE EndLogged(n)
  <2>1. checkpoints' \in Seq([by : Writers, snap : Checkpoint])
    BY <1>0, <1>8, SaveType DEF EndLogged
  <2> QED
    BY <1>8, <2>1 DEF TypeOK, EndLogged, Pcs
<1>9. CASE EndSaved(n)
  BY <1>9 DEF TypeOK, EndSaved, Pcs
<1>10. CASE CompletionRefused(n)
  BY <1>0, <1>10, FailType DEF TypeOK, CompletionRefused
<1>11. CASE NodeRefused(n)
  <2>1. phase' \in Phases /\ events' \in Seq(Writers)
    BY <1>11, LogType DEF TypeOK, NodeRefused, RunFails, Phases, Writers
  <2> QED
    BY <1>11, <2>1 DEF TypeOK, NodeRefused, Pcs
<1>12. ASSUME NEW u \in PartialCosts(n), Watchdog(n, u) PROVE TypeOK'
  BY <1>0, <1>12, FailType DEF TypeOK, Watchdog, Became
<1> QED
  BY <1>1, <1>2, <1>3, <1>4, <1>5, <1>6, <1>7, <1>8, <1>9, <1>10, <1>11, <1>12
     DEF NodeContinues

LEMMA ExecutorType ==
  ASSUME TypeOK, NEW n \in Nodes, ExecutorAnswers(n) PROVE TypeOK'
<1> USE DEF progress, world, bounds, queues
<1>0. /\ Scope(n) \in Scopes /\ {"executor", "timeout"} \subseteq Kinds
      /\ Costs \subseteq Nat /\ PartialCosts(n) \subseteq Nat
  BY BudgetAssumption DEF Scope, Scopes, Kinds, PartialCosts
<1>1. ASSUME NEW u \in Costs, Return(n, u) PROVE TypeOK'
  BY <1>0, <1>1, PublishType DEF TypeOK, Return, Became
<1>2. ASSUME NEW k \in {"executor", "timeout"}, NEW u \in PartialCosts(n), Raise(n, k, u)
      PROVE TypeOK'
  <2>1. k \in Kinds /\ u \in Nat
    BY <1>0
  <2>2. Fail(n, k, Scope(n)) /\ usage' = usage + u
    BY <1>2 DEF Raise
  <2>3. /\ state' \in [Nodes -> States] /\ kind' \in [Nodes -> Kinds]
        /\ scope' \in [Nodes -> Scopes] /\ pc' \in [Nodes -> Pcs]
        /\ events' \in Seq(Writers)
    BY <1>0, <2>1, <2>2, FailType
  <2>4. live' \in [SideEffecting -> {"ended", "working", "abandoned"}]
    BY <1>2 DEF TypeOK, Raise, Became
  <2> QED
    BY <1>2, <2>1, <2>2, <2>3, <2>4 DEF TypeOK, Raise
<1>3. CASE ExecutorEnds(n)
  BY <1>3 DEF TypeOK, ExecutorEnds, Became
<1> QED
  BY <1>1, <1>2, <1>3 DEF ExecutorAnswers

LEMMA DispatchType ==
  ASSUME TypeOK, Dispatch PROVE TypeOK'
<1> USE DEF progress, world, bounds, queues
<1>0. PICK k \in 1..MaxParallel : \E q \in [1..k -> Runnable] :
        /\ state' = [n \in Nodes |-> IF n \in {q[i] : i \in 1..k}
                                     THEN "running" ELSE state[n]]
        /\ pc' = [n \in Nodes |-> IF n \in {q[i] : i \in 1..k}
                                  THEN "starting" ELSE pc[n]]
        /\ events' = events \o q
  BY DEF Dispatch
<1>1. PICK q \in [1..k -> Runnable] :
        /\ state' = [n \in Nodes |-> IF n \in {q[i] : i \in 1..k}
                                     THEN "running" ELSE state[n]]
        /\ pc' = [n \in Nodes |-> IF n \in {q[i] : i \in 1..k}
                                  THEN "starting" ELSE pc[n]]
        /\ events' = events \o q
  BY <1>0
<1>2. q \in Seq(Writers)
  BY BudgetAssumption DEF Runnable, Pending, Writers
<1>3. events' \in Seq(Writers)
  BY <1>1, <1>2 DEF TypeOK
<1> QED
  BY <1>1, <1>3 DEF TypeOK, Dispatch, States, Pcs, Phases

LEMMA MainType ==
  ASSUME TypeOK, MainContinues PROVE TypeOK'
<1> USE DEF progress, world, bounds, queues
<1>0. Main \in Writers /\ "running" \in Statuses
      /\ (Log(Main) => events' \in Seq(Writers))
  BY LogType DEF Writers, Statuses
<1>1. CASE OpenLogged
  <2>1. checkpoints' \in Seq([by : Writers, snap : Checkpoint])
    BY <1>0, <1>1, SaveType DEF OpenLogged
  <2> QED
    BY <1>1, <2>1 DEF TypeOK, OpenLogged, Phases
<1>2. CASE OpenSaved
  BY <1>0, <1>2 DEF TypeOK, OpenSaved, RunFails, Phases
<1>3. ASSUME NEW n \in Nodes, Skip(n) PROVE TypeOK'
  BY <1>0, <1>3 DEF TypeOK, Skip, Phases, States
<1>4. CASE SkipsLogged
  <2>1. checkpoints' \in Seq([by : Writers, snap : Checkpoint])
    BY <1>0, <1>4, SaveType DEF SkipsLogged
  <2> QED
    BY <1>4, <2>1 DEF TypeOK, SkipsLogged, Phases
<1>5. CASE SkipsSaved
  BY <1>5 DEF TypeOK, SkipsSaved, Phases
<1>6. CASE BatchDone
  BY <1>0, <1>6 DEF TypeOK, BatchDone, RunFails, Phases, Pcs
<1>7. CASE Block
  BY <1>0, <1>7 DEF TypeOK, Block, Phases
<1>8. CASE Finish
  BY <1>0, <1>8 DEF TypeOK, Finish, RunFails, Phases
<1>9. CASE EndingLogged
  <2>1. FinalStatus[phase] \in Statuses
    BY <1>9 DEF EndingLogged, FinalStatus, Statuses
  <2>2. checkpoints' \in Seq([by : Writers, snap : Checkpoint])
    BY <1>0, <1>9, <2>1, SaveType DEF EndingLogged
  <2> QED
    BY <1>9, <2>2 DEF TypeOK, EndingLogged, Phases
<1>10. CASE EndingSaved
  BY <1>10 DEF TypeOK, EndingSaved, Phases
<1>11. CASE MainRefused
  BY <1>0, <1>11 DEF TypeOK, MainRefused, RunFails, Phases
<1>12. CASE Exit
  BY <1>12, PowerOffType DEF TypeOK, Exit
<1> QED
  BY <1>1, <1>2, <1>3, <1>4, <1>5, <1>6, <1>7, <1>8, <1>9, <1>10, <1>11, <1>12,
     DispatchType DEF MainContinues

LEMMA ProcessType ==
  ASSUME TypeOK, TimePasses \/ Crash \/ Operator PROVE TypeOK'
<1> USE DEF progress, world, bounds, queues
<1>0. Log(Main) => events' \in Seq(Writers)
  BY LogType DEF Writers
<1>1. CASE TimePasses
  BY <1>1 DEF TypeOK, TimePasses
<1>2. CASE Crash
  BY <1>2, PowerOffType DEF TypeOK, Crash
<1>3. ASSUME NEW A \in SUBSET Gates, Start(A) PROVE TypeOK'
  BY <1>0, <1>3 DEF TypeOK, Start, Phases
<1>4. ASSUME NEW A \in SUBSET Gates, Resume(A) PROVE TypeOK'
  <2>1. /\ disk.state \in [Nodes -> States] /\ disk.kind \in [Nodes -> Kinds]
        /\ disk.scope \in [Nodes -> Scopes] /\ disk.outputs \in SUBSET Nodes
        /\ disk.usage \in Nat /\ disk.expired \in BOOLEAN
    BY DEF TypeOK, Checkpoint
  <2>2. /\ state' \in [Nodes -> States] /\ kind' \in [Nodes -> Kinds]
        /\ scope' \in [Nodes -> Scopes] /\ outputs' \in SUBSET Nodes
        /\ usage' \in Nat /\ expired' \in BOOLEAN
    BY <1>4, <2>1 DEF Resume, Restored, RestoredUsage, States, Kinds, Scopes
  <2> QED
    BY <1>0, <1>4, <2>2 DEF TypeOK, Resume, Phases
<1>5. ASSUME NEW n \in Nodes, ReconcileCompleted(n) PROVE TypeOK'
  <2>1. disk' \in Checkpoint
    BY <1>5 DEF TypeOK, Checkpoint, ReconcileCompleted, States, Kinds, Statuses
  <2> QED
    BY <1>5, <2>1 DEF TypeOK, ReconcileCompleted
<1>6. ASSUME NEW n \in Nodes, ReconcileNotApplied(n) PROVE TypeOK'
  <2>1. disk' \in Checkpoint
    BY <1>6 DEF TypeOK, Checkpoint, ReconcileNotApplied, States, Kinds, Statuses
  <2> QED
    BY <1>6, <2>1 DEF TypeOK, ReconcileNotApplied
<1> QED
  BY <1>1, <1>2, <1>3, <1>4, <1>5, <1>6 DEF Operator

LEMMA StepType == TypeOK /\ [Next]_vars => TypeOK'
<1> SUFFICES ASSUME TypeOK, [Next]_vars PROVE TypeOK'
  OBVIOUS
<1>1. CASE Next
  BY <1>1, IoType, NodeType, ExecutorType, MainType, ProcessType DEF Next
<1>2. CASE UNCHANGED vars
  BY <1>2 DEF TypeOK, vars, progress, world, bounds, queues
<1> QED
  BY <1>1, <1>2

\* Type correctness of the scheduler, for every graph and any number of crashes,
\* refused writes and resumes; every checkpoint it writes is one it can load.
THEOREM TypeInvariant == Spec => []TypeOK
<1>1. Init => TypeOK
  BY InitType
<1>2. TypeOK /\ [Next]_vars => TypeOK'
  BY StepType
<1> QED
  BY <1>1, <1>2, PTL DEF Spec

(***************************************************************************)
(* The process and its memory.                                             *)
(***************************************************************************)

\* With no process there is nothing in memory, and before the first invocation
\* there is nothing in the world either.
Asleep ==
  /\ phase = "down" => /\ pc = [n \in Nodes |-> "idle"]
                       /\ state = [n \in Nodes |-> "pending"]
                       /\ events = <<>> /\ checkpoints = <<>> /\ rejected = {}
  /\ invocations = 0 => /\ phase = "down" /\ disk = NoCheckpoint
                        /\ attempts = [n \in SideEffecting |-> 0]

\* A node or an executor that is waited for needs a process, and leaves it running.
LEMMA NodeAwake ==
  ASSUME TypeOK, Asleep, NEW n \in Nodes, NodeContinues(n)
  PROVE  phase # "down" /\ phase' # "down" /\ invocations' = invocations
<1>1. pc[n] # "idle"
  BY DEF NodeContinues, StartLogged, DeadlinePassed, PassGate, StopAtGate, RunLocally,
         FailBeforeExecution, Launch, EndLogged, EndSaved, CompletionRefused,
         NodeRefused, Watchdog, Ready
<1>2. phase # "down"
  BY <1>1 DEF Asleep
<1>3. phase' = phase \/ phase' = "failing"
  BY DEF NodeContinues, StartLogged, DeadlinePassed, PassGate, StopAtGate, RunLocally,
         FailBeforeExecution, Launch, EndLogged, EndSaved, CompletionRefused,
         NodeRefused, Watchdog, RunFails
<1>4. invocations' = invocations
  BY DEF NodeContinues, StartLogged, DeadlinePassed, PassGate, StopAtGate, RunLocally,
         FailBeforeExecution, Launch, EndLogged, EndSaved, CompletionRefused,
         NodeRefused, Watchdog, bounds
<1> QED
  BY <1>2, <1>3, <1>4

LEMMA AnswerAwake ==
  ASSUME TypeOK, Asleep, NEW n \in Nodes, ExecutorAnswers(n), ~ExecutorEnds(n)
  PROVE  phase # "down" /\ phase' # "down" /\ invocations' = invocations
BY DEF ExecutorAnswers, Return, Raise, Asleep, bounds

LEMMA MainAwake ==
  ASSUME TypeOK, Asleep, MainContinues, ~Exit
  PROVE  phase # "down" /\ phase' # "down" /\ invocations' = invocations
<1>1. phase # "down"
  BY DEF MainContinues, OpenLogged, OpenSaved, Skip, SkipsLogged, SkipsSaved, Dispatch,
         BatchDone, Block, Finish, EndingLogged, EndingSaved, MainRefused, MainWrote,
         Deciding, FinalStatus, Asleep
<1>2. phase' # "down" /\ invocations' = invocations
  BY <1>1 DEF MainContinues, OpenLogged, OpenSaved, Skip, SkipsLogged, SkipsSaved,
         Dispatch, BatchDone, Block, Finish, EndingLogged, EndingSaved, MainRefused,
         RunFails, bounds
<1> QED
  BY <1>1, <1>2

LEMMA OffAsleep ==
  ASSUME Asleep, phase # "down", PowerOff, invocations' = invocations PROVE Asleep'
BY DEF Asleep, PowerOff

LEMMA AsleepStep == TypeOK /\ Asleep /\ [Next]_vars => Asleep'
<1> SUFFICES ASSUME TypeOK, Asleep, [Next]_vars PROVE Asleep'
  OBVIOUS
<1> USE DEF progress, world, bounds, queues
<1>0. phase # "down" /\ phase' # "down" /\ invocations' = invocations => Asleep'
  BY DEF Asleep
<1>1. CASE Io \/ EventRefused \/ CheckpointRefused
  BY <1>1 DEF Asleep, Io, EventWritten, CheckpointWritten, EventRefused, CheckpointRefused
<1>2. ASSUME NEW n \in Nodes, NodeContinues(n) PROVE Asleep'
  BY <1>0, <1>2, NodeAwake
<1>3. ASSUME NEW n \in Nodes, ExecutorAnswers(n) PROVE Asleep'
  <2>1. CASE ExecutorEnds(n)
    BY <2>1 DEF Asleep, ExecutorEnds
  <2> QED
    BY <1>0, <1>3, <2>1, AnswerAwake
<1>4. CASE MainContinues
  <2>1. CASE Exit
    BY <2>1, OffAsleep DEF Exit
  <2> QED
    BY <1>0, <1>4, <2>1, MainAwake
<1>5. CASE TimePasses
  BY <1>0, <1>5 DEF TimePasses
<1>6. CASE Crash
  BY <1>6, OffAsleep DEF Crash
<1>7. ASSUME NEW A \in SUBSET Gates, Start(A) PROVE Asleep'
  BY <1>7 DEF Asleep, Start
<1>8. ASSUME NEW A \in SUBSET Gates, Resume(A) PROVE Asleep'
  BY <1>8 DEF Asleep, Resume, TypeOK
<1>9. ASSUME NEW n \in Nodes, ReconcileCompleted(n) \/ ReconcileNotApplied(n) PROVE Asleep'
  <2>1. disk # NoCheckpoint
    BY <1>9 DEF ReconcileCompleted, ReconcileNotApplied, Uncertain, NoCheckpoint
  <2> QED
    BY <1>9, <2>1 DEF Asleep, ReconcileCompleted, ReconcileNotApplied
<1>10. CASE UNCHANGED vars
  BY <1>10 DEF Asleep, vars
<1> QED
  BY <1>1, <1>2, <1>3, <1>4, <1>5, <1>6, <1>7, <1>8, <1>9, <1>10 DEF Next, Operator

LEMMA InitAsleep == Init => Asleep
BY DEF Init, Asleep

\* The invariant every later proof starts from.
LEMMA Grounded == Spec => [](TypeOK /\ Asleep)
<1>1. Init => TypeOK /\ Asleep
  BY InitType, InitAsleep
<1>2. TypeOK /\ Asleep /\ [Next]_vars => TypeOK' /\ Asleep'
  BY StepType, AsleepStep
<1> QED
  BY <1>1, <1>2, PTL DEF Spec

(***************************************************************************)
(* Why a side-effecting node of GraphRuntime is executed at most once, for  *)
(* every graph, crash and refused write.                                    *)
(*                                                                         *)
(* The argument is the write-ahead one.  A node may act only after a        *)
(* checkpoint that shows it running has been written, and every checkpoint  *)
(* queued behind that one shows it running or finished, because the state   *)
(* in memory never goes back.  So whatever a crash leaves on disk, resume   *)
(* sees the node as uncertain or completed, and never as still to do.       *)
(***************************************************************************)

Acted == {"running", "failed", "completed"}

\* Checkpoint c shows that n may have acted.
OnRecord(c, n) == c.status # "absent" /\ c.state[n] \in Acted

\* So does every save from the i-th on.
Queued(n, i) == \A j \in i..Len(checkpoints) : OnRecord(checkpoints[j].snap, n)

\* Nothing that can still reach the disk hides n.
OnEveryRecord(n) == OnRecord(disk, n) /\ Queued(n, 1)

\* n's own save is on its way, and nothing behind it hides n.
OwnSaveQueued(n) ==
  \E i \in 1..Len(checkpoints) : checkpoints[i].by = n /\ Queued(n, i)

AheadOfEffect(n) ==
  /\ attempts[n] <= 1
  /\ attempts[n] > 0 => /\ OnEveryRecord(n)
                        /\ phase # "down" => state[n] \in Acted
  /\ pc[n] \in {"starting", "saving"} => attempts[n] = 0
  /\ pc[n] \in {"starting", "saving", "executing"} => state[n] = "running"
  /\ pc[n] = "saving" => n \in rejected \/ OwnSaveQueued(n) \/ OnEveryRecord(n)

WriteAhead == \A n \in SideEffecting : AheadOfEffect(n)

Inv == TypeOK /\ Asleep /\ WriteAhead

-----------------------------------------------------------------------------
(* The shapes of a step.                                                   *)

\* A node that is not about to act has moved on, or never acted.
MovedOn(n) ==
  \/ state'[n] = state[n] /\ pc'[n] = pc[n]
  \/ /\ pc'[n] \notin {"starting", "saving", "executing"}
     /\ attempts[n] = 0 \/ state'[n] \in Acted

\* A step of the process that writes nothing and launches nothing.
LEMMA QuietStep ==
  ASSUME Inv, phase # "down", UNCHANGED <<checkpoints, disk, attempts>>,
         \A n \in SideEffecting : MovedOn(n),
         \A n \in SideEffecting : n \in rejected /\ n \notin rejected' => pc'[n] # "saving"
  PROVE  WriteAhead'
BY DEF Inv, WriteAhead, AheadOfEffect, MovedOn, OnEveryRecord, OwnSaveQueued, Queued

\* A step that queues a checkpoint of the present state.
LEMMA SavingStep ==
  ASSUME Inv, phase # "down", NEW w \in Writers, NEW s \in Statuses, s # "absent",
         Save(w, s), UNCHANGED <<state, disk, attempts, rejected>>,
         \A n \in SideEffecting : \/ pc'[n] = pc[n]
                                  \/ pc'[n] \notin {"starting", "saving", "executing"}
                                  \/ pc'[n] = "saving" /\ pc[n] = "starting" /\ w = n
  PROVE  WriteAhead'
<1> SUFFICES ASSUME NEW n \in SideEffecting PROVE AheadOfEffect(n)'
  BY DEF WriteAhead
<1> DEFINE new == [by |-> w, snap |-> Snapshot(s)]
<1>1. new \in [by : Writers, snap : Checkpoint] /\ new.by = w
  BY SnapshotType DEF Inv
<1>2. /\ Len(checkpoints) \in Nat /\ Len(checkpoints') = Len(checkpoints) + 1
      /\ \A i \in 1..Len(checkpoints) : checkpoints'[i] = checkpoints[i]
      /\ checkpoints'[Len(checkpoints) + 1] = new
  BY <1>1, QueueAppend DEF Inv, TypeOK, Save
<1>3. AheadOfEffect(n) /\ attempts[n] \in Nat
  BY DEF Inv, WriteAhead, TypeOK
<1>4. state[n] \in Acted => OnRecord(new.snap, n)
  BY DEF OnRecord, Snapshot
<1>5. state[n] \in Acted /\ OnEveryRecord(n) => OnEveryRecord(n)'
  BY <1>2, <1>4 DEF OnEveryRecord, Queued, OnRecord
<1>6. ASSUME state[n] \in Acted, OwnSaveQueued(n) PROVE OwnSaveQueued(n)'
  <2>1. PICK i \in 1..Len(checkpoints) : checkpoints[i].by = n /\ Queued(n, i)
    BY <1>6 DEF OwnSaveQueued
  <2>2. i \in 1..Len(checkpoints') /\ checkpoints'[i].by = n
    BY <1>2, <2>1
  <2>3. Queued(n, i)'
    BY <1>2, <1>4, <1>6, <2>1 DEF Queued, OnRecord
  <2> QED
    BY <2>2, <2>3 DEF OwnSaveQueued
<1>7. ASSUME pc'[n] = "saving", pc[n] = "starting", w = n PROVE OwnSaveQueued(n)'
  <2>1. state[n] \in Acted
    BY <1>3, <1>7 DEF AheadOfEffect, Acted
  <2>2. PICK k \in 1..Len(checkpoints') : k = Len(checkpoints) + 1
    BY <1>2
  <2>3. Queued(n, k)'
    BY <1>2, <1>4, <2>1, <2>2 DEF Queued, OnRecord
  <2>4. checkpoints'[k].by = n
    BY <1>1, <1>2, <1>7, <2>2
  <2> QED
    BY <2>3, <2>4 DEF OwnSaveQueued
<1>8. pc[n] = "saving" => state[n] \in Acted
  BY <1>3 DEF AheadOfEffect, Acted
<1>9. pc'[n] \in {"starting", "saving"} => pc[n] \in {"starting", "saving"}
  OBVIOUS
<1> QED
  BY <1>3, <1>5, <1>6, <1>7, <1>8, <1>9 DEF AheadOfEffect, Acted

\* The first save leaves the queue; disk takes it, or its writer learns of the refusal.
LEMMA WritingStep ==
  ASSUME Inv, checkpoints # <<>>, checkpoints' = Tail(checkpoints),
         UNCHANGED <<phase, pc, state, attempts>>,
         \/ disk' = Head(checkpoints).snap /\ rejected' = rejected
         \/ disk' = disk /\ rejected' = rejected \cup {Head(checkpoints).by}
  PROVE  WriteAhead'
<1> SUFFICES ASSUME NEW n \in SideEffecting PROVE AheadOfEffect(n)'
  BY DEF WriteAhead
<1>1. AheadOfEffect(n)
  BY DEF Inv, WriteAhead
<1>2. /\ Head(checkpoints) = checkpoints[1] /\ Len(checkpoints) \in Nat \ {0}
      /\ Len(checkpoints') = Len(checkpoints) - 1
      /\ \A i \in 1..Len(checkpoints') : checkpoints'[i] = checkpoints[i + 1]
  BY QueueHead DEF Inv, TypeOK
<1>3. OnEveryRecord(n) => OnEveryRecord(n)'
  BY <1>2 DEF OnEveryRecord, Queued, OnRecord
<1>4. ASSUME OwnSaveQueued(n)
      PROVE  n \in rejected' \/ OwnSaveQueued(n)' \/ OnEveryRecord(n)'
  <2>1. PICK i \in 1..Len(checkpoints) : checkpoints[i].by = n /\ Queued(n, i)
    BY <1>4 DEF OwnSaveQueued
  <2>2. CASE i = 1
    BY <1>2, <2>1, <2>2 DEF OnEveryRecord, Queued, OnRecord
  <2>3. CASE i # 1
    <3>1. PICK k \in 1..Len(checkpoints') : i = k + 1
      BY <1>2, <2>3
    <3>2. checkpoints'[k].by = n /\ Queued(n, k)'
      BY <1>2, <2>1, <3>1 DEF Queued, OnRecord
    <3> QED
      BY <3>2 DEF OwnSaveQueued
  <2> QED
    BY <2>2, <2>3
<1> QED
  BY <1>1, <1>3, <1>4 DEF AheadOfEffect

LEMMA OffStep ==
  ASSUME Inv, PowerOff PROVE WriteAhead'
<1> SUFFICES ASSUME NEW n \in SideEffecting PROVE AheadOfEffect(n)'
  BY DEF WriteAhead
<1>1. AheadOfEffect(n) /\ n \in Nodes
  BY KindAssumption DEF Inv, WriteAhead
<1>2. /\ phase' = "down" /\ pc'[n] = "idle" /\ checkpoints' = <<>>
      /\ UNCHANGED <<disk, attempts>>
  BY <1>1 DEF PowerOff, world
<1>3. Len(checkpoints') = 0
  BY <1>2
<1>4. OnRecord(disk, n) => OnEveryRecord(n)'
  BY <1>2, <1>3 DEF OnEveryRecord, OnRecord, Queued
<1> QED
  BY <1>1, <1>2, <1>4 DEF AheadOfEffect, OnEveryRecord

\* A step with no process running: what it declares void or done is on disk.
LEMMA LedgerStep ==
  ASSUME Inv, phase = "down", NEW n \in Nodes, ReconcileCompleted(n) \/ ReconcileNotApplied(n)
  PROVE  WriteAhead'
<1> SUFFICES ASSUME NEW m \in SideEffecting PROVE AheadOfEffect(m)'
  BY DEF WriteAhead
<1> USE DEF bounds, world, queues, progress
<1>1. AheadOfEffect(m) /\ pc[m] = "idle" /\ Len(checkpoints) = 0 /\ m \in Nodes
  BY KindAssumption DEF Inv, WriteAhead, Asleep
<1>2. /\ pc' = pc /\ phase' = phase /\ checkpoints' = checkpoints
      /\ m # n => attempts'[m] = attempts[m]
      /\ attempts'[m] = attempts[m] \/ attempts'[m] = 0
  BY DEF ReconcileCompleted, ReconcileNotApplied, Inv, TypeOK
<1>3. attempts'[m] > 0 => attempts[m] > 0 /\ attempts' [m] = attempts[m]
  BY <1>2
<1>4. OnRecord(disk, m) /\ attempts'[m] > 0 => OnRecord(disk, m)'
  <2>1. CASE ReconcileCompleted(n)
    BY <2>1 DEF ReconcileCompleted, OnRecord, Inv, TypeOK, Checkpoint, Acted
  <2>2. CASE ReconcileNotApplied(n)
    <3>1. m = n => attempts'[m] = 0
      BY <2>2 DEF ReconcileNotApplied, Inv, TypeOK
    <3>2. m # n => disk'.state[m] = disk.state[m] /\ disk'.status = "running"
      BY <1>1, <2>2 DEF ReconcileNotApplied, Inv, TypeOK, Checkpoint
    <3> QED
      BY <3>1, <3>2 DEF OnRecord
  <2> QED
    BY <2>1, <2>2
<1> QED
  BY <1>1, <1>2, <1>3, <1>4 DEF AheadOfEffect, OnEveryRecord, Queued

\* Resume refuses what is uncertain and keeps what is completed.
LEMMA ResumeStep ==
  ASSUME Inv, NEW A \in SUBSET Gates, Resume(A) PROVE WriteAhead'
<1> SUFFICES ASSUME NEW n \in SideEffecting PROVE AheadOfEffect(n)'
  BY DEF WriteAhead
<1> USE DEF bounds, world, queues, progress
<1>1. AheadOfEffect(n) /\ pc[n] = "idle" /\ n \in Nodes /\ phase' = "opening"
  BY KindAssumption DEF Inv, WriteAhead, Asleep, Resume
<1>2. UNCHANGED <<pc, checkpoints, rejected, disk, attempts>>
  BY DEF Resume
<1>3. ASSUME attempts[n] > 0 PROVE state'[n] \in Acted
  <2>1. disk.state[n] = "completed"
    BY <1>1, <1>3 DEF Resume, Uncertain, AheadOfEffect, OnEveryRecord, OnRecord, Acted
  <2> QED
    BY <1>1, <2>1 DEF Resume, Restored, Kept, Acted
<1> QED
  BY <1>1, <1>2, <1>3 DEF AheadOfEffect, OnEveryRecord, Queued

\* Before its first invocation, no node of the run has acted.
LEMMA StartStep ==
  ASSUME Inv, NEW A \in SUBSET Gates, Start(A) PROVE WriteAhead'
<1> SUFFICES ASSUME NEW n \in SideEffecting PROVE AheadOfEffect(n)'
  BY DEF WriteAhead
<1>1. pc'[n] = "idle" /\ attempts'[n] = 0 /\ n \in Nodes
  BY KindAssumption DEF Inv, Asleep, Start, world
<1> QED
  BY <1>1 DEF AheadOfEffect

\* Only a node that is still to do is dispatched, so one that has not acted.
LEMMA DispatchStep ==
  ASSUME Inv, Dispatch PROVE WriteAhead'
<1> USE DEF bounds, world, queues, progress
<1>1. PICK B \in SUBSET Pending :
        /\ state' = [n \in Nodes |-> IF n \in B THEN "running" ELSE state[n]]
        /\ pc' = [n \in Nodes |-> IF n \in B THEN "starting" ELSE pc[n]]
  <2>1. PICK k \in 1..MaxParallel : \E q \in [1..k -> Runnable] :
          /\ state' = [n \in Nodes |-> IF n \in {q[i] : i \in 1..k}
                                       THEN "running" ELSE state[n]]
          /\ pc' = [n \in Nodes |-> IF n \in {q[i] : i \in 1..k}
                                    THEN "starting" ELSE pc[n]]
    BY DEF Dispatch
  <2>2. PICK q \in [1..k -> Runnable] :
          /\ state' = [n \in Nodes |-> IF n \in {q[i] : i \in 1..k}
                                       THEN "running" ELSE state[n]]
          /\ pc' = [n \in Nodes |-> IF n \in {q[i] : i \in 1..k}
                                    THEN "starting" ELSE pc[n]]
    BY <2>1
  <2>3. {q[i] : i \in 1..k} \in SUBSET Pending
    BY DEF Runnable
  <2> QED
    BY <2>2, <2>3
<1> SUFFICES ASSUME NEW n \in SideEffecting PROVE AheadOfEffect(n)'
  BY DEF WriteAhead
<1>2. /\ AheadOfEffect(n) /\ n \in Nodes /\ phase # "down"
      /\ UNCHANGED <<checkpoints, disk, attempts, rejected>>
      /\ attempts[n] \in Nat
  BY KindAssumption DEF Inv, WriteAhead, Dispatch, Deciding, TypeOK
<1>3. CASE n \in B
  <2>1. state[n] = "pending"
    BY <1>3 DEF Pending
  <2>2. attempts[n] = 0
    BY <1>2, <2>1 DEF AheadOfEffect, Acted
  <2> QED
    BY <1>1, <1>2, <1>3, <2>2 DEF AheadOfEffect
<1>4. CASE n \notin B
  BY <1>1, <1>2, <1>4 DEF AheadOfEffect, OnEveryRecord, OwnSaveQueued, Queued
<1> QED
  BY <1>3, <1>4

\* The executor is called only once the node's own save has been written, and
\* then every later record shows the node, too.
LEMMA LaunchStep ==
  ASSUME Inv, NEW m \in Nodes, Launch(m) PROVE WriteAhead'
<1> SUFFICES ASSUME NEW n \in SideEffecting PROVE AheadOfEffect(n)'
  BY DEF WriteAhead
<1> USE DEF bounds, world, queues, progress
<1>1. /\ AheadOfEffect(n) /\ n \in Nodes /\ attempts[n] \in Nat
      /\ UNCHANGED <<phase, state, checkpoints, disk, rejected>>
  BY KindAssumption DEF Inv, WriteAhead, Launch, TypeOK
<1>2. CASE n = m
  <2>1. pc[n] = "saving" /\ n \notin rejected /\ ~OwnSaveQueued(n)
    BY <1>2 DEF Launch, Ready, Written, OwnSaveQueued
  <2>2. OnEveryRecord(n) /\ state[n] = "running" /\ attempts[n] = 0
    BY <1>1, <2>1 DEF AheadOfEffect
  <2>3. pc'[n] = "executing" /\ attempts'[n] = 1
    BY <1>1, <1>2, <2>2 DEF Launch, Inv, TypeOK
  <2>4. OnEveryRecord(n)'
    BY <1>1, <2>2 DEF OnEveryRecord, Queued
  <2> QED
    BY <1>1, <2>2, <2>3, <2>4 DEF AheadOfEffect, Acted
<1>3. CASE n # m
  <2>1. pc'[n] = pc[n] /\ attempts'[n] = attempts[n]
    BY <1>1, <1>3 DEF Launch, Inv, TypeOK
  <2> QED
    BY <1>1, <2>1 DEF AheadOfEffect, OnEveryRecord, OwnSaveQueued, Queued
<1> QED
  BY <1>2, <1>3

\* How a node that ends, fails or publishes moves on.
LEMMA FailMoves ==
  ASSUME Inv, NEW m \in Nodes, NEW k, NEW c, Fail(m, k, c)
  PROVE  \A n \in SideEffecting : MovedOn(n)
BY KindAssumption DEF Fail, MovedOn, Acted, Inv, TypeOK

LEMMA PublishMoves ==
  ASSUME Inv, NEW m \in Nodes, NEW u, Publish(m, u)
  PROVE  \A n \in SideEffecting : MovedOn(n)
<1>1. CASE Fail(m, "budget", "graph")
  BY <1>1, FailMoves
<1>2. CASE state' = [state EXCEPT ![m] = "completed"] /\ pc' = [pc EXCEPT ![m] = "ending"]
  BY <1>2, KindAssumption DEF MovedOn, Acted, Inv, TypeOK
<1> QED
  BY <1>1, <1>2 DEF Publish

LEMMA NodeStep ==
  ASSUME Inv, NEW m \in Nodes, NodeContinues(m) PROVE WriteAhead'
<1> USE DEF bounds, world, queues, progress
<1>0. phase # "down" /\ m \in Writers
  BY NodeAwake DEF Inv, Writers
<1>1. CASE StartLogged(m)
  <2>1. "running" \in Statuses /\ "running" # "absent"
    BY DEF Statuses
  <2>2. \A n \in SideEffecting : pc'[n] = pc[n] \/ (n = m /\ pc'[n] = "saving" /\ pc[n] = "starting")
    BY <1>1, KindAssumption DEF StartLogged, Inv, TypeOK
  <2> QED
    BY <1>0, <1>1, <2>1, <2>2, SavingStep DEF StartLogged
<1>2. CASE DeadlinePassed(m)
  BY <1>0, <1>2, FailMoves, QuietStep DEF DeadlinePassed
<1>3. CASE PassGate(m)
  BY <1>0, <1>3, PublishMoves, QuietStep DEF PassGate
<1>4. CASE StopAtGate(m)
  <2>1. \A n \in SideEffecting : MovedOn(n)
    BY <1>4, KindAssumption
       DEF StopAtGate, Ready, MovedOn, Inv, TypeOK, WriteAhead, AheadOfEffect
  <2> QED
    BY <1>0, <1>4, <2>1, QuietStep DEF StopAtGate
<1>5. CASE RunLocally(m)
  BY <1>0, <1>5, PublishMoves, QuietStep DEF RunLocally
<1>6. CASE FailBeforeExecution(m)
  BY <1>0, <1>6, FailMoves, QuietStep DEF FailBeforeExecution
<1>7. CASE Launch(m)
  BY <1>7, LaunchStep
<1>8. CASE EndLogged(m)
  <2>1. "running" \in Statuses /\ "running" # "absent"
    BY DEF Statuses
  <2>2. \A n \in SideEffecting : pc'[n] = pc[n] \/ pc'[n] = "endSaving"
    BY <1>8, KindAssumption DEF EndLogged, Inv, TypeOK
  <2> QED
    BY <1>0, <1>8, <2>1, <2>2, SavingStep DEF EndLogged
<1>9. CASE EndSaved(m)
  <2>1. \A n \in SideEffecting : MovedOn(n)
    BY <1>9, KindAssumption
       DEF EndSaved, MovedOn, Inv, TypeOK, WriteAhead, AheadOfEffect, Asleep
  <2> QED
    BY <1>0, <1>9, <2>1, QuietStep DEF EndSaved
<1>10. CASE CompletionRefused(m)
  <2>1. \A n \in SideEffecting : MovedOn(n)
    BY <1>10, FailMoves DEF CompletionRefused
  <2>2. m \in SideEffecting => pc'[m] # "saving"
    BY <1>10 DEF CompletionRefused, Fail, Inv, TypeOK
  <2> QED
    BY <1>0, <1>10, <2>1, <2>2, QuietStep DEF CompletionRefused
<1>11. CASE NodeRefused(m)
  <2>1. \A n \in SideEffecting : n # m => state'[n] = state[n] /\ pc'[n] = pc[n]
    BY <1>11, KindAssumption DEF NodeRefused, Inv, TypeOK
  <2>2. /\ state'[m] = state[m] /\ pc'[m] = "settled"
        /\ rejected' = rejected \ {m} /\ UNCHANGED <<checkpoints, disk, attempts>>
    BY <1>11 DEF NodeRefused, Inv, TypeOK
  <2>3. m \in SideEffecting => attempts[m] = 0 \/ state[m] \in Acted
    BY <1>0 DEF Inv, TypeOK, WriteAhead, AheadOfEffect
  <2>4. \A n \in SideEffecting : MovedOn(n)
    BY <2>1, <2>2, <2>3 DEF MovedOn
  <2> QED
    BY <1>0, <2>2, <2>4, QuietStep
<1>12. ASSUME NEW u \in PartialCosts(m), Watchdog(m, u) PROVE WriteAhead'
  BY <1>0, <1>12, FailMoves, QuietStep DEF Watchdog
<1> QED
  BY <1>1, <1>2, <1>3, <1>4, <1>5, <1>6, <1>7, <1>8, <1>9, <1>10, <1>11, <1>12
     DEF NodeContinues

LEMMA AnswerStep ==
  ASSUME Inv, NEW m \in Nodes, ExecutorAnswers(m) PROVE WriteAhead'
<1> USE DEF bounds, world, queues, progress
<1>1. ASSUME NEW u \in Costs, Return(m, u) PROVE WriteAhead'
  <2>1. phase # "down"
    BY <1>1 DEF Return, Inv, Asleep
  <2> QED
    BY <1>1, <2>1, PublishMoves, QuietStep DEF Return
<1>2. ASSUME NEW k \in {"executor", "timeout"}, NEW u \in PartialCosts(m), Raise(m, k, u)
      PROVE WriteAhead'
  <2>1. phase # "down"
    BY <1>2 DEF Raise, Inv, Asleep
  <2> QED
    BY <1>2, <2>1, FailMoves, QuietStep DEF Raise
<1>3. CASE ExecutorEnds(m)
  BY <1>3 DEF ExecutorEnds, Inv, WriteAhead, AheadOfEffect, OnEveryRecord, OwnSaveQueued, Queued
<1> QED
  BY <1>1, <1>2, <1>3 DEF ExecutorAnswers

LEMMA MainStep ==
  ASSUME Inv, MainContinues PROVE WriteAhead'
<1> USE DEF bounds, world, queues, progress
<1>0. /\ Main \in Writers /\ Main \notin SideEffecting
      /\ "running" \in Statuses /\ "running" # "absent"
  BY GraphAssumption, KindAssumption DEF Writers, Statuses
<1>1. CASE Exit
  BY <1>1, OffStep DEF Exit
<1>3. (\A n \in Nodes : state'[n] = state[n] /\ pc'[n] = pc[n])
         => \A n \in SideEffecting : MovedOn(n)
  BY KindAssumption DEF MovedOn
<1>4. CASE OpenLogged
  BY <1>0, <1>4, SavingStep DEF OpenLogged, MainWrote
<1>5. CASE OpenSaved
  BY <1>3, <1>5, QuietStep DEF OpenSaved, MainWrote
<1>6. ASSUME NEW m \in Nodes, Skip(m) PROVE WriteAhead'
  <2>1. phase # "down" /\ state[m] = "pending"
    BY <1>6 DEF Skip, MainWrote, Doomed, Pending
  <2>2. \A n \in SideEffecting : MovedOn(n)
    <3>1. \A n \in SideEffecting : n # m => state'[n] = state[n] /\ pc'[n] = pc[n]
      BY <1>6, KindAssumption DEF Skip, Inv, TypeOK
    <3>2. m \in SideEffecting => /\ attempts[m] = 0 /\ pc'[m] = pc[m]
                                 /\ pc[m] \notin {"starting", "saving", "executing"}
      <4>1. pc' = pc
        BY <1>6 DEF Skip
      <4>2. m \in SideEffecting => AheadOfEffect(m) /\ attempts[m] \in Nat
        BY DEF Inv, TypeOK, WriteAhead
      <4> QED
        BY <2>1, <4>1, <4>2 DEF AheadOfEffect, Acted
    <3> QED
      BY <3>1, <3>2 DEF MovedOn
  <2> QED
    BY <1>6, <2>1, <2>2, QuietStep DEF Skip
<1>7. CASE SkipsLogged
  BY <1>0, <1>7, SavingStep DEF SkipsLogged, MainWrote
<1>8. CASE SkipsSaved
  BY <1>3, <1>8, QuietStep DEF SkipsSaved, MainWrote
<1>9. CASE Dispatch
  BY <1>9, DispatchStep
<1>10. CASE BatchDone
  <2>1. \A n \in SideEffecting : MovedOn(n)
    <3>1. \A n \in SideEffecting : state'[n] = state[n]
                                  /\ (pc'[n] = pc[n] \/ (pc'[n] = "idle" /\ pc[n] = "settled"))
      BY <1>10, KindAssumption DEF BatchDone
    <3>2. phase # "down"
      BY <1>10 DEF BatchDone
    <3> QED
      BY <3>1, <3>2 DEF MovedOn, Inv, TypeOK, WriteAhead, AheadOfEffect
  <2> QED
    BY <1>10, <2>1, QuietStep DEF BatchDone
<1>11. CASE Block
  BY <1>3, <1>11, QuietStep DEF Block, Deciding
<1>12. CASE Finish
  BY <1>3, <1>12, QuietStep DEF Finish, Deciding
<1>13. CASE EndingLogged
  <2>1. FinalStatus[phase] \in Statuses /\ FinalStatus[phase] # "absent" /\ phase # "down"
    BY <1>13 DEF EndingLogged, FinalStatus, Statuses
  <2> QED
    BY <1>0, <1>13, <2>1, SavingStep DEF EndingLogged
<1>14. CASE EndingSaved
  BY <1>3, <1>14, QuietStep DEF EndingSaved
<1>15. CASE MainRefused
  <2>1. phase # "down" /\ rejected' = rejected \ {Main}
    BY <1>15 DEF MainRefused, Inv, Asleep
  <2>2. \A n \in SideEffecting : MovedOn(n)
    BY <1>3, <1>15 DEF MainRefused
  <2>3. UNCHANGED <<checkpoints, disk, attempts>>
    BY <1>15 DEF MainRefused
  <2>4. \A n \in SideEffecting : n \in rejected => n \in rejected'
    BY <1>0, <2>1
  <2> QED
    BY <2>1, <2>2, <2>3, <2>4, QuietStep
<1> QED
  BY <1>1, <1>4, <1>5, <1>6, <1>7, <1>8, <1>9, <1>10, <1>11, <1>12, <1>13, <1>14,
     <1>15 DEF MainContinues

LEMMA InvStep == Inv /\ [Next]_vars => Inv'
<1> SUFFICES ASSUME Inv, [Next]_vars PROVE WriteAhead'
  BY StepType, AsleepStep DEF Inv
<1> USE DEF bounds, world, queues, progress
<1>1. CASE Io \/ EventRefused \/ CheckpointRefused
  <2>1. CASE EventWritten \/ EventRefused
    BY <2>1 DEF EventWritten, EventRefused, Inv, WriteAhead, AheadOfEffect, OnEveryRecord,
                OwnSaveQueued, Queued
  <2>2. CASE CheckpointWritten
    BY <2>2, WritingStep DEF CheckpointWritten
  <2>3. CASE CheckpointRefused
    BY <2>3, WritingStep DEF CheckpointRefused
  <2> QED
    BY <1>1, <2>1, <2>2, <2>3 DEF Io
<1>2. CASE TimePasses \/ UNCHANGED vars
  BY <1>2 DEF TimePasses, vars, Inv, WriteAhead, AheadOfEffect, OnEveryRecord,
              OwnSaveQueued, Queued
<1>3. CASE Crash
  BY <1>3, OffStep DEF Crash
<1>4. CASE Operator
  BY <1>4, StartStep, ResumeStep, LedgerStep DEF Operator, ReconcileCompleted, ReconcileNotApplied
<1> QED
  BY <1>1, <1>2, <1>3, <1>4, NodeStep, AnswerStep, MainStep DEF Next

LEMMA InitInv == Init => Inv
<1> SUFFICES ASSUME Init PROVE WriteAhead
  BY InitType, InitAsleep DEF Inv
<1> QED
  BY KindAssumption DEF Init, WriteAhead, AheadOfEffect

LEMMA Inductive == Spec => []Inv
<1> QED
  BY InitInv, InvStep, PTL DEF Spec

-----------------------------------------------------------------------------

\* A side-effecting node is executed again only after its last execution has been
\* declared void, for every graph and any number of crashes, resumes and refused
\* writes: runGraph's refusal of uncertain nodes is enough.
THEOREM SideEffectsAtMostOnce == Spec => []AtMostOnce
<1>1. Inv => AtMostOnce
  BY DEF Inv, WriteAhead, AheadOfEffect, AtMostOnce
<1> QED
  BY <1>1, Inductive, PTL

\* At every instant the checkpoint on disk shows that an executed side-effecting
\* node has been started: saveCheckpoint is awaited before executeNode, and later
\* saves never hide the node again.
THEOREM SideEffectsOnRecord == Spec => []EffectOnRecord
<1>1. Inv => EffectOnRecord
  BY DEF Inv, WriteAhead, AheadOfEffect, EffectOnRecord, OnEveryRecord, OnRecord, Acted
<1> QED
  BY <1>1, Inductive, PTL
=============================================================================
