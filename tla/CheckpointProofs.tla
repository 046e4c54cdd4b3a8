--------------------------- MODULE CheckpointProofs ---------------------------
(***************************************************************************)
(* What the sequence of checkpoints never loses, for every graph: tokens,    *)
(* the entries of the ledger of side effects, completions, the final        *)
(* checkpoint of an invocation, and the timeout of an attempt that may still *)
(* be at work; and that it tells an execution in dependency order.  In each *)
(* argument the disk, the saves on their way to it and the process stand in *)
(* one order, so whichever save is written next, nothing runs back.         *)
(***************************************************************************)
EXTENDS SchedulerProofs

-----------------------------------------------------------------------------
(* Tokens: an ascending chain.                                             *)


Saved(i) == checkpoints[i].snap.usage

Ascending ==
  /\ \A i \in 1..Len(checkpoints) : disk.usage <= Saved(i) /\ Saved(i) <= usage
  /\ \A i, j \in 1..Len(checkpoints) : i <= j => Saved(i) <= Saved(j)
  /\ phase # "down" => disk.usage <= usage

TokenInv == TypeOK /\ Asleep /\ Ascending

LEMMA TokensAreNat ==
  ASSUME TokenInv
  PROVE  /\ disk.usage \in Nat /\ usage \in Nat /\ Len(checkpoints) \in Nat
         /\ \A i \in 1..Len(checkpoints) : Saved(i) \in Nat
<1>1. /\ disk \in Checkpoint /\ usage \in Nat
      /\ checkpoints \in Seq([by : Writers, snap : Checkpoint])
  BY DEF TokenInv, TypeOK
<1>2. \A i \in 1..Len(checkpoints) : checkpoints[i] \in [by : Writers, snap : Checkpoint]
  BY <1>1, QueueItems
<1>3. \A c \in Checkpoint : c.usage \in Nat
  BY DEF Checkpoint
<1> QED
  BY <1>1, <1>2, <1>3 DEF Saved

\* A step of the process that saves nothing may only add tokens.
LEMMA TokenQuietStep ==
  ASSUME TokenInv, phase # "down", usage' \in Nat, usage' >= usage,
         UNCHANGED <<checkpoints, disk>>
  PROVE  Ascending'
<1>1. /\ disk.usage \in Nat /\ usage \in Nat /\ Len(checkpoints) \in Nat
      /\ \A i \in 1..Len(checkpoints) : Saved(i) \in Nat
  BY TokensAreNat
<1> QED
  BY <1>1 DEF TokenInv, Ascending, Saved

LEMMA TokenSavingStep ==
  ASSUME TokenInv, phase # "down", NEW w \in Writers, NEW s \in Statuses, Save(w, s),
         UNCHANGED <<usage, disk>>
  PROVE  Ascending'
<1> DEFINE new == [by |-> w, snap |-> Snapshot(s)]
<1>1. new \in [by : Writers, snap : Checkpoint] /\ new.snap.usage = usage
  BY SnapshotType DEF TokenInv, Snapshot
<1>2. /\ Len(checkpoints) \in Nat /\ Len(checkpoints') = Len(checkpoints) + 1
      /\ \A i \in 1..Len(checkpoints) : checkpoints'[i] = checkpoints[i]
      /\ checkpoints'[Len(checkpoints) + 1] = new
  BY <1>1, QueueAppend DEF TokenInv, TypeOK, Save
<1>3. /\ disk.usage \in Nat /\ usage \in Nat
      /\ \A i \in 1..Len(checkpoints) : Saved(i) \in Nat
  BY TokensAreNat
<1>4. \A i \in 1..Len(checkpoints') :
        \/ i \in 1..Len(checkpoints) /\ checkpoints'[i].snap.usage = Saved(i)
        \/ i = Len(checkpoints) + 1 /\ checkpoints'[i].snap.usage = usage
  BY <1>1, <1>2 DEF Saved
<1>5. \A i \in 1..Len(checkpoints) : disk.usage <= Saved(i) /\ Saved(i) <= usage
  BY DEF TokenInv, Ascending
<1>6. disk.usage <= usage
  BY DEF TokenInv, Ascending
<1>7. \A i \in 1..Len(checkpoints') : /\ disk'.usage <= checkpoints'[i].snap.usage
                                      /\ checkpoints'[i].snap.usage <= usage'
  BY <1>3, <1>4, <1>5, <1>6
<1>8. ASSUME NEW i \in 1..Len(checkpoints'), NEW j \in 1..Len(checkpoints'), i <= j
      PROVE  checkpoints'[i].snap.usage <= checkpoints'[j].snap.usage
  <2>1. CASE j \in 1..Len(checkpoints) /\ checkpoints'[j].snap.usage = Saved(j)
    <3>1. i \in 1..Len(checkpoints) /\ checkpoints'[i].snap.usage = Saved(i)
      BY <1>2, <1>4, <1>8, <2>1
    <3> QED
      BY <1>8, <2>1, <3>1 DEF TokenInv, Ascending
  <2>2. CASE checkpoints'[j].snap.usage = usage
    BY <1>7, <2>2
  <2> QED
    BY <1>4, <2>1, <2>2
<1> QED
  BY <1>6, <1>7, <1>8 DEF Ascending, Saved

LEMMA TokenWritingStep ==
  ASSUME TokenInv, checkpoints # <<>>, checkpoints' = Tail(checkpoints),
         UNCHANGED <<phase, usage>>, disk' = Head(checkpoints).snap \/ disk' = disk
  PROVE  Ascending' /\ disk'.usage >= disk.usage
<1>1. /\ Head(checkpoints) = checkpoints[1] /\ Len(checkpoints) \in Nat \ {0}
      /\ Len(checkpoints') = Len(checkpoints) - 1
      /\ \A i \in 1..Len(checkpoints') : checkpoints'[i] = checkpoints[i + 1]
  BY QueueHead DEF TokenInv, TypeOK
<1>2. /\ disk.usage \in Nat /\ usage \in Nat
      /\ \A i \in 1..Len(checkpoints) : Saved(i) \in Nat
  BY TokensAreNat
<1>3. \A i \in 1..Len(checkpoints') :
        i + 1 \in 1..Len(checkpoints) /\ checkpoints'[i].snap.usage = Saved(i + 1)
  BY <1>1 DEF Saved
<1>4. disk'.usage = Saved(1) \/ disk'.usage = disk.usage
  BY <1>1 DEF Saved
<1>5. /\ \A i \in 1..Len(checkpoints) : disk.usage <= Saved(i) /\ Saved(i) <= usage
      /\ \A i, j \in 1..Len(checkpoints) : i <= j => Saved(i) <= Saved(j)
      /\ 1 \in 1..Len(checkpoints)
  BY <1>1 DEF TokenInv, Ascending
<1>6. \A i \in 1..Len(checkpoints') : /\ disk'.usage <= checkpoints'[i].snap.usage
                                      /\ checkpoints'[i].snap.usage <= usage'
  BY <1>1, <1>2, <1>3, <1>4, <1>5
<1>7. \A i, j \in 1..Len(checkpoints') :
        i <= j => checkpoints'[i].snap.usage <= checkpoints'[j].snap.usage
  BY <1>1, <1>3, <1>5
<1>8. phase' # "down" => disk'.usage <= usage'
  BY <1>2, <1>4, <1>5 DEF TokenInv, Ascending
<1> QED
  BY <1>2, <1>4, <1>5, <1>6, <1>7, <1>8 DEF Ascending, Saved

LEMMA TokenOffStep ==
  ASSUME TokenInv, PowerOff PROVE Ascending' /\ disk' = disk
<1>0. disk' = disk
  BY DEF PowerOff
<1>1. Len(checkpoints') = 0 /\ phase' = "down"
  BY DEF PowerOff
<1> QED
  BY <1>0, <1>1 DEF Ascending

\* Resume counts on from the checkpoint; the operator leaves its tokens alone.
LEMMA TokenOperatorStep ==
  ASSUME TokenInv, Operator PROVE Ascending' /\ disk'.usage = disk.usage
<1> USE DEF progress, world, bounds, queues
<1>1. phase = "down" /\ Len(checkpoints) = 0
  BY DEF TokenInv, Asleep, Operator, Start, Resume, ReconcileCompleted, ReconcileNotApplied
<1>2. checkpoints' = checkpoints
  BY DEF Operator, Start, Resume, ReconcileCompleted, ReconcileNotApplied
<1>3. ASSUME NEW A \in SUBSET Gates, Start(A) PROVE disk'.usage = disk.usage /\ disk'.usage <= usage'
  BY <1>3 DEF TokenInv, TypeOK, Asleep, Start, NoCheckpoint
<1>4. ASSUME NEW A \in SUBSET Gates, Resume(A) PROVE disk'.usage = disk.usage /\ disk'.usage <= usage'
  BY <1>4 DEF TokenInv, TypeOK, Checkpoint, Resume, Restored, RestoredUsage
<1>5. ASSUME NEW n \in Nodes, ReconcileCompleted(n) \/ ReconcileNotApplied(n)
      PROVE  disk'.usage = disk.usage /\ phase' = "down"
  BY <1>5 DEF TokenInv, TypeOK, Checkpoint, ReconcileCompleted, ReconcileNotApplied
<1> QED
  BY <1>1, <1>2, <1>3, <1>4, <1>5 DEF Operator, Ascending

LEMMA TokenNodeStep ==
  ASSUME TokenInv, NEW n \in Nodes, NodeContinues(n) PROVE Ascending' /\ disk' = disk
<1> USE DEF progress, world, bounds, queues
<1>0. phase # "down" /\ n \in Writers /\ "running" \in Statuses
  BY NodeAwake DEF TokenInv, Writers, Statuses
<1>1. usage \in Nat /\ PartialCosts(n) \subseteq Nat
  BY BudgetAssumption DEF TokenInv, TypeOK, PartialCosts
<1>2. disk' = disk
  BY DEF NodeContinues, StartLogged, DeadlinePassed, PassGate, StopAtGate, RunLocally,
         FailBeforeExecution, Launch, EndLogged, EndSaved, CompletionRefused,
         NodeRefused, Watchdog
<1>3. CASE StartLogged(n) \/ EndLogged(n)
  BY <1>0, <1>3, TokenSavingStep DEF StartLogged, EndLogged
<1>4. CASE \/ DeadlinePassed(n) \/ StopAtGate(n) \/ FailBeforeExecution(n) \/ Launch(n)
           \/ EndSaved(n) \/ CompletionRefused(n) \/ NodeRefused(n)
  <2>1. UNCHANGED <<usage, checkpoints>>
    BY <1>4 DEF DeadlinePassed, StopAtGate, FailBeforeExecution, Launch, EndSaved,
                CompletionRefused, NodeRefused
  <2> QED
    BY <1>0, <1>1, <1>2, <2>1, TokenQuietStep
<1>5. CASE PassGate(n) \/ RunLocally(n)
  <2>1. usage' = usage + 0 /\ checkpoints' = checkpoints
    BY <1>5 DEF PassGate, RunLocally, Publish
  <2> QED
    BY <1>0, <1>1, <1>2, <2>1, TokenQuietStep
<1>6. ASSUME NEW u \in PartialCosts(n), Watchdog(n, u) PROVE Ascending'
  <2>1. usage' = usage + u /\ checkpoints' = checkpoints
    BY <1>6 DEF Watchdog
  <2> QED
    BY <1>0, <1>1, <1>2, <2>1, TokenQuietStep
<1> QED
  BY <1>2, <1>3, <1>4, <1>5, <1>6 DEF NodeContinues

LEMMA TokenAnswerStep ==
  ASSUME TokenInv, NEW n \in Nodes, ExecutorAnswers(n) PROVE Ascending' /\ disk' = disk
<1> USE DEF progress, world, bounds, queues
<1>1. usage \in Nat /\ Costs \subseteq Nat /\ PartialCosts(n) \subseteq Nat
  BY BudgetAssumption DEF TokenInv, TypeOK, PartialCosts
<1>2. CASE ExecutorEnds(n)
  BY <1>2 DEF ExecutorEnds, TokenInv, Ascending, Saved
<1>3. CASE ~ExecutorEnds(n)
  <2>1. phase # "down"
    BY <1>3, AnswerAwake DEF TokenInv
  <2>2. \E u \in Nat : usage' = usage + u /\ checkpoints' = checkpoints /\ disk' = disk
    BY <1>1, <1>3 DEF ExecutorAnswers, Return, Raise, Publish
  <2> QED
    BY <1>1, <2>1, <2>2, TokenQuietStep
<1> QED
  BY <1>2, <1>3

LEMMA TokenMainStep ==
  ASSUME TokenInv, MainContinues PROVE Ascending' /\ disk' = disk
<1> USE DEF progress, world, bounds, queues
<1>0. Main \in Writers /\ "running" \in Statuses /\ usage \in Nat
  BY DEF Writers, Statuses, TokenInv, TypeOK
<1>1. CASE Exit
  BY <1>1, TokenOffStep DEF Exit
<1>2. CASE ~Exit
  <2>1. phase # "down" /\ usage' = usage /\ disk' = disk
    <3>1. phase # "down"
      BY <1>2, MainAwake DEF TokenInv
    <3> QED
      BY <1>2, <3>1 DEF MainContinues, OpenLogged, OpenSaved, Skip, SkipsLogged,
           SkipsSaved, Dispatch, BatchDone, Block, Finish, EndingLogged, EndingSaved,
           MainRefused
  <2>2. CASE OpenLogged \/ SkipsLogged
    BY <1>0, <2>1, <2>2, TokenSavingStep DEF OpenLogged, SkipsLogged
  <2>3. CASE EndingLogged
    <3>1. FinalStatus[phase] \in Statuses
      BY <2>3 DEF EndingLogged, FinalStatus, Statuses
    <3> QED
      BY <1>0, <2>1, <2>3, <3>1, TokenSavingStep DEF EndingLogged
  <2>4. CASE ~(OpenLogged \/ SkipsLogged \/ EndingLogged)
    <3>1. checkpoints' = checkpoints
      BY <1>2, <2>4 DEF MainContinues, OpenSaved, Skip, SkipsSaved, Dispatch, BatchDone,
           Block, Finish, EndingSaved, MainRefused
    <3> QED
      BY <1>0, <2>1, <3>1, TokenQuietStep
  <2> QED
    BY <2>1, <2>2, <2>3, <2>4
<1> QED
  BY <1>1, <1>2

LEMMA TokenInvStep == TokenInv /\ [Next]_vars => TokenInv' /\ disk'.usage >= disk.usage
<1> SUFFICES ASSUME TokenInv, [Next]_vars PROVE Ascending' /\ disk'.usage >= disk.usage
  BY StepType, AsleepStep DEF TokenInv
<1> USE DEF progress, world, bounds, queues
<1>0. disk.usage \in Nat
  BY DEF TokenInv, TypeOK, Checkpoint
<1>1. CASE EventWritten \/ EventRefused \/ TimePasses \/ UNCHANGED vars
  BY <1>0, <1>1 DEF EventWritten, EventRefused, TimePasses, vars, TokenInv, Ascending, Saved
<1>2. CASE CheckpointWritten
  BY <1>2, TokenWritingStep DEF CheckpointWritten
<1>3. CASE CheckpointRefused
  BY <1>3, TokenWritingStep DEF CheckpointRefused
<1>4. CASE Crash
  BY <1>0, <1>4, TokenOffStep DEF Crash
<1> QED
  BY <1>0, <1>1, <1>2, <1>3, <1>4, TokenOperatorStep, TokenNodeStep, TokenAnswerStep, TokenMainStep
     DEF Next, Io

LEMMA TokenInitInv == Init => TokenInv
<1> SUFFICES ASSUME Init PROVE Ascending
  BY InitType, InitAsleep DEF TokenInv
<1> QED
  BY DEF Init, Ascending

\* No checkpoint forgets tokens that an earlier one recorded, for every graph and
\* any number of crashes, refused writes, resumes and reconciliations: saves are
\* chained, and resume counts on from the checkpoint.
THEOREM TokensNeverForgotten == Spec => UsageKept
<1>1. TokenInv /\ [Next]_vars => [disk'.usage >= disk.usage]_disk
  BY TokenInvStep
<1>2. Init => TokenInv
  BY TokenInitInv
<1>3. TokenInv /\ [Next]_vars => TokenInv'
  BY TokenInvStep
<1> QED
  BY <1>1, <1>2, <1>3, PTL DEF Spec, UsageKept

-----------------------------------------------------------------------------
(* GraphRuntime implements EffectLedger.  GraphRuntimeProofs shows that an     *)
(* effect is on record before it is tried; what is missing is that no entry  *)
(* is lost and none is settled that was not entered.                         *)


Done == {"failed", "completed"}

\* A later record of a node may follow an earlier one.
Follows(a, b) == (a \in Acted => b \in Acted) /\ (a \in Done => b \in Done)

Shown(i, n) == checkpoints[i].snap.state[n]

NeverBack(n) ==
  /\ \A i \in 1..Len(checkpoints) :
       Follows(disk.state[n], Shown(i, n)) /\ Follows(Shown(i, n), state[n])
  /\ \A i, j \in 1..Len(checkpoints) : i <= j => Follows(Shown(i, n), Shown(j, n))
  /\ phase # "down" => Follows(disk.state[n], state[n])
  /\ disk.state[n] \notin Acted =>
       /\ \A i \in 1..Len(checkpoints) : Shown(i, n) \notin Done
       /\ phase # "down" => state[n] \notin Done

OneOrder == \A n \in Effects :
  NeverBack(n) /\ (pc[n] = "executing" => attempts[n] > 0)

LInv == Inv /\ OneOrder

\* What a step may do to the record of a node.
Goes(n) ==
  \/ state'[n] = state[n] /\ (pc'[n] = pc[n] \/ pc'[n] # "executing")
  \/ /\ Follows(state[n], state'[n]) /\ pc'[n] # "executing"
     /\ state'[n] \in Done => state[n] \in Done \/ disk.state[n] \in Acted

LEMMA EffectsAreNodes == \A n \in Effects : n \in Nodes /\ n \in SideEffecting /\ n \notin Gates
BY KindAssumption DEF Effects

LEMMA Transitive == \A a, b, c : Follows(a, b) /\ Follows(b, c) => Follows(a, c)
BY DEF Follows

-----------------------------------------------------------------------------
(* The shapes of a step.                                                   *)

LEMMA QuietOrder ==
  ASSUME LInv, phase # "down", UNCHANGED <<checkpoints, disk, attempts>>,
         \A n \in Effects : Goes(n)
  PROVE  OneOrder'
<1> SUFFICES ASSUME NEW n \in Effects
             PROVE  NeverBack(n)' /\ (pc'[n] = "executing" => attempts'[n] > 0)
  BY DEF OneOrder
<1>1. NeverBack(n) /\ (pc[n] = "executing" => attempts[n] > 0) /\ Goes(n)
  BY DEF LInv, OneOrder
<1>2. \A i \in 1..Len(checkpoints) : Shown(i, n)' = Shown(i, n)
  BY DEF Shown
<1>3. Follows(state[n], state'[n])
  BY <1>1 DEF Goes, Follows
<1>4. Follows(disk'.state[n], state'[n])
  BY <1>1, <1>3, Transitive DEF NeverBack
<1>5. \A i \in 1..Len(checkpoints) : Follows(Shown(i, n), state'[n])
  BY <1>1, <1>3, Transitive DEF NeverBack
<1>6. disk.state[n] \notin Acted => state'[n] \notin Done
  BY <1>1 DEF NeverBack, Goes
<1>7. NeverBack(n)'
  BY <1>1, <1>2, <1>4, <1>5, <1>6 DEF NeverBack
<1> QED
  BY <1>1, <1>7 DEF Goes

LEMMA SavingOrder ==
  ASSUME LInv, phase # "down", NEW w \in Writers, NEW s \in Statuses, Save(w, s),
         UNCHANGED <<state, disk, attempts>>,
         \A n \in Effects : pc'[n] = pc[n] \/ pc'[n] # "executing"
  PROVE  OneOrder'
<1> SUFFICES ASSUME NEW n \in Effects
             PROVE  NeverBack(n)' /\ (pc'[n] = "executing" => attempts'[n] > 0)
  BY DEF OneOrder
<1> DEFINE new == [by |-> w, snap |-> Snapshot(s)]
<1>1. NeverBack(n) /\ (pc[n] = "executing" => attempts[n] > 0)
  BY DEF LInv, OneOrder
<1>2. new \in [by : Writers, snap : Checkpoint] /\ new.snap.state[n] = state[n]
  BY SnapshotType DEF LInv, Inv, Snapshot
<1>3. /\ Len(checkpoints) \in Nat /\ Len(checkpoints') = Len(checkpoints) + 1
      /\ \A i \in 1..Len(checkpoints) : checkpoints'[i] = checkpoints[i]
      /\ checkpoints'[Len(checkpoints) + 1] = new
  BY <1>2, QueueAppend DEF LInv, Inv, TypeOK, Save
<1>4. \A i \in 1..Len(checkpoints') :
        \/ i \in 1..Len(checkpoints) /\ Shown(i, n)' = Shown(i, n)
        \/ i = Len(checkpoints) + 1 /\ Shown(i, n)' = state[n]
  BY <1>2, <1>3 DEF Shown
<1>5. /\ Follows(disk.state[n], state[n]) /\ Follows(state[n], state[n])
      /\ \A i \in 1..Len(checkpoints) : Follows(Shown(i, n), state[n])
  BY <1>1 DEF NeverBack, Follows
<1>6. \A i \in 1..Len(checkpoints') :
        Follows(disk.state[n], Shown(i, n)') /\ Follows(Shown(i, n)', state[n])
  BY <1>1, <1>4, <1>5 DEF NeverBack
<1>7. ASSUME NEW i \in 1..Len(checkpoints'), NEW j \in 1..Len(checkpoints'), i <= j
      PROVE  Follows(Shown(i, n)', Shown(j, n)')
  <2>1. CASE j \in 1..Len(checkpoints) /\ Shown(j, n)' = Shown(j, n)
    <3>1. i \in 1..Len(checkpoints) /\ Shown(i, n)' = Shown(i, n)
      BY <1>3, <1>4, <1>7, <2>1
    <3> QED
      BY <1>1, <1>7, <2>1, <3>1 DEF NeverBack
  <2>2. CASE Shown(j, n)' = state[n]
    BY <1>6, <2>2
  <2> QED
    BY <1>4, <2>1, <2>2
<1>8. disk.state[n] \notin Acted =>
        \A i \in 1..Len(checkpoints') : Shown(i, n)' \notin Done
  BY <1>1, <1>4 DEF NeverBack
<1>9. NeverBack(n)'
  BY <1>1, <1>5, <1>6, <1>7, <1>8 DEF NeverBack
<1> QED
  BY <1>1, <1>9

LEMMA WritingOrder ==
  ASSUME LInv, checkpoints # <<>>, checkpoints' = Tail(checkpoints),
         UNCHANGED <<phase, pc, state, attempts>>,
         disk' = Head(checkpoints).snap \/ disk' = disk
  PROVE  /\ OneOrder'
         /\ \A n \in Effects : Entry(n)' \in
              (CASE Entry(n) = "clear" -> {"clear", "entered"}
                 [] OTHER -> {"entered", "settled"})
<1> SUFFICES ASSUME NEW n \in Effects
             PROVE  /\ NeverBack(n)' /\ (pc'[n] = "executing" => attempts'[n] > 0)
                    /\ Entry(n)' \in (CASE Entry(n) = "clear" -> {"clear", "entered"}
                                        [] OTHER -> {"entered", "settled"})
  BY DEF OneOrder
<1>1. NeverBack(n) /\ (pc[n] = "executing" => attempts[n] > 0)
  BY DEF LInv, OneOrder
<1>2. /\ Head(checkpoints) = checkpoints[1] /\ Len(checkpoints) \in Nat \ {0}
      /\ Len(checkpoints') = Len(checkpoints) - 1
      /\ \A i \in 1..Len(checkpoints') : checkpoints'[i] = checkpoints[i + 1]
  BY QueueHead DEF LInv, Inv, TypeOK
<1>3. \A i \in 1..Len(checkpoints') :
        i + 1 \in 1..Len(checkpoints) /\ Shown(i, n)' = Shown(i + 1, n)
  BY <1>2 DEF Shown
<1>4. 1 \in 1..Len(checkpoints) /\ (disk'.state[n] = Shown(1, n) \/ disk' = disk)
  BY <1>2 DEF Shown
<1>5. Follows(disk.state[n], disk'.state[n])
  BY <1>1, <1>4 DEF NeverBack, Follows
<1>6. \A i \in 1..Len(checkpoints') : Follows(disk'.state[n], Shown(i, n)')
  <2> SUFFICES ASSUME NEW i \in 1..Len(checkpoints') PROVE Follows(disk'.state[n], Shown(i, n)')
    OBVIOUS
  <2>1. i + 1 \in 1..Len(checkpoints) /\ Shown(i, n)' = Shown(i + 1, n) /\ 1 <= i + 1
    BY <1>2, <1>3
  <2> QED
    BY <1>1, <1>4, <2>1 DEF NeverBack
<1>7. /\ \A i \in 1..Len(checkpoints') : Follows(Shown(i, n)', state'[n])
      /\ \A i, j \in 1..Len(checkpoints') : i <= j => Follows(Shown(i, n)', Shown(j, n)')
  BY <1>1, <1>2, <1>3 DEF NeverBack
<1>8. phase' # "down" => Follows(disk'.state[n], state'[n])
  BY <1>1, <1>4 DEF NeverBack
<1>9. disk'.state[n] \notin Acted => disk.state[n] \notin Acted
  BY <1>5 DEF Follows
<1>10. disk.state[n] \notin Acted => disk'.state[n] \notin Done
  BY <1>1, <1>4 DEF NeverBack, Done, Acted
<1>11. NeverBack(n)'
  BY <1>1, <1>3, <1>6, <1>7, <1>8, <1>9 DEF NeverBack
<1>12. Entry(n)' \in (CASE Entry(n) = "clear" -> {"clear", "entered"}
                        [] OTHER -> {"entered", "settled"})
  BY <1>5, <1>10 DEF Entry, Follows, Acted, Done
<1> QED
  BY <1>1, <1>11, <1>12

LEMMA OffOrder ==
  ASSUME PowerOff PROVE OneOrder'
<1> SUFFICES ASSUME NEW n \in Effects
             PROVE  NeverBack(n)' /\ (pc'[n] = "executing" => attempts'[n] > 0)
  BY DEF OneOrder
<1>1. Len(checkpoints') = 0 /\ phase' = "down" /\ pc'[n] = "idle"
  BY EffectsAreNodes DEF PowerOff
<1> QED
  BY <1>1 DEF NeverBack

-----------------------------------------------------------------------------
(* The steps of a process.                                                 *)

\* A node that is about to act, or acts, is on the disk.
LEMMA ReadyIsEntered ==
  ASSUME LInv, NEW n \in Effects, Ready(n) \/ pc[n] = "executing"
  PROVE  disk.state[n] \in Acted /\ state[n] = "running"
<1>1. AheadOfEffect(n) /\ (pc[n] = "executing" => attempts[n] > 0)
  BY EffectsAreNodes DEF LInv, Inv, WriteAhead, OneOrder
<1>2. Ready(n) => n \notin rejected /\ ~OwnSaveQueued(n) /\ pc[n] = "saving"
  BY DEF Ready, Written, OwnSaveQueued
<1>3. OnEveryRecord(n) /\ state[n] = "running"
  BY <1>1, <1>2 DEF AheadOfEffect
<1> QED
  BY <1>3 DEF OnEveryRecord, OnRecord

LEMMA FailGoes ==
  ASSUME LInv, NEW m \in Nodes, NEW k, NEW c, Fail(m, k, c),
         Ready(m) \/ pc[m] = "executing" \/ state[m] \in Done
  PROVE  \A n \in Effects : Goes(n)
<1> SUFFICES ASSUME NEW n \in Effects PROVE Goes(n)
  OBVIOUS
<1>1. n \in Nodes
  BY EffectsAreNodes
<1>2. CASE n = m
  <2>1. state'[n] = "failed" /\ pc'[n] = "ending"
    BY <1>1, <1>2 DEF Fail, LInv, Inv, TypeOK
  <2>2. state[n] \in Done \/ disk.state[n] \in Acted
    BY <1>2, ReadyIsEntered
  <2> QED
    BY <2>1, <2>2 DEF Goes, Follows, Acted, Done
<1>3. CASE n # m
  BY <1>1, <1>3 DEF Fail, Goes, LInv, Inv, TypeOK
<1> QED
  BY <1>2, <1>3

LEMMA PublishGoes ==
  ASSUME LInv, NEW m \in Nodes, NEW u, Publish(m, u), Ready(m) \/ pc[m] = "executing"
  PROVE  \A n \in Effects : Goes(n)
<1>1. CASE Fail(m, "budget", "graph")
  BY <1>1, FailGoes
<1>2. CASE state' = [state EXCEPT ![m] = "completed"] /\ pc' = [pc EXCEPT ![m] = "ending"]
  <2> SUFFICES ASSUME NEW n \in Effects PROVE Goes(n)
    OBVIOUS
  <2>1. n \in Nodes
    BY EffectsAreNodes
  <2>2. CASE n = m
    <3>1. state'[n] = "completed" /\ pc'[n] = "ending"
      BY <1>2, <2>1, <2>2 DEF LInv, Inv, TypeOK
    <3>2. disk.state[n] \in Acted
      BY <2>2, ReadyIsEntered
    <3> QED
      BY <3>1, <3>2 DEF Goes, Follows, Acted, Done
  <2>3. CASE n # m
    BY <1>2, <2>1, <2>3 DEF Goes, LInv, Inv, TypeOK
  <2> QED
    BY <2>2, <2>3
<1> QED
  BY <1>1, <1>2 DEF Publish

\* The executor is called on an entered effect that has not been tried.
LEMMA LaunchOrder ==
  ASSUME LInv, NEW m \in Nodes, Launch(m)
  PROVE  /\ OneOrder'
         /\ m \in Effects => Entry(m) = "entered" /\ attempts[m] = 0
<1> USE DEF bounds, world, queues, progress
<1>1. UNCHANGED <<phase, state, checkpoints, disk>>
  BY DEF Launch
<1>2. ASSUME m \in Effects PROVE Entry(m) = "entered" /\ attempts[m] = 0
  <2>1. NeverBack(m) /\ AheadOfEffect(m) /\ phase # "down" /\ Ready(m)
    BY <1>2, EffectsAreNodes DEF LInv, OneOrder, Inv, WriteAhead, Launch, Asleep, Ready
  <2>2. disk.state[m] \in Acted /\ state[m] = "running" /\ Follows(disk.state[m], state[m])
    BY <1>2, <2>1, ReadyIsEntered DEF NeverBack
  <2>3. disk.state[m] = "running"
    BY <2>2 DEF Follows, Acted, Done
  <2>4. attempts[m] = 0
    BY <2>1 DEF AheadOfEffect, Ready
  <2> QED
    BY <2>3, <2>4 DEF Entry
<1>3. ASSUME NEW n \in Effects
      PROVE  NeverBack(n)' /\ (pc'[n] = "executing" => attempts'[n] > 0)
  <2>1. NeverBack(n) /\ (pc[n] = "executing" => attempts[n] > 0) /\ n \in SideEffecting /\ n \in Nodes
    BY EffectsAreNodes DEF LInv, OneOrder
  <2>2. NeverBack(n)'
    BY <1>1, <2>1 DEF NeverBack, Shown
  <2>3. CASE n = m
    <3>1. attempts[n] = 0
      BY <1>2, <1>3, <2>3
    <3> QED
      BY <2>1, <2>2, <2>3, <3>1 DEF Launch, LInv, Inv, TypeOK
  <2>4. CASE n # m
    <3>1. pc'[n] = pc[n] /\ attempts'[n] = attempts[n]
      BY <2>1, <2>4 DEF Launch, LInv, Inv, TypeOK
    <3> QED
      BY <2>1, <2>2, <3>1
  <2> QED
    BY <2>3, <2>4
<1> QED
  BY <1>2, <1>3 DEF OneOrder

\* A node whose own coroutine goes on without touching its state.
LEMMA StaysGoes ==
  ASSUME LInv, NEW m \in Nodes, state' = state, NEW p, p # "executing",
         pc' = [pc EXCEPT ![m] = p]
  PROVE  \A n \in Effects : Goes(n)
BY EffectsAreNodes DEF Goes, LInv, Inv, TypeOK

LEMMA NodeOrder ==
  ASSUME LInv, NEW m \in Nodes, NodeContinues(m)
  PROVE  OneOrder' /\ disk' = disk /\ (Launch(m) \/ attempts' = attempts)
<1> USE DEF bounds, world, queues, progress
<1>0. phase # "down" /\ m \in Writers /\ "running" \in Statuses
  BY NodeAwake DEF LInv, Inv, Writers, Statuses
<1>1. disk' = disk /\ (Launch(m) \/ attempts' = attempts)
  BY DEF NodeContinues, StartLogged, DeadlinePassed, PassGate, StopAtGate, RunLocally,
         FailBeforeExecution, Launch, EndLogged, EndSaved, CompletionRefused,
         NodeRefused, Watchdog
<1>2. CASE StartLogged(m) \/ EndLogged(m)
  <2>1. \A n \in Effects : pc'[n] = pc[n] \/ pc'[n] # "executing"
    BY <1>2, EffectsAreNodes DEF StartLogged, EndLogged, LInv, Inv, TypeOK
  <2> QED
    BY <1>0, <1>2, <2>1, SavingOrder DEF StartLogged, EndLogged
<1>3. CASE DeadlinePassed(m) \/ FailBeforeExecution(m)
  BY <1>0, <1>3, FailGoes, QuietOrder DEF DeadlinePassed, FailBeforeExecution
<1>4. CASE PassGate(m) \/ RunLocally(m)
  BY <1>0, <1>4, PublishGoes, QuietOrder DEF PassGate, RunLocally
<1>5. CASE StopAtGate(m)
  <2>1. \A n \in Effects : state'[n] = state[n] /\ pc'[n] = pc[n]
    BY <1>5, EffectsAreNodes DEF StopAtGate, LInv, Inv, TypeOK
  <2> QED
    BY <1>0, <1>5, <2>1, QuietOrder DEF StopAtGate, Goes
<1>6. CASE Launch(m)
  BY <1>1, <1>6, LaunchOrder
<1>7. CASE EndSaved(m) \/ NodeRefused(m)
  <2>1. \A n \in Effects : Goes(n)
    BY <1>7, StaysGoes DEF EndSaved, NodeRefused
  <2> QED
    BY <1>0, <1>7, <2>1, QuietOrder DEF EndSaved, NodeRefused
<1>8. CASE CompletionRefused(m)
  BY <1>0, <1>8, FailGoes, QuietOrder DEF CompletionRefused, Done
<1>9. ASSUME NEW u \in PartialCosts(m), Watchdog(m, u) PROVE OneOrder'
  BY <1>0, <1>9, FailGoes, QuietOrder DEF Watchdog
<1> QED
  BY <1>1, <1>2, <1>3, <1>4, <1>5, <1>6, <1>7, <1>8, <1>9 DEF NodeContinues

LEMMA AnswerOrder ==
  ASSUME LInv, NEW m \in Nodes, ExecutorAnswers(m)
  PROVE  OneOrder' /\ UNCHANGED <<disk, attempts>>
<1> USE DEF bounds, world, queues, progress
<1>1. UNCHANGED <<disk, attempts>>
  BY DEF ExecutorAnswers, Return, Raise, ExecutorEnds
<1>2. ASSUME NEW u \in Costs, Return(m, u) PROVE OneOrder'
  <2>1. phase # "down"
    BY <1>2 DEF Return, LInv, Inv, Asleep
  <2> QED
    BY <1>2, <2>1, PublishGoes, QuietOrder DEF Return
<1>3. ASSUME NEW k \in {"executor", "timeout"}, NEW u \in PartialCosts(m), Raise(m, k, u)
      PROVE OneOrder'
  <2>1. phase # "down"
    BY <1>3 DEF Raise, LInv, Inv, Asleep
  <2> QED
    BY <1>3, <2>1, FailGoes, QuietOrder DEF Raise
<1>4. CASE ExecutorEnds(m)
  BY <1>4 DEF ExecutorEnds, LInv, OneOrder, NeverBack, Shown
<1> QED
  BY <1>1, <1>2, <1>3, <1>4 DEF ExecutorAnswers

LEMMA MainOrder ==
  ASSUME LInv, MainContinues
  PROVE  OneOrder' /\ UNCHANGED <<disk, attempts>>
<1> USE DEF bounds, world, queues, progress
<1>0. Main \in Writers /\ "running" \in Statuses
  BY DEF Writers, Statuses
<1>1. CASE Exit
  BY <1>1, OffOrder DEF Exit, PowerOff
<1>2. CASE ~Exit
  <2>1. phase # "down"
    BY <1>2, MainAwake DEF LInv, Inv
  <2>2. UNCHANGED <<disk, attempts>>
    BY <1>2, <2>1 DEF MainContinues, OpenLogged, OpenSaved, Skip, SkipsLogged, SkipsSaved,
       Dispatch, BatchDone, Block, Finish, EndingLogged, EndingSaved, MainRefused
  <2>3. CASE OpenLogged \/ SkipsLogged
    BY <1>0, <2>1, <2>2, <2>3, SavingOrder DEF OpenLogged, SkipsLogged
  <2>4. CASE EndingLogged
    <3>1. FinalStatus[phase] \in Statuses
      BY <2>4 DEF EndingLogged, FinalStatus, Statuses
    <3> QED
      BY <1>0, <2>1, <2>2, <2>4, <3>1, SavingOrder DEF EndingLogged
  <2>5. CASE OpenSaved \/ SkipsSaved \/ BatchDone \/ Block \/ Finish \/ EndingSaved \/ MainRefused
    <3>1. state' = state /\ checkpoints' = checkpoints
      BY <2>5 DEF OpenSaved, SkipsSaved, BatchDone, Block, Finish, EndingSaved, MainRefused
    <3>2. \A n \in Effects : pc'[n] = pc[n] \/ pc'[n] # "executing"
      BY <2>5, EffectsAreNodes
         DEF OpenSaved, SkipsSaved, BatchDone, Block, Finish, EndingSaved, MainRefused
    <3> QED
      BY <2>1, <2>2, <3>1, <3>2, QuietOrder DEF Goes
  <2>6. ASSUME NEW m \in Nodes, Skip(m) PROVE OneOrder'
    <3>1. \A n \in Effects : n # m => state'[n] = state[n] /\ pc'[n] = pc[n]
      BY <2>6, EffectsAreNodes DEF Skip, LInv, Inv, TypeOK
    <3>2. m \in Effects => Goes(m)
      <4>1. /\ state[m] = "pending" /\ state'[m] = "skipped" /\ pc' = pc
        BY <2>6 DEF Skip, Doomed, Pending, LInv, Inv, TypeOK
      <4>2. m \in Effects => AheadOfEffect(m)
        BY EffectsAreNodes DEF LInv, Inv, WriteAhead
      <4>3. m \in Effects => pc[m] # "executing"
        BY <4>1, <4>2 DEF AheadOfEffect
      <4> QED
        BY <4>1, <4>3 DEF Goes, Follows, Acted, Done
    <3>3. \A n \in Effects : Goes(n)
      BY <3>1, <3>2 DEF Goes
    <3> QED
      BY <2>1, <2>6, <3>3, QuietOrder DEF Skip
  <2>7. CASE Dispatch
    <3>1. PICK k \in 1..MaxParallel : \E q \in [1..k -> Runnable] :
          /\ state' = [n \in Nodes |-> IF n \in {q[i] : i \in 1..k}
                                       THEN "running" ELSE state[n]]
          /\ pc' = [n \in Nodes |-> IF n \in {q[i] : i \in 1..k}
                                    THEN "starting" ELSE pc[n]]
      BY <2>7 DEF Dispatch
    <3>2. PICK q \in [1..k -> Runnable] :
          /\ state' = [n \in Nodes |-> IF n \in {q[i] : i \in 1..k}
                                       THEN "running" ELSE state[n]]
          /\ pc' = [n \in Nodes |-> IF n \in {q[i] : i \in 1..k}
                                    THEN "starting" ELSE pc[n]]
      BY <3>1
    <3>3. \A n \in {q[i] : i \in 1..k} : state[n] = "pending"
      BY DEF Runnable, Pending
    <3>4. \A n \in Effects : Goes(n)
      BY <3>2, <3>3, EffectsAreNodes DEF Goes, Follows, Acted, Done
    <3> QED
      BY <2>1, <2>2, <2>7, <3>4, QuietOrder DEF Dispatch
  <2> QED
    BY <1>2, <2>2, <2>3, <2>4, <2>5, <2>6, <2>7 DEF MainContinues
<1> QED
  BY <1>1, <1>2

-----------------------------------------------------------------------------
(* The operator, and every step.                                           *)

LEMMA OpeningOrder ==
  ASSUME LInv, NEW A \in SUBSET Gates, Start(A) \/ Resume(A)
  PROVE  OneOrder' /\ UNCHANGED <<disk, attempts>>
<1> USE DEF bounds, world, queues, progress
<1>1. UNCHANGED <<disk, attempts, pc, checkpoints>> /\ phase = "down" /\ Len(checkpoints) = 0
  BY DEF Start, Resume, LInv, Inv, Asleep
<1> SUFFICES ASSUME NEW n \in Effects
             PROVE  NeverBack(n)' /\ (pc'[n] = "executing" => attempts'[n] > 0)
  BY <1>1 DEF OneOrder
<1>2. (pc[n] = "executing" => attempts[n] > 0) /\ n \in SideEffecting /\ n \in Nodes
  BY EffectsAreNodes DEF LInv, OneOrder
<1>3. Follows(disk.state[n], state'[n]) /\ (state'[n] \in Done => disk.state[n] \in Acted)
  <2>1. CASE Start(A)
    BY <1>2, <2>1 DEF Start, LInv, Inv, Asleep, NoCheckpoint, Follows, Acted, Done
  <2>2. CASE Resume(A)
    <3>1. disk.state[n] \notin {"running", "failed"}
      BY <1>2, <2>2 DEF Resume, Uncertain
    <3>2. state'[n] = (IF Kept(n) THEN disk.state[n] ELSE "pending")
      BY <1>2, <2>2 DEF Resume, Restored
    <3> QED
      BY <3>1, <3>2 DEF Kept, Follows, Acted, Done
  <2> QED
    BY <2>1, <2>2
<1>4. NeverBack(n)'
  BY <1>1, <1>3 DEF NeverBack
<1> QED
  BY <1>1, <1>2, <1>4

\* A reconciliation changes one entry, and one that is in doubt.
LEMMA ReconcilingOrder ==
  ASSUME LInv, NEW m \in Nodes, ReconcileCompleted(m) \/ ReconcileNotApplied(m)
  PROVE  /\ OneOrder'
         /\ \A n \in Effects : n # m => Entry(n)' = Entry(n) /\ attempts'[n] = attempts[n]
         /\ m \in Effects =>
              /\ Entry(m) = "entered"
              /\ \/ Entry(m)' = "settled" /\ attempts'[m] = attempts[m]
                 \/ Entry(m)' = "clear" /\ attempts'[m] = 0
<1> USE DEF bounds, world, queues, progress
<1>1. /\ phase' = "down" /\ pc' = pc /\ checkpoints' = checkpoints /\ Len(checkpoints) = 0
      /\ \A n \in Nodes : pc[n] = "idle"
  BY DEF ReconcileCompleted, ReconcileNotApplied, LInv, Inv, Asleep
<1>2. OneOrder'
  BY <1>1, EffectsAreNodes DEF OneOrder, NeverBack
<1>3. disk \in Checkpoint /\ disk.state \in [Nodes -> States]
  BY DEF LInv, Inv, TypeOK, Checkpoint
<1>4. ASSUME NEW n \in Effects, n # m
      PROVE  Entry(n)' = Entry(n) /\ attempts'[n] = attempts[n]
  <2>1. n \in Nodes /\ n \in SideEffecting
    BY EffectsAreNodes
  <2>2. disk'.state[n] = disk.state[n]
    <3>1. CASE ReconcileCompleted(m)
      BY <1>3, <1>4, <2>1, <3>1 DEF ReconcileCompleted, Checkpoint
    <3>2. CASE ReconcileNotApplied(m)
      BY <1>3, <1>4, <2>1, <3>2 DEF ReconcileNotApplied, Checkpoint
    <3> QED
      BY <3>1, <3>2
  <2>3. attempts'[n] = attempts[n]
    BY <1>4, <2>1 DEF ReconcileCompleted, ReconcileNotApplied, LInv, Inv, TypeOK
  <2> QED
    BY <2>2, <2>3 DEF Entry
<1>5. ASSUME m \in Effects
      PROVE  /\ Entry(m) = "entered"
             /\ \/ Entry(m)' = "settled" /\ attempts'[m] = attempts[m]
                \/ Entry(m)' = "clear" /\ attempts'[m] = 0
  <2>1. m \in SideEffecting
    BY <1>5, EffectsAreNodes
  <2>2. CASE ReconcileCompleted(m)
    <3>1. disk'.state[m] = "completed" /\ attempts' = attempts
      BY <1>3, <2>2 DEF ReconcileCompleted, Checkpoint
    <3> QED
      BY <2>2, <3>1 DEF ReconcileCompleted, Uncertain, Entry
  <2>3. CASE ReconcileNotApplied(m)
    <3>1. disk'.state[m] = "pending" /\ attempts'[m] = 0
      BY <1>3, <2>1, <2>3 DEF ReconcileNotApplied, Checkpoint, LInv, Inv, TypeOK
    <3> QED
      BY <2>3, <3>1 DEF ReconcileNotApplied, Uncertain, Entry
  <2> QED
    BY <2>2, <2>3
<1> QED
  BY <1>2, <1>4, <1>5

Book == [n \in Effects |-> Entry(n)]
Acts == [n \in Effects |-> attempts[n]]

\* What a step may do to the ledger.
LedgerMoves ==
  \/ Ledger!Write
  \/ \E e \in Effects : Ledger!Act(e) \/ Ledger!Void(e)
  \/ UNCHANGED <<Book, Acts>>

LEMMA Unchanged == UNCHANGED <<disk, attempts>> => UNCHANGED <<Book, Acts>>
BY DEF Book, Acts, Entry

LEMMA WriteMaps ==
  ASSUME attempts' = attempts,
         \A n \in Effects : Entry(n)' = Entry(n) \/ Entry(n)' \in
              (CASE Entry(n) = "clear" -> {"clear", "entered"}
                 [] OTHER -> {"entered", "settled"})
  PROVE  Ledger!Write
<1>1. \A n \in Effects : Entry(n) \in Ledger!Entries /\ Entry(n)' \in Ledger!Entries
  BY DEF Entry, Ledger!Entries
<1>2. \A n \in Effects : Entry(n)' \in Ledger!Successors[Entry(n)]
  BY <1>1 DEF Ledger!Entries, Ledger!Successors
<1> QED
  BY <1>1, <1>2 DEF Ledger!Write

LEMMA StepMaps == LInv /\ [Next]_vars => OneOrder' /\ LedgerMoves
<1> SUFFICES ASSUME LInv, [Next]_vars PROVE OneOrder' /\ LedgerMoves
  OBVIOUS
<1> USE DEF bounds, world, queues, progress
<1>1. CASE EventWritten \/ EventRefused \/ TimePasses \/ UNCHANGED vars
  <2>1. UNCHANGED <<phase, pc, state, checkpoints, disk, attempts>>
    BY <1>1 DEF EventWritten, EventRefused, TimePasses, vars
  <2>2. OneOrder'
    BY <2>1 DEF LInv, OneOrder, NeverBack, Shown
  <2> QED
    BY <2>1, <2>2, Unchanged DEF LedgerMoves
<1>2. CASE CheckpointWritten \/ CheckpointRefused
  <2>1. /\ checkpoints # <<>> /\ checkpoints' = Tail(checkpoints)
        /\ UNCHANGED <<phase, pc, state, attempts>>
        /\ disk' = Head(checkpoints).snap \/ disk' = disk
    BY <1>2 DEF CheckpointWritten, CheckpointRefused
  <2> QED
    BY <2>1, WritingOrder, WriteMaps DEF LedgerMoves
<1>3. CASE Crash
  BY <1>3, OffOrder, Unchanged DEF Crash, PowerOff, LedgerMoves
<1>4. ASSUME NEW A \in SUBSET Gates, Start(A) \/ Resume(A) PROVE OneOrder' /\ LedgerMoves
  BY <1>4, OpeningOrder, Unchanged DEF LedgerMoves
<1>5. ASSUME NEW m \in Nodes, ReconcileCompleted(m) \/ ReconcileNotApplied(m)
      PROVE  OneOrder' /\ LedgerMoves
  <2>1. OneOrder'
    BY <1>5, ReconcilingOrder
  <2>2. CASE m \notin Effects
    <3>1. \A n \in Effects : Entry(n)' = Entry(n) /\ attempts'[n] = attempts[n]
      BY <1>5, <2>2, ReconcilingOrder
    <3> QED
      BY <2>1, <3>1 DEF LedgerMoves, Book, Acts
  <2>3. CASE m \in Effects /\ Entry(m)' = "settled" /\ attempts'[m] = attempts[m]
    <3>1. \A n \in Effects : attempts'[n] = attempts[n]
      BY <1>5, <2>3, ReconcilingOrder
    <3>2. \A n \in Effects : Entry(n) \in Ledger!Entries /\ Entry(n)' \in Ledger!Entries
      BY DEF Entry, Ledger!Entries
    <3>3. \A n \in Effects : Entry(n)' \in Ledger!Successors[Entry(n)]
      BY <1>5, <2>3, <3>2, ReconcilingOrder DEF Ledger!Entries, Ledger!Successors
    <3> QED
      BY <2>1, <3>1, <3>2, <3>3 DEF LedgerMoves, Ledger!Write
  <2>4. CASE m \in Effects /\ Entry(m)' = "clear" /\ attempts'[m] = 0
    <3>1. /\ Entry(m) = "entered"
          /\ \A n \in Effects : n # m => Entry(n)' = Entry(n) /\ attempts'[n] = attempts[n]
      BY <1>5, <2>4, ReconcilingOrder
    <3>2. Ledger!Void(m)
      BY <2>4, <3>1 DEF Ledger!Void
    <3> QED
      BY <2>1, <2>4, <3>2 DEF LedgerMoves
  <2> QED
    BY <1>5, <2>1, <2>2, <2>3, <2>4, ReconcilingOrder
<1>6. ASSUME NEW m \in Nodes, NodeContinues(m) PROVE OneOrder' /\ LedgerMoves
  <2>1. OneOrder' /\ disk' = disk /\ (Launch(m) \/ attempts' = attempts)
    BY <1>6, NodeOrder
  <2>2. CASE attempts' = attempts
    BY <2>1, <2>2, Unchanged DEF LedgerMoves
  <2>3. CASE Launch(m) /\ m \in Effects
    <3>1. Entry(m) = "entered" /\ attempts[m] = 0
      BY <2>3, LaunchOrder
    <3>2. attempts' = [attempts EXCEPT ![m] = 1] /\ attempts \in [SideEffecting -> Nat]
      BY <2>3, <3>1, EffectsAreNodes DEF Launch, LInv, Inv, TypeOK
    <3>3. \A n \in Effects : Entry(n)' = Entry(n)
      BY <2>1 DEF Entry
    <3>4. \A n \in Effects : attempts'[n] = IF n = m THEN 1 ELSE attempts[n]
      BY <3>2, EffectsAreNodes
    <3>5. Ledger!Act(m)
      BY <2>3, <3>1, <3>3, <3>4 DEF Ledger!Act
    <3> QED
      BY <2>1, <2>3, <3>5 DEF LedgerMoves
  <2>4. CASE Launch(m) /\ m \notin Effects
    <3>1. \A n \in Effects : attempts'[n] = attempts[n]
      BY <2>4, EffectsAreNodes DEF Launch, LInv, Inv, TypeOK
    <3> QED
      BY <2>1, <3>1 DEF LedgerMoves, Book, Acts, Entry
  <2> QED
    BY <2>1, <2>2, <2>3, <2>4
<1>7. ASSUME NEW m \in Nodes, ExecutorAnswers(m) PROVE OneOrder' /\ LedgerMoves
  BY <1>7, AnswerOrder, Unchanged DEF LedgerMoves
<1>8. CASE MainContinues
  BY <1>8, MainOrder, Unchanged DEF LedgerMoves
<1> QED
  BY <1>1, <1>2, <1>3, <1>4, <1>5, <1>6, <1>7, <1>8 DEF Next, Io, Operator

LEMMA InitMaps == Init => LInv /\ Ledger!Init
<1> SUFFICES ASSUME Init PROVE LInv /\ Ledger!Init
  OBVIOUS
<1>1. Inv
  BY InitInv
<1>2. \A n \in Effects : /\ n \in Nodes /\ n \in SideEffecting /\ disk.state[n] = "pending"
                         /\ attempts[n] = 0 /\ pc[n] = "idle" /\ state[n] = "pending"
  BY EffectsAreNodes DEF Init, NoCheckpoint
<1>3. OneOrder
  BY <1>2 DEF Init, OneOrder, NeverBack, Acted, Done
<1>4. Ledger!Init
  BY <1>2 DEF Ledger!Init, Entry
<1> QED
  BY <1>1, <1>3, <1>4 DEF LInv

LEMMA LInvStep == LInv /\ [Next]_vars => LInv'
BY StepMaps, InvStep DEF LInv

\* A run of any graph, over any number of crashes, refused writes, resumes and
\* reconciliations, keeps the ledger of its effects: entered before it is tried,
\* tried once per entry, struck out only by the operator.
THEOREM RunKeepsTheLedger == Spec => EffectsFollowTheLedger
<1>1. Init => LInv /\ Ledger!Init
  BY InitMaps
<1>2. LInv /\ [Next]_vars => LInv'
  BY LInvStep
<1>3. LInv /\ [Next]_vars =>
        [Ledger!Next]_<<[n \in Effects |-> Entry(n)], [n \in Effects |-> attempts[n]]>>
  BY StepMaps DEF LedgerMoves, Ledger!Next, Book, Acts
<1> QED
  BY <1>1, <1>2, <1>3, PTL DEF Spec, EffectsFollowTheLedger, Ledger!Spec
-----------------------------------------------------------------------------
(* The final checkpoint.  While no write is refused, the process waits for  *)
(* each of its own saves alone: nodes save only while a batch is at work,    *)
(* and outside it at most one save is on its way.                           *)

Final == {"needs_confirmation", "completed", "failed"}

\* The phases that wait for a save of runGraph's own.
Saving == {"openSaving", "skipSaving", "storing", "storingFailure"}

NodesSave ==
  \A i \in 1..Len(checkpoints) :
    /\ checkpoints[i].by \in Nodes /\ pc[checkpoints[i].by] \in {"saving", "endSaving"}
    /\ checkpoints[i].snap.status = "running"

MainSaves ==
  \A i \in 1..Len(checkpoints) :
    /\ i = 1 /\ checkpoints[i].by = Main
    /\ phase \in {"openSaving", "skipSaving"} => checkpoints[i].snap.status = "running"

FinalIsLast ==
  disk.status \in Final =>
    \/ phase \in {"down", "opening", "exited"}
    \/ phase \in {"storing", "storingFailure"} /\ checkpoints = <<>>
    \/ phase = "openSaving" /\ checkpoints # <<>>

Alone ==
  /\ rejected = {}
  /\ phase # "batch" => \A n \in Nodes : pc[n] = "idle"
  /\ phase = "batch" => NodesSave
  /\ phase \in Saving => MainSaves
  /\ phase \notin Saving \cup {"batch"} => checkpoints = <<>>
  /\ FinalIsLast

AloneInv == SchedulerInv /\ (ioFailures = 0 => Alone)

\* The first save on an empty queue.
LEMMA FirstSave ==
  ASSUME TypeOK, checkpoints = <<>>, NEW w \in Writers, NEW s \in Statuses, Save(w, s)
  PROVE  /\ Len(checkpoints') = 1 /\ checkpoints' # <<>>
         /\ checkpoints'[1] = [by |-> w, snap |-> Snapshot(s)]
<1>1. [by |-> w, snap |-> Snapshot(s)] \in [by : Writers, snap : Checkpoint]
  BY SnapshotType
<1>2. Len(checkpoints) = 0
  OBVIOUS
<1>3. /\ Len(checkpoints') = Len(checkpoints) + 1
      /\ checkpoints'[Len(checkpoints) + 1] = [by |-> w, snap |-> Snapshot(s)]
  BY <1>1, QueueAppend DEF TypeOK, Save
<1> QED
  BY <1>2, <1>3

\* What is not empty has a first element.
LEMMA EmptyIfNone ==
  ASSUME TypeOK, \A i \in 1..Len(checkpoints) : FALSE PROVE checkpoints = <<>>
<1>1. checkpoints # <<>> => Len(checkpoints) \in Nat \ {0}
  BY QueueHead DEF TypeOK
<1> QED
  BY <1>1

\* runGraph has seen its save written: nothing is on its way.
LEMMA MainIsAlone ==
  ASSUME TypeOK, Alone, Written(Main), phase # "batch" PROVE checkpoints = <<>>
<1>1. CASE phase \in Saving
  BY <1>1, EmptyIfNone DEF Alone, MainSaves, Written
<1>2. CASE phase \notin Saving
  BY <1>2 DEF Alone
<1> QED
  BY <1>1, <1>2

\* One node of the batch goes on.
LEMMA AloneBatchStep ==
  ASSUME TypeOK, Alone, phase = "batch", NEW n \in Nodes, NEW p, pc' = [pc EXCEPT ![n] = p],
         UNCHANGED <<phase, disk, rejected>>,
         \A i \in 1..Len(checkpoints) : checkpoints[i].by # n,
         \/ checkpoints' = checkpoints
         \/ Save(n, "running") /\ p \in {"saving", "endSaving"}
  PROVE  Alone'
<1>1. pc'[n] = p /\ \A m \in Nodes : m # n => pc'[m] = pc[m]
  BY DEF TypeOK
<1>2. NodesSave /\ disk.status \notin Final
  BY DEF Alone, FinalIsLast
<1>3. CASE checkpoints' = checkpoints
  BY <1>1, <1>2, <1>3 DEF Alone, NodesSave, FinalIsLast, Saving
<1>4. CASE Save(n, "running") /\ p \in {"saving", "endSaving"}
  <2> DEFINE new == [by |-> n, snap |-> Snapshot("running")]
  <2>1. "running" \in Statuses /\ n \in Writers
    BY DEF Statuses, Writers
  <2>2. /\ new \in [by : Writers, snap : Checkpoint] /\ new.by = n
        /\ new.snap.status = "running"
    BY <2>1, SnapshotType DEF Snapshot
  <2>3. /\ Len(checkpoints) \in Nat /\ Len(checkpoints') = Len(checkpoints) + 1
        /\ \A i \in 1..Len(checkpoints) : checkpoints'[i] = checkpoints[i]
        /\ checkpoints'[Len(checkpoints) + 1] = new
    BY <1>4, <2>2, QueueAppend DEF TypeOK, Save
  <2>4. \A i \in 1..Len(checkpoints') :
          \/ i \in 1..Len(checkpoints) /\ checkpoints'[i] = checkpoints[i]
          \/ checkpoints'[i] = new
    BY <2>3
  <2> HIDE DEF new
  <2>5. NodesSave'
    BY <1>1, <1>2, <1>4, <2>2, <2>4 DEF NodesSave
  <2> QED
    BY <1>2, <2>5 DEF Alone, FinalIsLast, Saving
<1> QED
  BY <1>3, <1>4

LEMMA AloneNodeStep ==
  ASSUME AloneInv, ioFailures = 0, NEW n \in Nodes, NodeContinues(n) PROVE Alone'
<1> USE DEF progress, world, bounds, queues
<1>0. TypeOK /\ Alone /\ n \notin rejected
  BY DEF AloneInv, SchedulerInv, GateInv, Alone
<1>1. ~CompletionRefused(n) /\ ~NodeRefused(n)
  BY <1>0 DEF CompletionRefused, NodeRefused
<1>2. pc[n] # "idle" /\ UNCHANGED <<phase, disk, rejected>>
  BY <1>1 DEF NodeContinues, StartLogged, DeadlinePassed, PassGate, StopAtGate, RunLocally,
         FailBeforeExecution, Launch, EndLogged, EndSaved, Watchdog, Ready
<1>3. phase = "batch"
  BY <1>0, <1>2 DEF Alone
<1>4. \A i \in 1..Len(checkpoints) : checkpoints[i].by # n
  <2>1. Written(n) \/ pc[n] = "executing"
    BY <1>1 DEF NodeContinues, StartLogged, DeadlinePassed, PassGate, StopAtGate, RunLocally,
         FailBeforeExecution, Launch, EndLogged, EndSaved, Watchdog, Ready
  <2> QED
    BY <1>0, <1>3, <2>1 DEF Written, Alone, NodesSave
<1>5. \E p : /\ pc' = [pc EXCEPT ![n] = p]
             /\ \/ checkpoints' = checkpoints
                \/ Save(n, "running") /\ p \in {"saving", "endSaving"}
  <2>1. CASE StartLogged(n)
    BY <2>1 DEF StartLogged
  <2>2. CASE EndLogged(n)
    BY <2>2 DEF EndLogged
  <2>3. CASE Launch(n) \/ EndSaved(n) \/ StopAtGate(n)
    BY <2>3 DEF Launch, EndSaved, StopAtGate
  <2>4. CASE DeadlinePassed(n) \/ FailBeforeExecution(n) \/ \E u \in PartialCosts(n) : Watchdog(n, u)
    BY <2>4 DEF DeadlinePassed, FailBeforeExecution, Watchdog, Fail
  <2>5. CASE PassGate(n) \/ RunLocally(n)
    BY <2>5 DEF PassGate, RunLocally, Publish, Fail
  <2> QED
    BY <1>1, <2>1, <2>2, <2>3, <2>4, <2>5 DEF NodeContinues
<1> QED
  BY <1>0, <1>2, <1>3, <1>4, <1>5, AloneBatchStep

LEMMA AloneAnswerStep ==
  ASSUME AloneInv, ioFailures = 0, NEW n \in Nodes, ExecutorAnswers(n) PROVE Alone'
<1> USE DEF progress, world, bounds, queues
<1>0. TypeOK /\ Alone
  BY DEF AloneInv, SchedulerInv, GateInv
<1>1. CASE ExecutorEnds(n)
  BY <1>0, <1>1 DEF ExecutorEnds, Alone, NodesSave, MainSaves, FinalIsLast
<1>2. CASE ~ExecutorEnds(n)
  <2>1. /\ pc[n] = "executing" /\ pc' = [pc EXCEPT ![n] = "ending"]
        /\ UNCHANGED <<phase, disk, rejected>> /\ checkpoints' = checkpoints
    BY <1>2 DEF ExecutorAnswers, Return, Raise, Publish, Fail
  <2>2. phase = "batch" /\ \A i \in 1..Len(checkpoints) : checkpoints[i].by # n
    BY <1>0, <2>1 DEF Alone, NodesSave
  <2> QED
    BY <1>0, <2>1, <2>2, AloneBatchStep
<1> QED
  BY <1>1, <1>2
LEMMA AloneMainStep ==
  ASSUME AloneInv, ioFailures = 0, MainContinues PROVE Alone'
<1> USE DEF progress, world, bounds, queues
<1>0. /\ TypeOK /\ Alone /\ Main \notin rejected /\ Main \in Writers /\ "running" \in Statuses
      /\ ~MainRefused
  BY DEF AloneInv, SchedulerInv, GateInv, Alone, Writers, Statuses, MainRefused
<1>1. CASE OpenLogged \/ SkipsLogged
  <2>1. /\ Save(Main, "running") /\ phase \notin Saving \cup {"batch"}
        /\ phase' \in {"openSaving", "skipSaving"}
        /\ phase' = "skipSaving" => phase = "skipping"
        /\ UNCHANGED <<pc, rejected, disk>>
    BY <1>1 DEF OpenLogged, SkipsLogged, MainWrote, Saving
  <2>2. checkpoints = <<>>
    BY <1>0, <2>1 DEF Alone
  <2>3. /\ Len(checkpoints') = 1 /\ checkpoints' # <<>>
        /\ checkpoints'[1] = [by |-> Main, snap |-> Snapshot("running")]
    BY <1>0, <2>1, <2>2, FirstSave
  <2>4. checkpoints'[1].by = Main /\ checkpoints'[1].snap.status = "running"
    BY <2>3 DEF Snapshot
  <2> HIDE DEF Snapshot
  <2>5. MainSaves'
    BY <2>3, <2>4 DEF MainSaves
  <2>6. FinalIsLast'
    BY <1>0, <2>1, <2>3 DEF FinalIsLast, Alone
  <2> QED
    BY <1>0, <2>1, <2>5, <2>6 DEF Alone, Saving
<1>2. CASE EndingLogged
  <2>1. /\ phase \in DOMAIN FinalStatus /\ Save(Main, FinalStatus[phase])
        /\ phase' \in {"storing", "storingFailure"} /\ UNCHANGED <<pc, rejected, disk>>
    BY <1>2 DEF EndingLogged
  <2>2. phase \notin Saving \cup {"batch"} /\ FinalStatus[phase] \in Statuses
        /\ disk.status \notin Final
    BY <1>0, <2>1 DEF FinalStatus, Statuses, Saving, Alone, FinalIsLast
  <2>3. checkpoints = <<>>
    BY <1>0, <2>2 DEF Alone
  <2>4. PICK s \in Statuses : s = FinalStatus[phase] /\ Save(Main, s)
    BY <2>1, <2>2
  <2>5. /\ Len(checkpoints') = 1
        /\ checkpoints'[1] = [by |-> Main, snap |-> Snapshot(s)]
    BY <1>0, <2>3, <2>4, FirstSave
  <2>6. MainSaves'
    BY <2>1, <2>5 DEF MainSaves
  <2> QED
    BY <1>0, <2>1, <2>2, <2>6 DEF Alone, FinalIsLast, Saving
<1>3. CASE BatchDone
  <2>1. /\ phase = "batch" /\ phase' \in {"failing", "schedule"}
        /\ UNCHANGED <<checkpoints, rejected, disk>> /\ \A n \in Nodes : pc'[n] = "idle"
    BY <1>3 DEF BatchDone, BatchSettled, RunFails
  <2>2. checkpoints = <<>>
    BY <1>0, <1>3, <2>1, EmptyIfNone DEF Alone, NodesSave, BatchDone, BatchSettled
  <2> QED
    BY <1>0, <2>1, <2>2 DEF Alone, FinalIsLast, Saving
<1>4. CASE Dispatch
  <2>1. /\ phase = "schedule" /\ phase' = "batch" /\ UNCHANGED <<checkpoints, rejected, disk>>
    BY <1>4 DEF Dispatch, Deciding
  <2>2. Len(checkpoints) = 0
    BY <1>0, <2>1 DEF Alone, Saving
  <2> QED
    BY <1>0, <2>1, <2>2 DEF Alone, NodesSave, FinalIsLast, Saving
<1>5. CASE Exit
  <2>1. /\ phase' = "down" /\ checkpoints' = <<>> /\ rejected' = {}
        /\ \A n \in Nodes : pc'[n] = "idle"
    BY <1>5 DEF Exit, PowerOff
  <2> QED
    BY <2>1 DEF Alone, FinalIsLast, Saving
<1>6. CASE \/ OpenSaved \/ SkipsSaved \/ EndingSaved
           \/ Block \/ Finish \/ \E n \in Nodes : Skip(n)
  <2>1. /\ phase \in {"openSaving", "skipSaving", "storing", "storingFailure", "schedule",
                      "skipping"}
        /\ phase \in {"storing", "storingFailure"} <=> phase' = "exited"
        /\ phase' \in {"schedule", "failing", "exited", "blocking", "completing", "skipping"}
        /\ UNCHANGED <<pc, checkpoints, rejected, disk>>
        /\ phase \in Saving => Written(Main)
    BY <1>6 DEF OpenSaved, SkipsSaved, EndingSaved, Block, Finish, Skip, MainWrote, RunFails,
         Deciding, Saving
  <2>2. checkpoints = <<>>
    <3>1. CASE phase \in Saving
      BY <1>0, <2>1, <3>1, MainIsAlone DEF Saving
    <3>2. CASE phase \notin Saving
      BY <1>0, <2>1, <3>2 DEF Alone
    <3> QED
      BY <3>1, <3>2
  <2>3. disk.status \in Final => phase' = "exited"
    BY <1>0, <2>1, <2>2 DEF Alone, FinalIsLast
  <2> QED
    BY <1>0, <2>1, <2>2, <2>3 DEF Alone, FinalIsLast, Saving
<1> QED
  BY <1>0, <1>1, <1>2, <1>3, <1>4, <1>5, <1>6 DEF MainContinues

\* A save reaches the disk: one of a node, or the one that runGraph waits for.
LEMMA AloneWritingStep ==
  ASSUME AloneInv, ioFailures = 0, CheckpointWritten
  PROVE  Alone' /\ (disk.status \in Final => phase \in {"down", "openSaving"})
<1> USE DEF progress, world, bounds, queues
<1>0. TypeOK /\ Alone /\ checkpoints # <<>>
  BY DEF AloneInv, SchedulerInv, GateInv, CheckpointWritten
<1>1. /\ Head(checkpoints) = checkpoints[1] /\ Len(checkpoints) \in Nat \ {0}
      /\ Len(checkpoints') = Len(checkpoints) - 1
      /\ \A i \in 1..Len(checkpoints') : checkpoints'[i] = checkpoints[i + 1]
      /\ disk' = checkpoints[1].snap /\ UNCHANGED <<phase, pc, rejected>>
  BY <1>0, QueueHead DEF TypeOK, CheckpointWritten
<1>2. /\ 1 \in 1..Len(checkpoints)
      /\ \A i \in 1..Len(checkpoints') : i + 1 \in 1..Len(checkpoints) /\ i + 1 # 1
  BY <1>1
<1>3. disk.status \in Final => phase \in {"down", "openSaving"}
  BY <1>0 DEF Alone, FinalIsLast, Saving
<1>4. CASE phase = "batch"
  <2>1. NodesSave
    BY <1>0, <1>4 DEF Alone
  <2>2. NodesSave' /\ disk'.status = "running"
    BY <1>1, <1>2, <2>1 DEF NodesSave
  <2> QED
    BY <1>0, <1>1, <1>3, <1>4, <2>2 DEF Alone, FinalIsLast, Final, Saving
<1>5. CASE phase \in Saving
  <2>1. MainSaves
    BY <1>0, <1>5 DEF Alone
  <2>2. \A i \in 1..Len(checkpoints') : FALSE
    BY <1>2, <2>1 DEF MainSaves
  <2>3. checkpoints' = <<>>
    <3>1. checkpoints' \in Seq([by : Writers, snap : Checkpoint])
      BY <1>0, QueueHead DEF TypeOK, CheckpointWritten
    <3>2. checkpoints' # <<>> => Len(checkpoints') \in Nat \ {0}
      BY <3>1, QueueHead
    <3> QED
      BY <2>2, <3>2
  <2>4. phase \in {"openSaving", "skipSaving"} => disk'.status = "running"
    BY <1>1, <1>2, <2>1 DEF MainSaves
  <2>5. MainSaves' /\ FinalIsLast'
    BY <1>1, <1>5, <2>2, <2>3, <2>4 DEF MainSaves, FinalIsLast, Saving, Final
  <2> QED
    BY <1>0, <1>1, <1>3, <1>5, <2>5 DEF Alone, Saving
<1>6. CASE phase \notin Saving \cup {"batch"}
  BY <1>0, <1>6 DEF Alone
<1> QED
  BY <1>4, <1>5, <1>6

\* Refused writes are counted and never forgotten.
LEMMA FailuresOnlyGrow ==
  ASSUME TypeOK, [Next]_vars, ioFailures' = 0 PROVE ioFailures = 0
<1> USE DEF progress, world, bounds, queues
<1>1. ioFailures' = ioFailures \/ ioFailures' = ioFailures + 1
  BY DEF Next, Io, EventWritten, CheckpointWritten, EventRefused, CheckpointRefused,
       NodeContinues, StartLogged, DeadlinePassed, PassGate, StopAtGate, RunLocally,
       FailBeforeExecution, Launch, EndLogged, EndSaved, CompletionRefused, NodeRefused,
       Watchdog, ExecutorAnswers, Return, Raise, ExecutorEnds, MainContinues, OpenLogged,
       OpenSaved, Skip, SkipsLogged, SkipsSaved, Dispatch, BatchDone, Block, Finish,
       EndingLogged, EndingSaved, MainRefused, Exit, TimePasses, Crash, Operator, Start,
       Resume, ReconcileCompleted, ReconcileNotApplied, vars
<1> QED
  BY <1>1 DEF TypeOK

LEMMA AloneInvStep == AloneInv /\ [Next]_vars => AloneInv'
<1> SUFFICES ASSUME AloneInv, [Next]_vars, ioFailures' = 0 PROVE Alone'
  BY SchedulerInvStep DEF AloneInv
<1> USE DEF progress, world, bounds, queues
<1>0. TypeOK /\ Asleep
  BY DEF AloneInv, SchedulerInv, GateInv
<1>1. ioFailures = 0
  BY <1>0, FailuresOnlyGrow
<1>2. Alone
  BY <1>1 DEF AloneInv
<1>3. CASE EventWritten \/ TimePasses \/ UNCHANGED vars
  BY <1>2, <1>3 DEF EventWritten, TimePasses, vars, Alone, NodesSave, MainSaves, FinalIsLast
<1>4. ~EventRefused /\ ~CheckpointRefused
  BY <1>1 DEF EventRefused, CheckpointRefused
<1>5. CASE Crash
  <2>1. /\ phase' = "down" /\ checkpoints' = <<>> /\ rejected' = {}
        /\ \A n \in Nodes : pc'[n] = "idle"
    BY <1>5 DEF Crash, PowerOff
  <2> QED
    BY <2>1 DEF Alone, FinalIsLast, Saving
<1>6. CASE Operator
  <2>1. /\ phase = "down" /\ phase' \in {"down", "opening"}
        /\ UNCHANGED <<pc, checkpoints, rejected>>
    BY <1>6 DEF Operator, Start, Resume, ReconcileCompleted, ReconcileNotApplied
  <2> QED
    BY <1>2, <2>1 DEF Alone, FinalIsLast, Saving
<1> QED
  BY <1>1, <1>3, <1>4, <1>5, <1>6, AloneWritingStep, AloneNodeStep, AloneAnswerStep,
     AloneMainStep DEF Next, Io

LEMMA AloneInitInv == Init => AloneInv
<1> SUFFICES ASSUME Init PROVE Alone
  BY SchedulerInitInv DEF AloneInv
<1> QED
  BY DEF Init, Alone, FinalIsLast, Saving, NoCheckpoint, Final

\* The final checkpoint of an invocation is its last write, for every graph and any
\* number of crashes and resumes, as long as no write is refused: Promise.all has
\* waited for every node of the batch, and each node for its own save.
THEOREM FinalCheckpointIsLast == Spec => FinalCheckpointStands
<1>1. AloneInv /\ [Next]_vars =>
        [ioFailures = 0 /\ disk.status \in {"needs_confirmation", "completed", "failed"}
           => phase \in {"down", "openSaving"}]_disk
  <2> SUFFICES ASSUME AloneInv, [Next]_vars, disk' # disk, ioFailures = 0, disk.status \in Final
               PROVE  phase \in {"down", "openSaving"}
    BY DEF Final
  <2> USE DEF progress, world, bounds, queues
  <2>1. CASE CheckpointWritten
    BY <2>1, AloneWritingStep
  <2>2. CASE ~CheckpointWritten
    <3>1. \E n \in Nodes : ReconcileCompleted(n) \/ ReconcileNotApplied(n)
      BY <2>2 DEF Next, Io, EventWritten, EventRefused, CheckpointRefused,
         NodeContinues, StartLogged, DeadlinePassed, PassGate, StopAtGate, RunLocally,
         FailBeforeExecution, Launch, EndLogged, EndSaved, CompletionRefused, NodeRefused,
         Watchdog, ExecutorAnswers, Return, Raise, ExecutorEnds, MainContinues, OpenLogged,
         OpenSaved, Skip, SkipsLogged, SkipsSaved, Dispatch, BatchDone, Block, Finish,
         EndingLogged, EndingSaved, MainRefused, Exit, TimePasses, Crash, PowerOff, Operator,
         Start, Resume, vars
    <3> QED
      BY <3>1 DEF ReconcileCompleted, ReconcileNotApplied
  <2> QED
    BY <2>1, <2>2
<1> QED
  BY <1>1, AloneInitInv, AloneInvStep, PTL DEF Spec, FinalCheckpointStands
-----------------------------------------------------------------------------
(* Completions.  While no write is refused nothing takes a completion back,  *)
(* so the nodes shown completed only grow along the chain of checkpoints.    *)

Grows(a, b) == \A n \in Nodes : a[n] = "completed" => b[n] = "completed"

Recorded(i) == checkpoints[i].snap.state

Growing ==
  /\ \A i \in 1..Len(checkpoints) : Grows(disk.state, Recorded(i)) /\ Grows(Recorded(i), state)
  /\ \A i, j \in 1..Len(checkpoints) : i <= j => Grows(Recorded(i), Recorded(j))
  /\ phase # "down" => Grows(disk.state, state)

CompletionInv == AloneInv /\ (ioFailures = 0 => Growing)

LEMMA GrowsOn == /\ \A a : Grows(a, a)
                 /\ \A a, b, c : Grows(a, b) /\ Grows(b, c) => Grows(a, c)
BY DEF Grows

LEMMA GrowsQuietStep ==
  ASSUME Growing, phase # "down", Grows(state, state'), UNCHANGED <<checkpoints, disk>>
  PROVE  Growing'
BY GrowsOn DEF Growing, Recorded

LEMMA GrowsSavingStep ==
  ASSUME TypeOK, Growing, phase # "down", NEW w \in Writers, NEW s \in Statuses, Save(w, s),
         UNCHANGED <<state, disk>>
  PROVE  Growing'
<1> DEFINE new == [by |-> w, snap |-> Snapshot(s)]
<1>1. new \in [by : Writers, snap : Checkpoint] /\ new.snap.state = state
  BY SnapshotType DEF Snapshot
<1>2. /\ Len(checkpoints) \in Nat /\ Len(checkpoints') = Len(checkpoints) + 1
      /\ \A i \in 1..Len(checkpoints) : checkpoints'[i] = checkpoints[i]
      /\ checkpoints'[Len(checkpoints) + 1] = new
  BY <1>1, QueueAppend DEF TypeOK, Save
<1>3. \A i \in 1..Len(checkpoints') :
        \/ i \in 1..Len(checkpoints) /\ Recorded(i)' = Recorded(i)
        \/ i = Len(checkpoints) + 1 /\ Recorded(i)' = state
  BY <1>1, <1>2 DEF Recorded
<1>4. Grows(disk.state, state)
  BY DEF Growing
<1>5. \A i \in 1..Len(checkpoints') : Grows(disk'.state, Recorded(i)') /\ Grows(Recorded(i)', state')
  BY <1>3, <1>4, GrowsOn DEF Growing
<1>6. ASSUME NEW i \in 1..Len(checkpoints'), NEW j \in 1..Len(checkpoints'), i <= j
      PROVE  Grows(Recorded(i)', Recorded(j)')
  <2>1. CASE j \in 1..Len(checkpoints) /\ Recorded(j)' = Recorded(j)
    <3>1. i \in 1..Len(checkpoints) /\ Recorded(i)' = Recorded(i)
      BY <1>2, <1>3, <1>6, <2>1
    <3> QED
      BY <1>6, <2>1, <3>1 DEF Growing
  <2>2. CASE Recorded(j)' = state
    BY <1>5, <2>2
  <2> QED
    BY <1>3, <2>1, <2>2
<1> QED
  BY <1>4, <1>5, <1>6 DEF Growing

LEMMA GrowsWritingStep ==
  ASSUME TypeOK, Growing, CheckpointWritten PROVE Growing' /\ Grows(disk.state, disk'.state)
<1> USE DEF progress
<1>1. /\ Head(checkpoints) = checkpoints[1] /\ Len(checkpoints) \in Nat \ {0}
      /\ Len(checkpoints') = Len(checkpoints) - 1
      /\ \A i \in 1..Len(checkpoints') : checkpoints'[i] = checkpoints[i + 1]
      /\ disk' = checkpoints[1].snap /\ UNCHANGED <<phase, state>>
  BY QueueHead DEF TypeOK, CheckpointWritten
<1>2. /\ disk'.state = Recorded(1) /\ 1 \in 1..Len(checkpoints)
      /\ \A i \in 1..Len(checkpoints') : /\ i + 1 \in 1..Len(checkpoints) /\ 1 <= i + 1
                                         /\ Recorded(i)' = Recorded(i + 1)
  BY <1>1 DEF Recorded
<1>3. /\ \A i \in 1..Len(checkpoints) : Grows(disk.state, Recorded(i)) /\ Grows(Recorded(i), state)
      /\ \A i, j \in 1..Len(checkpoints) : i <= j => Grows(Recorded(i), Recorded(j))
  BY DEF Growing
<1>4. \A i \in 1..Len(checkpoints') : Grows(disk'.state, Recorded(i)') /\ Grows(Recorded(i)', state')
  BY <1>1, <1>2, <1>3
<1>5. \A i, j \in 1..Len(checkpoints') : i <= j => Grows(Recorded(i)', Recorded(j)')
  BY <1>1, <1>2, <1>3
<1>6. Grows(disk'.state, state') /\ Grows(disk.state, disk'.state)
  BY <1>1, <1>2, <1>3
<1> QED
  BY <1>4, <1>5, <1>6 DEF Growing

\* Only a node that is running fails.
LEMMA FailKeeps ==
  ASSUME TypeOK, NEW n \in Nodes, state[n] = "running", NEW k, NEW s, Fail(n, k, s)
  PROVE  Grows(state, state')
BY DEF TypeOK, Fail, Grows

LEMMA PublishKeeps ==
  ASSUME TypeOK, NEW n \in Nodes, state[n] = "running", NEW u, Publish(n, u)
  PROVE  Grows(state, state')
BY FailKeeps DEF TypeOK, Publish, Grows

LEMMA GrowsNodeStep ==
  ASSUME CompletionInv, ioFailures = 0, NEW n \in Nodes, NodeContinues(n)
  PROVE  Growing' /\ disk' = disk
<1> USE DEF progress, world, bounds, queues
<1>0. /\ TypeOK /\ Asleep /\ Growing /\ n \notin rejected
      /\ n \in Writers /\ "running" \in Statuses
      /\ pc[n] \in Acting => state[n] = "running"
  BY DEF CompletionInv, AloneInv, SchedulerInv, GateInv, InBatch, Alone, Writers, Statuses, Acting
<1>1. ~CompletionRefused(n) /\ ~NodeRefused(n)
  BY <1>0 DEF CompletionRefused, NodeRefused
<1>2. phase # "down"
  BY <1>0, NodeAwake
<1>3. disk' = disk
  BY <1>1 DEF NodeContinues, StartLogged, DeadlinePassed, PassGate, StopAtGate, RunLocally,
       FailBeforeExecution, Launch, EndLogged, EndSaved, Watchdog
<1>4. CASE StartLogged(n) \/ EndLogged(n)
  <2>1. Save(n, "running") /\ UNCHANGED <<state, disk>>
    BY <1>4 DEF StartLogged, EndLogged
  <2> QED
    BY <1>0, <1>2, <1>3, <2>1, GrowsSavingStep
<1>5. CASE ~(StartLogged(n) \/ EndLogged(n))
  <2>1. checkpoints' = checkpoints
    BY <1>1, <1>5 DEF NodeContinues, DeadlinePassed, PassGate, StopAtGate, RunLocally,
         FailBeforeExecution, Launch, EndSaved, Watchdog
  <2>2. CASE DeadlinePassed(n) \/ FailBeforeExecution(n) \/ \E u \in PartialCosts(n) : Watchdog(n, u)
    <3>1. pc[n] \in Acting /\ \E k, s : Fail(n, k, s)
      BY <2>2 DEF DeadlinePassed, FailBeforeExecution, Watchdog, Ready, Acting
    <3> QED
      BY <1>0, <1>2, <1>3, <2>1, <3>1, FailKeeps, GrowsQuietStep
  <2>3. CASE PassGate(n) \/ RunLocally(n)
    <3>1. pc[n] \in Acting /\ Publish(n, 0)
      BY <2>3 DEF PassGate, RunLocally, Ready, Acting
    <3> QED
      BY <1>0, <1>2, <1>3, <2>1, <3>1, PublishKeeps, GrowsQuietStep
  <2>4. CASE StopAtGate(n)
    <3>1. pc[n] \in Acting /\ state' = [state EXCEPT ![n] = "blocked"]
      BY <2>4 DEF StopAtGate, Ready, Acting
    <3>2. Grows(state, state')
      BY <1>0, <3>1 DEF Grows, TypeOK
    <3> QED
      BY <1>0, <1>2, <1>3, <2>1, <3>2, GrowsQuietStep
  <2>5. CASE Launch(n) \/ EndSaved(n)
    <3>1. state' = state
      BY <2>5 DEF Launch, EndSaved
    <3> QED
      BY <1>0, <1>2, <1>3, <2>1, <3>1, GrowsOn, GrowsQuietStep
  <2> QED
    BY <1>1, <1>5, <2>2, <2>3, <2>4, <2>5 DEF NodeContinues
<1> QED
  BY <1>3, <1>4, <1>5

LEMMA GrowsAnswerStep ==
  ASSUME CompletionInv, ioFailures = 0, NEW n \in Nodes, ExecutorAnswers(n)
  PROVE  Growing' /\ disk' = disk
<1> USE DEF progress, world, bounds, queues
<1>0. /\ TypeOK /\ Asleep /\ Growing
      /\ pc[n] = "executing" => state[n] = "running"
  BY DEF CompletionInv, AloneInv, SchedulerInv, GateInv, InBatch, Acting
<1>1. CASE ExecutorEnds(n)
  BY <1>0, <1>1 DEF ExecutorEnds, Growing, Recorded
<1>2. CASE ~ExecutorEnds(n)
  <2>1. /\ pc[n] = "executing" /\ UNCHANGED <<phase, checkpoints, disk>>
        /\ (\E u : Publish(n, u)) \/ (\E k, s : Fail(n, k, s))
    BY <1>2 DEF ExecutorAnswers, Return, Raise, Publish
  <2>2. phase # "down"
    BY <1>0, <1>2, AnswerAwake
  <2>3. Grows(state, state')
    BY <1>0, <2>1, FailKeeps, PublishKeeps
  <2> QED
    BY <1>0, <2>1, <2>2, <2>3, GrowsQuietStep
<1> QED
  BY <1>1, <1>2

LEMMA GrowsMainStep ==
  ASSUME CompletionInv, ioFailures = 0, MainContinues PROVE Growing' /\ disk' = disk
<1> USE DEF progress, world, bounds, queues
<1>0. TypeOK /\ Asleep /\ Growing /\ Main \in Writers /\ "running" \in Statuses
  BY DEF CompletionInv, AloneInv, SchedulerInv, GateInv, Writers, Statuses
<1>1. CASE Exit
  <2>1. Len(checkpoints') = 0 /\ phase' = "down" /\ disk' = disk
    BY <1>1 DEF Exit, PowerOff
  <2> QED
    BY <2>1 DEF Growing
<1>2. CASE ~Exit
  <2>1. phase # "down" /\ disk' = disk
    <3>1. phase # "down"
      BY <1>0, <1>2, MainAwake
    <3> QED
      BY <1>2, <3>1 DEF MainContinues, OpenLogged, OpenSaved, Skip, SkipsLogged, SkipsSaved,
           Dispatch, BatchDone, Block, Finish, EndingLogged, EndingSaved, MainRefused
  <2>2. CASE OpenLogged \/ SkipsLogged
    <3>1. Save(Main, "running") /\ state' = state
      BY <2>2 DEF OpenLogged, SkipsLogged
    <3> QED
      BY <1>0, <2>1, <3>1, GrowsSavingStep
  <2>3. CASE EndingLogged
    <3>1. FinalStatus[phase] \in Statuses /\ Save(Main, FinalStatus[phase]) /\ state' = state
      BY <2>3 DEF EndingLogged, FinalStatus, Statuses
    <3> QED
      BY <1>0, <2>1, <3>1, GrowsSavingStep
  <2>4. CASE ~(OpenLogged \/ SkipsLogged \/ EndingLogged)
    <3>1. checkpoints' = checkpoints
      BY <1>2, <2>4 DEF MainContinues, OpenSaved, Skip, SkipsSaved, Dispatch, BatchDone,
           Block, Finish, EndingSaved, MainRefused
    <3>2. CASE Dispatch
      <4>1. PICK batch \in SUBSET Runnable :
              state' = [m \in Nodes |-> IF m \in batch THEN "running" ELSE state[m]]
        BY <3>2, DispatchedSet
      <4> QED
        BY <1>0, <2>1, <3>1, <4>1, GrowsQuietStep DEF Grows, Runnable, Pending
    <3>3. CASE \E m \in Nodes : Skip(m)
      <4>1. Grows(state, state')
        BY <1>0, <3>3 DEF Skip, Doomed, Pending, Grows, TypeOK
      <4> QED
        BY <1>0, <2>1, <3>1, <4>1, GrowsQuietStep
    <3>4. CASE ~(Dispatch \/ \E m \in Nodes : Skip(m))
      <4>1. state' = state
        BY <1>2, <2>4, <3>4 DEF MainContinues, OpenSaved, SkipsSaved, BatchDone, Block,
             Finish, EndingSaved, MainRefused
      <4> QED
        BY <1>0, <2>1, <3>1, <4>1, GrowsOn, GrowsQuietStep
    <3> QED
      BY <3>2, <3>3, <3>4
  <2> QED
    BY <2>1, <2>2, <2>3, <2>4
<1> QED
  BY <1>1, <1>2

\* Resume takes completed nodes over; the operator can only add to them.
LEMMA GrowsOperatorStep ==
  ASSUME CompletionInv, ioFailures = 0, Operator
  PROVE  Growing' /\ Grows(disk.state, disk'.state)
<1> USE DEF progress, world, bounds, queues
<1>0. TypeOK /\ Asleep
  BY DEF CompletionInv, AloneInv, SchedulerInv, GateInv
<1>1. phase = "down" /\ Len(checkpoints) = 0 /\ checkpoints' = checkpoints
  BY <1>0 DEF Asleep, Operator, Start, Resume, ReconcileCompleted, ReconcileNotApplied
<1>2. ASSUME NEW A \in SUBSET Gates, Start(A) PROVE disk' = disk /\ Grows(disk'.state, state')
  BY <1>0, <1>2 DEF Asleep, Start, NoCheckpoint, Grows
<1>3. ASSUME NEW A \in SUBSET Gates, Resume(A) PROVE disk' = disk /\ Grows(disk'.state, state')
  BY <1>0, <1>3 DEF Resume, Restored, Kept, Grows
<1>4. ASSUME NEW n \in Nodes, ReconcileCompleted(n) \/ ReconcileNotApplied(n)
      PROVE  phase' = "down" /\ Grows(disk.state, disk'.state)
  <2>1. disk.state \in [Nodes -> States] /\ disk \in Checkpoint
    BY <1>0 DEF TypeOK, Checkpoint
  <2>2. phase' = "down" /\ disk.state[n] # "completed"
    BY <1>1, <1>4 DEF ReconcileCompleted, ReconcileNotApplied, Uncertain
  <2>3. \/ disk'.state = [disk.state EXCEPT ![n] = "completed"]
        \/ disk'.state = [disk.state EXCEPT ![n] = "pending"]
    BY <1>4, <2>1 DEF ReconcileCompleted, ReconcileNotApplied, Checkpoint
  <2> QED
    BY <2>1, <2>2, <2>3 DEF Grows
<1> QED
  BY <1>1, <1>2, <1>3, <1>4, GrowsOn DEF Operator, Growing

LEMMA GrowingStep ==
  ASSUME CompletionInv, ioFailures = 0, [Next]_vars
  PROVE  (ioFailures' = 0 => Growing') /\ Grows(disk.state, disk'.state)
<1> USE DEF progress, world, bounds, queues
<1>0. TypeOK /\ Growing
  BY DEF CompletionInv, AloneInv, SchedulerInv, GateInv
<1>1. CASE EventWritten \/ TimePasses \/ UNCHANGED vars
  BY <1>0, <1>1, GrowsOn DEF EventWritten, TimePasses, vars, Growing, Recorded
<1>2. CASE EventRefused \/ CheckpointRefused
  <2>1. ioFailures' = 1 /\ disk' = disk
    BY <1>2 DEF EventRefused, CheckpointRefused
  <2> QED
    BY <2>1, GrowsOn
<1>3. CASE Crash
  <2>1. Len(checkpoints') = 0 /\ phase' = "down" /\ disk' = disk
    BY <1>3 DEF Crash, PowerOff
  <2> QED
    BY <2>1, GrowsOn DEF Growing
<1> QED
  BY <1>0, <1>1, <1>2, <1>3, GrowsOn, GrowsWritingStep, GrowsNodeStep, GrowsAnswerStep,
     GrowsMainStep, GrowsOperatorStep DEF Next, Io

LEMMA CompletionInvStep == CompletionInv /\ [Next]_vars => CompletionInv'
<1> SUFFICES ASSUME CompletionInv, [Next]_vars, ioFailures' = 0 PROVE Growing'
  BY AloneInvStep DEF CompletionInv
<1>1. ioFailures = 0
  BY FailuresOnlyGrow DEF CompletionInv, AloneInv, SchedulerInv, GateInv
<1> QED
  BY <1>1, GrowingStep

LEMMA CompletionInitInv == Init => CompletionInv
BY AloneInitInv DEF Init, CompletionInv, Growing

\* What a checkpoint shows completed, every later one shows completed, for every
\* graph and any number of crashes, resumes and reconciliations, as long as no write
\* is refused.
THEOREM CompletionsAreKept == Spec => CompletionKept
<1>1. CompletionInv /\ [Next]_vars =>
        [ioFailures = 0 => \A n \in Nodes : disk.state[n] = "completed"
                                              => disk'.state[n] = "completed"]_disk
  BY GrowingStep DEF Grows
<1> QED
  BY <1>1, CompletionInitInv, CompletionInvStep, PTL DEF Spec, CompletionKept
-----------------------------------------------------------------------------
(* Timeouts.  An attempt that the watchdog gave up stays on record as timed  *)
(* out for as long as it may be at work, so only the operator's evidence of  *)
(* its end can clear it.  A single refused write of the node is made good by *)
(* the final checkpoint of the run, which it brings about.                   *)

Watched == SideEffecting \ Fanned

\* What a reconciliation does not clear while the attempt may be at work.
Shows(c, n) == \/ c.state[n] = "completed"
               \/ c.state[n] = "failed" /\ c.kind[n] = "timeout"

Remembered(n) ==
  \/ state[n] = "completed" /\ pc[n] = "idle"
  \/ /\ state[n] = "failed" /\ kind[n] = "timeout"
     /\ pc[n] \in {"ending", "endSaving", "settled", "idle"}

ShownFrom(n, i) == \A j \in i..Len(checkpoints) : Shows(checkpoints[j].snap, n)

AllShow(n) == Shows(disk, n) /\ ShownFrom(n, 1)

\* A save of w is on its way that shows the timeout, and so does what follows it.
Due(w, n) == \E i \in 1..Len(checkpoints) : checkpoints[i].by = w /\ ShownFrom(n, i)

\* The run has failed over the refused write and will save its own checkpoint.
RunWillSave(n) ==
  /\ ioFailures = 1 /\ rejected = {}
  /\ phase = "failing" \/ (phase = "storingFailure" /\ Due(Main, n))

OnItsWay(n) ==
  \/ AllShow(n)
  \/ pc[n] = "ending"
  \/ pc[n] = "endSaving" /\ (n \in rejected \/ Due(n, n))
  \/ RunWillSave(n)

TimeoutKept(n) ==
  live[n] = "abandoned" => IF phase = "down" THEN Shows(disk, n)
                           ELSE Remembered(n) /\ OnItsWay(n)

\* The one refused write is noticed before the run goes on.
OneRefusal ==
  /\ \A a, b \in rejected : a = b
  /\ rejected # {} /\ phase # "batch" => \A n \in Nodes : pc[n] \in {"idle", "settled"}

Undisturbed == crashes = 0 /\ ioFailures <= 1

TimeoutInv ==
  AloneInv /\ (Undisturbed => OneRefusal /\ \A n \in Watched : TimeoutKept(n))

LEMMA WatchedNodes ==
  \A n \in Watched : n \in Nodes /\ n \in SideEffecting /\ n \notin Fanned /\ n \in Writers
BY KindAssumption DEF Watched, Writers

-----------------------------------------------------------------------------
(* What becomes of the saves that show the timeout.                        *)

LEMMA TimeoutSaved ==
  ASSUME TypeOK, NEW n \in Nodes, Remembered(n), NEW w \in Writers, NEW s \in Statuses,
         Save(w, s), disk' = disk
  PROVE  /\ AllShow(n) => AllShow(n)'
         /\ \A v \in Writers : Due(v, n) => Due(v, n)'
         /\ Due(w, n)'
<1> DEFINE new == [by |-> w, snap |-> Snapshot(s)]
<1>1. new \in [by : Writers, snap : Checkpoint] /\ new.by = w /\ Shows(new.snap, n)
  BY SnapshotType DEF Snapshot, Remembered, Shows
<1>2. /\ Len(checkpoints) \in Nat /\ Len(checkpoints') = Len(checkpoints) + 1
      /\ \A i \in 1..Len(checkpoints) : checkpoints'[i] = checkpoints[i]
      /\ checkpoints'[Len(checkpoints) + 1] = new
  BY <1>1, QueueAppend DEF TypeOK, Save
<1> HIDE DEF new
<1>3. \A i \in 1..Len(checkpoints') :
        (\A j \in i..Len(checkpoints) : Shows(checkpoints[j].snap, n))
          => \A j \in i..Len(checkpoints') : Shows(checkpoints'[j].snap, n)
  BY <1>1, <1>2
<1>4. \A i \in 1..Len(checkpoints') : ShownFrom(n, i) => ShownFrom(n, i)'
  BY <1>3 DEF ShownFrom
<1>5. 1 \in 1..Len(checkpoints') /\ \A i \in 1..Len(checkpoints) : i \in 1..Len(checkpoints')
  BY <1>2
<1>6. AllShow(n) => AllShow(n)'
  BY <1>4, <1>5 DEF AllShow
<1>7. \A v \in Writers : Due(v, n) => Due(v, n)'
  BY <1>2, <1>4, <1>5 DEF Due
<1>8. ShownFrom(n, Len(checkpoints) + 1) /\ Len(checkpoints) + 1 \in 1..Len(checkpoints')
  BY <1>2 DEF ShownFrom
<1>9. Due(w, n)'
  BY <1>1, <1>2, <1>4, <1>8 DEF Due
<1> QED
  BY <1>6, <1>7, <1>9

LEMMA TimeoutWritten ==
  ASSUME TypeOK, NEW n \in Nodes, checkpoints # <<>>, checkpoints' = Tail(checkpoints)
  PROVE  /\ AllShow(n) /\ (disk' = disk \/ disk' = Head(checkpoints).snap) => AllShow(n)'
         /\ \A v \in Writers : Due(v, n) /\ disk' = Head(checkpoints).snap
                                 => Due(v, n)' \/ AllShow(n)'
         /\ \A v \in Writers : Due(v, n) => Due(v, n)' \/ v = Head(checkpoints).by
<1>1. /\ Head(checkpoints) = checkpoints[1] /\ Len(checkpoints) \in Nat \ {0}
      /\ Len(checkpoints') = Len(checkpoints) - 1
      /\ \A i \in 1..Len(checkpoints') : checkpoints'[i] = checkpoints[i + 1]
  BY QueueHead DEF TypeOK
<1>2. \A i \in 1..Len(checkpoints) : ShownFrom(n, i) => Shows(checkpoints[i].snap, n)
  BY <1>1 DEF ShownFrom
<1>3. \A i \in 1..Len(checkpoints) : ShownFrom(n, i) =>
        /\ i # 1 => i - 1 \in 1..Len(checkpoints') /\ ShownFrom(n, i - 1)'
                    /\ checkpoints'[i - 1] = checkpoints[i]
        /\ i = 1 => ShownFrom(n, 1)'
  <2> SUFFICES ASSUME NEW i \in 1..Len(checkpoints), ShownFrom(n, i)
               PROVE  /\ i # 1 => i - 1 \in 1..Len(checkpoints') /\ ShownFrom(n, i - 1)'
                                  /\ checkpoints'[i - 1] = checkpoints[i]
                      /\ i = 1 => ShownFrom(n, 1)'
    OBVIOUS
  <2>1. \A j \in (i - 1)..Len(checkpoints') : j \in 1..Len(checkpoints') =>
          j + 1 \in i..Len(checkpoints) /\ checkpoints'[j] = checkpoints[j + 1]
    BY <1>1
  <2>2. \A j \in (i - 1)..Len(checkpoints') : j \in 1..Len(checkpoints')
          => Shows(checkpoints'[j].snap, n)
    BY <2>1 DEF ShownFrom
  <2>3. /\ i # 1 => i - 1 \in 1..Len(checkpoints')
        /\ i # 1 => \A j \in (i - 1)..Len(checkpoints') : j \in 1..Len(checkpoints')
        /\ i = 1 => \A j \in 1..Len(checkpoints') : j \in (i - 1)..Len(checkpoints')
    BY <1>1
  <2>4. i # 1 => checkpoints'[i - 1] = checkpoints[i]
    BY <1>1, <2>3
  <2> QED
    BY <2>2, <2>3, <2>4 DEF ShownFrom
<1>4. ASSUME AllShow(n), disk' = disk \/ disk' = Head(checkpoints).snap PROVE AllShow(n)'
  <2>1. Shows(disk, n)'
    BY <1>1, <1>2, <1>4 DEF AllShow, Shows
  <2>2. ShownFrom(n, 1)'
    BY <1>1, <1>3, <1>4 DEF AllShow
  <2> QED
    BY <2>1, <2>2 DEF AllShow
<1>5. ASSUME NEW v \in Writers, Due(v, n)
      PROVE  \/ Due(v, n)'
             \/ v = Head(checkpoints).by /\ (disk' = Head(checkpoints).snap => AllShow(n)')
  <2>1. PICK i \in 1..Len(checkpoints) : checkpoints[i].by = v /\ ShownFrom(n, i)
    BY <1>5 DEF Due
  <2>2. CASE i = 1
    BY <1>1, <1>2, <1>3, <2>1, <2>2 DEF AllShow, Shows
  <2>3. CASE i # 1
    BY <1>3, <2>1, <2>3 DEF Due
  <2> QED
    BY <2>2, <2>3
<1> QED
  BY <1>4, <1>5

-----------------------------------------------------------------------------
(* The steps of the argument.                                              *)

\* Deaths of the process and refused writes are counted and never forgotten.
LEMMA UndisturbedBefore ==
  ASSUME TypeOK, [Next]_vars, Undisturbed' PROVE Undisturbed /\ ~Crash
<1> USE DEF progress, world, bounds, queues
<1>1. /\ ioFailures' = ioFailures \/ ioFailures' = ioFailures + 1
      /\ crashes' = crashes \/ (Crash /\ crashes' = crashes + 1)
  BY DEF Next, Io, EventWritten, CheckpointWritten, EventRefused, CheckpointRefused,
       NodeContinues, StartLogged, DeadlinePassed, PassGate, StopAtGate, RunLocally,
       FailBeforeExecution, Launch, EndLogged, EndSaved, CompletionRefused, NodeRefused,
       Watchdog, ExecutorAnswers, Return, Raise, ExecutorEnds, MainContinues, OpenLogged,
       OpenSaved, Skip, SkipsLogged, SkipsSaved, Dispatch, BatchDone, Block, Finish,
       EndingLogged, EndingSaved, MainRefused, Exit, TimePasses, Crash, Operator, Start,
       Resume, ReconcileCompleted, ReconcileNotApplied, vars
<1>2. Crash => crashes' = crashes + 1
  BY DEF Crash
<1> QED
  BY <1>1, <1>2 DEF TypeOK, Undisturbed

\* Nothing is refused any more, or what was refused is still waited for.
LEMMA RefusalStays ==
  ASSUME OneRefusal,
         \/ rejected' = {}
         \/ /\ rejected' = rejected
            /\ rejected # {} /\ phase' # "batch" =>
                 \/ phase # "batch" /\ pc' = pc
                 \/ \A n \in Nodes : pc'[n] \in {"idle", "settled"}
  PROVE  OneRefusal'
BY DEF OneRefusal

LEMMA RefusalStep ==
  ASSUME TimeoutInv, [Next]_vars, Undisturbed, Undisturbed', ~Crash PROVE OneRefusal'
<1> USE DEF progress, world, bounds, queues
<1>0. TypeOK /\ Asleep /\ OneRefusal /\ (ioFailures = 0 => Alone)
  BY DEF TimeoutInv, AloneInv, SchedulerInv, GateInv
<1>1. CASE EventWritten \/ CheckpointWritten \/ TimePasses \/ UNCHANGED vars
  BY <1>0, <1>1, RefusalStays DEF EventWritten, CheckpointWritten, TimePasses, vars
<1>2. CASE EventRefused \/ CheckpointRefused
  <2>1. PICK w : /\ rejected' = rejected \cup {w} /\ ioFailures' = ioFailures + 1
                 /\ UNCHANGED <<phase, pc>>
    BY <1>2 DEF EventRefused, CheckpointRefused
  <2>2. ioFailures = 0
    BY <1>0, <2>1 DEF Undisturbed, TypeOK
  <2> QED
    BY <1>0, <2>1, <2>2 DEF Alone, OneRefusal
<1>3. CASE Operator
  <2>1. phase = "down" /\ rejected' = rejected
    BY <1>3 DEF Operator, Start, Resume, ReconcileCompleted, ReconcileNotApplied
  <2> QED
    BY <1>0, <2>1, RefusalStays DEF Asleep
<1>4. ASSUME NEW n \in Nodes, NodeContinues(n) \/ ExecutorAnswers(n) PROVE OneRefusal'
  <2>1. CASE CompletionRefused(n) \/ NodeRefused(n)
    <3>1. n \in rejected /\ rejected' = rejected \ {n}
      BY <2>1 DEF CompletionRefused, NodeRefused
    <3>2. rejected' = {}
      BY <1>0, <3>1 DEF OneRefusal
    <3> QED
      BY <1>0, <3>2, RefusalStays
  <2>2. CASE ExecutorEnds(n)
    BY <1>0, <2>2, RefusalStays DEF ExecutorEnds
  <2>3. CASE ~(CompletionRefused(n) \/ NodeRefused(n) \/ ExecutorEnds(n))
    <3>1. pc[n] \notin {"idle", "settled"} /\ UNCHANGED <<phase, rejected>>
      BY <1>4, <2>3 DEF NodeContinues, StartLogged, DeadlinePassed, PassGate, StopAtGate,
           RunLocally, FailBeforeExecution, Launch, EndLogged, EndSaved, Watchdog, Ready,
           ExecutorAnswers, Return, Raise
    <3> QED
      BY <1>0, <3>1 DEF OneRefusal
  <2> QED
    BY <2>1, <2>2, <2>3
<1>5. CASE MainContinues
  <2>1. CASE MainRefused
    <3>1. rejected' = {}
      BY <1>0, <2>1 DEF MainRefused, OneRefusal
    <3> QED
      BY <1>0, <3>1, RefusalStays
  <2>2. CASE Exit \/ Dispatch
    <3>1. rejected' = {} \/ (rejected' = rejected /\ phase' = "batch")
      BY <2>2 DEF Exit, PowerOff, Dispatch
    <3> QED
      BY <1>0, <3>1, RefusalStays
  <2>3. CASE BatchDone
    <3>1. rejected' = rejected /\ \A n \in Nodes : pc'[n] \in {"idle", "settled"}
      BY <2>3 DEF BatchDone, BatchSettled
    <3> QED
      BY <1>0, <3>1, RefusalStays
  <2>4. CASE ~(MainRefused \/ Exit \/ Dispatch \/ BatchDone)
    <3>1. UNCHANGED <<rejected, pc>> /\ phase # "batch"
      BY <1>5, <2>4 DEF MainContinues, OpenLogged, OpenSaved, Skip, SkipsLogged, SkipsSaved,
           Block, Finish, EndingLogged, EndingSaved, MainWrote, Deciding, FinalStatus
    <3> QED
      BY <1>0, <3>1, RefusalStays
  <2> QED
    BY <2>1, <2>2, <2>3, <2>4
<1> QED
  BY <1>1, <1>2, <1>3, <1>4, <1>5 DEF Next, Io

\* A step that leaves the node alone, and saves what memory shows or nothing.
LEMMA TimeoutStays ==
  ASSUME TypeOK, NEW n \in Nodes, Remembered(n), OnItsWay(n),
         state'[n] = state[n], kind'[n] = kind[n],
         pc'[n] = pc[n] \/ (pc[n] = "settled" /\ pc'[n] = "idle"),
         UNCHANGED <<disk, ioFailures>>,
         checkpoints' = checkpoints \/ \E w \in Writers, s \in Statuses : Save(w, s),
         n \in rejected => n \in rejected', rejected = {} => rejected' = {},
         RunWillSave(n) => phase' = phase \/ RunWillSave(n)'
  PROVE  Remembered(n)' /\ OnItsWay(n)'
<1>1. Remembered(n)'
  BY DEF Remembered
<1>2. /\ AllShow(n) => AllShow(n)'
      /\ \A v \in Writers : Due(v, n) => Due(v, n)'
  <2>1. CASE checkpoints' = checkpoints
    BY <2>1 DEF AllShow, Due, ShownFrom
  <2>2. CASE \E w \in Writers, s \in Statuses : Save(w, s)
    BY <2>2, TimeoutSaved
  <2> QED
    BY <2>1, <2>2
<1>3. n \in Writers /\ Main \in Writers
  BY DEF Writers
<1>4. RunWillSave(n) => RunWillSave(n)'
  BY <1>2, <1>3 DEF RunWillSave
<1>5. (n \in rejected \/ Due(n, n)) => (n \in rejected' \/ Due(n, n)')
  BY <1>2, <1>3
<1>6. pc[n] \in {"ending", "endSaving"} => pc'[n] = pc[n]
  OBVIOUS
<1> QED
  BY <1>1, <1>2, <1>4, <1>5, <1>6 DEF OnItsWay

LEMMA TimeoutNodeStep ==
  ASSUME TimeoutInv, Undisturbed, NEW n \in Watched, NEW m \in Nodes, NodeContinues(m)
  PROVE  TimeoutKept(n)'
<1> USE DEF progress, world, bounds, queues
<1>0. /\ TypeOK /\ Asleep /\ OneRefusal /\ TimeoutKept(n) /\ (ioFailures = 0 => rejected = {})
      /\ n \in Nodes /\ n \in SideEffecting /\ n \notin Fanned /\ ioFailures <= 1
      /\ m \in Writers /\ "running" \in Statuses
  BY WatchedNodes DEF TimeoutInv, AloneInv, SchedulerInv, GateInv, Alone, Undisturbed, Writers,
     Statuses
<1>1. phase # "down" /\ phase' # "down"
  BY <1>0, NodeAwake
<1>2. SUFFICES ASSUME live'[n] = "abandoned" PROVE Remembered(n)' /\ OnItsWay(n)'
  BY <1>1 DEF TimeoutKept
<1>3. CASE \E u \in PartialCosts(m) : Watchdog(m, u) /\ m = n
  <2>1. pc'[n] = "ending" /\ state'[n] = "failed" /\ kind'[n] = "timeout"
    BY <1>0, <1>3 DEF Watchdog, Fail, TypeOK
  <2> QED
    BY <2>1 DEF Remembered, OnItsWay
<1>4. CASE ~(\E u \in PartialCosts(m) : Watchdog(m, u) /\ m = n)
  <2>1. live[n] = "abandoned"
    BY <1>0, <1>2, <1>4 DEF NodeContinues, StartLogged, DeadlinePassed, PassGate, StopAtGate,
       RunLocally, FailBeforeExecution, Launch, EndLogged, EndSaved, CompletionRefused,
       NodeRefused, Watchdog, Became, TypeOK
  <2>2. Remembered(n) /\ OnItsWay(n)
    BY <1>0, <1>1, <2>1 DEF TimeoutKept
  <2>3. UNCHANGED <<disk, ioFailures>>
    BY DEF NodeContinues, StartLogged, DeadlinePassed, PassGate, StopAtGate, RunLocally,
       FailBeforeExecution, Launch, EndLogged, EndSaved, CompletionRefused, NodeRefused, Watchdog
  <2>4. checkpoints' = checkpoints \/ Save(m, "running")
    BY DEF NodeContinues, StartLogged, DeadlinePassed, PassGate, StopAtGate, RunLocally,
       FailBeforeExecution, Launch, EndLogged, EndSaved, CompletionRefused, NodeRefused, Watchdog
  <2>5. phase' = phase \/ (NodeRefused(m) /\ rejected # {} /\ phase = "batch" /\ phase' = "failing")
    BY DEF NodeContinues, StartLogged, DeadlinePassed, PassGate, StopAtGate, RunLocally,
       FailBeforeExecution, Launch, EndLogged, EndSaved, CompletionRefused, NodeRefused, Watchdog,
       RunFails
  <2>6. CASE m # n
    <3>1. state'[n] = state[n] /\ kind'[n] = kind[n] /\ pc'[n] = pc[n]
      BY <1>0, <2>6 DEF NodeContinues, StartLogged, DeadlinePassed, PassGate, StopAtGate,
         RunLocally, FailBeforeExecution, Launch, EndLogged, EndSaved, CompletionRefused,
         NodeRefused, Watchdog, Fail, Publish, TypeOK
    <3>2. rejected' = rejected \/ rejected' = rejected \ {m}
      BY DEF NodeContinues, StartLogged, DeadlinePassed, PassGate, StopAtGate, RunLocally,
         FailBeforeExecution, Launch, EndLogged, EndSaved, CompletionRefused, NodeRefused,
         Watchdog
    <3>3. RunWillSave(n) => phase' = phase
      BY <2>5 DEF RunWillSave
    <3>4. n \in rejected => n \in rejected'
      BY <2>6, <3>2
    <3>5. rejected = {} => rejected' = {}
      BY <3>2
    <3> QED
      BY <1>0, <2>2, <2>3, <2>4, <3>1, <3>3, <3>4, <3>5, TimeoutStays
  <2>7. CASE m = n /\ NodeRefused(n)
    <3>1. /\ n \in rejected /\ pc[n] \notin {"idle", "settled"} /\ pc'[n] = "settled"
          /\ rejected' = rejected \ {n} /\ UNCHANGED <<state, kind>>
      BY <1>0, <2>7 DEF NodeRefused, TypeOK
    <3>2. phase = "batch" /\ rejected' = {} /\ ioFailures = 1
      BY <1>0, <3>1 DEF OneRefusal, TypeOK
    <3>3. phase' = "failing"
      BY <2>7, <3>2 DEF NodeRefused, RunFails
    <3>4. RunWillSave(n)'
      BY <2>3, <3>2, <3>3 DEF RunWillSave
    <3>5. Remembered(n)'
      BY <2>2, <3>1 DEF Remembered
    <3> QED
      BY <3>4, <3>5 DEF OnItsWay
  <2>8. CASE m = n /\ EndLogged(n)
    <3>1. /\ pc[n] = "ending" /\ pc'[n] = "endSaving" /\ UNCHANGED <<state, kind, disk>>
          /\ Save(n, "running")
      BY <1>0, <2>8 DEF EndLogged, TypeOK
    <3>2. Due(n, n)'
      BY <1>0, <2>2, <2>8, <3>1, TimeoutSaved
    <3>3. Remembered(n)'
      BY <2>2, <3>1 DEF Remembered
    <3> QED
      BY <3>1, <3>2, <3>3 DEF OnItsWay
  <2>9. CASE m = n /\ EndSaved(n)
    <3>1. /\ pc[n] = "endSaving" /\ pc'[n] = "settled" /\ Written(n)
          /\ UNCHANGED <<state, kind, disk, checkpoints, phase, rejected, ioFailures>>
      BY <1>0, <2>9 DEF EndSaved, TypeOK
    <3>2. n \notin rejected /\ ~Due(n, n)
      BY <3>1 DEF Written, Due
    <3>3. AllShow(n) \/ RunWillSave(n)
      BY <2>2, <3>1, <3>2 DEF OnItsWay
    <3>4. AllShow(n)' \/ RunWillSave(n)'
      BY <3>1, <3>3 DEF AllShow, RunWillSave, ShownFrom, Due
    <3>5. Remembered(n)'
      BY <2>2, <3>1 DEF Remembered
    <3> QED
      BY <3>4, <3>5 DEF OnItsWay
  <2>10. m = n => NodeRefused(n) \/ EndLogged(n) \/ EndSaved(n)
    <3>1. pc[n] \notin {"starting", "saving", "executing"} /\ (pc[n] # "idle" => state[n] # "completed")
      BY <2>2 DEF Remembered
    <3> QED
      BY <3>1 DEF NodeContinues, StartLogged, DeadlinePassed, PassGate, StopAtGate, RunLocally,
         FailBeforeExecution, Launch, CompletionRefused, Watchdog, Ready
  <2> QED
    BY <2>6, <2>7, <2>8, <2>9, <2>10
<1> QED
  BY <1>3, <1>4

LEMMA TimeoutAnswerStep ==
  ASSUME TimeoutInv, Undisturbed, NEW n \in Watched, NEW m \in Nodes, ExecutorAnswers(m)
  PROVE  TimeoutKept(n)'
<1> USE DEF progress, world, bounds, queues
<1>0. /\ TypeOK /\ Asleep /\ TimeoutKept(n)
      /\ n \in Nodes /\ n \in SideEffecting /\ n \notin Fanned
  BY WatchedNodes DEF TimeoutInv, AloneInv, SchedulerInv, GateInv
<1>1. SUFFICES ASSUME live'[n] = "abandoned" PROVE TimeoutKept(n)'
  BY DEF TimeoutKept
<1>2. live[n] = "abandoned"
  BY <1>0, <1>1 DEF ExecutorAnswers, Return, Raise, ExecutorEnds, Became, TypeOK
<1>3. CASE ExecutorEnds(m)
  <2>1. UNCHANGED <<phase, pc, state, kind, checkpoints, rejected, disk, ioFailures>>
    BY <1>3 DEF ExecutorEnds
  <2> QED
    BY <1>0, <1>2, <2>1 DEF TimeoutKept, Remembered, OnItsWay, AllShow, ShownFrom, Due, RunWillSave
<1>4. CASE ~ExecutorEnds(m)
  <2>1. phase # "down" /\ phase' # "down"
    BY <1>0, <1>4, AnswerAwake
  <2>2. Remembered(n) /\ OnItsWay(n)
    BY <1>0, <1>2, <2>1 DEF TimeoutKept
  <2>3. pc[m] = "executing" /\ UNCHANGED <<disk, ioFailures, checkpoints, rejected, phase>>
    BY <1>4 DEF ExecutorAnswers, Return, Raise
  <2>4. m # n
    BY <2>2, <2>3 DEF Remembered
  <2>5. state'[n] = state[n] /\ kind'[n] = kind[n] /\ pc'[n] = pc[n]
    BY <1>0, <1>4, <2>4 DEF ExecutorAnswers, Return, Raise, Publish, Fail, TypeOK
  <2>6. Remembered(n)' /\ OnItsWay(n)'
    BY <1>0, <2>2, <2>3, <2>5, TimeoutStays
  <2> QED
    BY <2>1, <2>6 DEF TimeoutKept
<1> QED
  BY <1>3, <1>4

LEMMA TimeoutMainStep ==
  ASSUME TimeoutInv, Undisturbed, NEW n \in Watched, MainContinues PROVE TimeoutKept(n)'
<1> USE DEF progress, world, bounds, queues
<1>0. /\ TypeOK /\ Asleep /\ TimeoutKept(n) /\ n \in Nodes /\ n \in Writers
      /\ Main \in Writers /\ Main # n /\ "running" \in Statuses
  BY WatchedNodes, GraphAssumption DEF TimeoutInv, AloneInv, SchedulerInv, GateInv, Writers, Statuses
<1>1. SUFFICES ASSUME live'[n] = "abandoned" PROVE TimeoutKept(n)'
  BY DEF TimeoutKept
<1>2. live' = live
  BY DEF MainContinues, OpenLogged, OpenSaved, Skip, SkipsLogged, SkipsSaved, Dispatch, BatchDone,
     Block, Finish, EndingLogged, EndingSaved, MainRefused, Exit, PowerOff
<1>3. CASE Exit
  <2>1. /\ phase = "exited" /\ pc[n] \in {"idle", "settled"} /\ phase' = "down" /\ disk' = disk
    BY <1>0, <1>3 DEF Exit, PowerOff
  <2>2. AllShow(n)
    BY <1>0, <1>1, <1>2, <2>1 DEF TimeoutKept, OnItsWay, RunWillSave
  <2> QED
    BY <2>1, <2>2 DEF TimeoutKept, AllShow, Shows
<1>4. CASE ~Exit
  <2>1. phase # "down" /\ phase' # "down"
    BY <1>0, <1>4, MainAwake
  <2>2. Remembered(n) /\ OnItsWay(n)
    BY <1>0, <1>1, <1>2, <2>1 DEF TimeoutKept
  <2>3. UNCHANGED <<disk, ioFailures>>
    BY <1>4 DEF MainContinues, OpenLogged, OpenSaved, Skip, SkipsLogged, SkipsSaved, Dispatch,
       BatchDone, Block, Finish, EndingLogged, EndingSaved, MainRefused
  <2>4. checkpoints' = checkpoints \/ \E s \in Statuses : Save(Main, s)
    <3>1. CASE EndingLogged
      <4>1. Save(Main, FinalStatus[phase]) /\ FinalStatus[phase] \in Statuses
        BY <3>1 DEF EndingLogged, FinalStatus, Statuses
      <4> QED
        BY <4>1
    <3>2. CASE OpenLogged \/ SkipsLogged
      BY <1>0, <3>2 DEF OpenLogged, SkipsLogged
    <3>3. CASE ~(EndingLogged \/ OpenLogged \/ SkipsLogged)
      BY <1>4, <3>3 DEF MainContinues, OpenSaved, Skip, SkipsSaved, Dispatch, BatchDone, Block,
         Finish, EndingSaved, MainRefused
    <3> QED
      BY <3>1, <3>2, <3>3
  <2>5. state'[n] = state[n] /\ kind'[n] = kind[n]
    <3>1. state[n] # "pending"
      BY <2>2 DEF Remembered
    <3>2. CASE Dispatch
      <4>1. PICK B \in SUBSET Runnable :
              state' = [m \in Nodes |-> IF m \in B THEN "running" ELSE state[m]]
        BY <3>2, DispatchedSet
      <4>2. n \notin B
        BY <3>1, <4>1 DEF Runnable, Pending
      <4> QED
        BY <1>0, <3>2, <4>1, <4>2 DEF Dispatch
    <3>3. CASE \E m \in Nodes : Skip(m)
      BY <1>0, <3>1, <3>3 DEF Skip, Doomed, Pending, TypeOK
    <3>4. CASE ~(Dispatch \/ \E m \in Nodes : Skip(m))
      BY <1>4, <3>4 DEF MainContinues, OpenLogged, OpenSaved, SkipsLogged, SkipsSaved, BatchDone,
         Block, Finish, EndingLogged, EndingSaved, MainRefused
    <3> QED
      BY <3>2, <3>3, <3>4
  <2>6. pc'[n] = pc[n] \/ (pc[n] = "settled" /\ pc'[n] = "idle")
    <3>1. CASE Dispatch
      <4>1. PICK B \in SUBSET Runnable :
              pc' = [m \in Nodes |-> IF m \in B THEN "starting" ELSE pc[m]]
        BY <3>1, DispatchedSet
      <4>2. n \notin B
        BY <2>2, <4>1 DEF Runnable, Pending, Remembered
      <4> QED
        BY <1>0, <4>1, <4>2
    <3>2. CASE BatchDone
      BY <1>0, <3>2 DEF BatchDone
    <3>3. CASE ~(Dispatch \/ BatchDone)
      BY <1>4, <3>3 DEF MainContinues, OpenLogged, OpenSaved, Skip, SkipsLogged, SkipsSaved,
         Block, Finish, EndingLogged, EndingSaved, MainRefused
    <3> QED
      BY <3>1, <3>2, <3>3
  <2>7. rejected' = rejected \/ rejected' = rejected \ {Main}
    BY <1>4 DEF MainContinues, OpenLogged, OpenSaved, Skip, SkipsLogged, SkipsSaved, Dispatch,
       BatchDone, Block, Finish, EndingLogged, EndingSaved, MainRefused
  <2>8. RunWillSave(n) => phase' = phase \/ RunWillSave(n)'
    <3> SUFFICES ASSUME RunWillSave(n), phase' # phase PROVE RunWillSave(n)'
      OBVIOUS
    <3>1. phase \in {"failing", "storingFailure"} /\ rejected = {} /\ ioFailures = 1
      BY DEF RunWillSave
    <3>2. EndingLogged \/ EndingSaved
      BY <1>4, <3>1 DEF MainContinues, OpenLogged, OpenSaved, Skip, SkipsLogged, SkipsSaved,
         Dispatch, BatchDone, Block, Finish, MainRefused, MainWrote, Deciding
    <3>3. ~EndingSaved
      BY <3>1 DEF EndingSaved, RunWillSave, Written, Due
    <3>4. /\ phase = "failing" /\ phase' = "storingFailure" /\ rejected' = rejected
          /\ Save(Main, FinalStatus[phase]) /\ FinalStatus[phase] \in Statuses
      BY <3>1, <3>2, <3>3 DEF EndingLogged, FinalStatus, Statuses
    <3>5. Due(Main, n)'
      BY <1>0, <2>2, <2>3, <3>4, TimeoutSaved
    <3> QED
      BY <2>3, <3>1, <3>4, <3>5 DEF RunWillSave
  <2>9. (n \in rejected => n \in rejected') /\ (rejected = {} => rejected' = {})
    BY <1>0, <2>7
  <2>10. Remembered(n)' /\ OnItsWay(n)'
    BY <1>0, <2>2, <2>3, <2>4, <2>5, <2>6, <2>8, <2>9, TimeoutStays
  <2> QED
    BY <2>1, <2>10 DEF TimeoutKept
<1> QED
  BY <1>3, <1>4

\* A resume waits until the operator has settled what timed out, and the operator
\* does not clear it while the attempt may be at work.
LEMMA TimeoutOperatorStep ==
  ASSUME TimeoutInv, Undisturbed, NEW n \in Watched, Operator
  PROVE  TimeoutKept(n)' /\ (live[n] = "abandoned" => attempts'[n] = attempts[n])
<1> USE DEF progress, world, bounds, queues
<1>0. /\ TypeOK /\ Asleep /\ TimeoutKept(n) /\ n \in Nodes /\ n \in SideEffecting
  BY WatchedNodes DEF TimeoutInv, AloneInv, SchedulerInv, GateInv
<1>1. phase = "down" /\ live' = live
  BY DEF Operator, Start, Resume, ReconcileCompleted, ReconcileNotApplied
<1>2. SUFFICES ASSUME live[n] = "abandoned" PROVE TimeoutKept(n)' /\ attempts'[n] = attempts[n]
  BY <1>1 DEF TimeoutKept
<1>3. Shows(disk, n)
  BY <1>0, <1>1, <1>2 DEF TimeoutKept
<1>4. ~\E A \in SUBSET Gates : Start(A)
  BY <1>0, <1>3 DEF Start, Asleep, NoCheckpoint, Shows
<1>5. ASSUME NEW A \in SUBSET Gates, Resume(A) PROVE TimeoutKept(n)' /\ attempts' = attempts
  <2>1. disk.state[n] = "completed"
    BY <1>0, <1>3, <1>5 DEF Resume, Uncertain, Shows
  <2>2. /\ state'[n] = "completed" /\ phase' = "opening" /\ UNCHANGED <<disk, checkpoints, pc>>
        /\ attempts' = attempts
    BY <1>0, <1>5, <2>1 DEF Resume, Restored, Kept
  <2>3. pc[n] = "idle" /\ Len(checkpoints) = 0
    BY <1>0, <1>1 DEF Asleep
  <2>4. AllShow(n)'
    BY <1>3, <2>2, <2>3 DEF AllShow, ShownFrom, Shows
  <2> QED
    BY <2>2, <2>3, <2>4 DEF TimeoutKept, Remembered, OnItsWay
<1>6. ASSUME NEW m \in Nodes, ReconcileCompleted(m) \/ ReconcileNotApplied(m)
      PROVE  TimeoutKept(n)' /\ attempts'[n] = attempts[n]
  <2>1. /\ disk \in Checkpoint /\ disk.state \in [Nodes -> States] /\ disk.kind \in [Nodes -> Kinds]
    BY <1>0 DEF TypeOK, Checkpoint
  <2>2. m = n => ~ReconcileNotApplied(m)
    BY <1>2, <1>3 DEF ReconcileNotApplied, NeedsTermination, Uncertain, Shows
  <2>3. attempts'[n] = attempts[n] /\ phase' = "down"
    BY <1>0, <1>1, <1>6, <2>2 DEF TypeOK, ReconcileCompleted, ReconcileNotApplied
  <2>4. CASE ReconcileCompleted(m)
    <3>1. /\ disk'.state = [disk.state EXCEPT ![m] = "completed"]
          /\ disk'.kind = [disk.kind EXCEPT ![m] = "none"]
      BY <2>1, <2>4 DEF ReconcileCompleted, Checkpoint
    <3>2. Shows(disk, n)'
      BY <1>0, <1>3, <2>1, <3>1 DEF Shows
    <3> QED
      BY <2>3, <3>2 DEF TimeoutKept
  <2>5. CASE ReconcileNotApplied(m)
    <3>1. /\ disk'.state = [disk.state EXCEPT ![m] = "pending"]
          /\ disk'.kind = [disk.kind EXCEPT ![m] = "none"]
      BY <2>1, <2>5 DEF ReconcileNotApplied, Checkpoint
    <3>2. Shows(disk, n)'
      BY <1>0, <1>3, <2>1, <2>2, <2>5, <3>1 DEF Shows
    <3> QED
      BY <2>3, <3>2 DEF TimeoutKept
  <2> QED
    BY <1>6, <2>3, <2>4, <2>5
<1> QED
  BY <1>4, <1>5, <1>6 DEF Operator

LEMMA TimeoutWritingStep ==
  ASSUME TimeoutInv, Undisturbed, Undisturbed', NEW n \in Watched,
         CheckpointWritten \/ EventRefused \/ CheckpointRefused
  PROVE  TimeoutKept(n)'
<1> USE DEF progress, world, bounds, queues
<1>0. /\ TypeOK /\ Asleep /\ TimeoutKept(n) /\ n \in Nodes /\ n \in Writers /\ Main \in Writers
  BY WatchedNodes DEF TimeoutInv, AloneInv, SchedulerInv, GateInv, Writers
<1>1. /\ UNCHANGED <<phase, pc, state, kind, live>>
  BY DEF CheckpointWritten, EventRefused, CheckpointRefused
<1>2. phase # "down"
  BY <1>0 DEF Asleep, CheckpointWritten, EventRefused, CheckpointRefused
<1>3. SUFFICES ASSUME live[n] = "abandoned", Remembered(n), OnItsWay(n) PROVE OnItsWay(n)'
  BY <1>0, <1>1, <1>2 DEF TimeoutKept, Remembered
<1>4. CASE CheckpointWritten
  <2>1. /\ checkpoints # <<>> /\ checkpoints' = Tail(checkpoints)
        /\ disk' = Head(checkpoints).snap /\ UNCHANGED <<rejected, ioFailures>>
    BY <1>4 DEF CheckpointWritten
  <2>2. /\ AllShow(n) => AllShow(n)'
        /\ \A v \in Writers : Due(v, n) => Due(v, n)' \/ AllShow(n)'
    BY <1>0, <2>1, TimeoutWritten
  <2> QED
    BY <1>0, <1>1, <1>3, <2>1, <2>2 DEF OnItsWay, RunWillSave
<1>5. CASE CheckpointRefused
  <2>1. /\ checkpoints # <<>> /\ checkpoints' = Tail(checkpoints) /\ disk' = disk
        /\ rejected' = rejected \cup {Head(checkpoints).by} /\ ioFailures' = ioFailures + 1
    BY <1>5 DEF CheckpointRefused
  <2>2. /\ AllShow(n) => AllShow(n)'
        /\ Due(n, n) => Due(n, n)' \/ n \in rejected'
    BY <1>0, <2>1, TimeoutWritten
  <2>3. ~RunWillSave(n)
    BY <1>0, <2>1 DEF Undisturbed, RunWillSave, TypeOK
  <2> QED
    BY <1>1, <1>3, <2>1, <2>2, <2>3 DEF OnItsWay
<1>6. CASE EventRefused
  <2>1. /\ UNCHANGED <<checkpoints, disk>> /\ ioFailures' = ioFailures + 1
        /\ \A w \in rejected : w \in rejected'
    BY <1>6 DEF EventRefused
  <2>2. ~RunWillSave(n)
    BY <1>0, <2>1 DEF Undisturbed, RunWillSave, TypeOK
  <2> QED
    BY <1>1, <1>3, <2>1, <2>2 DEF OnItsWay, AllShow, ShownFrom, Due
<1> QED
  BY <1>4, <1>5, <1>6

LEMMA TimeoutInvStep == TimeoutInv /\ [Next]_vars => TimeoutInv'
<1> SUFFICES ASSUME TimeoutInv, [Next]_vars, Undisturbed'
             PROVE  OneRefusal' /\ \A n \in Watched : TimeoutKept(n)'
  BY AloneInvStep DEF TimeoutInv
<1> USE DEF progress, world, bounds, queues
<1>1. Undisturbed /\ ~Crash
  BY UndisturbedBefore DEF TimeoutInv, AloneInv, SchedulerInv, GateInv
<1>2. OneRefusal'
  BY <1>1, RefusalStep
<1>3. ASSUME NEW n \in Watched PROVE TimeoutKept(n)'
  <2>1. CASE EventWritten \/ TimePasses \/ UNCHANGED vars
    <3>1. UNCHANGED <<phase, pc, state, kind, checkpoints, rejected, disk, ioFailures, live>>
      BY <2>1 DEF EventWritten, TimePasses, vars
    <3>2. TimeoutKept(n)
      BY <1>1 DEF TimeoutInv
    <3> QED
      BY <3>1, <3>2 DEF TimeoutKept, Remembered, OnItsWay, AllShow, ShownFrom, Due, RunWillSave
  <2> QED
    BY <1>1, <2>1, TimeoutNodeStep, TimeoutAnswerStep, TimeoutMainStep, TimeoutOperatorStep,
       TimeoutWritingStep DEF Next, Io
<1> QED
  BY <1>2, <1>3

LEMMA TimeoutInitInv == Init => TimeoutInv
<1> SUFFICES ASSUME Init PROVE OneRefusal /\ \A n \in Watched : TimeoutKept(n)
  BY AloneInitInv DEF TimeoutInv
<1> QED
  BY WatchedNodes DEF Init, OneRefusal, TimeoutKept

\* An attempt that the watchdog gave up, and that may still be at work, is not
\* declared void, for every graph and any number of resumes and reconciliations, as
\* long as the process does not die and at most one write is refused: what the
\* operator meets on disk shows the timeout, and asks for evidence of its end.
THEOREM TimeoutsNeverOverlap == Spec => NoOverlapUncrashed
<1>1. TimeoutInv /\ [Next]_vars =>
        [crashes = 0 /\ ioFailures <= 1 => \A n \in SideEffecting \ Fanned :
           live[n] = "abandoned" /\ attempts[n] > 0 => attempts'[n] > 0]_attempts
  <2> SUFFICES ASSUME TimeoutInv, [Next]_vars, Undisturbed, attempts' # attempts,
                      NEW n \in Watched, live[n] = "abandoned", attempts[n] > 0
               PROVE  attempts'[n] > 0
    BY DEF Undisturbed, Watched
  <2> USE DEF progress, world, bounds, queues
  <2>1. CASE Operator
    BY <2>1, TimeoutOperatorStep
  <2>2. CASE ~Operator
    <3>1. PICK m \in Nodes : Launch(m)
      BY <2>2 DEF Next, Io, EventWritten, CheckpointWritten, EventRefused, CheckpointRefused,
         NodeContinues, StartLogged, DeadlinePassed, PassGate, StopAtGate, RunLocally,
         FailBeforeExecution, EndLogged, EndSaved, CompletionRefused, NodeRefused,
         Watchdog, ExecutorAnswers, Return, Raise, ExecutorEnds, MainContinues, OpenLogged,
         OpenSaved, Skip, SkipsLogged, SkipsSaved, Dispatch, BatchDone, Block, Finish,
         EndingLogged, EndingSaved, MainRefused, Exit, TimePasses, Crash, PowerOff, vars
    <3>2. attempts \in [SideEffecting -> Nat] /\ n \in SideEffecting
      BY WatchedNodes DEF TimeoutInv, AloneInv, SchedulerInv, GateInv, TypeOK
    <3> QED
      BY <3>1, <3>2 DEF Launch
  <2> QED
    BY <2>1, <2>2
<1> QED
  BY <1>1, TimeoutInitInv, TimeoutInvStep, PTL DEF Spec, NoOverlapUncrashed
-----------------------------------------------------------------------------
(* GraphRuntime implements RunRecord.  The disk, the saves on their way to   *)
(* it and the process stand in one order again, now of every node; and no    *)
(* node gets beyond "running" before the disk shows it.  The order begins    *)
(* with the opening checkpoint, which alone may take a node back.            *)

\* A later record of a node may show it so.
Later(a, b) == \/ a = b \/ a = "pending"
               \/ a = "running" /\ b \in {"completed", "failed", "blocked"}
               \/ a = "completed" /\ b = "failed"

Dooming == {"failed", "skipped"}

\* A later record of the run may follow an earlier one.
Leads(a, b) == \A n \in Nodes :
  /\ Later(a[n], b[n])
  /\ b[n] = "skipped" /\ a[n] # "skipped" => \E d \in Deps[n] : b[d] \in Dooming

\* Whatever record is written next, it shows of a node no more than a beginning.
Begins(a, b) == \A n \in Nodes : a[n] = "pending" => b[n] \in {"pending", "running", "skipped"}

InTurn ==
  /\ \A i \in 1..Len(checkpoints) :
       /\ Leads(disk.state, Recorded(i)) /\ Leads(Recorded(i), state)
       /\ Begins(disk.state, Recorded(i))
       /\ checkpoints[i].snap.status # "absent"
  /\ \A i, j \in 1..Len(checkpoints) : i <= j => Leads(Recorded(i), Recorded(j))
  /\ Leads(disk.state, state) /\ Begins(disk.state, state)

\* A node that acts, or is about to, is shown by the disk or will be by its own save.
OwnStart(n) ==
  /\ pc[n] # "idle" => state[n] # "pending"
  /\ pc[n] = "executing" => disk.state[n] # "pending"
  /\ pc[n] = "saving" => \/ disk.state[n] # "pending" \/ n \in rejected
                         \/ \E i \in 1..Len(checkpoints) : checkpoints[i].by = n
  /\ \A i \in 1..Len(checkpoints) :
       checkpoints[i].by = n => checkpoints[i].snap.state[n] # "pending"

\* The opening checkpoint has been written.
Telling ==
  /\ phase # "opening" /\ (phase = "openSaving" => checkpoints = <<>>)
  /\ disk.status # "absent"
  /\ InTurn /\ \A n \in Nodes : OwnStart(n)

\* It is on its way, or will be: the process has what resume takes over.
Opening ==
  /\ disk.status # "completed" /\ \A n \in Nodes : ~Uncertain(n)
  /\ \A n \in Nodes : state[n] # disk.state[n] => disk.state[n] # "completed" /\ state[n] = "pending"
  /\ usage = disk.usage /\ rejected = {}
  /\ \/ phase = "opening" /\ checkpoints = <<>> /\ events \in {<<>>, <<Main>>}
     \/ /\ phase = "openSaving" /\ events = <<>> /\ Len(checkpoints) = 1
        /\ checkpoints[1].by = Main /\ checkpoints[1].snap.state = state
        /\ checkpoints[1].snap.status = "running" /\ checkpoints[1].snap.usage = usage

\* It was refused: nothing is written any more.
Silenced ==
  /\ events = <<>> /\ checkpoints = <<>> /\ \A n \in Nodes : pc[n] = "idle"
  /\ \/ phase \in {"opening", "openSaving"} /\ rejected = {Main}
     \/ phase = "exited" /\ rejected = {}

RecordInv ==
  /\ CompletionInv /\ TokenInv
  /\ phase = "down" => usage = 0
  /\ phase # "down" => Telling \/ Opening \/ Silenced

-----------------------------------------------------------------------------
(* The order of the records.                                               *)

LEMMA LaterOn ==
  /\ \A a : Later(a, a)
  /\ \A a, b, c : Later(a, b) /\ Later(b, c) => Later(a, c)
  /\ \A a : Later(a, "pending") => a = "pending"
  /\ \A a : Later("skipped", a) => a = "skipped"
  /\ \A a, b : a \in Dooming /\ Later(a, b) => b \in Dooming
BY DEF Later, Dooming

LEMMA LeadsOn == /\ \A a : Leads(a, a) /\ Begins(a, a)
                 /\ \A a, b, c : Leads(a, b) /\ Leads(b, c) => Leads(a, c)
                 /\ \A a, b, c : Leads(a, b) /\ Begins(a, c) => Begins(b, c)
<1>1. \A a : Leads(a, a) /\ Begins(a, a)
  BY LaterOn DEF Leads, Begins
<1>2. ASSUME NEW a, NEW b, NEW c, Leads(a, b), Leads(b, c) PROVE Leads(a, c)
  <2> SUFFICES ASSUME NEW n \in Nodes
               PROVE  /\ Later(a[n], c[n])
                      /\ c[n] = "skipped" /\ a[n] # "skipped" => \E d \in Deps[n] : c[d] \in Dooming
    BY DEF Leads
  <2>1. Later(a[n], c[n])
    BY <1>2, LaterOn DEF Leads
  <2>2. ASSUME c[n] = "skipped", a[n] # "skipped" PROVE \E d \in Deps[n] : c[d] \in Dooming
    <3>1. CASE b[n] = "skipped"
      <4>1. PICK d \in Deps[n] : b[d] \in Dooming
        BY <1>2, <2>2, <3>1 DEF Leads
      <4>2. d \in Nodes
        BY GraphAssumption
      <4> QED
        BY <1>2, <4>1, <4>2, LaterOn DEF Leads
    <3>2. CASE b[n] # "skipped"
      BY <1>2, <2>2, <3>2 DEF Leads
    <3> QED
      BY <3>1, <3>2
  <2> QED
    BY <2>1, <2>2
<1>3. ASSUME NEW a, NEW b, NEW c, Leads(a, b), Begins(a, c) PROVE Begins(b, c)
  BY <1>3, LaterOn DEF Leads, Begins
<1> QED
  BY <1>1, <1>2, <1>3

LEMMA TurnSaving ==
  ASSUME TypeOK, InTurn, NEW w \in Writers, NEW s \in Statuses, Save(w, s), s # "absent",
         UNCHANGED <<state, disk>>
  PROVE  InTurn'
<1> DEFINE new == [by |-> w, snap |-> Snapshot(s)]
<1>1. /\ new \in [by : Writers, snap : Checkpoint]
      /\ new.snap.state = state /\ new.snap.status # "absent"
  BY SnapshotType DEF Snapshot
<1>2. /\ Len(checkpoints) \in Nat /\ Len(checkpoints') = Len(checkpoints) + 1
      /\ \A i \in 1..Len(checkpoints) : checkpoints'[i] = checkpoints[i]
      /\ checkpoints'[Len(checkpoints) + 1] = new
  BY <1>1, QueueAppend DEF TypeOK, Save
<1>3. \A i \in 1..Len(checkpoints') :
        \/ /\ i \in 1..Len(checkpoints) /\ Recorded(i)' = Recorded(i)
           /\ checkpoints'[i].snap.status = checkpoints[i].snap.status
        \/ /\ i = Len(checkpoints) + 1 /\ Recorded(i)' = state
           /\ checkpoints'[i].snap.status # "absent"
  BY <1>1, <1>2 DEF Recorded
<1>4. Leads(disk.state, state) /\ Leads(state, state) /\ Begins(disk.state, state)
  BY LeadsOn DEF InTurn
<1>5. \A i \in 1..Len(checkpoints) :
        /\ Leads(disk.state, Recorded(i)) /\ Leads(Recorded(i), state)
        /\ Begins(disk.state, Recorded(i)) /\ checkpoints[i].snap.status # "absent"
  BY DEF InTurn
<1>6. \A i \in 1..Len(checkpoints') :
        /\ Leads(disk.state, Recorded(i)') /\ Leads(Recorded(i)', state)
        /\ Begins(disk.state, Recorded(i)') /\ checkpoints'[i].snap.status # "absent"
  BY <1>3, <1>4, <1>5
<1>7. ASSUME NEW i \in 1..Len(checkpoints'), NEW j \in 1..Len(checkpoints'), i <= j
      PROVE  Leads(Recorded(i)', Recorded(j)')
  <2>1. CASE j \in 1..Len(checkpoints) /\ Recorded(j)' = Recorded(j)
    <3>1. i \in 1..Len(checkpoints) /\ Recorded(i)' = Recorded(i)
      BY <1>2, <1>3, <1>7, <2>1
    <3> QED
      BY <1>7, <2>1, <3>1 DEF InTurn
  <2>2. CASE Recorded(j)' = state
    BY <1>6, <2>2
  <2> QED
    BY <1>3, <2>1, <2>2
<1> QED
  BY <1>4, <1>6, <1>7 DEF InTurn

LEMMA TurnWriting ==
  ASSUME TypeOK, InTurn, checkpoints # <<>>, checkpoints' = Tail(checkpoints),
         disk' = Head(checkpoints).snap \/ disk' = disk, state' = state
  PROVE  /\ InTurn' /\ Leads(disk.state, disk'.state) /\ Begins(disk.state, disk'.state)
         /\ disk' # disk => disk'.status # "absent"
<1>1. /\ Head(checkpoints) = checkpoints[1] /\ Len(checkpoints) \in Nat \ {0}
      /\ Len(checkpoints') = Len(checkpoints) - 1
      /\ \A i \in 1..Len(checkpoints') : checkpoints'[i] = checkpoints[i + 1]
  BY QueueHead DEF TypeOK
<1>2. /\ 1 \in 1..Len(checkpoints)
      /\ \A i \in 1..Len(checkpoints') : /\ i + 1 \in 1..Len(checkpoints) /\ 1 <= i + 1
                                         /\ Recorded(i)' = Recorded(i + 1)
                                         /\ checkpoints'[i].snap.status = checkpoints[i + 1].snap.status
  BY <1>1 DEF Recorded
<1>3. /\ \A i \in 1..Len(checkpoints) :
           /\ Leads(disk.state, Recorded(i)) /\ Leads(Recorded(i), state)
           /\ Begins(disk.state, Recorded(i)) /\ checkpoints[i].snap.status # "absent"
      /\ \A i, j \in 1..Len(checkpoints) : i <= j => Leads(Recorded(i), Recorded(j))
      /\ Leads(disk.state, state) /\ Begins(disk.state, state)
  BY DEF InTurn
<1>4. \/ disk' = disk
      \/ disk'.state = Recorded(1) /\ disk'.status # "absent"
  BY <1>1, <1>2, <1>3 DEF Recorded
<1>5. Leads(disk.state, disk'.state) /\ Begins(disk.state, disk'.state)
  BY <1>2, <1>3, <1>4, LeadsOn
<1>6. Leads(disk'.state, state') /\ Begins(disk'.state, state')
  BY <1>2, <1>3, <1>4, <1>5, LeadsOn
<1>7. \A i \in 1..Len(checkpoints') :
        /\ Leads(disk'.state, Recorded(i)') /\ Begins(disk'.state, Recorded(i)')
        /\ Leads(Recorded(i)', state') /\ checkpoints'[i].snap.status # "absent"
  BY <1>2, <1>3, <1>4, <1>5, LeadsOn
<1>8. \A i, j \in 1..Len(checkpoints') : i <= j => Leads(Recorded(i)', Recorded(j)')
  BY <1>1, <1>2, <1>3
<1> QED
  BY <1>4, <1>5, <1>6, <1>7, <1>8 DEF InTurn

-----------------------------------------------------------------------------
(* The shapes of a step.                                                   *)

\* What a step that saves nothing may do to a node.
OwnMoves(n) ==
  /\ pc'[n] # "idle" => state'[n] # "pending"
  /\ pc'[n] = "executing" => disk.state[n] # "pending"
  /\ pc'[n] = "saving" => pc[n] = "saving" /\ (n \in rejected => n \in rejected')

LEMMA TellsQuiet ==
  ASSUME Telling, UNCHANGED <<checkpoints, disk>>,
         Leads(state, state'), Begins(disk.state, state'), \A n \in Nodes : OwnMoves(n),
         phase' # "opening", phase' = "openSaving" => phase = "openSaving"
  PROVE  Telling'
<1>1. InTurn'
  BY LeadsOn DEF Telling, InTurn, Recorded
<1>2. \A n \in Nodes : OwnStart(n)'
  BY DEF Telling, OwnStart, OwnMoves
<1> QED
  BY <1>1, <1>2 DEF Telling

LEMMA TellsSaving ==
  ASSUME TypeOK, Telling, NEW w \in Writers, NEW s \in Statuses, Save(w, s), s # "absent",
         UNCHANGED <<state, disk, rejected>>, phase' \notin {"opening", "openSaving"},
         \A n \in Nodes : \/ n # w /\ pc'[n] = pc[n]
                          \/ n = w /\ pc[n] # "idle" /\ pc'[n] \in {"saving", "endSaving"}
  PROVE  Telling'
<1> DEFINE new == [by |-> w, snap |-> Snapshot(s)]
<1>1. InTurn'
  BY TurnSaving DEF Telling
<1>2. new \in [by : Writers, snap : Checkpoint] /\ new.by = w /\ new.snap.state = state
  BY SnapshotType DEF Snapshot
<1>3. /\ Len(checkpoints) \in Nat /\ Len(checkpoints') = Len(checkpoints) + 1
      /\ \A i \in 1..Len(checkpoints) : checkpoints'[i] = checkpoints[i]
      /\ checkpoints'[Len(checkpoints) + 1] = new
  BY <1>2, QueueAppend DEF TypeOK, Save
<1>4. /\ \A i \in 1..Len(checkpoints) : i \in 1..Len(checkpoints') /\ checkpoints'[i] = checkpoints[i]
      /\ \A i \in 1..Len(checkpoints') : \/ i \in 1..Len(checkpoints) /\ checkpoints'[i] = checkpoints[i]
                                         \/ checkpoints'[i] = new
      /\ Len(checkpoints) + 1 \in 1..Len(checkpoints')
  BY <1>3
<1> HIDE DEF new
<1>5. ASSUME NEW n \in Nodes PROVE OwnStart(n)'
  <2>1. OwnStart(n)
    BY DEF Telling
  <2>2. CASE n # w /\ pc'[n] = pc[n]
    BY <1>2, <1>4, <2>1, <2>2 DEF OwnStart
  <2>3. CASE n = w /\ pc[n] # "idle" /\ pc'[n] \in {"saving", "endSaving"}
    <3>1. \E i \in 1..Len(checkpoints') : checkpoints'[i].by = n
      BY <1>2, <1>3, <1>4, <2>3
    <3> QED
      BY <1>2, <1>4, <2>1, <2>3, <3>1 DEF OwnStart
  <2> QED
    BY <2>2, <2>3
<1> QED
  BY <1>1, <1>5 DEF Telling

LEMMA TellsWriting ==
  ASSUME TypeOK, Telling, checkpoints # <<>>, checkpoints' = Tail(checkpoints),
         UNCHANGED <<phase, pc, state>>,
         \/ disk' = Head(checkpoints).snap /\ rejected' = rejected
         \/ disk' = disk /\ rejected' = rejected \cup {Head(checkpoints).by}
  PROVE  /\ Telling' /\ Leads(disk.state, disk'.state) /\ Begins(disk.state, disk'.state)
         /\ phase # "openSaving"
<1>1. /\ Head(checkpoints) = checkpoints[1] /\ Len(checkpoints) \in Nat \ {0}
      /\ Len(checkpoints') = Len(checkpoints) - 1
      /\ \A i \in 1..Len(checkpoints') : checkpoints'[i] = checkpoints[i + 1]
  BY QueueHead DEF TypeOK
<1>2. /\ InTurn' /\ Leads(disk.state, disk'.state) /\ Begins(disk.state, disk'.state)
      /\ disk'.status # "absent"
  BY TurnWriting DEF Telling
<1>3. /\ \A i \in 1..Len(checkpoints') : i + 1 \in 1..Len(checkpoints)
      /\ \A i \in 1..Len(checkpoints) : i = 1 \/ (i - 1 \in 1..Len(checkpoints') /\ checkpoints'[i - 1] = checkpoints[i])
      /\ 1 \in 1..Len(checkpoints)
  BY <1>1
<1>4. ASSUME NEW n \in Nodes PROVE OwnStart(n)'
  <2>1. OwnStart(n)
    BY DEF Telling
  <2>2. disk.state[n] # "pending" => disk'.state[n] # "pending"
    BY <1>2, LaterOn DEF Leads
  <2>3. ASSUME NEW i \in 1..Len(checkpoints), checkpoints[i].by = n
        PROVE  \/ disk'.state[n] # "pending" \/ n \in rejected'
               \/ \E j \in 1..Len(checkpoints') : checkpoints'[j].by = n
    <3>1. CASE i = 1
      BY <1>1, <2>1, <2>3, <3>1 DEF OwnStart
    <3>2. CASE i # 1
      BY <1>3, <2>3, <3>2
    <3> QED
      BY <3>1, <3>2
  <2>4. \A i \in 1..Len(checkpoints') :
          checkpoints'[i].by = n => checkpoints'[i].snap.state[n] # "pending"
    BY <1>1, <1>3, <2>1 DEF OwnStart
  <2> QED
    BY <2>1, <2>2, <2>3, <2>4 DEF OwnStart
<1> QED
  BY <1>2, <1>4 DEF Telling

-----------------------------------------------------------------------------
(* The steps of a process that has opened its run.                         *)

\* A node that is executed, or about to be, is shown running.
LEMMA ReadyIsShown ==
  ASSUME GateInv, Telling, NEW n \in Nodes, Ready(n) \/ pc[n] = "executing"
  PROVE  state[n] = "running" /\ disk.state[n] # "pending"
<1>1. InBatch(n) /\ OwnStart(n)
  BY DEF GateInv, Telling
<1>2. state[n] = "running"
  BY <1>1 DEF InBatch, Acting, Ready
<1>3. disk.state[n] # "pending"
  BY <1>1 DEF OwnStart, Ready, Written
<1> QED
  BY <1>2, <1>3

\* A node that the disk shows as begun gets a result.
LEMMA TellsResult ==
  ASSUME TypeOK, Telling, NEW n \in Nodes, disk.state[n] # "pending", NEW v,
         \/ state[n] = "running" /\ v \in {"completed", "failed", "blocked"}
         \/ state[n] = "completed" /\ v = "failed",
         state' = [state EXCEPT ![n] = v], pc' = [pc EXCEPT ![n] = "ending"],
         rejected' = rejected \/ rejected' = rejected \ {n},
         UNCHANGED <<phase, checkpoints, disk>>
  PROVE  Telling'
<1>1. /\ \A m \in Nodes : m # n => state'[m] = state[m] /\ pc'[m] = pc[m]
      /\ state'[n] = v /\ pc'[n] = "ending"
  BY DEF TypeOK
<1>2. Leads(state, state')
  BY <1>1 DEF Leads, Later
<1>3. Begins(disk.state, state')
  BY <1>1 DEF Telling, InTurn, Begins
<1>4. \A m \in Nodes : OwnMoves(m)
  BY <1>1 DEF Telling, OwnStart, OwnMoves
<1> QED
  BY <1>2, <1>3, <1>4, TellsQuiet DEF Telling

LEMMA TellsPublish ==
  ASSUME GateInv, Telling, NEW n \in Nodes, NEW u, Publish(n, u), Ready(n) \/ pc[n] = "executing",
         UNCHANGED <<phase, checkpoints, disk, rejected>>
  PROVE  Telling'
<1>1. state[n] = "running" /\ disk.state[n] # "pending" /\ TypeOK
  BY ReadyIsShown DEF GateInv
<1>2. \E v \in {"completed", "failed"} :
        state' = [state EXCEPT ![n] = v] /\ pc' = [pc EXCEPT ![n] = "ending"]
  BY DEF Publish, Fail
<1> QED
  BY <1>1, <1>2, TellsResult

\* The nodes stay as they are, and no coroutine goes where it must be shown.
LEMMA TellsStay ==
  ASSUME Telling, UNCHANGED <<state, checkpoints, disk>>,
         phase' # "opening", phase' = "openSaving" => phase = "openSaving",
         \A n \in Nodes : /\ pc'[n] # "idle" => pc[n] # "idle"
                          /\ pc'[n] = "executing" => disk.state[n] # "pending"
                          /\ pc'[n] = "saving" => /\ pc[n] = "saving"
                                                  /\ n \in rejected => n \in rejected'
  PROVE  Telling'
<1>1. Leads(state, state') /\ Begins(disk.state, state')
  BY LeadsOn DEF Telling, InTurn
<1>2. \A n \in Nodes : OwnMoves(n)
  BY DEF Telling, OwnStart, OwnMoves
<1> QED
  BY <1>1, <1>2, TellsQuiet

LEMMA TellsNodeStep ==
  ASSUME GateInv, Telling, NEW n \in Nodes, NodeContinues(n) PROVE Telling'
<1> USE DEF progress, world, bounds, queues
<1>0. TypeOK /\ InBatch(n) /\ OwnStart(n) /\ n \in Writers /\ "running" \in Statuses
  BY DEF GateInv, Telling, Writers, Statuses
<1>1. pc[n] # "idle" /\ phase \in Busy
  <2>1. pc[n] # "idle"
    BY DEF NodeContinues, StartLogged, DeadlinePassed, PassGate, StopAtGate, RunLocally,
         FailBeforeExecution, Launch, EndLogged, EndSaved, CompletionRefused,
         NodeRefused, Watchdog, Ready
  <2> QED
    BY <1>0, <2>1 DEF InBatch
<1>2. CASE StartLogged(n) \/ EndLogged(n)
  <2>1. /\ Save(n, "running") /\ UNCHANGED <<phase, state, disk, rejected>>
        /\ pc' = [pc EXCEPT ![n] = "saving"] \/ pc' = [pc EXCEPT ![n] = "endSaving"]
    BY <1>2 DEF StartLogged, EndLogged
  <2>2. \A m \in Nodes : \/ m # n /\ pc'[m] = pc[m]
                         \/ m = n /\ pc[m] # "idle" /\ pc'[m] \in {"saving", "endSaving"}
    BY <1>0, <1>1, <2>1 DEF TypeOK
  <2> QED
    BY <1>0, <1>1, <2>1, <2>2, TellsSaving DEF Busy
<1>3. CASE \/ DeadlinePassed(n) \/ FailBeforeExecution(n) \/ StopAtGate(n)
           \/ \E u \in PartialCosts(n) : Watchdog(n, u)
  <2>1. Ready(n) \/ pc[n] = "executing"
    BY <1>3 DEF DeadlinePassed, FailBeforeExecution, StopAtGate, Watchdog
  <2>2. \E v \in {"completed", "failed", "blocked"} :
          state' = [state EXCEPT ![n] = v] /\ pc' = [pc EXCEPT ![n] = "ending"]
    BY <1>3 DEF DeadlinePassed, FailBeforeExecution, StopAtGate, Watchdog, Fail
  <2>3. UNCHANGED <<phase, checkpoints, disk, rejected>>
    BY <1>3 DEF DeadlinePassed, FailBeforeExecution, StopAtGate, Watchdog
  <2> QED
    BY <1>0, <2>1, <2>2, <2>3, ReadyIsShown, TellsResult
<1>4. CASE PassGate(n) \/ RunLocally(n)
  BY <1>4, TellsPublish DEF PassGate, RunLocally
<1>5. CASE CompletionRefused(n)
  <2>1. disk.state[n] # "pending"
    BY <1>5 DEF CompletionRefused, Telling, InTurn, Begins
  <2> QED
    BY <1>0, <1>5, <2>1, TellsResult DEF CompletionRefused, Fail
<1>6. CASE Launch(n) \/ EndSaved(n) \/ NodeRefused(n)
  <2>1. UNCHANGED <<state, checkpoints, disk>> /\ phase' \in {phase, "failing"}
    BY <1>6 DEF Launch, EndSaved, NodeRefused, RunFails
  <2>2. /\ \A m \in Nodes : m # n => pc'[m] = pc[m] /\ (m \in rejected => m \in rejected')
        /\ pc'[n] \in {"settled", "executing"}
        /\ pc'[n] = "executing" => Ready(n)
    BY <1>0, <1>6 DEF Launch, EndSaved, NodeRefused, TypeOK
  <2>3. pc'[n] = "executing" => disk.state[n] # "pending"
    BY <2>2, ReadyIsShown
  <2>4. \A m \in Nodes : /\ pc'[m] # "idle" => pc[m] # "idle"
                         /\ pc'[m] = "executing" => disk.state[m] # "pending"
                         /\ pc'[m] = "saving" => /\ pc[m] = "saving"
                                                 /\ m \in rejected => m \in rejected'
    BY <1>1, <2>2, <2>3 DEF Telling, OwnStart
  <2>5. phase' \notin {"opening", "openSaving"}
    BY <1>1, <2>1 DEF Busy
  <2> QED
    BY <2>1, <2>4, <2>5, TellsStay
<1> QED
  BY <1>2, <1>3, <1>4, <1>5, <1>6 DEF NodeContinues

LEMMA TellsAnswerStep ==
  ASSUME GateInv, Telling, NEW n \in Nodes, ExecutorAnswers(n) PROVE Telling'
<1> USE DEF progress, world, bounds, queues
<1>1. ASSUME NEW u \in Costs, Return(n, u) PROVE Telling'
  BY <1>1, TellsPublish DEF Return
<1>2. ASSUME NEW k \in {"executor", "timeout"}, NEW u \in PartialCosts(n), Raise(n, k, u)
      PROVE  Telling'
  <2>1. state[n] = "running" /\ disk.state[n] # "pending" /\ TypeOK
    BY <1>2, ReadyIsShown DEF Raise, GateInv
  <2>2. /\ state' = [state EXCEPT ![n] = "failed"] /\ pc' = [pc EXCEPT ![n] = "ending"]
        /\ UNCHANGED <<phase, checkpoints, disk, rejected>>
    BY <1>2 DEF Raise, Fail
  <2> QED
    BY <2>1, <2>2, TellsResult
<1>3. CASE ExecutorEnds(n)
  <2>1. UNCHANGED <<phase, pc, state, checkpoints, disk, rejected>>
    BY <1>3 DEF ExecutorEnds
  <2> QED
    BY <2>1, TellsStay DEF Telling, OwnStart
<1> QED
  BY <1>1, <1>2, <1>3 DEF ExecutorAnswers

\* What is dispatched was pending, and so was what is skipped, under a failure.
LEMMA TellsDispatch ==
  ASSUME TypeOK, Telling, Dispatch PROVE Telling'
<1>1. \E B \in SUBSET Runnable :
        /\ state' = [n \in Nodes |-> IF n \in B THEN "running" ELSE state[n]]
        /\ pc' = [n \in Nodes |-> IF n \in B THEN "starting" ELSE pc[n]]
  <2>1. PICK k \in 1..MaxParallel : \E q \in [1..k -> Runnable] :
          /\ state' = [n \in Nodes |-> IF n \in {q[i] : i \in 1..k}
                                       THEN "running" ELSE state[n]]
          /\ pc' = [n \in Nodes |-> IF n \in {q[i] : i \in 1..k}
                                    THEN "starting" ELSE pc[n]]
    BY DEF Dispatch
  <2>2. PICK q \in [1..k -> Runnable] :
          /\ state' = [n \in Nodes |-> IF n \in {q[i] : i \in 1..k}
                                       THEN "running" ELSE state[n]]
          /\ pc' = [n \in Nodes |-> IF n \in {q[i] : i \in 1..k}
                                    THEN "starting" ELSE pc[n]]
    BY <2>1
  <2>3. {q[i] : i \in 1..k} \in SUBSET Runnable
    OBVIOUS
  <2> QED
    BY <2>2, <2>3
<1>2. PICK B \in SUBSET Runnable :
        /\ state' = [n \in Nodes |-> IF n \in B THEN "running" ELSE state[n]]
        /\ pc' = [n \in Nodes |-> IF n \in B THEN "starting" ELSE pc[n]]
  BY <1>1
<1>3. \A n \in B : state[n] = "pending"
  BY DEF Runnable, Pending
<1>4. Leads(state, state')
  BY <1>2, <1>3 DEF Leads, Later
<1>5. Begins(disk.state, state')
  BY <1>2 DEF Telling, InTurn, Begins
<1>6. \A n \in Nodes : OwnMoves(n)
  BY <1>2 DEF Telling, OwnStart, OwnMoves, Dispatch
<1>7. UNCHANGED <<checkpoints, disk>> /\ phase' = "batch"
  BY DEF Dispatch
<1> QED
  BY <1>4, <1>5, <1>6, <1>7, TellsQuiet

LEMMA TellsSkip ==
  ASSUME TypeOK, Telling, NEW n \in Nodes, Skip(n) PROVE Telling'
<1>1. state[n] = "pending" /\ \E d \in Deps[n] : state[d] \in Dooming
  BY DEF Skip, Doomed, Pending, Dooming
<1>2. /\ \A m \in Nodes : m # n => state'[m] = state[m]
      /\ state'[n] = "skipped" /\ pc' = pc /\ phase' = "skipping"
      /\ UNCHANGED <<checkpoints, disk, rejected>>
  BY DEF Skip, TypeOK, progress
<1>3. \A d \in Deps[n] : d \in Nodes /\ (state[d] \in Dooming => state'[d] = state[d])
  BY <1>1, <1>2, GraphAssumption DEF Dooming
<1>4. Leads(state, state')
  BY <1>1, <1>2, <1>3 DEF Leads, Later
<1>5. Begins(disk.state, state')
  BY <1>2 DEF Telling, InTurn, Begins
<1>6. \A m \in Nodes : OwnMoves(m)
  BY <1>2 DEF Telling, OwnStart, OwnMoves
<1> QED
  BY <1>2, <1>4, <1>5, <1>6, TellsQuiet

LEMMA TellsMainStep ==
  ASSUME GateInv, Telling, MainContinues, ~Exit PROVE Telling'
<1> USE DEF progress, world, bounds, queues
<1>0. TypeOK /\ Main \in Writers /\ "running" \in Statuses /\ Main \notin Nodes
  BY GraphAssumption DEF GateInv, Writers, Statuses
<1>1. ~OpenLogged
  BY DEF Telling, OpenLogged, MainWrote
<1>2. CASE SkipsLogged
  <2>1. UNCHANGED <<state, disk, rejected, pc>> /\ Save(Main, "running") /\ phase' = "skipSaving"
    BY <1>2 DEF SkipsLogged
  <2> QED
    BY <1>0, <2>1, TellsSaving
<1>3. CASE EndingLogged
  <2>1. /\ UNCHANGED <<state, disk, rejected, pc>> /\ Save(Main, FinalStatus[phase])
        /\ phase' \in {"storing", "storingFailure"}
        /\ FinalStatus[phase] \in Statuses /\ FinalStatus[phase] # "absent"
    BY <1>3 DEF EndingLogged, FinalStatus, Statuses
  <2> QED
    BY <1>0, <2>1, TellsSaving
<1>4. CASE OpenSaved \/ SkipsSaved \/ BatchDone \/ Block \/ Finish \/ EndingSaved \/ MainRefused
  <2>1. UNCHANGED <<state, checkpoints, disk>> /\ phase' \notin {"opening", "openSaving"}
    BY <1>4 DEF OpenSaved, SkipsSaved, BatchDone, Block, Finish, EndingSaved, MainRefused, RunFails
  <2>2. \A n \in Nodes : /\ pc'[n] # "idle" => pc'[n] = pc[n]
                         /\ n \in rejected => n \in rejected'
    BY <1>0, <1>4 DEF OpenSaved, SkipsSaved, BatchDone, Block, Finish, EndingSaved, MainRefused
  <2> QED
    BY <2>1, <2>2, TellsStay DEF Telling, OwnStart
<1> QED
  BY <1>0, <1>1, <1>2, <1>3, <1>4, TellsDispatch, TellsSkip DEF MainContinues

-----------------------------------------------------------------------------
(* Opening a run.                                                          *)

LEMMA OpeningMainStep ==
  ASSUME GateInv, Opening \/ Silenced, MainContinues, ~Exit PROVE Opening' \/ Silenced'
<1> USE DEF progress, world, bounds, queues
<1>0. TypeOK /\ Main \in Writers /\ "running" \in Statuses
  BY DEF GateInv, Writers, Statuses
<1>1. CASE Opening
  <2>1. CASE phase = "opening"
    <3>1. OpenLogged
      BY <1>1, <2>1 DEF Opening, MainContinues, OpenSaved, Skip, SkipsLogged, SkipsSaved,
         Dispatch, BatchDone, Block, Finish, EndingLogged, EndingSaved, MainRefused, Deciding,
         MainWrote, FinalStatus, Exit
    <3>2. events = <<>>
      <4>1. \A i \in 1..Len(events) : events[i] # Main
        BY <3>1 DEF OpenLogged, MainWrote, Written
      <4>2. events # <<Main>>
        <5> SUFFICES ASSUME events = <<Main>> PROVE FALSE
          OBVIOUS
        <5>1. Len(events) = 1 /\ events[1] = Main
          OBVIOUS
        <5> QED
          BY <4>1, <5>1
      <4> QED
        BY <1>1, <2>1, <4>2 DEF Opening
    <3>3. /\ Len(checkpoints') = 1
          /\ checkpoints'[1] = [by |-> Main, snap |-> Snapshot("running")]
      BY <1>0, <1>1, <2>1, <3>1, FirstSave DEF Opening, OpenLogged
    <3>4. UNCHANGED <<state, usage, disk, rejected, events>> /\ phase' = "openSaving"
      BY <3>1 DEF OpenLogged
    <3>5. /\ checkpoints'[1].by = Main /\ checkpoints'[1].snap.state = state
          /\ checkpoints'[1].snap.status = "running" /\ checkpoints'[1].snap.usage = usage
      BY <3>3 DEF Snapshot
    <3>6. \A n \in Nodes : Uncertain(n)' <=> Uncertain(n)
      BY <3>4 DEF Uncertain
    <3> QED
      BY <1>1, <3>2, <3>3, <3>4, <3>5, <3>6 DEF Opening
  <2>2. CASE phase = "openSaving"
    <3>1. ~Written(Main)
      <4>1. checkpoints[1].by = Main /\ 1 \in 1..Len(checkpoints)
        BY <1>1, <2>2 DEF Opening
      <4> QED
        BY <4>1 DEF Written
    <3> QED
      BY <1>1, <2>2, <3>1 DEF Opening, MainContinues, OpenLogged, OpenSaved, Skip, SkipsLogged,
         SkipsSaved, Dispatch, BatchDone, Block, Finish, EndingLogged, EndingSaved, MainRefused,
         Deciding, MainWrote, FinalStatus, Exit
  <2> QED
    BY <1>1, <2>1, <2>2 DEF Opening
<1>2. CASE Silenced
  <2>1. MainRefused
    BY <1>2 DEF Silenced, MainContinues, OpenLogged, OpenSaved, Skip, SkipsLogged,
         SkipsSaved, Dispatch, BatchDone, Block, Finish, EndingLogged, EndingSaved,
         Deciding, MainWrote, FinalStatus, Exit, Written
  <2>2. phase \in {"opening", "openSaving"} /\ rejected = {Main}
    BY <1>2, <2>1 DEF Silenced, MainRefused
  <2> QED
    BY <1>2, <2>1, <2>2 DEF Silenced, MainRefused
<1> QED
  BY <1>1, <1>2

\* No node has been reached yet.
LEMMA OpeningIsIdle ==
  ASSUME GateInv, Opening \/ Silenced PROVE \A n \in Nodes : pc[n] = "idle"
BY DEF GateInv, InBatch, Busy, Opening, Silenced

LEMMA OpeningNodeStep ==
  ASSUME GateInv, Opening \/ Silenced, NEW n \in Nodes, NodeContinues(n) \/ ExecutorAnswers(n)
  PROVE  Opening' \/ Silenced'
<1> USE DEF progress, world, bounds, queues
<1>1. pc[n] = "idle"
  BY OpeningIsIdle
<1>2. ExecutorEnds(n)
  BY <1>1 DEF NodeContinues, StartLogged, DeadlinePassed, PassGate, StopAtGate, RunLocally,
         FailBeforeExecution, Launch, EndLogged, EndSaved, CompletionRefused,
         NodeRefused, Watchdog, Ready, ExecutorAnswers, Return, Raise
<1> QED
  BY <1>2 DEF ExecutorEnds, Opening, Silenced, Uncertain

LEMMA OpeningIoStep ==
  ASSUME GateInv, Opening \/ Silenced, EventWritten \/ EventRefused \/ CheckpointRefused
  PROVE  Opening' \/ Silenced'
<1> USE DEF progress, world, bounds, queues
<1>0. TypeOK /\ \A n \in Nodes : pc[n] = "idle"
  BY OpeningIsIdle DEF GateInv
<1>1. CASE EventWritten \/ EventRefused
  <2>1. /\ Opening /\ phase = "opening" /\ events = <<Main>>
        /\ UNCHANGED <<phase, pc, state, usage, checkpoints, disk>>
    BY <1>1 DEF EventWritten, EventRefused, Opening, Silenced
  <2>2. events' = <<>> /\ Head(events) = Main
    BY <1>1, <2>1 DEF EventWritten, EventRefused
  <2>3. CASE EventWritten
    BY <2>1, <2>2, <2>3 DEF EventWritten, Opening, Uncertain
  <2>4. CASE EventRefused
    <3>1. rejected' = {Main}
      BY <2>1, <2>2, <2>4 DEF EventRefused, Opening
    <3> QED
      BY <1>0, <2>1, <2>2, <3>1 DEF Opening, Silenced
  <2> QED
    BY <1>1, <2>3, <2>4
<1>2. CASE CheckpointRefused
  <2>1. /\ checkpoints # <<>> /\ checkpoints' = Tail(checkpoints)
        /\ rejected' = rejected \cup {Head(checkpoints).by}
        /\ UNCHANGED <<phase, pc, events>>
    BY <1>2 DEF CheckpointRefused
  <2>2. Opening /\ phase = "openSaving" /\ Len(checkpoints) = 1
    BY <2>1 DEF Opening, Silenced
  <2>3. /\ Head(checkpoints) = checkpoints[1] /\ Len(checkpoints') = 0
        /\ checkpoints' \in Seq([by : Writers, snap : Checkpoint])
    BY <1>0, <2>1, <2>2, QueueHead DEF TypeOK
  <2>4. checkpoints' = <<>>
    BY <2>3
  <2> QED
    BY <1>0, <2>1, <2>2, <2>3, <2>4 DEF Opening, Silenced
<1> QED
  BY <1>1, <1>2

\* The opening checkpoint reaches the disk: the abstract run begins, or begins again.
LEMMA OpeningWritten ==
  ASSUME GateInv, Opening \/ Silenced, CheckpointWritten
  PROVE  Telling' /\ Record!Open
<1> USE DEF progress, world, bounds, queues
<1>0. TypeOK /\ \A n \in Nodes : pc[n] = "idle"
  BY OpeningIsIdle DEF GateInv
<1>1. /\ checkpoints # <<>> /\ checkpoints' = Tail(checkpoints) /\ disk' = Head(checkpoints).snap
      /\ UNCHANGED <<phase, pc, state, rejected, ioFailures>>
  BY DEF CheckpointWritten
<1>2. Opening /\ phase = "openSaving" /\ Len(checkpoints) = 1
  BY <1>1 DEF Opening, Silenced
<1>3. /\ Head(checkpoints) = checkpoints[1] /\ Len(checkpoints') = 0
      /\ checkpoints' \in Seq([by : Writers, snap : Checkpoint])
  BY <1>0, <1>1, <1>2, QueueHead DEF TypeOK
<1>4. checkpoints' = <<>>
  BY <1>3
<1>5. disk'.state = state /\ disk'.status = "running" /\ disk'.usage = disk.usage
  BY <1>1, <1>2, <1>3 DEF Opening
<1>6. Leads(disk'.state, state') /\ Begins(disk'.state, state')
  BY <1>1, <1>5, LeadsOn
<1>7. InTurn'
  BY <1>3, <1>6 DEF InTurn
<1>8. \A n \in Nodes : OwnStart(n)'
  BY <1>0, <1>1, <1>3 DEF OwnStart
<1>9. Telling'
  BY <1>1, <1>2, <1>4, <1>5, <1>7, <1>8 DEF Telling
<1>10. Record!Open
  <2>1. disk.status # "completed" /\ Record!InDoubt = {}
    BY <1>2, KindAssumption DEF Opening, Uncertain, Record!InDoubt
  <2>2. disk'.state \in [Nodes -> Record!States]
    BY <1>0, <1>5 DEF TypeOK, States, Record!States
  <2>3. \A n \in Nodes : disk'.state[n] # disk.state[n] =>
                           disk.state[n] # "completed" /\ disk'.state[n] = "pending"
    BY <1>2, <1>5 DEF Opening
  <2> QED
    BY <1>1, <1>5, <2>1, <2>2, <2>3 DEF Record!Open
<1> QED
  BY <1>9, <1>10

\* runGraph starts on nothing, or with what resume takes over.
LEMMA OpeningStart ==
  ASSUME TypeOK, Asleep, phase = "down" => usage = 0,
         NEW A \in SUBSET Gates, Start(A) \/ Resume(A)
  PROVE  Opening'
<1> USE DEF progress, world, bounds, queues
<1>1. /\ phase = "down" /\ events = <<>> /\ checkpoints = <<>> /\ rejected = {}
      /\ phase' = "opening" /\ Log(Main) /\ UNCHANGED <<checkpoints, rejected, disk>>
  BY DEF Start, Resume, Asleep
<1>2. events' = <<Main>>
  BY <1>1 DEF Log
<1>3. \A n \in Nodes : Uncertain(n)' <=> Uncertain(n)
  BY <1>1 DEF Uncertain
<1>4. CASE Start(A)
  <2>1. disk = NoCheckpoint /\ state' = [n \in Nodes |-> "pending"] /\ usage' = 0
    BY <1>1, <1>4 DEF Start, Asleep
  <2>2. disk.status = "absent" /\ disk.usage = 0 /\ \A n \in Nodes : disk.state[n] = "pending"
    BY <2>1 DEF NoCheckpoint
  <2> QED
    BY <1>1, <1>2, <1>3, <2>1, <2>2 DEF Opening, Uncertain
<1>5. CASE Resume(A)
  <2>1. /\ disk.status # "completed" /\ \A n \in Nodes : ~Uncertain(n)
        /\ usage' = disk.usage
        /\ \A n \in Nodes : state'[n] = IF Kept(n) THEN disk.state[n] ELSE "pending"
    BY <1>5 DEF Resume, Restored, RestoredUsage
  <2>2. \A n \in Nodes : state'[n] # disk.state[n] =>
          disk.state[n] # "completed" /\ state'[n] = "pending"
    BY <2>1 DEF Kept
  <2> QED
    BY <1>1, <1>2, <1>3, <2>1, <2>2 DEF Opening
<1> QED
  BY <1>4, <1>5

-----------------------------------------------------------------------------
(* Every step tells a step of the run record.                              *)

Happened == <<disk.status, disk.state, disk.usage, ioFailures > 0>>

\* A save reaches the disk once the run is open: the abstract run goes on.
LEMMA ProgressMaps ==
  ASSUME RecordInv, [Next]_vars, CheckpointWritten, phase # "down", Telling
  PROVE  Record!Progress
<1> USE DEF progress, world, bounds, queues
<1>0. /\ TypeOK /\ CompletionInv /\ AloneInv /\ TokenInv
      /\ SchedulerInv' /\ disk'.usage >= disk.usage
  BY TokenInvStep, SchedulerInvStep DEF RecordInv, CompletionInv, AloneInv, SchedulerInv, GateInv
<1>1. /\ disk \in Checkpoint /\ disk' \in Checkpoint /\ Good(disk)' /\ InOrder(disk.state)'
      /\ ioFailures' = ioFailures /\ ioFailures \in Nat
  BY <1>0 DEF SchedulerInv, GateInv, TypeOK, Records, CheckpointWritten
<1>2. /\ Leads(disk.state, disk'.state) /\ Begins(disk.state, disk'.state)
      /\ phase # "openSaving" /\ disk.status # "absent" /\ disk'.status # "absent"
  <2>1. Telling' /\ Leads(disk.state, disk'.state) /\ Begins(disk.state, disk'.state)
        /\ phase # "openSaving"
    BY <1>0, TellsWriting DEF CheckpointWritten
  <2> QED
    BY <2>1 DEF Telling
<1>3. disk.status = "running" \/ ioFailures > 0
  BY <1>0, <1>1, <1>2, AloneWritingStep DEF Final, Checkpoint, Statuses
<1>4. disk'.status \in {"running", "needs_confirmation", "completed", "failed"}
  BY <1>1, <1>2 DEF Checkpoint, Statuses
<1>5. Record!Truthful
  <2>1. Good(disk')
    BY <1>1 DEF Good, Sound, Quiet, Justified
  <2>2. disk'.status = "completed" =>
          disk'.usage <= TokenBudget /\ \A n \in Nodes : disk'.state[n] = "completed"
    BY <1>1, <2>1, BudgetAssumption DEF Good, OverBudget, Checkpoint
  <2>3. disk'.status = "needs_confirmation" =>
          /\ \A n \in SideEffecting : disk'.state[n] \notin {"running", "failed"}
          /\ \E g \in Gates : disk'.state[g] = "blocked"
    BY <2>1, KindAssumption DEF Good, Sound, Quiet
  <2> QED
    BY <2>2, <2>3 DEF Record!Truthful, Record!InDoubt
<1>6. disk.state \in [Nodes -> States] /\ disk'.state \in [Nodes -> States]
      /\ disk.usage \in Nat /\ disk'.usage \in Nat
  BY <1>1 DEF Checkpoint
<1>7. ASSUME NEW n \in Nodes
      PROVE  /\ disk'.state[n] \in Record!May(n)
             /\ disk'.state[n] # disk.state[n] => Record!Warranted(n)
  <2>1. /\ Later(disk.state[n], disk'.state[n])
        /\ disk.state[n] = "pending" => disk'.state[n] \in {"pending", "running", "skipped"}
        /\ disk.state[n] \in States /\ disk'.state[n] \in States
    BY <1>2, <1>6 DEF Leads, Begins
  <2>2. ioFailures > 0 \/ disk.state[n] # "completed" \/ disk'.state[n] = "completed"
    <3>1. ASSUME ioFailures = 0 PROVE Grows(disk.state, disk'.state)
      BY <1>0, <3>1, GrowsWritingStep DEF CompletionInv
    <3> QED
      BY <1>1, <3>1 DEF Grows
  <2>3. disk'.state[n] \in Record!May(n)
    BY <2>1, <2>2 DEF Record!May, Record!Successors, States, Later
  <2>4. ASSUME disk'.state[n] # disk.state[n] PROVE Record!Warranted(n)
    <3>1. CASE disk'.state[n] = "skipped"
      <4>1. \E d \in Deps[n] : disk'.state[d] \in Dooming
        BY <1>2, <2>4, <3>1 DEF Leads
      <4> QED
        BY <3>1, <4>1 DEF Record!Warranted, Dooming
    <3>2. CASE disk'.state[n] # "skipped"
      <4>1. disk'.state[n] \in Reached
        BY <2>1, <2>4, <3>2 DEF States, Later, Reached
      <4>2. \A m \in Ancestors[n] : disk'.state[m] = "completed"
        BY <1>1, <4>1 DEF InOrder
      <4> QED
        BY <3>2, <4>2, Paths DEF Record!Warranted
    <3> QED
      BY <3>1, <3>2
  <2> QED
    BY <2>3, <2>4
<1>8. disk'.state \in [Nodes -> Record!States]
  BY <1>6 DEF States, Record!States
<1> QED
  BY <1>0, <1>1, <1>3, <1>4, <1>5, <1>6, <1>7, <1>8 DEF Record!Progress

\* The operator vouches for a node in doubt.
LEMMA ReconcileMaps ==
  ASSUME TypeOK, NEW n \in Nodes, ReconcileCompleted(n) \/ ReconcileNotApplied(n)
  PROVE  n \in SideEffecting /\ Record!Reconcile(n)
<1> USE DEF progress, world, bounds, queues
<1>1. n \in SideEffecting /\ n \in Record!InDoubt
  BY DEF ReconcileCompleted, ReconcileNotApplied, Uncertain, Record!InDoubt
<1>2. disk \in Checkpoint /\ disk.state \in [Nodes -> States]
  BY DEF TypeOK, Checkpoint
<1>3. \E s \in {"pending", "completed"} :
        disk'.state = [disk.state EXCEPT ![n] = s] /\ disk'.status = "running"
        /\ disk'.usage = disk.usage /\ ioFailures' = ioFailures
  <2>1. CASE ReconcileCompleted(n)
    BY <1>2, <2>1 DEF ReconcileCompleted, Checkpoint
  <2>2. CASE ReconcileNotApplied(n)
    BY <1>2, <2>2 DEF ReconcileNotApplied, Checkpoint
  <2> QED
    BY <2>1, <2>2
<1> QED
  BY <1>1, <1>3 DEF Record!Reconcile

\* What the disk shows is changed by the write chain and by the operator alone.
LEMMA OnlyWritesTell ==
  ASSUME [Next]_vars
  PROVE  \/ CheckpointWritten \/ EventRefused \/ CheckpointRefused
         \/ \E n \in Nodes : ReconcileCompleted(n) \/ ReconcileNotApplied(n)
         \/ UNCHANGED <<disk, ioFailures>>
BY DEF Next, Io, EventWritten, NodeContinues, StartLogged, DeadlinePassed, PassGate, StopAtGate,
   RunLocally, FailBeforeExecution, Launch, EndLogged, EndSaved, CompletionRefused, NodeRefused,
   Watchdog, ExecutorAnswers, Return, Raise, ExecutorEnds, MainContinues, OpenLogged, OpenSaved,
   Skip, SkipsLogged, SkipsSaved, Dispatch, BatchDone, Block, Finish, EndingLogged, EndingSaved,
   MainRefused, Exit, TimePasses, Crash, PowerOff, Operator, Start, Resume, vars, progress,
   world, bounds, queues

LEMMA StepTells == RecordInv /\ [Next]_vars => [Record!Next]_Happened
<1> SUFFICES ASSUME RecordInv, [Next]_vars PROVE [Record!Next]_Happened
  OBVIOUS
<1>0. TypeOK /\ GateInv /\ ioFailures \in Nat /\ Asleep
  BY DEF RecordInv, CompletionInv, AloneInv, SchedulerInv, GateInv, TypeOK
<1>1. CASE CheckpointWritten
  <2>1. phase # "down"
    BY <1>0, <1>1 DEF CheckpointWritten, Asleep
  <2>2. Record!Progress \/ Record!Open
    BY <1>0, <1>1, <2>1, ProgressMaps, OpeningWritten DEF RecordInv
  <2> QED
    BY <2>2 DEF Record!Next
<1>2. CASE EventRefused \/ CheckpointRefused
  <2>1. ioFailures' > 0 /\ disk' = disk
    BY <1>0, <1>2 DEF EventRefused, CheckpointRefused
  <2>2. Record!Refuse
    BY <2>1 DEF Record!Refuse
  <2> QED
    BY <2>2 DEF Record!Next
<1>3. ASSUME NEW n \in Nodes, ReconcileCompleted(n) \/ ReconcileNotApplied(n)
      PROVE  Record!Next
  BY <1>0, <1>3, ReconcileMaps DEF Record!Next
<1>4. CASE UNCHANGED <<disk, ioFailures>>
  BY <1>4 DEF Happened
<1> QED
  BY <1>1, <1>2, <1>3, <1>4, OnlyWritesTell

\* The usage of a process that is not there.
LEMMA NothingCounted == RecordInv /\ [Next]_vars => (phase' = "down" => usage' = 0)
<1> SUFFICES ASSUME RecordInv, [Next]_vars, phase' = "down" PROVE usage' = 0
  OBVIOUS
<1> USE DEF progress, world, bounds, queues
<1>0. TypeOK /\ Asleep /\ (phase = "down" => usage = 0)
  BY DEF RecordInv, CompletionInv, AloneInv, SchedulerInv, GateInv
<1>1. CASE phase = "down"
  <2>1. \A n \in Nodes : ~NodeContinues(n) /\ (ExecutorAnswers(n) => ExecutorEnds(n))
    BY <1>0, <1>1, NodeAwake, AnswerAwake
  <2>2. MainContinues => Exit
    BY <1>0, <1>1, MainAwake
  <2> QED
    BY <1>0, <1>1, <2>1, <2>2 DEF Next, Io, EventWritten, CheckpointWritten, EventRefused,
       CheckpointRefused, ExecutorEnds, Exit, PowerOff, TimePasses, Crash, Operator, Start,
       Resume, ReconcileCompleted, ReconcileNotApplied, vars
<1>2. CASE phase # "down"
  <2>1. Crash \/ Exit
    <3>1. \A n \in Nodes : ~NodeContinues(n)
      BY <1>0, NodeAwake
    <3>2. ~Operator
      BY <1>2 DEF Operator, Start, Resume, ReconcileCompleted, ReconcileNotApplied
    <3> QED
      BY <1>2, <3>1, <3>2 DEF Next, Io, EventWritten, CheckpointWritten, EventRefused,
         CheckpointRefused, ExecutorAnswers, Return, Raise, ExecutorEnds, MainContinues,
         OpenLogged, OpenSaved, Skip, SkipsLogged, SkipsSaved, Dispatch, BatchDone, Block,
         Finish, EndingLogged, EndingSaved, MainRefused, RunFails, TimePasses, vars
  <2> QED
    BY <2>1 DEF Crash, Exit, PowerOff
<1> QED
  BY <1>1, <1>2

LEMMA RecordInvStep == RecordInv /\ [Next]_vars => RecordInv'
<1> SUFFICES ASSUME RecordInv, [Next]_vars, phase' # "down"
             PROVE  (Telling \/ Opening \/ Silenced)'
  BY CompletionInvStep, TokenInvStep, NothingCounted DEF RecordInv
<1> USE DEF progress, world, bounds, queues
<1>0. TypeOK /\ GateInv /\ Asleep
  BY DEF RecordInv, CompletionInv, AloneInv, SchedulerInv, GateInv
<1>1. CASE phase = "down"
  <2>1. \E A \in SUBSET Gates : Start(A) \/ Resume(A)
    <3>1. \A n \in Nodes : ~NodeContinues(n) /\ (ExecutorAnswers(n) => ExecutorEnds(n))
      BY <1>0, <1>1, NodeAwake, AnswerAwake
    <3>2. MainContinues => Exit
      BY <1>0, <1>1, MainAwake
    <3> QED
      BY <1>1, <3>1, <3>2 DEF Next, Io, EventWritten, CheckpointWritten, EventRefused,
         CheckpointRefused, ExecutorEnds, Exit, PowerOff, TimePasses, Crash, Operator,
         ReconcileCompleted, ReconcileNotApplied, vars
  <2> QED
    BY <1>0, <2>1, OpeningStart DEF RecordInv
<1>2. CASE phase # "down" /\ (EventWritten \/ EventRefused)
  <2>1. CASE Telling
    <3>1. /\ UNCHANGED <<phase, pc, state, checkpoints, disk>>
          /\ \A n \in Nodes : n \in rejected => n \in rejected'
      BY <1>2 DEF EventWritten, EventRefused
    <3> QED
      BY <2>1, <3>1, TellsStay DEF Telling, OwnStart
  <2> QED
    BY <1>0, <1>2, <2>1, OpeningIoStep DEF RecordInv
<1>3. CASE phase # "down" /\ (CheckpointWritten \/ CheckpointRefused)
  <2>1. CASE Telling
    BY <1>0, <1>3, <2>1, TellsWriting DEF CheckpointWritten, CheckpointRefused
  <2> QED
    BY <1>0, <1>3, <2>1, OpeningIoStep, OpeningWritten DEF RecordInv
<1>4. CASE phase # "down" /\ (TimePasses \/ UNCHANGED vars)
  <2>1. UNCHANGED <<phase, pc, state, usage, events, checkpoints, disk, rejected>>
    BY <1>4 DEF TimePasses, vars
  <2> QED
    BY <1>4, <2>1 DEF RecordInv, Telling, InTurn, Recorded, OwnStart, Opening, Uncertain, Silenced
<1>5. ASSUME phase # "down", NEW n \in Nodes, NodeContinues(n) \/ ExecutorAnswers(n)
      PROVE  (Telling \/ Opening \/ Silenced)'
  BY <1>0, <1>5, TellsNodeStep, TellsAnswerStep, OpeningNodeStep DEF RecordInv
<1>6. CASE phase # "down" /\ MainContinues
  <2>1. ~Exit
    BY DEF Exit, PowerOff
  <2> QED
    BY <1>0, <1>6, <2>1, TellsMainStep, OpeningMainStep DEF RecordInv
<1>7. phase # "down" => ~Operator /\ ~Crash
  BY DEF Operator, Start, Resume, ReconcileCompleted, ReconcileNotApplied, Crash, PowerOff
<1> QED
  BY <1>1, <1>2, <1>3, <1>4, <1>5, <1>6, <1>7 DEF Next, Io

LEMMA RecordInitInv == Init => RecordInv /\ Record!Init
<1> SUFFICES ASSUME Init PROVE RecordInv /\ Record!Init
  OBVIOUS
<1>1. phase = "down" /\ usage = 0 /\ disk = NoCheckpoint /\ ioFailures = 0
  BY DEF Init
<1>2. Record!Init
  BY <1>1 DEF Record!Init, NoCheckpoint
<1> QED
  BY <1>1, <1>2, CompletionInitInv, TokenInitInv DEF RecordInv

\* The checkpoints of a run of any graph, over any number of crashes, refused writes,
\* resumes and reconciliations, tell an execution of the graph in the order of its
\* dependencies: saves are chained, each node waits for the save that shows it
\* running, and only the opening checkpoint of a resume takes nodes back.
THEOREM RunTellsItsRecord == Spec => CheckpointsTellTheRun
<1>1. RecordInv /\ [Next]_vars =>
        [Record!Next]_<<disk.status, disk.state, disk.usage, ioFailures > 0>>
  BY StepTells DEF Happened
<1> QED
  BY <1>1, RecordInitInv, RecordInvStep, PTL DEF Spec, CheckpointsTellTheRun, Record!Spec
=============================================================================
