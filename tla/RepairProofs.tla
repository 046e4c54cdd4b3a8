---------------------------- MODULE RepairProofs ----------------------------
(***************************************************************************)
(* What RepairLoop promises for every cap on rounds, budget and cost, and    *)
(* for any number of resumes, crashes and refused writes.                    *)
(*                                                                         *)
(* The disk may be behind the process but never ahead of it: rounds and      *)
(* tokens only grow, and a resume begins where the disk is (Behind).  A      *)
(* round is counted before it is saved and saved before its repair is        *)
(* launched, so every repair is in the checkpoint of the moment (Counted).   *)
(***************************************************************************)
EXTENDS RepairLoop, TLAPS

Alive == pc # "down"

\* Where a run is that is within its budget.
Solvent == {"deciding", "starting", "started", "launching", "repairing", "verifying",
            "repaired", "completing", "completed"}

Behind == Alive => /\ disk.run.rounds <= run.rounds
                   /\ disk.run.usage <= run.usage

Counted == /\ disk.run.rounds <= MaxRounds /\ run.rounds <= MaxRounds
           /\ calls <= disk.run.rounds
           /\ pc \in {"starting", "started"} => calls < run.rounds
           /\ pc = "launching" => calls < disk.run.rounds

Judged == /\ <<disk.run.candidate, disk.run.accepted>> \in judged
          /\ Alive => <<run.candidate, run.accepted>> \in judged

Final == /\ disk.status = "completed" => disk.run.accepted
         /\ pc \in {"completing", "completed"} => run.accepted

InBudget == pc \in Solvent => run.usage <= Budget

Inv == TypeOK /\ Behind /\ Counted /\ Judged /\ Final /\ InBudget

-----------------------------------------------------------------------------
LEMMA InitInv == Init => Inv
<1> SUFFICES ASSUME Init PROVE Inv
  OBVIOUS
<1> USE RepairAssumption
<1>1. PICK accepted \in BOOLEAN, cost \in Costs :
        /\ cost <= Budget
        /\ run = [candidate |-> 0, accepted |-> accepted, rounds |-> 0, usage |-> cost,
                  sequence |-> 0]
        /\ judged = {<<0, accepted>>}
  BY DEF Init
<1>2. run \in Memory /\ disk.run = run /\ disk.status = "running"
  BY <1>1 DEF Init, Memory, Snapshot
<1>3. TypeOK
  BY <1>1, <1>2 DEF Init, TypeOK, Snapshot, Places, Event
<1> QED
  BY <1>1, <1>2, <1>3 DEF Init, Inv, Behind, Counted, Judged, Final, InBudget, Alive, Solvent

-----------------------------------------------------------------------------
(* Writes.                                                                 *)

\* A line is appended on the way from one place to the next.
LEMMA LogStep ==
  ASSUME Inv, NEW type \in {"run_resumed", "repair_started", "repair_completed",
                            "run_completed", "run_failed"},
         NEW next \in Places, NEW refused \in {"down", "failing"},
         Alive, Appends(type, next, refused),
         next \in {"starting", "started"} => pc = "starting",
         next # "launching",
         next \in {"completing", "completed"} => pc = "completing",
         next \in Solvent => pc \in Solvent
  PROVE  Inv'
<1>0. run \in Memory /\ run.sequence \in Nat /\ trail \in Seq(Event)
  BY DEF Inv, TypeOK, Memory
<1>1. run' = [candidate |-> run.candidate, accepted |-> run.accepted,
              rounds |-> run.rounds, usage |-> run.usage, sequence |-> run.sequence + 1]
  BY <1>0 DEF Appends, Memory
<1>2. run' \in Memory
  BY <1>0, <1>1 DEF Memory
<1>3. trail' \in Seq(Event)
  <2>1. [type |-> type, sequence |-> run.sequence + 1] \in Event
    BY <1>0 DEF Event
  <2> QED
    BY <1>0, <2>1 DEF Appends
<1>4. pc' \in Places /\ (pc' = next \/ pc' = refused) /\ refusals' \in Nat
  BY RepairAssumption DEF Appends, Places, Inv, TypeOK
<1>5. UNCHANGED <<draft, expired, disk, judged, calls, resumes, crashes>>
  BY DEF Appends, history
<1>6. TypeOK'
  BY <1>2, <1>3, <1>4, <1>5 DEF Inv, TypeOK
<1>7. pc' \in {"starting", "started"} => pc = "starting"
  BY <1>4
<1>8. pc' # "launching" /\ (pc' \in Solvent => pc \in Solvent)
  BY <1>4 DEF Solvent
<1>9. pc' \in {"completing", "completed"} => pc = "completing"
  BY <1>4
<1> QED
  BY <1>1, <1>5, <1>6, <1>7, <1>8, <1>9
     DEF Inv, Behind, Counted, Judged, Final, InBudget, Alive

\* A checkpoint is saved on the way from one place to the next.
LEMMA SaveStep ==
  ASSUME Inv, NEW status \in {"running", "completed", "failed"},
         NEW next \in Places, NEW refused \in {"down", "failing"},
         Alive, Saves(status, next, refused),
         next \notin {"starting", "started", "completing", "completed"},
         next = "launching" => pc = "started",
         next \in Solvent => pc \in Solvent,
         status = "completed" => pc = "completed"
  PROVE  Inv'
<1>1. pc' \in Places /\ (pc' = next \/ pc' = refused) /\ refusals' \in Nat
  BY RepairAssumption DEF Saves, Places, Inv, TypeOK
<1>2. UNCHANGED <<run, draft, expired, trail, judged, calls, resumes, crashes>>
  BY DEF Saves, memory, history
<1>3. \/ disk' = disk /\ pc' = refused
      \/ disk' = [status |-> status, run |-> run, spent |-> expired]
  BY DEF Saves, Snapshot
<1>4. TypeOK'
  BY <1>1, <1>2, <1>3 DEF Inv, TypeOK
<1>5. run.rounds \in Nat /\ run.usage \in Nat /\ disk.run.rounds \in Nat /\ calls \in Nat
  BY DEF Inv, TypeOK, Memory
<1>6. CASE disk' = disk /\ pc' = refused
  BY <1>2, <1>4, <1>6 DEF Inv, Behind, Counted, Judged, Final, InBudget, Alive, Solvent
<1>7. CASE disk' = [status |-> status, run |-> run, spent |-> expired] /\ pc' \in {next, refused}
  <2>1. disk'.run = run /\ disk'.status = status
    BY <1>7
  <2>2. Behind' /\ Judged'
    BY <1>2, <1>5, <2>1 DEF Inv, Behind, Judged, Alive
  <2>3. Counted'
    BY <1>1, <1>2, <1>5, <2>1, RepairAssumption DEF Inv, Counted, Behind, Alive
  <2>4. Final' /\ InBudget'
    BY <1>1, <1>2, <2>1 DEF Inv, Final, InBudget, Solvent
  <2> QED
    BY <1>4, <2>2, <2>3, <2>4 DEF Inv
<1> QED
  BY <1>1, <1>3, <1>6, <1>7

-----------------------------------------------------------------------------
(* Steps that write nothing.                                               *)

LEMMA LoopStep ==
  ASSUME Inv, Schedule \/ Conclude \/ Begin \/ Launch
  PROVE  Inv'
<1> USE RepairAssumption DEF memory, files, history, faults
<1>1. /\ run \in Memory /\ disk.run.rounds \in Nat /\ calls \in Nat /\ disk.run.usage \in Nat
      /\ run.rounds \in Nat /\ run.usage \in Nat
  BY DEF Inv, TypeOK, Memory
<1>2. CASE Schedule
  BY <1>1, <1>2 DEF Schedule, Inv, TypeOK, Places, Behind, Counted, Judged, Final, InBudget,
                    Alive, Solvent
<1>3. CASE Conclude
  BY <1>1, <1>3 DEF Conclude, Inv, TypeOK, Places, Behind, Counted, Judged, Final, InBudget,
                    Alive, Solvent
<1>4. CASE Begin
  <2>1. run' = [candidate |-> run.candidate, accepted |-> run.accepted,
                rounds |-> run.rounds + 1, usage |-> run.usage, sequence |-> run.sequence]
    BY <1>1, <1>4 DEF Begin, Memory
  <2>2. run' \in Memory
    BY <1>1, <2>1 DEF Memory
  <2>3. TypeOK'
    BY <1>4, <2>2 DEF Begin, Inv, TypeOK, Places
  <2> QED
    BY <1>1, <1>4, <2>1, <2>3 DEF Begin, Inv, Behind, Counted, Judged, Final, InBudget,
                                  Alive, Solvent
<1>5. CASE Launch
  <2>1. /\ pc = "launching" /\ pc' \in {"repairing", "failing"}
        /\ calls' \in {calls, calls + 1}
        /\ UNCHANGED <<run, draft, expired, disk, trail, judged, resumes, crashes, refusals>>
    BY <1>5 DEF Launch
  <2>2. TypeOK'
    BY <1>1, <2>1 DEF Inv, TypeOK, Places
  <2>3. Counted'
    BY <1>1, <2>1 DEF Inv, Counted
  <2> QED
    BY <2>1, <2>2, <2>3 DEF Inv, Behind, Judged, Final, InBudget, Alive, Solvent
<1> QED
  BY <1>2, <1>3, <1>4, <1>5

\* An answer adds its tokens and, from the verifier, a candidate and a verdict.
LEMMA AnswerStep ==
  ASSUME Inv, NEW valid \in BOOLEAN, NEW cost \in Costs, NEW verdict \in BOOLEAN,
         Repaired(valid, cost) \/ Verified(valid, cost, verdict)
  PROVE  Inv'
<1> USE RepairAssumption DEF memory, files, history, faults
<1>1. /\ run \in Memory /\ cost \in Nat /\ draft \in Nat /\ disk.run.usage \in Nat
      /\ run.usage \in Nat /\ calls \in Nat
  BY DEF Inv, TypeOK, Memory
<1>2. CASE Repaired(valid, cost)
  <2>1. run' = [candidate |-> run.candidate, accepted |-> run.accepted,
                rounds |-> run.rounds, usage |-> run.usage + cost, sequence |-> run.sequence]
    BY <1>1, <1>2 DEF Repaired, Memory
  <2>2. run' \in Memory
    BY <1>1, <2>1 DEF Memory
  <2>3. TypeOK'
    BY <1>1, <1>2, <2>2 DEF Repaired, Inv, TypeOK, Places
  <2> QED
    BY <1>1, <1>2, <2>1, <2>3 DEF Repaired, Rejected, Inv, Behind, Counted, Judged, Final,
                                  InBudget, Alive, Solvent
<1>3. CASE Verified(valid, cost, verdict) /\ Rejected(valid, cost)
  <2>1. run' = [candidate |-> run.candidate, accepted |-> run.accepted,
                rounds |-> run.rounds, usage |-> run.usage + cost, sequence |-> run.sequence]
    BY <1>1, <1>3 DEF Verified, Memory
  <2>2. run' \in Memory
    BY <1>1, <2>1 DEF Memory
  <2>3. TypeOK'
    BY <1>1, <1>3, <2>2 DEF Verified, Inv, TypeOK, Places
  <2> QED
    BY <1>1, <1>3, <2>1, <2>3 DEF Verified, Inv, Behind, Counted, Judged, Final,
                                  InBudget, Alive, Solvent
<1>4. CASE Verified(valid, cost, verdict) /\ ~Rejected(valid, cost)
  <2>1. /\ run' = [candidate |-> draft, accepted |-> verdict,
                   rounds |-> run.rounds, usage |-> run.usage + cost, sequence |-> run.sequence]
        /\ <<draft, verdict>> \in judged'
    BY <1>1, <1>4 DEF Verified, Rejected, Memory
  <2>2. run' \in Memory
    BY <1>1, <2>1 DEF Memory
  <2>3. TypeOK'
    BY <1>1, <1>4, <2>2 DEF Verified, Inv, TypeOK, Places
  <2> QED
    BY <1>1, <1>4, <2>1, <2>3 DEF Verified, Rejected, Inv, Behind, Counted, Judged, Final,
                                  InBudget, Alive, Solvent
<1> QED
  BY <1>2, <1>3, <1>4

LEMMA OtherStep ==
  ASSUME Inv, ExecutorFails \/ Watchdog \/ Resume \/ Crash \/ TimePasses \/ UNCHANGED vars
  PROVE  Inv'
<1> USE RepairAssumption DEF memory, files, history, faults
<1>1. /\ run \in Memory /\ disk.run \in Memory /\ resumes \in Nat /\ crashes \in Nat
      /\ disk.spent \in BOOLEAN /\ disk.run.rounds \in Nat /\ disk.run.usage \in Nat
  BY DEF Inv, TypeOK, Memory
<1>2. CASE ExecutorFails \/ Watchdog
  BY <1>2 DEF ExecutorFails, Watchdog, Inv, TypeOK, Places, Behind, Counted, Judged, Final,
              InBudget, Alive, Solvent
<1>3. CASE Resume
  BY <1>1, <1>3 DEF Resume, Restored, Inv, TypeOK, Places, Behind, Counted, Judged, Final,
                    InBudget, Alive, Solvent
<1>4. CASE Crash
  BY <1>1, <1>4 DEF Crash, Inv, TypeOK, Places, Behind, Counted, Judged, Final, InBudget,
                    Alive, Solvent
<1>5. CASE TimePasses \/ UNCHANGED vars
  BY <1>5 DEF TimePasses, vars, Inv, TypeOK, Behind, Counted, Judged, Final, InBudget, Alive
<1> QED
  BY <1>2, <1>3, <1>4, <1>5

\* Each write of the run is a LogStep or a SaveStep.
LEMMA WriteStep ==
  ASSUME Inv,
         \/ LogResumed \/ LogStarted \/ LogRepaired \/ LogCompleted \/ LogFailed
         \/ SaveResumed \/ SaveStarted \/ SaveCompleted \/ SaveFailed
  PROVE  Inv'
<1> USE DEF Places, Solvent, Alive
<1>1. CASE LogResumed
  BY <1>1, LogStep DEF LogResumed
<1>2. CASE LogStarted
  BY <1>2, LogStep DEF LogStarted
<1>3. CASE LogRepaired
  BY <1>3, LogStep DEF LogRepaired
<1>4. CASE LogCompleted
  BY <1>4, LogStep DEF LogCompleted
<1>5. CASE LogFailed
  BY <1>5, LogStep DEF LogFailed
<1>6. CASE SaveResumed
  BY <1>6, SaveStep DEF SaveResumed
<1>7. CASE SaveStarted
  BY <1>7, SaveStep DEF SaveStarted
<1>8. CASE SaveCompleted
  BY <1>8, SaveStep DEF SaveCompleted
<1>9. CASE SaveFailed
  BY <1>9, SaveStep DEF SaveFailed
<1> QED
  BY <1>1, <1>2, <1>3, <1>4, <1>5, <1>6, <1>7, <1>8, <1>9

LEMMA InvStep == Inv /\ [Next]_vars => Inv'
<1> SUFFICES ASSUME Inv, [Next]_vars PROVE Inv'
  OBVIOUS
<1>1. CASE Answers
  <2>1. CASE ExecutorFails
    BY <2>1, OtherStep
  <2>2. ASSUME NEW valid \in BOOLEAN, NEW cost \in Costs, Repaired(valid, cost)
        PROVE  Inv'
    BY <2>2, AnswerStep
  <2>3. ASSUME NEW valid \in BOOLEAN, NEW cost \in Costs, NEW verdict \in BOOLEAN,
               Verified(valid, cost, verdict)
        PROVE  Inv'
    BY <2>3, AnswerStep
  <2> QED
    BY <1>1, <2>1, <2>2, <2>3 DEF Answers
<1>2. CASE Goes
  BY <1>2, WriteStep, LoopStep, OtherStep DEF Goes
<1> QED
  BY <1>1, <1>2, OtherStep DEF Next

THEOREM RepairInvariant == Spec => []Inv
<1> QED
  BY InitInv, InvStep, PTL DEF Spec

\* Every variable of the repair loop keeps its type: a checkpoint, whichever write
\* made it, is one that a resume can begin with.
THEOREM RepairTypes == Spec => []TypeOK
<1>1. Inv => TypeOK
  BY DEF Inv
<1> QED
  BY <1>1, RepairInvariant, PTL

-----------------------------------------------------------------------------
(* What follows.                                                           *)

\* Over all invocations no more repairs are launched than the budget allows.
THEOREM RepairsAreCapped == Spec => []RepairsCapped
<1>1. Inv => RepairsCapped
  BY RepairAssumption DEF Inv, Counted, RepairsCapped, TypeOK, Memory
<1> QED
  BY <1>1, RepairInvariant, PTL

\* The checkpoint a crash would leave counts every repair that was launched.
THEOREM RepairsAreOnRecord == Spec => []RepairsOnRecord
<1>1. Inv => RepairsOnRecord
  BY DEF Inv, Counted, RepairsOnRecord
<1> QED
  BY <1>1, RepairInvariant, PTL

\* A checkpoint's verdict is about the candidate beside it, and a completed run's
\* candidate has been accepted.
THEOREM CompletedMeansAccepted == Spec => [](VerdictsGenuine /\ CompletedIsAccepted)
<1>1. Inv => VerdictsGenuine /\ CompletedIsAccepted
  BY DEF Inv, Judged, Final, VerdictsGenuine, CompletedIsAccepted
<1> QED
  BY <1>1, RepairInvariant, PTL

\* Only the executor call of a round launches a repair, and only a save of a process
\* at work changes the checkpoint.
LEMMA WhoWrites ==
  ASSUME Inv, [Next]_vars
  PROVE  /\ calls' # calls => pc = "launching"
         /\ disk' # disk => Alive /\ disk'.run = run
<1> USE DEF memory, files, history, faults
<1>1. CASE Launch
  BY <1>1 DEF Launch
<1>2. CASE LogResumed \/ LogStarted \/ LogRepaired \/ LogCompleted \/ LogFailed
  BY <1>2 DEF LogResumed, LogStarted, LogRepaired, LogCompleted, LogFailed, Appends
<1>3. CASE SaveResumed \/ SaveStarted \/ SaveCompleted \/ SaveFailed
  BY <1>3 DEF SaveResumed, SaveStarted, SaveCompleted, SaveFailed, Saves, Snapshot, Alive
<1>4. CASE Schedule \/ Conclude \/ Begin \/ Watchdog
  BY <1>4 DEF Schedule, Conclude, Begin, Watchdog
<1>5. CASE Answers
  BY <1>5 DEF Answers, Repaired, Verified, ExecutorFails
<1>6. CASE Resume \/ Crash \/ TimePasses \/ UNCHANGED vars
  BY <1>6 DEF Resume, Crash, TimePasses, vars
<1> QED
  BY <1>1, <1>2, <1>3, <1>4, <1>5, <1>6 DEF Next, Goes

\* No repair is launched on a checkpoint that is over its budget of tokens.
THEOREM OverBudgetRunsDoNotRepair == Spec => NoRepairOverBudget
<1>1. Inv /\ [Next]_vars => [calls' # calls => disk.run.usage <= Budget]_vars
  <2> SUFFICES ASSUME Inv, [Next]_vars, calls' # calls PROVE disk.run.usage <= Budget
    OBVIOUS
  <2>1. pc = "launching"
    BY WhoWrites
  <2>2. disk.run.usage \in Nat /\ run.usage \in Nat /\ Budget \in Nat
    BY RepairAssumption DEF Inv, TypeOK, Memory
  <2> QED
    BY <2>1, <2>2 DEF Inv, Behind, InBudget, Alive, Solvent
<1> QED
  BY <1>1, RepairInvariant, PTL DEF Spec, NoRepairOverBudget

\* No checkpoint of this phase loses tokens that an earlier one accounted for.
THEOREM RepairTokensKept == Spec => UsageKept
<1>1. Inv /\ [Next]_vars => [disk'.run.usage >= disk.run.usage]_disk
  <2> SUFFICES ASSUME Inv, [Next]_vars, disk' # disk PROVE disk'.run.usage >= disk.run.usage
    OBVIOUS
  <2>1. disk.run.usage \in Nat /\ run.usage \in Nat
    BY DEF Inv, TypeOK, Memory
  <2> QED
    BY <2>1, WhoWrites DEF Inv, Behind, Alive
<1> QED
  BY <1>1, RepairInvariant, PTL DEF Spec, UsageKept

-----------------------------------------------------------------------------
(* The audit.  As long as no process dies and no write is refused, the       *)
(* counter of events is the length of the trail, in memory while the run is  *)
(* at work and on disk when it is not; the last line is the one that the     *)
(* status on disk, or the save that is still to come, speaks of.             *)

Undisturbed == crashes = 0 /\ refusals = 0

LastIs(type) == trail # <<>> /\ Last = type

Traced ==
  /\ Numbered
  /\ Alive => run.sequence = Len(trail)
  /\ pc = "completed" => LastIs("run_completed")
  /\ pc = "failed" => LastIs("run_failed")
  /\ ~Alive => /\ disk.run.sequence = Len(trail)
               /\ disk.status \in {"completed", "failed"}
               /\ disk.status = "completed" => LastIs("run_completed")
               /\ disk.status = "failed" => LastIs("run_failed")

AuditInv == Inv /\ (Undisturbed => Traced)

\* A line is added under the next number, and is the last one.
LEMMA TracedLogStep ==
  ASSUME Inv, Traced, Alive, Undisturbed', NEW next \in Places, NEW refused,
         NEW type \in {"run_resumed", "repair_started", "repair_completed",
                       "run_completed", "run_failed"},
         Appends(type, next, refused),
         next # "down",
         next = "completed" => type = "run_completed",
         next = "failed" => type = "run_failed"
  PROVE  Traced'
<1>1. /\ trail \in Seq(Event) /\ Len(trail) \in Nat /\ run \in Memory /\ refusals \in Nat
      /\ run.sequence = Len(trail)
  BY DEF Inv, TypeOK, Traced
<1>2. /\ trail' = Append(trail, [type |-> type, sequence |-> run.sequence + 1]) /\ pc' = next
      /\ run'.sequence = run.sequence + 1
  BY <1>1 DEF Appends, Undisturbed, Memory
<1> DEFINE line == [type |-> type, sequence |-> run.sequence + 1]
<1>3. line \in Event /\ line.type = type /\ line.sequence = Len(trail) + 1
  BY <1>1 DEF Event
<1>4. /\ trail' \in Seq(Event) /\ Len(trail') = Len(trail) + 1
      /\ \A i \in 1..Len(trail) : trail'[i] = trail[i]
      /\ trail'[Len(trail) + 1] = line
  BY <1>1, <1>2, <1>3
<1>5. DOMAIN trail = 1..Len(trail) /\ DOMAIN trail' = 1..Len(trail') /\ trail' # <<>>
  BY <1>1, <1>4
<1> HIDE DEF line
<1>6. Numbered'
  BY <1>1, <1>3, <1>4, <1>5 DEF Numbered, Traced
<1>7. LastIs(type)'
  BY <1>1, <1>3, <1>4, <1>5 DEF LastIs, Last
<1> QED
  BY <1>1, <1>2, <1>4, <1>6, <1>7 DEF Traced, Alive, LastIs

LEMMA TracedSaveStep ==
  ASSUME Inv, Traced, Alive, Undisturbed', NEW status, NEW next, NEW refused,
         Saves(status, next, refused),
         next \notin {"completed", "failed"},
         next = "down" => \/ status = "completed" /\ pc = "completed"
                          \/ status = "failed" /\ pc = "failed"
  PROVE  Traced'
<1>1. refusals \in Nat
  BY DEF Inv, TypeOK
<1>2. /\ UNCHANGED <<run, trail>> /\ pc' = next
      /\ disk' = [status |-> status, run |-> run, spent |-> expired]
  BY <1>1 DEF Saves, Snapshot, Undisturbed, memory
<1> QED
  BY <1>2 DEF Traced, Alive, LastIs, Last, Numbered

\* Between two writes the run neither numbers a line nor comes to an end.
LEMMA TracedQuietStep ==
  ASSUME Inv, Traced, Alive, pc' \in {"deciding", "failing", "completing", "starting",
           "launching", "repairing", "verifying", "repaired", pc},
         UNCHANGED <<disk, trail>>, run'.sequence = run.sequence
  PROVE  Traced'
BY DEF Traced, Alive, LastIs, Last, Numbered

LEMMA AuditStep ==
  ASSUME Inv, Traced, Undisturbed', [Next]_vars PROVE Traced'
<1> USE DEF memory, files, history, faults
<1>0. run \in Memory /\ refusals \in Nat /\ crashes \in Nat
  BY DEF Inv, TypeOK
<1>1. CASE LogResumed \/ LogStarted \/ LogRepaired \/ LogCompleted \/ LogFailed
  <2>1. Alive
    BY <1>1 DEF LogResumed, LogStarted, LogRepaired, LogCompleted, LogFailed, Alive
  <2>2. CASE LogResumed
    BY <2>1, <2>2, TracedLogStep DEF LogResumed, Places
  <2>3. CASE LogStarted
    BY <2>1, <2>3, TracedLogStep DEF LogStarted, Places
  <2>4. CASE LogRepaired
    BY <2>1, <2>4, TracedLogStep DEF LogRepaired, Places
  <2>5. CASE LogCompleted
    BY <2>1, <2>5, TracedLogStep DEF LogCompleted, Places
  <2>6. CASE LogFailed
    BY <2>1, <2>6, TracedLogStep DEF LogFailed, Places
  <2> QED
    BY <1>1, <2>2, <2>3, <2>4, <2>5, <2>6
<1>2. CASE SaveResumed \/ SaveStarted \/ SaveCompleted \/ SaveFailed
  <2>1. Alive
    BY <1>2 DEF SaveResumed, SaveStarted, SaveCompleted, SaveFailed, Alive
  <2>2. CASE SaveResumed
    BY <2>1, <2>2, TracedSaveStep DEF SaveResumed
  <2>3. CASE SaveStarted
    BY <2>1, <2>3, TracedSaveStep DEF SaveStarted
  <2>4. CASE SaveCompleted
    BY <2>1, <2>4, TracedSaveStep DEF SaveCompleted
  <2>5. CASE SaveFailed
    BY <2>1, <2>5, TracedSaveStep DEF SaveFailed
  <2> QED
    BY <1>2, <2>2, <2>3, <2>4, <2>5
<1>3. CASE Schedule \/ Conclude \/ Begin \/ Launch \/ Watchdog \/ Answers
  <2>1. /\ Alive /\ UNCHANGED <<disk, trail>>
        /\ pc' \in {"deciding", "failing", "completing", "starting", "launching",
                    "repairing", "verifying", "repaired"}
    BY <1>3 DEF Schedule, Conclude, Begin, Launch, Watchdog, Answers, Repaired, Verified,
                ExecutorFails, Alive
  <2>2. run'.sequence = run.sequence
    BY <1>0, <1>3 DEF Schedule, Conclude, Begin, Launch, Watchdog, Answers, Repaired, Verified,
                ExecutorFails, Memory
  <2> QED
    BY <2>1, <2>2, TracedQuietStep
<1>4. CASE Resume
  BY <1>4 DEF Resume, Restored, Traced, Alive, LastIs, Last, Numbered
<1>5. CASE TimePasses \/ UNCHANGED vars
  BY <1>5 DEF TimePasses, vars, Traced, Alive, LastIs, Last, Numbered
<1>6. ~Crash
  BY <1>0 DEF Crash, Undisturbed
<1> QED
  BY <1>1, <1>2, <1>3, <1>4, <1>5, <1>6 DEF Next, Goes

\* What disturbs a run is never forgotten.
LEMMA DisturbancesCount ==
  ASSUME Inv, [Next]_vars, Undisturbed' PROVE Undisturbed
<1> USE DEF memory, files, history, faults
<1>1. /\ crashes' = crashes \/ crashes' = crashes + 1
      /\ refusals' = refusals \/ refusals' = refusals + 1
  BY DEF Next, Goes, Answers, LogResumed, LogStarted, LogRepaired, LogCompleted, LogFailed,
     Appends, SaveResumed, SaveStarted, SaveCompleted, SaveFailed, Saves, Schedule, Conclude,
     Begin, Launch, Watchdog, Repaired, Verified, ExecutorFails, Resume, Crash, TimePasses, vars
<1> QED
  BY <1>1 DEF Inv, TypeOK, Undisturbed

\* The audit that gradeCheckpoint and the portable report ask for, for every run that
\* was neither killed nor refused a write, however often it was resumed.
THEOREM AuditsVerify == Spec => []AuditVerifies
<1>1. Init => AuditInv
  BY InitInv DEF Init, Snapshot, AuditInv, Traced, Numbered, Alive, LastIs
<1>2. AuditInv /\ [Next]_vars => AuditInv'
  BY InvStep, AuditStep, DisturbancesCount DEF AuditInv
<1>3. AuditInv => AuditVerifies
  BY DEF AuditInv, Undisturbed, Traced, LastIs, AuditVerifies, Alive
<1> QED
  BY <1>1, <1>2, <1>3, PTL DEF Spec
=============================================================================
