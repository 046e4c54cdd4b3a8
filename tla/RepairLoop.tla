----------------------------- MODULE RepairLoop -----------------------------
(***************************************************************************)
(* The last phase of runGraph (runtime.ts), when every node is completed     *)
(* and the graph has a repair policy: the verifier's output decides whether  *)
(* the candidate is accepted, a rejected candidate is repaired and verified  *)
(* again, and the run ends as completed or failed.                          *)
(*                                                                         *)
(* Nothing else of the run is at work, so writes follow one another: one     *)
(* action is what the run does between two awaits, and a process may crash   *)
(* at any of them.  A caller resumes a run that is not completed; nodes are   *)
(* kept, and the run is back in this phase.  Candidates are numbered: 0 is    *)
(* what the candidate node returned, k what the k-th repair returned.         *)
(***************************************************************************)
EXTENDS Integers, Sequences

CONSTANTS
  Enabled,      \* repairPolicy.enabled
  Named,        \* repairPolicy.candidateNodeId is a node of the graph
  MaxRounds,    \* budgets.maxRepairRounds
  Budget,       \* budgets.maxActualTokens ?? budgets.maxEstimatedTokens
  Costs,        \* the tokens an executor may report for an answer
  MaxResumes,   \* bound: how often the run is resumed
  MaxCrashes,   \* bound: how often a process dies
  MaxRefusals   \* bound: how many writes the file system refuses

ASSUME RepairAssumption ==
  /\ {Enabled, Named} \subseteq BOOLEAN
  /\ Enabled => Named   \* validateGraph looks at a policy that is enabled only
  /\ {MaxRounds, Budget, MaxResumes, MaxCrashes, MaxRefusals} \subseteq Nat
  /\ Costs \subseteq Nat

VARIABLES
  pc,       \* where the run is, "down" when no process is at work on it
  run,      \* the memory of the process
  draft,    \* the repaired candidate that is being verified
  expired,  \* the deadline of the run has passed
  disk,     \* the checkpoint
  trail,    \* the lines of the audit file
  judged,   \* the verdicts verifiers have given: candidate and whether accepted
  calls,    \* how many repairs have been launched
  resumes, crashes, refusals

memory == <<run, draft, expired>>
files == <<disk, trail>>
history == <<judged, calls>>
faults == <<resumes, crashes, refusals>>
vars == <<pc, memory, files, history, faults>>

Memory == [candidate: Nat, accepted: BOOLEAN, rounds: Nat, usage: Nat, sequence: Nat]

Event == [type: {"run_resumed", "repair_started", "repair_completed",
                 "run_completed", "run_failed"}, sequence: Nat]

-----------------------------------------------------------------------------
(* Writes.  A refused write throws: inside the try of runGraph that fails    *)
(* the run, outside of it the invocation ends with what the disk has.        *)

Snapshot(status) == [status |-> status, run |-> run, spent |-> expired]

\* Mutant of Appends: the line is numbered before the counter is advanced.
AppendsBefore(type, next, refused) ==
  /\ run' = [run EXCEPT !.sequence = @ + 1]
  /\ \/ /\ trail' = Append(trail, [type |-> type, sequence |-> run.sequence])
        /\ pc' = next
        /\ UNCHANGED refusals
     \/ /\ refusals < MaxRefusals
        /\ refusals' = refusals + 1
        /\ pc' = refused
        /\ UNCHANGED trail
  /\ UNCHANGED <<draft, expired, disk, history, resumes, crashes>>

\* A line is numbered when append is called, also when it is refused.
Appends(type, next, refused) ==
  /\ run' = [run EXCEPT !.sequence = @ + 1]
  /\ \/ /\ trail' = Append(trail, [type |-> type, sequence |-> run.sequence + 1])
        /\ pc' = next
        /\ UNCHANGED refusals
     \/ /\ refusals < MaxRefusals
        /\ refusals' = refusals + 1
        /\ pc' = refused
        /\ UNCHANGED trail
  /\ UNCHANGED <<draft, expired, disk, history, resumes, crashes>>

Saves(status, next, refused) ==
  /\ \/ /\ disk' = Snapshot(status)
        /\ pc' = next
        /\ UNCHANGED refusals
     \/ /\ refusals < MaxRefusals
        /\ refusals' = refusals + 1
        /\ pc' = refused
        /\ UNCHANGED disk
  /\ UNCHANGED <<memory, trail, history, resumes, crashes>>

-----------------------------------------------------------------------------
(* An invocation.                                                          *)

\* Mutant of Restored: the rounds are counted afresh.
RestoredFresh == [disk.run EXCEPT !.rounds = 0]

\* Mutant of Restored: the tokens are counted afresh.
RestoredUnpaid == [disk.run EXCEPT !.usage = 0]

\* Mutant of Restored: the number of the last event is not restored.
RestoredUnnumbered ==
  [candidate |-> disk.run.candidate, accepted |-> disk.run.accepted,
   rounds |-> disk.run.rounds, usage |-> disk.run.usage]

\* What a resumed run begins with.
Restored == disk.run

\* resume: the checkpoint is loaded; a completed run is only reported.
Resume ==
  /\ pc = "down" /\ disk.status # "completed" /\ resumes < MaxResumes
  /\ resumes' = resumes + 1
  /\ run' = Restored
  /\ draft' = 0
  /\ expired' = disk.spent
  /\ pc' = "opening"
  /\ UNCHANGED <<files, history, crashes, refusals>>

LogResumed == pc = "opening" /\ Appends("run_resumed", "opened", "down")

SaveResumed == pc = "opened" /\ Saves("running", "scheduling", "down")

\* Mutant of Schedule: the budget is looked at after the next answer only.
ScheduleAnyway ==
  /\ pc = "scheduling"
  /\ pc' = "deciding"
  /\ UNCHANGED <<memory, files, history, faults>>

\* A run over its budget fails; otherwise no node is pending.
Schedule ==
  /\ pc = "scheduling"
  /\ pc' = IF run.usage > Budget THEN "failing" ELSE "deciding"
  /\ UNCHANGED <<memory, files, history, faults>>

-----------------------------------------------------------------------------
(* The loop.                                                               *)

\* The candidate is accepted, or no round is left, or no time; or there is no
\* candidate node at all.
Conclude ==
  /\ pc = "deciding"
  /\ \/ Named /\ run.accepted /\ pc' = "completing"
     \/ /\ ~Named \/ (~run.accepted /\ (~Enabled \/ run.rounds >= MaxRounds \/ expired))
        /\ pc' = "failing"
  /\ UNCHANGED <<memory, files, history, faults>>

\* A round begins: it is counted, logged and saved before the executor is called.
Begin ==
  /\ pc = "deciding" /\ ~run.accepted /\ Enabled /\ run.rounds < MaxRounds /\ ~expired
  /\ run' = [run EXCEPT !.rounds = @ + 1]
  /\ pc' = "starting"
  /\ UNCHANGED <<draft, expired, files, history, faults>>

LogStarted == pc = "starting" /\ Appends("repair_started", "started", "failing")

\* Mutant of SaveStarted: the round is not saved before its executor is called.
StartUnsaved ==
  /\ pc = "started"
  /\ pc' = "launching"
  /\ UNCHANGED <<memory, files, history, faults>>

SaveStarted == pc = "started" /\ Saves("running", "launching", "failing")

\* The repair executor is called, if the caller has one.
Launch ==
  /\ pc = "launching"
  /\ \/ pc' = "repairing" /\ calls' = calls + 1
     \/ pc' = "failing" /\ UNCHANGED calls
  /\ UNCHANGED <<memory, files, judged, faults>>

\* The answer breaks the output schema, or its tokens are one too many.
Rejected(valid, cost) == ~valid \/ run.usage + cost > Budget

\* The executor answers; the tokens count whatever becomes of the answer.
Repaired(valid, cost) ==
  /\ pc = "repairing"
  /\ run' = [run EXCEPT !.usage = @ + cost]
  /\ IF Rejected(valid, cost)
     THEN pc' = "failing" /\ UNCHANGED draft
     ELSE pc' = "verifying" /\ draft' = calls
  /\ UNCHANGED <<expired, files, history, faults>>

\* Mutant of Verified: the repaired candidate is kept, the old verdict too.
VerifiedApart(valid, cost, verdict) ==
  /\ pc = "verifying"
  /\ judged' = IF valid THEN judged \cup {<<draft, verdict>>} ELSE judged
  /\ IF Rejected(valid, cost)
     THEN /\ run' = [run EXCEPT !.usage = @ + cost, !.candidate = draft]
          /\ pc' = "failing"
     ELSE /\ run' = [run EXCEPT !.usage = @ + cost, !.candidate = draft,
                                !.accepted = verdict]
          /\ pc' = "repaired"
  /\ UNCHANGED <<draft, expired, files, calls, faults>>

\* The verifier answers; candidate and verdict take effect together.
Verified(valid, cost, verdict) ==
  /\ pc = "verifying"
  /\ judged' = IF valid THEN judged \cup {<<draft, verdict>>} ELSE judged
  /\ IF Rejected(valid, cost)
     THEN run' = [run EXCEPT !.usage = @ + cost] /\ pc' = "failing"
     ELSE /\ run' = [run EXCEPT !.usage = @ + cost, !.candidate = draft,
                                !.accepted = verdict]
          /\ pc' = "repaired"
  /\ UNCHANGED <<draft, expired, files, calls, faults>>

\* An executor throws, or an executor that may be called is missing.
ExecutorFails ==
  /\ pc \in {"repairing", "verifying"}
  /\ pc' = "failing"
  /\ UNCHANGED <<memory, files, history, faults>>

\* Mutant of Watchdog: no timer is set.
NoWatchdog == FALSE

\* An executor has what remains of the run's time, a verifier at least a moment.
Watchdog ==
  /\ expired /\ pc \in {"repairing", "verifying"}
  /\ pc' = "failing"
  /\ UNCHANGED <<memory, files, history, faults>>

LogRepaired == pc = "repaired" /\ Appends("repair_completed", "deciding", "failing")

-----------------------------------------------------------------------------
(* The end.                                                                *)

LogCompleted == pc = "completing" /\ Appends("run_completed", "completed", "failing")

SaveCompleted == pc = "completed" /\ Saves("completed", "down", "failing")

LogFailed == pc = "failing" /\ Appends("run_failed", "failed", "down")

SaveFailed == pc = "failed" /\ Saves("failed", "down", "down")

Crash ==
  /\ pc # "down" /\ crashes < MaxCrashes
  /\ crashes' = crashes + 1
  /\ pc' = "down"
  /\ UNCHANGED <<memory, files, history, resumes, refusals>>

TimePasses ==
  /\ pc # "down" /\ ~expired
  /\ expired' = TRUE
  /\ UNCHANGED <<pc, run, draft, files, history, faults>>

\* The last node has been saved as completed.
Init ==
  /\ pc = "deciding"
  /\ \E accepted \in BOOLEAN, cost \in Costs :
       /\ cost <= Budget
       /\ run = [candidate |-> 0, accepted |-> accepted, rounds |-> 0, usage |-> cost,
                 sequence |-> 0]
       /\ judged = {<<0, accepted>>}
  /\ draft = 0
  /\ expired \in BOOLEAN
  /\ disk = Snapshot("running")
  /\ trail = <<>>
  /\ calls = 0
  /\ resumes = 0 /\ crashes = 0 /\ refusals = 0

\* What the process does without anybody else.
Goes ==
  \/ LogResumed \/ SaveResumed \/ Schedule
  \/ Conclude \/ Begin \/ LogStarted \/ SaveStarted \/ Launch
  \/ Watchdog \/ LogRepaired
  \/ LogCompleted \/ SaveCompleted \/ LogFailed \/ SaveFailed

Answers ==
  \/ \E valid \in BOOLEAN, cost \in Costs :
       \/ Repaired(valid, cost)
       \/ \E verdict \in BOOLEAN : Verified(valid, cost, verdict)
  \/ ExecutorFails

Next == Goes \/ Answers \/ Resume \/ Crash \/ TimePasses

Spec == Init /\ [][Next]_vars

\* A process goes on, its timers fire and time goes on; executors may never answer.
FairSpec == Spec /\ WF_vars(Goes) /\ WF_vars(TimePasses)

-----------------------------------------------------------------------------
(* Properties.                                                             *)

Places == {"down", "opening", "opened", "scheduling", "deciding", "starting", "started",
           "launching", "repairing", "verifying", "repaired", "completing", "completed",
           "failing", "failed"}

\* Every variable has its type.
TypeOK ==
  /\ pc \in Places
  /\ run \in Memory /\ draft \in Nat /\ expired \in BOOLEAN
  /\ disk \in [status: {"running", "completed", "failed"}, run: Memory, spent: BOOLEAN]
  /\ trail \in Seq(Event)
  /\ judged \in SUBSET (Nat \X BOOLEAN)
  /\ calls \in Nat
  /\ resumes \in Nat /\ crashes \in Nat /\ refusals \in Nat

\* Repairs are capped: over all invocations, crashes and refused writes, no more
\* are launched than the graph's budget allows.
RepairsCapped == calls <= MaxRounds

\* The checkpoint a crash would leave counts every repair that has been launched.
RepairsOnRecord == calls <= disk.run.rounds

\* A checkpoint never shows a candidate beside a verdict on another one: what it
\* says of its candidate, a verifier has said of that very candidate.
VerdictsGenuine == <<disk.run.candidate, disk.run.accepted>> \in judged

\* A run ends as completed only if its candidate has been accepted.
CompletedIsAccepted == disk.status = "completed" => disk.run.accepted

\* No repair is launched on a checkpoint that is over its budget of tokens.
NoRepairOverBudget == [][calls' # calls => disk.run.usage <= Budget]_vars

\* No checkpoint loses tokens that an earlier one accounted for.
UsageKept == [][disk'.run.usage >= disk.run.usage]_disk

\* Every invocation comes to an end although executors never answer.
InvocationEnds == (pc # "down") ~> (pc = "down")

Numbered == \A i \in DOMAIN trail : trail[i].sequence = i

Last == trail[Len(trail)].type

\* What gradeCheckpoint and the portable report look for: when a run has ended, its
\* events are numbered one by one and the last of them agrees with the checkpoint,
\* however often it was resumed, unless a crash or a refused write came in between.
AuditVerifies ==
  pc = "down" /\ disk.status # "running" /\ crashes = 0 /\ refusals = 0 =>
    /\ Numbered /\ trail # <<>>
    /\ Last = (IF disk.status = "completed" THEN "run_completed" ELSE "run_failed")

\* The events of a completed run are numbered one by one.
CompletedIsNumbered == pc = "down" /\ disk.status = "completed" => Numbered
=============================================================================
