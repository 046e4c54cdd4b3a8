---------------------------- MODULE GuardedCall ----------------------------
(***************************************************************************)
(* What a guarded execution of an agent promises, whatever timers, signals  *)
(* and processes carry it out.  A process is started at most once, with     *)
(* leave and in time, and only for a caller who waits; leave once denied is *)
(* never given; what the caller is told is true, and told once; and what    *)
(* is dead stays dead.  AgentCall implements it.                            *)
(***************************************************************************)

CONSTANT Calls

VARIABLES
  leave,    \* may the call start a process: "free" if nobody has to be asked
  proc,     \* its process: "orphaned" when only helpers of it are left
  told,     \* what the caller knows
  expired,  \* the deadline has passed
  aborted   \* the call has been told to stop

\* What a process may come to.
Later == [running |-> {"running", "orphaned", "dead"},
          orphaned |-> {"orphaned", "dead"},
          dead |-> {"dead"}]

\* What has to be so of the process when its caller is told v.
Truth(v) == CASE v = "stopped" -> {"dead"} [] OTHER -> {"orphaned", "dead"}

Init ==
  /\ \E l \in {"free", "undecided"} : leave = [c \in Calls |-> l]
  /\ proc = [c \in Calls |-> "none"]
  /\ told = [c \in Calls |-> "idle"]
  /\ expired = [c \in Calls |-> FALSE]
  /\ aborted = [c \in Calls |-> FALSE]

Ask(c) ==
  /\ told[c] = "idle" /\ leave[c] = "undecided"
  /\ told' = [told EXCEPT ![c] = "waiting"]
  /\ \E l \in IF aborted[c] THEN {"denied"} ELSE {"undecided", "denied"} :
       leave' = [leave EXCEPT ![c] = l]
  /\ UNCHANGED <<proc, expired, aborted>>

Decide(c) ==
  /\ told[c] = "waiting" /\ leave[c] = "undecided"
  /\ \E l \in {"allowed", "denied"} : leave' = [leave EXCEPT ![c] = l]
  /\ UNCHANGED <<proc, told, expired, aborted>>

Start(c) ==
  /\ told[c] \in {"idle", "waiting"} /\ proc[c] = "none"
  /\ leave[c] \in {"free", "allowed"} /\ ~expired[c]
  /\ proc' = [proc EXCEPT ![c] = "running"]
  /\ told' = [told EXCEPT ![c] = "waiting"]
  /\ UNCHANGED <<leave, expired, aborted>>

\* The call comes to nothing: leave is denied or late, or there is no such program.
Decline(c) ==
  /\ told[c] \in {"idle", "waiting"} /\ proc[c] = "none" /\ leave[c] # "undecided"
  /\ told' = [told EXCEPT ![c] = "failed"]
  /\ UNCHANGED <<leave, proc, expired, aborted>>

\* The process goes on, and whoever waits may be told of its end.  A call that was
\* told to stop has not succeeded; "abandoned" says that helpers may have survived.
Proceed(c) ==
  /\ proc[c] # "none"
  /\ \E p \in Later[proc[c]] :
       /\ proc' = [proc EXCEPT ![c] = p]
       /\ \/ UNCHANGED told
          \/ /\ told[c] = "waiting"
             /\ \E v \in {"stopped", "abandoned"} \cup IF aborted[c] THEN {} ELSE {"fulfilled", "failed"} :
                  p \in Truth(v) /\ told' = [told EXCEPT ![c] = v]
  /\ UNCHANGED <<leave, expired, aborted>>

\* Whoever is told to stop while it asks for leave is denied it.
Stop(c) ==
  /\ aborted' = [aborted EXCEPT ![c] = TRUE]
  /\ leave' = [leave EXCEPT ![c] = IF told[c] = "waiting" /\ @ = "undecided" THEN "denied" ELSE @]
  /\ UNCHANGED <<proc, expired>>

Abort(c) ==
  /\ told[c] \in {"idle", "waiting"}
  /\ Stop(c) /\ UNCHANGED told

GiveUp(c) ==
  /\ told[c] = "waiting" /\ expired[c]
  /\ Stop(c) /\ told' = [told EXCEPT ![c] = "timedOut"]

TimePasses(c) ==
  /\ told[c] # "idle"
  /\ expired' = [expired EXCEPT ![c] = TRUE]
  /\ UNCHANGED <<leave, proc, told, aborted>>

Next == \E c \in Calls :
  \/ Ask(c) \/ Decide(c) \/ Start(c) \/ Decline(c) \/ Proceed(c)
  \/ Abort(c) \/ GiveUp(c) \/ TimePasses(c)

Spec == Init /\ [][Next]_<<leave, proc, told, expired, aborted>>
=============================================================================
