---------------------------- MODULE MapContract ----------------------------
(***************************************************************************)
(* What a parallel_map promises about its items, whatever schedules them.   *)
(* Items are taken in order, and none after the first failure; an item is   *)
(* called at most once; from the first failure on, every call at work knows *)
(* of it; and the map is over only when nothing is in hand any more: it is  *)
(* complete with all of its items, or it has failed.  A first failure may   *)
(* come without a reason: such a map is complete too.  FanOut implements it. *)
(***************************************************************************)
EXTENDS Integers

CONSTANTS
  Maps,   \* the maps
  Items   \* how many items each of them has

VARIABLES
  state,     \* what has become of each item of each map
  informed,  \* of each map: the items whose call knows that the map has failed
  excused,   \* the maps whose first failure came without a reason
  outcome    \* of each map: how it ended

States == {"idle", "taken", "called", "good", "bad", "fulfilled", "rejected"}

In(m, S) == {i \in 1..Items[m] : state[m][i] \in S}

Failed(m) == In(m, {"rejected"}) # {}

Called(m) == In(m, {"called"})

\* The items of m that are taken and not settled.
InHand(m) == In(m, {"taken", "called", "good", "bad"})

\* The next item of m, if there is one.
Front(m) == {i \in In(m, {"idle"}) : \A j \in 1..i - 1 : state[m][j] # "idle"}

Settled(s) == IF s = "good" THEN "fulfilled" ELSE "rejected"

Init ==
  /\ state = [m \in Maps |-> [i \in 1..Items[m] |-> "idle"]]
  /\ informed = [m \in Maps |-> {}]
  /\ excused = {}
  /\ outcome = [m \in Maps |-> "none"]

\* The first items are taken; the one after them may be refused uncalled.
Begin(m) ==
  /\ outcome[m] = "none" /\ In(m, {"idle"}) = 1..Items[m]
  /\ \E k \in 0..Items[m], fate \in {"idle", "rejected"} :
       state' = [state EXCEPT ![m] =
         [i \in 1..Items[m] |-> IF i <= k THEN "taken" ELSE IF i = k + 1 THEN fate ELSE "idle"]]
  /\ UNCHANGED <<informed, excused, outcome>>

\* A call that begins after the failure knows of it at once.
Call(m, i) ==
  /\ state[m][i] = "taken"
  /\ state' = [state EXCEPT ![m][i] = "called"]
  /\ informed' = [informed EXCEPT ![m] = IF Failed(m) THEN @ \cup {i} ELSE @]
  /\ UNCHANGED <<excused, outcome>>

Return(m, i) ==
  /\ state[m][i] = "called"
  /\ \E s \in {"good", "bad"} : state' = [state EXCEPT ![m][i] = s]
  /\ informed' = [informed EXCEPT ![m] = @ \ {i}]
  /\ UNCHANGED <<excused, outcome>>

\* An item is settled.  While nothing has failed the next one is taken with it, or
\* refused uncalled.  A failure is made known to all calls at work.
Settle(m, i) ==
  /\ state[m][i] \in {"good", "bad"}
  /\ \/ /\ state[m][i] = "bad" \/ Failed(m) \/ Front(m) = {}
        /\ state' = [state EXCEPT ![m][i] = Settled(@)]
     \/ /\ state[m][i] = "good" /\ ~Failed(m)
        /\ \E j \in Front(m), fate \in {"taken", "rejected"} :
             state' = [state EXCEPT ![m][i] = "fulfilled", ![m][j] = fate]
  /\ informed' = [informed EXCEPT ![m] = IF Failed(m)' THEN Called(m) ELSE @]
  /\ \/ UNCHANGED excused
     \/ /\ state[m][i] = "bad" /\ ~Failed(m)
        /\ excused' = excused \cup {m}
  /\ UNCHANGED outcome

Over(m) == Failed(m) /\ InHand(m) = {}

Complete(m) ==
  /\ outcome[m] = "none"
  /\ In(m, {"fulfilled"}) = 1..Items[m] \/ (m \in excused /\ Over(m))
  /\ outcome' = [outcome EXCEPT ![m] = "completed"]
  /\ UNCHANGED <<state, informed, excused>>

Fail(m) ==
  /\ outcome[m] = "none" /\ m \notin excused /\ Over(m)
  /\ outcome' = [outcome EXCEPT ![m] = "failed"]
  /\ UNCHANGED <<state, informed, excused>>

Next ==
  \E m \in Maps :
    \/ Begin(m) \/ Complete(m) \/ Fail(m)
    \/ \E i \in 1..Items[m] : Call(m, i) \/ Return(m, i) \/ Settle(m, i)

Spec == Init /\ [][Next]_<<state, informed, excused, outcome>>
=============================================================================
