---------------------------- MODULE EffectLedger ----------------------------
(***************************************************************************)
(* What a run promises about its side effects, whatever implements it: a    *)
(* ledger.  An effect is entered before it is tried, it is tried at most    *)
(* once per entry, and an entry is struck out only by the operator, who     *)
(* vouches that the attempt came to nothing.  GraphRuntime implements it.   *)
(***************************************************************************)
EXTENDS Naturals

CONSTANT Effects   \* what the run may do to the world

VARIABLES
  book,   \* what is written of each effect
  acts    \* how often it has been tried since it was entered

Entries == {"clear", "entered", "settled"}

\* What a write may make of an entry.  A settled effect may come into doubt again.
Successors == [clear |-> {"clear", "entered"},
          entered |-> {"entered", "settled"},
          settled |-> {"entered", "settled"}]

Init ==
  /\ book = [e \in Effects |-> "clear"]
  /\ acts = [e \in Effects |-> 0]

\* One write brings any number of entries up to date.
Write ==
  /\ book' \in [Effects -> Entries]
  /\ \A e \in Effects : book'[e] \in Successors[book[e]]
  /\ UNCHANGED acts

Act(e) ==
  /\ book[e] = "entered" /\ acts[e] = 0
  /\ acts' = [acts EXCEPT ![e] = 1]
  /\ UNCHANGED book

Void(e) ==
  /\ book[e] = "entered"
  /\ book' = [book EXCEPT ![e] = "clear"]
  /\ acts' = [acts EXCEPT ![e] = 0]

Next == Write \/ \E e \in Effects : Act(e) \/ Void(e)

Spec == Init /\ [][Next]_<<book, acts>>
=============================================================================
