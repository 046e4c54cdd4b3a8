------------------------------- MODULE FanOut -------------------------------
(***************************************************************************)
(* One batch of runGraph while its executors run (runtime.ts): every        *)
(* parallel_map of the batch spreads its items over a team of workers       *)
(* (mapLimitSettled), all workers share one limiter (createLimiter), and    *)
(* invokeExecutor races each execution with a watchdog and passes on the    *)
(* abort of the fan-out.  An agent or verifier node is a map with one item. *)
(*                                                                         *)
(* One action is what a worker does between two awaits.  Continuations run  *)
(* in any order, with two exceptions.  A worker goes on after the waiter    *)
(* that its own release woke: that continuation was queued first.  And a    *)
(* node starts after a write of its checkpoint, so when no continuation is  *)
(* left.  An executor may end at any time, also by a continuation.          *)
(*                                                                         *)
(* An execution that reports usage reports one token; items are numbered,   *)
(* and what they contain is left out.                                       *)
(***************************************************************************)
EXTENDS Integers, Sequences, FiniteSets, FiniteSetsExt

CONSTANTS
  Maps,         \* the nodes of the batch that call executors
  Items,        \* how many items each of them has
  Undefined,    \* the numbers of the items that are undefined
  Concurrency,  \* node.maxConcurrency ?? budgets.maxParallel
  Limit         \* budgets.maxParallel

ASSUME BatchAssumption ==
  /\ IsFiniteSet(Maps)
  /\ Items \in [Maps -> Nat]
  /\ Undefined \in [Maps -> SUBSET Nat]
  /\ Concurrency \in [Maps -> Nat]
  /\ Limit \in Nat \ {0}

VARIABLES
  pc,       \* where each worker is
  item,     \* the item it has taken, or 0
  verdict,  \* how its last execution ended
  ahead,    \* the waiter its last release woke, which goes on before it
  told,     \* its executor's signal is aborted
  lost,     \* its executor was given up and may still be at work
  cursor,   \* of each map: how many items have been taken
  results,  \* of each map: settlements
  cause,    \* of each map: firstFailure, "none" until failed
  outcome,  \* of each map: how executeNode ended
  usage,    \* of each map: the tokens its execution returned or its error carried
  reported, \* of each map: the tokens its executors reported
  active, waiting, \* the limiter
  expired   \* the deadline of the run has passed

slots == <<active, waiting>>
worker == <<pc, item, verdict, ahead, told, lost>>
node == <<cursor, results, cause, outcome, usage, reported>>
vars == <<worker, node, slots, expired>>

TeamSize(m) == Min({Max({1, Concurrency[m]}), Max({1, Items[m]})})

Team(m) == {<<m, i>> : i \in 1..TeamSize(m)}

Workers == UNION {Team(m) : m \in Maps}

Verdicts == {"none", "valid", "invalid", "thrown", "void", "timeout"}

Failures == {"undefined", "invalid", "thrown", "void", "timeout"}

-----------------------------------------------------------------------------
(* The limiter.                                                            *)

\* Mutant of Release: the slot goes back, and nobody is woken.
ReleaseSilently(w) ==
  /\ active' = active - 1
  /\ waiting' = waiting
  /\ ahead' = [ahead EXCEPT ![w] = {}]
  /\ pc' = [pc EXCEPT ![w] = "released"]

\* The slot goes back and the first waiter, if there is one, is woken.
Release(w) ==
  /\ active' = active - 1
  /\ waiting' = IF waiting = <<>> THEN <<>> ELSE Tail(waiting)
  /\ ahead' = [ahead EXCEPT ![w] = IF waiting = <<>> THEN {} ELSE {Head(waiting)}]
  /\ pc' = [v \in Workers |->
              IF v = w THEN "released"
              ELSE IF waiting # <<>> /\ v = Head(waiting) THEN "woken" ELSE pc[v]]

\* Mutant of Wake: the woken waiter is not counted.
WakeUncounted(w) ==
  /\ pc[w] = "woken"
  /\ pc' = [pc EXCEPT ![w] = "admitted"]
  /\ UNCHANGED <<item, verdict, ahead, told, lost, node, slots, expired>>

\* The woken waiter takes its slot, whatever has been taken since.
Wake(w) ==
  /\ pc[w] = "woken"
  /\ active' = active + 1
  /\ pc' = [pc EXCEPT ![w] = "admitted"]
  /\ UNCHANGED <<item, verdict, ahead, told, lost, node, waiting, expired>>

-----------------------------------------------------------------------------
(* The workers of a map.                                                   *)

\* How far the first round of a team gets: to the first undefined item.
FirstHole(m) ==
  Min({i \in 1..TeamSize(m) : i \in Undefined[m]} \cup {TeamSize(m) + 1})

\* Array.from starts every worker, which goes on to its first await.
Start(m) ==
  LET hole == FirstHole(m)
      begun == {w \in Team(m) : w[2] < hole /\ w[2] <= Items[m]}
      free == Max({0, Limit - active})
      late == {w \in begun : w[2] > free}
  IN
  /\ ~expired /\ \A w \in Team(m) : pc[w] = "new"
  /\ \A w \in Workers : pc[w] \notin {"admitted", "woken", "released"}
  /\ pc' = [w \in Workers |-> IF w \notin Team(m) THEN pc[w]
                              ELSE IF w \notin begun THEN "done"
                              ELSE IF w \in late THEN "waiting" ELSE "admitted"]
  /\ item' = [w \in Workers |-> IF w \in begun THEN w[2] ELSE item[w]]
  /\ active' = active + Cardinality(begun \ late)
  /\ waiting' = waiting \o [i \in 1..Cardinality(late) |-> <<m, free + i>>]
  /\ cursor' = [cursor EXCEPT ![m] = Min({hole, TeamSize(m), Items[m]})]
  /\ IF hole \in 1..Min({TeamSize(m), Items[m]})
     THEN /\ results' = [results EXCEPT ![m][hole] = "rejected"]
          /\ cause' = [cause EXCEPT ![m] = "undefined"]
     ELSE UNCHANGED <<results, cause>>
  /\ UNCHANGED <<verdict, ahead, told, lost, outcome, usage, reported, expired>>

\* Mutant of Launch: an abort before the launch is not looked at.
LaunchUntold(w) ==
  /\ pc[w] = "admitted"
  /\ pc' = [pc EXCEPT ![w] = "running"]
  /\ told' = [told EXCEPT ![w] = FALSE]
  /\ UNCHANGED <<item, verdict, ahead, lost, node, slots, expired>>

\* invokeExecutor calls the executor, with an aborted signal if the fan-out failed.
Launch(w) ==
  /\ pc[w] = "admitted"
  /\ pc' = [pc EXCEPT ![w] = "running"]
  /\ told' = [told EXCEPT ![w] = cause[w[1]] # "none"]
  /\ UNCHANGED <<item, verdict, ahead, lost, node, slots, expired>>

\* The execution has ended for the run, with verdict v.
Ends(w, v) ==
  /\ pc[w] = "running"
  /\ verdict' = [verdict EXCEPT ![w] = v]
  /\ Release(w)
  /\ UNCHANGED <<item, told, cursor, results, cause, outcome, usage, expired>>

\* The executor answers: with usage, or by an error without any; the error is void
\* if what it throws is undefined.
Answer(w, v) ==
  /\ Ends(w, v)
  /\ reported' = IF v \in {"thrown", "void"} THEN reported
                 ELSE [reported EXCEPT ![w[1]] = @ + 1]
  /\ UNCHANGED lost

\* Mutant of Watchdog: no timer is set.
NoWatchdog(w) == FALSE

\* Each execution has what remained of the run's time when the node started.
Watchdog(w) ==
  /\ expired
  /\ Ends(w, "timeout")
  /\ lost' = lost \cup {w}
  /\ UNCHANGED reported

\* An executor that was given up comes to its end.
LostEnds(w) ==
  /\ w \in lost
  /\ lost' = lost \ {w}
  /\ UNCHANGED <<pc, item, verdict, ahead, told, node, slots, expired>>

\* The next item of m is undefined, and is looked at.
Hole(m, stop) ==
  ~stop /\ cursor[m] < Items[m] /\ cursor[m] + 1 \in Undefined[m]

\* recordFailure: the first failure is kept, and aborts what is in flight.
Recorded(w, v, hole) ==
  LET m == w[1]
      first == IF v # "valid" THEN v ELSE IF hole THEN "undefined" ELSE "none"
  IN
  /\ cause' = [cause EXCEPT ![m] = IF @ = "none" THEN first ELSE @]
  /\ told' = [u \in Workers |-> told[u] \/ (u[1] = m /\ pc[u] = "running" /\ first # "none")]
  /\ results' = [results EXCEPT ![m] =
       [i \in DOMAIN @ |-> IF i = item[w]
                           THEN IF v = "valid" THEN "fulfilled" ELSE "rejected"
                           ELSE IF hole /\ i = cursor[m] + 1 THEN "rejected" ELSE @[i]]]

\* The worker takes an item: it gets a free slot or waits for one.
Take(w) ==
  /\ cursor' = [cursor EXCEPT ![w[1]] = @ + 1]
  /\ item' = [item EXCEPT ![w] = cursor[w[1]] + 1]
  /\ \/ /\ active < Limit
        /\ active' = active + 1
        /\ pc' = [pc EXCEPT ![w] = "admitted"]
        /\ UNCHANGED waiting
     \/ /\ active >= Limit
        /\ waiting' = Append(waiting, w)
        /\ pc' = [pc EXCEPT ![w] = "waiting"]
        /\ UNCHANGED active

\* The worker's item is settled, and the worker goes round its loop to the next
\* await: the failure of the map, the last item or an undefined one ends it.
Settle(w) ==
  LET m == w[1]
      stop == verdict[w] # "valid" \/ cause[m] # "none"
      hole == Hole(m, stop)
  IN
  /\ pc[w] = "released" /\ \A v \in ahead[w] : pc[v] # "woken"
  /\ Recorded(w, verdict[w], hole)
  /\ verdict' = [verdict EXCEPT ![w] = "none"]
  /\ ahead' = [ahead EXCEPT ![w] = {}]
  /\ \/ /\ stop \/ hole \/ cursor[m] = Items[m]
        /\ pc' = [pc EXCEPT ![w] = "done"]
        /\ cursor' = [cursor EXCEPT ![m] = IF hole THEN @ + 1 ELSE @]
        /\ UNCHANGED <<item, slots>>
     \/ /\ ~stop /\ ~hole /\ cursor[m] < Items[m]
        /\ Take(w)
  /\ UNCHANGED <<lost, outcome, usage, reported, expired>>

Fulfilled(m) == {i \in DOMAIN results[m] : results[m][i] = "fulfilled"}

\* firstFailure is undefined: nothing has failed, or what failed first was void.
NoFailure(m) == cause[m] \in {"none", "void"}

\* Mutant of Collect: the first worker to end decides.
CollectEarly(m) ==
  /\ outcome[m] = "none" /\ \E w \in Team(m) : pc[w] = "done"
  /\ outcome' = [outcome EXCEPT ![m] = IF NoFailure(m) THEN "completed" ELSE "failed"]
  /\ usage' = [usage EXCEPT ![m] = Cardinality(Fulfilled(m))]
  /\ UNCHANGED <<worker, cursor, results, cause, reported, slots, expired>>

\* Every worker has ended: the map has its outputs, or its first failure and the
\* tokens of the items that succeeded.
Collect(m) ==
  /\ outcome[m] = "none" /\ \A w \in Team(m) : pc[w] = "done"
  /\ outcome' = [outcome EXCEPT ![m] = IF NoFailure(m) THEN "completed" ELSE "failed"]
  /\ usage' = [usage EXCEPT ![m] = Cardinality(Fulfilled(m))]
  /\ UNCHANGED <<worker, cursor, results, cause, reported, slots, expired>>

TimePasses ==
  /\ ~expired
  /\ expired' = TRUE
  /\ UNCHANGED <<worker, node, slots>>

-----------------------------------------------------------------------------
Init ==
  /\ pc = [w \in Workers |-> "new"]
  /\ item = [w \in Workers |-> 0]
  /\ verdict = [w \in Workers |-> "none"]
  /\ ahead = [w \in Workers |-> {}]
  /\ told = [w \in Workers |-> FALSE]
  /\ lost = {}
  /\ cursor = [m \in Maps |-> 0]
  /\ results = [m \in Maps |-> [i \in 1..Items[m] |-> "none"]]
  /\ cause = [m \in Maps |-> "none"]
  /\ outcome = [m \in Maps |-> "none"]
  /\ usage = [m \in Maps |-> 0]
  /\ reported = [m \in Maps |-> 0]
  /\ active = 0 /\ waiting = <<>>
  /\ expired = FALSE

Goes(w) == Wake(w) \/ Launch(w) \/ Settle(w) \/ Watchdog(w)

Executor(w) == LostEnds(w) \/ \E v \in {"valid", "invalid", "thrown", "void"} : Answer(w, v)

Next ==
  \/ \E m \in Maps : Start(m) \/ Collect(m)
  \/ \E w \in Workers : Goes(w) \/ Executor(w)
  \/ TimePasses

Spec == Init /\ [][Next]_vars

\* Continuations run, timers fire and time goes on; executors may never answer.
FairSpec ==
  /\ Spec /\ WF_vars(TimePasses)
  /\ \A w \in Workers : WF_vars(Goes(w))
  /\ \A m \in Maps : WF_vars(Collect(m))

-----------------------------------------------------------------------------
(* Properties.                                                             *)

\* Every variable has its type.
TypeOK ==
  /\ pc \in [Workers -> {"new", "waiting", "woken", "admitted", "running",
                         "released", "done"}]
  /\ item \in [Workers -> Nat] /\ verdict \in [Workers -> Verdicts]
  /\ ahead \in [Workers -> SUBSET Workers] /\ told \in [Workers -> BOOLEAN]
  /\ lost \in SUBSET Workers
  /\ cursor \in [Maps -> Nat]
  /\ \A m \in Maps : results[m] \in [1..Items[m] -> {"none", "fulfilled", "rejected"}]
  /\ cause \in [Maps -> Failures \cup {"none"}]
  /\ outcome \in [Maps -> {"none", "completed", "failed"}]
  /\ usage \in [Maps -> Nat] /\ reported \in [Maps -> Nat]
  /\ active \in Nat /\ waiting \in Seq(Workers) /\ expired \in BOOLEAN

Woken == {w \in Workers : pc[w] = "woken"}

\* No slot of the limiter is lost: while somebody waits, every slot is held or is
\* on its way to a waiter that has been woken.
NoSlotLost == waiting # <<>> => active + Cardinality(Woken) >= Limit

\* A map is completed only when every one of its items has succeeded, or when what
\* failed first was void, and is over only when none of its workers can take an item
\* or a slot any more.
WholeOrFailed ==
  \A m \in Maps : outcome[m] # "none" =>
    /\ outcome[m] = "completed" => cause[m] = "void" \/ Fulfilled(m) = 1..Items[m]
    /\ \A w \in Team(m) : pc[w] = "done"

\* Once an item has failed, every executor of its map that is still waited for has
\* been told to stop, also one that was called only after the failure.
SiblingsTold ==
  \A w \in Workers : pc[w] = "running" /\ cause[w[1]] # "none" => told[w]

\* A map that has been started comes to an end although executors never answer.
MapsEnd ==
  \A m \in Maps : (\E w \in Team(m) : pc[w] # "new") ~> outcome[m] # "none"

\* A worker of m has item i and is at p.
With(m, i, p) == {w \in Workers : pc[w] = p /\ item[w] = i /\ w[1] = m}

\* What has become of an item: it is settled, not taken yet, or with a worker.
Stage(m, i) ==
  IF results[m][i] # "none" THEN results[m][i]
  ELSE IF i > cursor[m] THEN "idle"
  ELSE IF With(m, i, "running") # {} THEN "called"
  ELSE IF With(m, i, "released") = {} THEN "taken"
  ELSE IF \E w \in With(m, i, "released") : verdict[w] = "valid" THEN "good" ELSE "bad"

\* The items of m whose executor is at work with an aborted signal.
Aborted(m) ==
  {i \in 1..Items[m] : \E w \in With(m, i, "running") : told[w]}

Stages == [m \in Maps |-> [i \in 1..Items[m] |-> Stage(m, i)]]

Known == [m \in Maps |-> Aborted(m)]

\* The maps whose first failure was void.
Unexplained == {m \in Maps : cause[m] = "void"}

Contract ==
  INSTANCE MapContract WITH state <- Stages, informed <- Known, excused <- Unexplained

\* A fan-out keeps the contract of its maps: items are taken in order and called at
\* most once, none is taken after a failure, every call at work after it knows of
\* it, and a map is over only when nothing is in hand.
KeepsTheContract == Contract!Spec

\* One global concurrency limit, which nested map workers share.
LimitKept == Cardinality({w \in Workers : pc[w] = "running"}) <= Limit

\* The tokens a map accounts for are those its executors have reported.
UsageTruthful == \A m \in Maps : outcome[m] # "none" => usage[m] = reported[m]
=============================================================================
