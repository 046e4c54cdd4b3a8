---------------------------- MODULE FanOutProofs ----------------------------
(***************************************************************************)
(* Why no slot of the limiter is lost, why a map that is over is whole or   *)
(* failed, why the siblings of a failed item have been told, and why the    *)
(* fan-out implements the contract of its maps (MapContract): for any maps, *)
(* numbers of items and workers, undefined items and limit.                 *)
(***************************************************************************)
EXTENDS FanOut, FiniteSetTheorems, SequenceTheorems, NaturalsInduction, TLAPS

-----------------------------------------------------------------------------
(* The sizes of a team and of its first round.                             *)

LEMMA MaxOfTwo ==
  ASSUME NEW a \in Int, NEW b \in Int
  PROVE  Max({a, b}) = IF a >= b THEN a ELSE b
BY DEF Max

LEMMA MinOfTwo ==
  ASSUME NEW a \in Int, NEW b \in Int
  PROVE  Min({a, b}) = IF a <= b THEN a ELSE b
BY DEF Min

LEMMA MinOfThree ==
  ASSUME NEW a \in Int, NEW b \in Int, NEW c \in Int
  PROVE  /\ Min({a, b, c}) \in {a, b, c}
         /\ Min({a, b, c}) <= a /\ Min({a, b, c}) <= b /\ Min({a, b, c}) <= c
<1>1. \E x \in {a, b, c} : \A y \in {a, b, c} : x <= y
  OBVIOUS
<1> QED
  BY <1>1 DEF Min

LEMMA LeastNatural ==
  ASSUME NEW S \in SUBSET Nat, S # {}
  PROVE  Min(S) \in S /\ \A y \in S : Min(S) <= y
<1> DEFINE Less == {ss \in Nat \X Nat : ss[1] < ss[2]}
<1>1. IsWellFoundedOn(Less, Nat)
  BY NatLessThanWellFounded DEF OpToRel
<1>2. PICK x \in S : \A y \in S : ~ (<<y, x>> \in Less)
  <2> HIDE DEF Less
  <2> QED
    BY <1>1, WFMin
<1>3. ASSUME NEW y \in S PROVE x <= y
  <2>1. <<y, x>> \notin Less /\ x \in Nat /\ y \in Nat
    BY <1>2
  <2> QED
    BY <2>1
<1> QED
  BY <1>3 DEF Min

LEMMA TeamSizes ==
  ASSUME NEW m \in Maps
  PROVE  /\ Items[m] \in Nat /\ TeamSize(m) \in Nat \ {0}
         /\ TeamSize(m) = 1 \/ TeamSize(m) <= Items[m]
<1>1. Items[m] \in Nat /\ Concurrency[m] \in Nat
  BY BatchAssumption
<1> QED
  BY <1>1, MaxOfTwo, MinOfTwo DEF TeamSize

LEMMA Teams ==
  /\ \A w \in Workers : w[1] \in Maps /\ w \in Team(w[1])
  /\ \A m \in Maps : \A w \in Team(m) :
       w \in Workers /\ w[1] = m /\ w[2] \in 1..TeamSize(m) /\ w = <<m, w[2]>>
  /\ \A m \in Maps : <<m, 1>> \in Team(m)
BY TeamSizes DEF Workers, Team

\* Numbered workers are as many as their numbers.
LEMMA Blocks ==
  ASSUME NEW m, NEW a \in Int, NEW b \in Int
  PROVE  /\ IsFiniteSet({<<m, i>> : i \in a..b})
         /\ Cardinality({<<m, i>> : i \in a..b}) = IF a > b THEN 0 ELSE b - a + 1
<1> DEFINE S == {<<m, i>> : i \in a..b}
           f == [i \in a..b |-> <<m, i>>]
<1>1. f \in Bijection(a..b, S)
  BY DEF Bijection, Injection, Surjection, IsInjective
<1>2. ExistsBijection(a..b, S)
  BY <1>1 DEF ExistsBijection
<1> QED
  BY <1>2, FS_Interval, FS_Bijection

LEMMA WorkersFinite == IsFiniteSet(Workers)
<1> DEFINE f == [m \in Maps |-> Team(m)]
<1>1. IsFiniteSet({Team(m) : m \in Maps})
  <2>1. f \in Surjection(Maps, {Team(m) : m \in Maps})
    BY DEF Surjection
  <2> QED
    BY <2>1, BatchAssumption, FS_Surjection
<1>2. \A m \in Maps : IsFiniteSet(Team(m))
  <2> TAKE m \in Maps
  <2>1. 1 \in Int /\ TeamSize(m) \in Int
    BY TeamSizes
  <2>2. IsFiniteSet({<<m, i>> : i \in 1..TeamSize(m)})
    BY <2>1, Blocks
  <2> QED
    BY <2>2 DEF Team
<1> QED
  BY <1>1, <1>2, FS_UNION DEF Workers

LEMMA FirstHoles ==
  ASSUME NEW m \in Maps
  PROVE  FirstHole(m) \in 1..TeamSize(m) + 1
<1> DEFINE S == {i \in 1..TeamSize(m) : i \in Undefined[m]} \cup {TeamSize(m) + 1}
<1>1. S \in SUBSET Nat /\ S # {} /\ S \subseteq 1..TeamSize(m) + 1
  BY TeamSizes
<1>2. Min(S) \in S
  BY <1>1, LeastNatural
<1> QED
  BY <1>1, <1>2 DEF FirstHole

-----------------------------------------------------------------------------
(* The inductive invariant.                                                *)

\* The types, but for the count of the limiter.
Typed ==
  /\ pc \in [Workers -> {"new", "waiting", "woken", "admitted", "running",
                         "released", "done"}]
  /\ item \in [Workers -> Nat] /\ verdict \in [Workers -> Verdicts]
  /\ ahead \in [Workers -> SUBSET Workers] /\ told \in [Workers -> BOOLEAN]
  /\ lost \in SUBSET Workers
  /\ cursor \in [Maps -> Nat]
  /\ results = [m \in Maps |-> results[m]]
  /\ \A m \in Maps : results[m] \in [1..Items[m] -> {"none", "fulfilled", "rejected"}]
  /\ cause \in [Maps -> Failures \cup {"none"}]
  /\ outcome \in [Maps -> {"none", "completed", "failed"}]
  /\ usage \in [Maps -> Nat] /\ reported \in [Maps -> Nat]
  /\ active \in Int /\ waiting \in Seq(Workers) /\ expired \in BOOLEAN

Holding == {w \in Workers : pc[w] \in {"admitted", "running"}}

\* The limiter counts the workers that hold a slot.
Counted == active = Cardinality(Holding)

\* The queue holds workers that wait, each of them once.
Queued ==
  /\ \A i \in 1..Len(waiting) : pc[waiting[i]] = "waiting"
  /\ \A i, j \in 1..Len(waiting) : waiting[i] = waiting[j] => i = j

\* An item that was taken has succeeded or is with a worker, until the map has failed;
\* a worker leaves a map that has not failed only when no item is left.
Accounted ==
  \A m \in Maps : cause[m] = "none" =>
    /\ (\E w \in Team(m) : pc[w] = "done") => cursor[m] >= Items[m]
    /\ \A i \in 1..Items[m] : i <= cursor[m] =>
         \/ results[m][i] = "fulfilled"
         \/ \E w \in Team(m) : item[w] = i /\ pc[w] \notin {"new", "done"}

\* A worker whose execution is over knows how it ended.
Judged == \A w \in Workers : pc[w] = "released" => verdict[w] # "none"

Inv ==
  /\ Typed /\ Judged /\ Counted /\ Queued /\ Accounted
  /\ NoSlotLost /\ WholeOrFailed /\ SiblingsTold

LEMMA HoldingFinite == IsFiniteSet(Holding) /\ IsFiniteSet(Woken)
BY WorkersFinite, FS_Subset DEF Holding, Woken

LEMMA InitInv == Init => Inv
<1> SUFFICES ASSUME Init PROVE Inv
  OBVIOUS
<1>1. Typed
  <2>1. /\ results = [m \in Maps |-> results[m]]
        /\ \A m \in Maps : results[m] \in [1..Items[m] -> {"none", "fulfilled", "rejected"}]
    BY DEF Init
  <2>2. /\ ahead \in [Workers -> SUBSET Workers] /\ lost \in SUBSET Workers
        /\ expired \in BOOLEAN
    BY DEF Init
  <2>3. told \in [Workers -> BOOLEAN]
    BY DEF Init
  <2>4. waiting \in Seq(Workers)
    BY DEF Init
  <2>5. /\ pc \in [Workers -> {"new", "waiting", "woken", "admitted", "running",
                               "released", "done"}]
        /\ item \in [Workers -> Nat] /\ verdict \in [Workers -> Verdicts]
        /\ cursor \in [Maps -> Nat] /\ cause \in [Maps -> Failures \cup {"none"}]
        /\ outcome \in [Maps -> {"none", "completed", "failed"}]
        /\ usage \in [Maps -> Nat] /\ reported \in [Maps -> Nat] /\ active \in Int
    BY DEF Init, Verdicts
  <2> QED
    BY <2>1, <2>2, <2>5, <2>3, <2>4 DEF Typed
<1>2. Holding = {}
  BY DEF Init, Holding
<1>3. Counted /\ Queued /\ Judged
  BY <1>2, FS_EmptySet DEF Init, Counted, Queued, Judged
<1>4. Accounted
  BY Teams, TeamSizes DEF Init, Accounted
<1>5. NoSlotLost /\ WholeOrFailed /\ SiblingsTold
  BY Teams DEF Init, NoSlotLost, WholeOrFailed, SiblingsTold
<1> QED
  BY <1>1, <1>3, <1>4, <1>5 DEF Inv

\* An execution that ends gives its slot back and wakes the first waiter.
LEMMA ReleaseStep ==
  ASSUME Inv, NEW w \in Workers, pc[w] = "running", Release(w),
         UNCHANGED <<item, told, cursor, results, cause, outcome, usage, expired>>,
         NEW v \in Verdicts \ {"none"}, verdict' = [verdict EXCEPT ![w] = v],
         lost' \in SUBSET Workers,
         reported' \in [Maps -> Nat]
  PROVE  Inv'
<1>1. pc[w] = "running" /\ Typed /\ Queued
  BY DEF Inv
<1>2. verdict' \in [Workers -> Verdicts]
  BY <1>1 DEF Typed
<1>3. Judged'
  BY <1>1 DEF Release, Inv, Judged, Typed
<1>4. CASE waiting = <<>>
  <2>1. /\ pc' = [pc EXCEPT ![w] = "released"] /\ waiting' = waiting
        /\ ahead' \in [Workers -> SUBSET Workers] /\ active' = active - 1
    BY <1>1, <1>4 DEF Release, Typed
  <2>2. Typed'
    BY <1>1, <1>2, <2>1 DEF Typed
  <2>3. Holding' = Holding \ {w} /\ w \in Holding
    BY <1>1, <2>1 DEF Holding, Typed
  <2>4. Counted'
    BY <2>1, <2>3, HoldingFinite, FS_RemoveElement DEF Counted, Inv
  <2>5. Queued' /\ NoSlotLost'
    BY <1>4, <2>1 DEF Queued, NoSlotLost
  <2>6. \A u \in Workers : /\ pc'[u] = "done" <=> pc[u] = "done"
                           /\ pc'[u] = "new" <=> pc[u] = "new"
                           /\ pc'[u] = "running" => pc[u] = "running"
    BY <1>1, <2>1 DEF Typed
  <2>7. Accounted' /\ WholeOrFailed' /\ SiblingsTold'
    BY <2>6, Teams DEF Inv, Accounted, WholeOrFailed, SiblingsTold, Fulfilled
  <2> QED
    BY <1>3, <2>2, <2>4, <2>5, <2>7 DEF Inv
<1>5. CASE waiting # <<>>
  <2> DEFINE h == Head(waiting)
  <2>1. /\ h \in Workers /\ h = waiting[1] /\ Len(waiting) \in Nat \ {0} /\ waiting' = Tail(waiting)
        /\ waiting' \in Seq(Workers) /\ Len(waiting') = Len(waiting) - 1
        /\ \A i \in 1..Len(waiting') : waiting'[i] = waiting[i + 1]
    BY <1>1, <1>5 DEF Release, Typed
  <2>2. pc[h] = "waiting" /\ h # w
    BY <1>1, <2>1 DEF Queued
  <2>3. /\ pc' = [pc EXCEPT ![w] = "released", ![h] = "woken"]
        /\ ahead' \in [Workers -> SUBSET Workers] /\ active' = active - 1
    BY <1>1, <1>5, <2>1, <2>2 DEF Release, Typed
  <2> HIDE DEF h
  <2>4. Typed'
    <3>1. pc' \in [Workers -> {"new", "waiting", "woken", "admitted", "running",
                               "released", "done"}]
      BY <1>1, <2>1, <2>3 DEF Typed
    <3>2. active' \in Int
      BY <1>1, <2>3 DEF Typed
    <3> QED
      BY <1>1, <1>2, <2>1, <2>3, <3>1, <3>2 DEF Typed
  <2>5. Holding' = Holding \ {w} /\ w \in Holding /\ Woken' = Woken \cup {h} /\ h \notin Woken
    BY <1>1, <2>1, <2>2, <2>3 DEF Holding, Woken, Typed
  <2>6. Counted'
    BY <2>3, <2>5, HoldingFinite, FS_RemoveElement DEF Counted, Inv
  <2>7. NoSlotLost'
    <3>1. Cardinality(Woken') = Cardinality(Woken) + 1 /\ Cardinality(Woken) \in Nat
      BY <2>5, HoldingFinite, FS_AddElement, FS_CardinalityType
    <3> QED
      BY <1>1, <1>5, <2>3, <3>1, BatchAssumption DEF Inv, NoSlotLost, Typed
  <2>8. Queued'
    <3>1. ASSUME NEW i \in 1..Len(waiting')
          PROVE  pc'[waiting'[i]] = "waiting"
      <4>1. i + 1 \in 1..Len(waiting) /\ 1 \in 1..Len(waiting) /\ i + 1 # 1
        BY <2>1
      <4>2. waiting'[i] = waiting[i + 1] /\ waiting'[i] # h /\ waiting'[i] \in Workers
            /\ pc[waiting'[i]] = "waiting"
        <5>1. waiting'[i] = waiting[i + 1] /\ waiting \in Seq(Workers)
          BY <1>1, <2>1 DEF Typed
        <5>2. waiting[i + 1] # waiting[1] /\ pc[waiting[i + 1]] = "waiting"
          BY <1>1, <4>1 DEF Queued
        <5>3. waiting[i + 1] \in Workers
          BY <4>1, <5>1
        <5> QED
          BY <2>1, <5>1, <5>2, <5>3
      <4> QED
        BY <1>1, <2>3, <4>2 DEF Typed
    <3>2. ASSUME NEW i \in 1..Len(waiting'), NEW j \in 1..Len(waiting'), waiting'[i] = waiting'[j]
          PROVE  i = j
      <4>1. i + 1 \in 1..Len(waiting) /\ j + 1 \in 1..Len(waiting)
        BY <2>1
      <4> QED
        BY <1>1, <2>1, <3>2, <4>1 DEF Queued
    <3> QED
      BY <3>1, <3>2 DEF Queued
  <2>9. \A u \in Workers : /\ pc'[u] = "done" <=> pc[u] = "done"
                           /\ pc'[u] = "new" <=> pc[u] = "new"
                           /\ pc'[u] = "running" => pc[u] = "running"
    BY <1>1, <2>1, <2>2, <2>3 DEF Typed
  <2>10. Accounted' /\ WholeOrFailed' /\ SiblingsTold'
    BY <2>9, Teams DEF Inv, Accounted, WholeOrFailed, SiblingsTold, Fulfilled
  <2> QED
    BY <1>3, <2>4, <2>6, <2>7, <2>8, <2>10 DEF Inv
<1> QED
  BY <1>4, <1>5

LEMMA EndsStep ==
  ASSUME Inv, NEW w \in Workers,
         Watchdog(w) \/ \E v \in {"valid", "invalid", "thrown", "void"} : Answer(w, v)
  PROVE  Inv'
<1>1. CASE Watchdog(w)
  BY <1>1, ReleaseStep DEF Watchdog, Ends, Inv, Typed, Verdicts
<1>2. ASSUME NEW v \in {"valid", "invalid", "thrown", "void"}, Answer(w, v) PROVE Inv'
  <2>1. reported' \in [Maps -> Nat]
    BY <1>2, Teams DEF Answer, Inv, Typed
  <2> QED
    BY <1>2, <2>1, ReleaseStep DEF Answer, Ends, Inv, Typed, Verdicts
<1> QED
  BY <1>1, <1>2

\* A worker that is woken takes its slot.
LEMMA WakeStep == ASSUME Inv, NEW w \in Workers, Wake(w) PROVE Inv'
<1>1. pc[w] = "woken" /\ pc' = [pc EXCEPT ![w] = "admitted"] /\ active' = active + 1 /\ Typed
      /\ UNCHANGED <<item, verdict, ahead, told, lost, node, waiting, expired>>
  BY DEF Wake, Inv
<1>2. Typed'
  BY <1>1 DEF Typed, node
<1>3. Holding' = Holding \cup {w} /\ w \notin Holding /\ Woken' = Woken \ {w} /\ w \in Woken
  BY <1>1 DEF Holding, Woken, Typed
<1>4. Counted'
  BY <1>1, <1>3, HoldingFinite, FS_AddElement DEF Counted, Inv
<1>5. NoSlotLost'
  <2>1. Cardinality(Woken') = Cardinality(Woken) - 1 /\ Cardinality(Woken) \in Nat
    BY <1>3, HoldingFinite, FS_RemoveElement, FS_CardinalityType
  <2> QED
    BY <1>1, <2>1, BatchAssumption DEF Inv, NoSlotLost, Typed
<1>6. Judged'
  BY <1>1 DEF Inv, Judged, Typed
<1>7. Queued'
  BY <1>1 DEF Inv, Queued, Typed
<1>8. Accounted' /\ WholeOrFailed' /\ SiblingsTold'
  BY <1>1, Teams DEF Inv, Typed, Accounted, WholeOrFailed, SiblingsTold, Fulfilled, node
<1> QED
  BY <1>6, <1>2, <1>4, <1>5, <1>7, <1>8 DEF Inv

\* A worker with a slot calls its executor, which knows of a failure so far.
LEMMA LaunchStep == ASSUME Inv, NEW w \in Workers, Launch(w) PROVE Inv'
<1>1. pc[w] = "admitted" /\ pc' = [pc EXCEPT ![w] = "running"] /\ Typed
      /\ UNCHANGED <<item, verdict, ahead, lost, node, slots, expired>>
      /\ told' = [told EXCEPT ![w] = cause[w[1]] # "none"]
  BY DEF Launch, Inv
<1>2. Typed'
  BY <1>1 DEF Typed, node, slots
<1>3. Holding' = Holding /\ Woken' = Woken
  BY <1>1 DEF Holding, Woken, Typed
<1>4. Counted' /\ NoSlotLost'
  BY <1>1, <1>3 DEF Counted, NoSlotLost, Inv, slots
<1>5. Queued'
  BY <1>1 DEF Inv, Queued, Typed, slots
<1>6. Judged'
  BY <1>1 DEF Inv, Judged, Typed
<1>7. Accounted' /\ WholeOrFailed'
  BY <1>1, Teams DEF Inv, Typed, Accounted, WholeOrFailed, Fulfilled, node
<1>8. SiblingsTold'
  BY <1>1 DEF Inv, Typed, SiblingsTold, node
<1> QED
  BY <1>6, <1>2, <1>4, <1>5, <1>7, <1>8 DEF Inv

\* Steps of the clock and of executors that were given up.
LEMMA IdleStep ==
  ASSUME Inv, UNCHANGED vars \/ TimePasses \/ \E w \in Workers : LostEnds(w)
  PROVE  Inv'
<1>1. UNCHANGED <<pc, item, verdict, ahead, told, node, slots>>
  BY DEF vars, worker, TimePasses, LostEnds
<1>2. lost' \in SUBSET Workers /\ expired' \in BOOLEAN
  BY DEF vars, worker, TimePasses, LostEnds, Inv, Typed
<1>3. Typed'
  BY <1>1, <1>2 DEF Inv, Typed, node, slots
<1>4. Judged' /\ Counted' /\ Queued' /\ Accounted' /\ NoSlotLost' /\ WholeOrFailed' /\ SiblingsTold'
  BY <1>1 DEF Inv, node, slots, Judged, Counted, Holding, Queued, Accounted, NoSlotLost, Woken,
              WholeOrFailed, Fulfilled, SiblingsTold
<1> QED
  BY <1>3, <1>4 DEF Inv

\* A map is over: without a failure, every item was taken and no worker has one.
LEMMA CollectStep == ASSUME Inv, NEW m \in Maps, Collect(m) PROVE Inv'
<1>1. /\ outcome[m] = "none" /\ \A w \in Team(m) : pc[w] = "done"
      /\ outcome' = [outcome EXCEPT ![m] = IF NoFailure(m) THEN "completed" ELSE "failed"]
      /\ usage' = [usage EXCEPT ![m] = Cardinality(Fulfilled(m))]
      /\ UNCHANGED <<worker, cursor, results, cause, reported, slots, expired>>
  BY DEF Collect
<1>2. DOMAIN results[m] = 1..Items[m]
  BY DEF Inv, Typed
<1>3. Cardinality(Fulfilled(m)) \in Nat
  <2>1. IsFiniteSet(1..Items[m])
    BY TeamSizes, FS_Interval
  <2>2. Fulfilled(m) \in SUBSET (1..Items[m])
    BY <1>2 DEF Fulfilled
  <2> QED
    BY <2>1, <2>2, FS_Subset, FS_CardinalityType
<1>4. Typed'
  BY <1>1, <1>3 DEF Inv, Typed, worker, slots
<1>5. Judged' /\ Counted' /\ Queued' /\ Accounted' /\ NoSlotLost' /\ SiblingsTold'
  BY <1>1 DEF Inv, worker, slots, Judged, Counted, Holding, Queued, Accounted, NoSlotLost, Woken,
              SiblingsTold
<1>6. WholeOrFailed'
  <2>1. ASSUME cause[m] = "none" PROVE Fulfilled(m) = 1..Items[m]
    <3>1. cursor[m] >= Items[m] /\ cursor[m] \in Nat
      BY <1>1, <2>1, Teams DEF Inv, Accounted, Typed
    <3>2. \A i \in 1..Items[m] : results[m][i] = "fulfilled"
      BY <1>1, <2>1, <3>1, TeamSizes DEF Inv, Accounted
    <3> QED
      BY <1>2, <3>2 DEF Fulfilled
  <2>2. \A n \in Maps : Fulfilled(n)' = Fulfilled(n)
    BY <1>1 DEF Fulfilled
  <2>3. \A n \in Maps : n # m => outcome'[n] = outcome[n]
    BY <1>1 DEF Inv, Typed
  <2>4. outcome'[m] = "completed" => cause[m] \in {"none", "void"}
    BY <1>1 DEF Inv, Typed, NoFailure
  <2> QED
    BY <1>1, <2>1, <2>2, <2>3, <2>4 DEF WholeOrFailed, Inv, worker
<1> QED
  BY <1>4, <1>5, <1>6 DEF Inv

-----------------------------------------------------------------------------
(* A worker settles its item.                                              *)

\* What is recorded has its type.
RecordTypes ==
  /\ told' \in [Workers -> BOOLEAN] /\ cause' \in [Maps -> Failures \cup {"none"}]
  /\ results' = [n \in Maps |-> results'[n]]
  /\ \A n \in Maps : results'[n] \in [1..Items[n] -> {"none", "fulfilled", "rejected"}]
  /\ verdict' \in [Workers -> Verdicts] /\ ahead' \in [Workers -> SUBSET Workers]

\* The other maps are left alone.
OthersKept(w) ==
  /\ \A u \in Workers : u # w => verdict'[u] = verdict[u]
  /\ \A n \in Maps : n # w[1] => cause'[n] = cause[n] /\ results'[n] = results[n]

\* Unless the map has failed, the item of the worker is the only one that changes.
Unfailed(w) == cause'[w[1]] = "none" =>
  /\ cause[w[1]] = "none" /\ verdict[w] = "valid" /\ ~Hole(w[1], FALSE)
  /\ \A i \in 1..Items[w[1]] :
       results'[w[1]][i] = IF i = item[w] THEN "fulfilled" ELSE results[w[1]][i]

\* Who is at work for a map that has failed by now is told.
AllTold == \A u \in Workers : pc[u] = "running" /\ cause'[u[1]] # "none" => told'[u]

LEMMA Records ==
  ASSUME Inv, NEW w \in Workers, Settle(w)
  PROVE  /\ w[1] \in Maps /\ w \in Team(w[1]) /\ pc[w] = "released"
         /\ RecordTypes /\ OthersKept(w) /\ Unfailed(w) /\ AllTold
<1> DEFINE m == w[1]
           v == verdict[w]
           stop == v # "valid" \/ cause[m] # "none"
           hole == Hole(m, stop)
           first == IF v # "valid" THEN v ELSE IF hole THEN "undefined" ELSE "none"
<1>1. m \in Maps /\ w \in Team(m) /\ pc[w] = "released" /\ Typed /\ v \in Verdicts \ {"none"}
  BY Teams DEF Settle, Inv, Judged, Typed
<1>2. first \in Failures \cup {"none"} /\ (first = "none" <=> v = "valid" /\ ~hole)
  BY <1>1 DEF Verdicts, Failures
<1>3. /\ cause' = [cause EXCEPT ![m] = IF @ = "none" THEN first ELSE @]
      /\ told' = [u \in Workers |-> told[u] \/ (u[1] = m /\ pc[u] = "running" /\ first # "none")]
      /\ results' = [results EXCEPT ![m] =
           [i \in DOMAIN @ |-> IF i = item[w]
                               THEN IF v = "valid" THEN "fulfilled" ELSE "rejected"
                               ELSE IF hole /\ i = cursor[m] + 1 THEN "rejected" ELSE @[i]]]
      /\ verdict' = [verdict EXCEPT ![w] = "none"]
      /\ ahead' = [ahead EXCEPT ![w] = {}]
  BY DEF Settle, Recorded
<1>4. hole => v = "valid" /\ cause[m] = "none"
  BY DEF Hole
<1>5. cause[m] = "none" /\ v = "valid" => hole = Hole(m, FALSE)
  BY DEF Hole
<1> HIDE DEF m, v, stop, hole, first
<1>6. /\ cause' \in [Maps -> Failures \cup {"none"}]
      /\ \A n \in Maps : n # m => cause'[n] = cause[n]
      /\ cause'[m] = IF cause[m] = "none" THEN first ELSE cause[m]
  BY <1>1, <1>2, <1>3 DEF Typed
<1>7. /\ results'[m] = [i \in DOMAIN results[m] |->
            IF i = item[w] THEN IF v = "valid" THEN "fulfilled" ELSE "rejected"
            ELSE IF hole /\ i = cursor[m] + 1 THEN "rejected" ELSE results[m][i]]
       /\ results' = [n \in Maps |-> results'[n]]
       /\ \A n \in Maps : n # m => results'[n] = results[n]
  BY <1>1, <1>3 DEF Typed
<1>8. /\ results' = [n \in Maps |-> results'[n]]
      /\ \A n \in Maps : n # m => results'[n] = results[n]
      /\ results'[m] = [i \in 1..Items[m] |->
           IF i = item[w] THEN IF v = "valid" THEN "fulfilled" ELSE "rejected"
           ELSE IF hole /\ i = cursor[m] + 1 THEN "rejected" ELSE results[m][i]]
  BY <1>1, <1>7 DEF Typed
<1>9. \A n \in Maps : results'[n] \in [1..Items[n] -> {"none", "fulfilled", "rejected"}]
  <2>1. \A i \in 1..Items[m] : results[m][i] \in {"none", "fulfilled", "rejected"}
    BY <1>1 DEF Typed
  <2>2. results'[m] \in [1..Items[m] -> {"none", "fulfilled", "rejected"}]
    BY <1>8, <2>1
  <2> QED
    BY <1>1, <1>8, <2>2 DEF Typed
<1>10. /\ verdict' \in [Workers -> Verdicts] /\ ahead' \in [Workers -> SUBSET Workers]
      /\ \A u \in Workers : u # w => verdict'[u] = verdict[u]
  BY <1>1, <1>3 DEF Typed, Verdicts
<1>11. told' \in [Workers -> BOOLEAN]
  BY <1>3
<1>12. cause'[m] = "none" =>
         /\ cause[m] = "none" /\ v = "valid" /\ ~Hole(m, FALSE)
         /\ \A i \in 1..Items[m] :
              results'[m][i] = IF i = item[w] THEN "fulfilled" ELSE results[m][i]
  BY <1>2, <1>5, <1>6, <1>8
<1>13. ASSUME NEW u \in Workers, pc[u] = "running", cause'[u[1]] # "none" PROVE told'[u]
  <2>1. u[1] \in Maps
    BY Teams
  <2>2. cause[u[1]] # "none" \/ (u[1] = m /\ first # "none")
    BY <1>6, <1>13, <2>1
  <2> QED
    BY <1>3, <1>13, <2>2 DEF Inv, SiblingsTold
<1> QED
  BY <1>1, <1>6, <1>8, <1>9, <1>10, <1>11, <1>12, <1>13
     DEF m, v, RecordTypes, OthersKept, Unfailed, AllTold

\* A worker ends: its map has failed or no item is left.
LEMMA SettleDone ==
  ASSUME Inv, NEW w \in Workers, Settle(w), pc' = [pc EXCEPT ![w] = "done"],
         UNCHANGED <<item, slots>>, NEW m, m = w[1],
         cursor' = cursor \/ cursor' = [cursor EXCEPT ![m] = @ + 1],
         cause'[m] = "none" => cursor' = cursor /\ cursor[m] = Items[m]
  PROVE  Inv'
<1>1. UNCHANGED <<lost, outcome, usage, reported, expired>> /\ Typed /\ pc[w] = "released"
      /\ m \in Maps /\ w \in Team(m)
  BY Records DEF Settle, Inv
<1>2. RecordTypes /\ OthersKept(w) /\ Unfailed(w) /\ AllTold
  BY Records
<1>3. cursor' \in [Maps -> Nat] /\ \A n \in Maps : n # m => cursor'[n] = cursor[n]
  BY <1>1 DEF Typed
<1>4. /\ pc' \in [Workers -> {"new", "waiting", "woken", "admitted", "running",
                              "released", "done"}]
      /\ pc'[w] = "done" /\ \A u \in Workers : u # w => pc'[u] = pc[u]
  BY <1>1 DEF Typed
<1>5. Typed'
  BY <1>1, <1>3, <1>4, <1>2 DEF Typed, slots, RecordTypes
<1>6. Holding' = Holding /\ Woken' = Woken
  BY <1>1, <1>4 DEF Holding, Woken
<1>7. Counted' /\ NoSlotLost'
  BY <1>6 DEF Inv, Counted, NoSlotLost, slots
<1>8. Judged' /\ SiblingsTold'
  BY <1>2, <1>4 DEF Inv, Judged, SiblingsTold, OthersKept, AllTold
<1>9. Queued'
  BY <1>1, <1>4 DEF Inv, Queued, slots, Typed
<1>10. Accounted'
  <2>1. ASSUME NEW n \in Maps, n # m, cause'[n] = "none"
        PROVE  /\ (\E u \in Team(n) : pc'[u] = "done") => cursor'[n] >= Items[n]
               /\ \A i \in 1..Items[n] : i <= cursor'[n] =>
                    \/ results'[n][i] = "fulfilled"
                    \/ \E u \in Team(n) : item'[u] = i /\ pc'[u] \notin {"new", "done"}
    <3>1. \A u \in Team(n) : u \in Workers /\ u # w
      BY <2>1, Teams
    <3>2. cause[n] = "none" /\ results'[n] = results[n] /\ cursor'[n] = cursor[n]
      BY <1>2, <1>3, <2>1 DEF OthersKept
    <3> QED
      BY <1>4, <3>1, <3>2 DEF Inv, Accounted
  <2>2. ASSUME cause'[m] = "none"
        PROVE  /\ (\E u \in Team(m) : pc'[u] = "done") => cursor'[m] >= Items[m]
               /\ \A i \in 1..Items[m] : i <= cursor'[m] =>
                    \/ results'[m][i] = "fulfilled"
                    \/ \E u \in Team(m) : item'[u] = i /\ pc'[u] \notin {"new", "done"}
    <3>1. cause[m] = "none" /\ cursor' = cursor /\ cursor[m] = Items[m]
          /\ \A i \in 1..Items[m] :
               results'[m][i] = IF i = item[w] THEN "fulfilled" ELSE results[m][i]
      BY <1>2, <2>2 DEF Unfailed
    <3>2. ASSUME NEW i \in 1..Items[m], i <= cursor[m], results'[m][i] # "fulfilled"
          PROVE  \E u \in Team(m) : item'[u] = i /\ pc'[u] \notin {"new", "done"}
      <4>1. i # item[w] /\ results[m][i] # "fulfilled"
        BY <3>1, <3>2
      <4>2. PICK u \in Team(m) : item[u] = i /\ pc[u] \notin {"new", "done"}
        BY <1>1, <3>1, <3>2, <4>1 DEF Inv, Accounted
      <4> QED
        BY <1>4, <4>1, <4>2, Teams
    <3> QED
      BY <1>1, <3>1, <3>2, TeamSizes
  <2> QED
    BY <2>1, <2>2 DEF Accounted
<1>11. WholeOrFailed'
  <2>1. outcome[m] = "none"
    BY <1>1 DEF Inv, WholeOrFailed, Typed
  <2>2. \A n \in Maps : n # m =>
          Fulfilled(n)' = Fulfilled(n) /\ \A u \in Team(n) : u \in Workers /\ u # w
    BY <1>2, <1>1, Teams DEF Fulfilled, OthersKept
  <2> QED
    BY <1>1, <1>2, <1>4, <2>1, <2>2 DEF Inv, WholeOrFailed, OthersKept
<1> QED
  BY <1>5, <1>7, <1>8, <1>9, <1>10, <1>11 DEF Inv

\* A worker takes the next item, with a free slot or as the last in the queue.
LEMMA SettleTakes ==
  ASSUME Inv, NEW w \in Workers, Settle(w), NEW m, m = w[1], cursor[m] < Items[m], Take(w)
  PROVE  Inv'
<1>1. UNCHANGED <<lost, outcome, usage, reported, expired>> /\ Typed /\ pc[w] = "released"
      /\ m \in Maps /\ w \in Team(m)
  BY Records DEF Settle, Inv
<1>2. RecordTypes /\ OthersKept(w) /\ Unfailed(w) /\ AllTold
  BY Records
<1>3. /\ cursor' \in [Maps -> Nat] /\ cursor'[m] = cursor[m] + 1 /\ cursor[m] \in Nat
      /\ \A n \in Maps : n # m => cursor'[n] = cursor[n]
      /\ item' \in [Workers -> Nat] /\ item'[w] = cursor[m] + 1
      /\ \A u \in Workers : u # w => item'[u] = item[u]
  BY <1>1 DEF Typed, Take
<1>4. /\ pc' \in [Workers -> {"new", "waiting", "woken", "admitted", "running",
                              "released", "done"}]
      /\ pc'[w] \in {"admitted", "waiting"} /\ \A u \in Workers : u # w => pc'[u] = pc[u]
  BY <1>1 DEF Typed, Take
<1>5. Typed'
  <2>1. active' \in Int
    BY <1>1 DEF Take, Typed
  <2>2. waiting' \in Seq(Workers)
    <3>1. Append(waiting, w) \in Seq(Workers)
      BY <1>1 DEF Typed
    <3> QED
      BY <1>1, <3>1 DEF Take, Typed
  <2> QED
    BY <1>1, <1>3, <1>4, <2>1, <2>2, <1>2 DEF Typed, RecordTypes
<1>6. Judged' /\ SiblingsTold'
  BY <1>2, <1>4 DEF Inv, Judged, SiblingsTold, OthersKept, AllTold
<1>7. Counted' /\ NoSlotLost' /\ Queued'
  <2>1. Woken' = Woken /\ w \notin Holding /\ Cardinality(Woken) \in Nat
    BY <1>1, <1>4, HoldingFinite, FS_CardinalityType DEF Woken, Holding
  <2>2. CASE active < Limit /\ active' = active + 1 /\ pc'[w] = "admitted" /\ UNCHANGED waiting
    <3>1. Holding' = Holding \cup {w}
      BY <1>4, <2>2 DEF Holding
    <3>2. Counted'
      BY <2>1, <2>2, <3>1, HoldingFinite, FS_AddElement DEF Counted, Inv
    <3>3. NoSlotLost'
      BY <1>1, <2>1, <2>2, BatchAssumption DEF Inv, NoSlotLost, Typed
    <3> QED
      BY <1>1, <1>4, <2>2, <3>2, <3>3 DEF Inv, Queued, Typed
  <2>3. CASE /\ active >= Limit /\ waiting' = Append(waiting, w)
             /\ pc'[w] = "waiting" /\ UNCHANGED active
    <3>1. Holding' = Holding
      BY <1>1, <1>4, <2>3 DEF Holding
    <3>2. Counted'
      BY <2>3, <3>1 DEF Counted, Inv
    <3>3. NoSlotLost'
      BY <1>1, <2>1, <2>3, BatchAssumption DEF Inv, NoSlotLost, Typed
    <3>4. /\ Len(waiting') = Len(waiting) + 1 /\ Len(waiting) \in Nat
          /\ waiting'[Len(waiting) + 1] = w
          /\ \A i \in 1..Len(waiting) : waiting'[i] = waiting[i]
      BY <1>1, <2>3 DEF Typed
    <3>5. \A i \in 1..Len(waiting) : waiting[i] \in Workers /\ waiting[i] # w
      BY <1>1 DEF Inv, Queued, Typed
    <3>6. Queued'
      BY <1>4, <2>3, <3>4, <3>5 DEF Inv, Queued
    <3> QED
      BY <3>2, <3>3, <3>6
  <2> QED
    BY <1>1, <2>2, <2>3 DEF Take, Typed
<1>8. Accounted'
  <2>1. ASSUME NEW n \in Maps, n # m, cause'[n] = "none"
        PROVE  /\ (\E u \in Team(n) : pc'[u] = "done") => cursor'[n] >= Items[n]
               /\ \A i \in 1..Items[n] : i <= cursor'[n] =>
                    \/ results'[n][i] = "fulfilled"
                    \/ \E u \in Team(n) : item'[u] = i /\ pc'[u] \notin {"new", "done"}
    <3>1. \A u \in Team(n) : u \in Workers /\ u # w
      BY <2>1, Teams
    <3>2. cause[n] = "none" /\ results'[n] = results[n] /\ cursor'[n] = cursor[n]
      BY <1>2, <1>3, <2>1 DEF OthersKept
    <3> QED
      BY <1>3, <1>4, <3>1, <3>2 DEF Inv, Accounted
  <2>2. ASSUME cause'[m] = "none"
        PROVE  /\ (\E u \in Team(m) : pc'[u] = "done") => cursor'[m] >= Items[m]
               /\ \A i \in 1..Items[m] : i <= cursor'[m] =>
                    \/ results'[m][i] = "fulfilled"
                    \/ \E u \in Team(m) : item'[u] = i /\ pc'[u] \notin {"new", "done"}
    <3>1. cause[m] = "none"
          /\ \A i \in 1..Items[m] :
               results'[m][i] = IF i = item[w] THEN "fulfilled" ELSE results[m][i]
      BY <1>2, <2>2 DEF Unfailed
    <3>2. ASSUME NEW i \in 1..Items[m], i <= cursor'[m], results'[m][i] # "fulfilled"
          PROVE  \E u \in Team(m) : item'[u] = i /\ pc'[u] \notin {"new", "done"}
      <4>1. CASE i = cursor[m] + 1
        BY <1>1, <1>3, <1>4, <4>1
      <4>2. CASE i <= cursor[m]
        <5>1. i # item[w] /\ results[m][i] # "fulfilled"
          BY <3>1, <3>2
        <5>2. PICK u \in Team(m) : item[u] = i /\ pc[u] \notin {"new", "done"}
          BY <1>1, <3>1, <4>2, <5>1 DEF Inv, Accounted
        <5> QED
          BY <1>3, <1>4, <5>1, <5>2, Teams
      <4> QED
        BY <1>1, <1>3, <3>2, <4>1, <4>2, TeamSizes
    <3>3. \A u \in Team(m) : pc'[u] # "done"
      <4>1. \A u \in Team(m) : pc[u] # "done"
        BY <1>1, <1>3, <3>1, TeamSizes DEF Inv, Accounted
      <4> QED
        BY <1>4, <4>1, Teams, <1>1
    <3> QED
      BY <3>2, <3>3
  <2> QED
    BY <2>1, <2>2 DEF Accounted
<1>9. WholeOrFailed'
  <2>1. outcome[m] = "none"
    BY <1>1 DEF Inv, WholeOrFailed, Typed
  <2>2. \A n \in Maps : n # m =>
          Fulfilled(n)' = Fulfilled(n) /\ \A u \in Team(n) : u \in Workers /\ u # w
    BY <1>2, <1>1, Teams DEF Fulfilled, OthersKept
  <2> QED
    BY <1>1, <1>2, <1>4, <2>1, <2>2 DEF Inv, WholeOrFailed, OthersKept
<1> QED
  BY <1>5, <1>6, <1>7, <1>8, <1>9 DEF Inv

LEMMA SettleStep == ASSUME Inv, NEW w \in Workers, Settle(w) PROVE Inv'
<1> DEFINE m == w[1]
           stop == verdict[w] # "valid" \/ cause[m] # "none"
           hole == Hole(m, stop)
<1>1. CASE /\ stop \/ hole \/ cursor[m] = Items[m]
           /\ pc' = [pc EXCEPT ![w] = "done"]
           /\ cursor' = [cursor EXCEPT ![m] = IF hole THEN @ + 1 ELSE @]
           /\ UNCHANGED <<item, slots>>
  <2>1. cause'[m] = "none" => ~stop /\ ~hole
    BY Records DEF Hole, Unfailed
  <2>2. ~hole => cursor' = cursor
    BY <1>1 DEF Inv, Typed
  <2> HIDE DEF hole, stop, m
  <2>3. m = w[1]
    BY DEF m
  <2> QED
    BY <1>1, <2>1, <2>2, <2>3, SettleDone
<1>2. CASE ~stop /\ ~hole /\ cursor[m] < Items[m] /\ Take(w)
  BY <1>2, SettleTakes
<1> QED
  BY <1>1, <1>2 DEF Settle

-----------------------------------------------------------------------------
(* A map is started.                                                       *)

\* The first round of a team: Begun workers have an item, Seated ones a slot.
Free == Max({0, Limit - active})

Begun(m) == IF FirstHole(m) - 1 <= Items[m] THEN FirstHole(m) - 1 ELSE Items[m]

Seated(m) == IF Free <= Begun(m) THEN Free ELSE Begun(m)

LEMMA Rounds ==
  ASSUME Typed, NEW m \in Maps
  PROVE  /\ Free \in Nat /\ (active < Limit => Free = Limit - active)
         /\ (active >= Limit => Free = 0)
         /\ Begun(m) \in 0..TeamSize(m) /\ Begun(m) <= Items[m] /\ Begun(m) < FirstHole(m)
         /\ Seated(m) \in 0..Begun(m)
         /\ Begun(m) > Free => Seated(m) = Free
         /\ Begun(m) <= Free => Seated(m) = Begun(m)
<1>1. active \in Int /\ Limit \in Nat
  BY BatchAssumption DEF Typed
<1>2. Free = IF 0 >= Limit - active THEN 0 ELSE Limit - active
  BY <1>1, MaxOfTwo DEF Free
<1>3. Items[m] \in Nat /\ FirstHole(m) \in 1..TeamSize(m) + 1 /\ TeamSize(m) \in Nat
  BY TeamSizes, FirstHoles
<1> QED
  BY <1>1, <1>2, <1>3 DEF Begun, Seated

\* What Start does, by the numbers of the workers.
LEMMA Started ==
  ASSUME Typed, NEW m \in Maps, Start(m)
  PROVE  /\ \A w \in Team(m) : pc[w] = "new"
         /\ \A w \in Workers : pc[w] # "woken"
         /\ pc' = [w \in Workers |-> IF w \notin Team(m) THEN pc[w]
                                     ELSE IF w[2] > Begun(m) THEN "done"
                                     ELSE IF w[2] > Seated(m) THEN "waiting" ELSE "admitted"]
         /\ item' = [w \in Workers |-> IF w \in Team(m) /\ w[2] <= Begun(m)
                                       THEN w[2] ELSE item[w]]
         /\ active' = active + Seated(m)
         /\ waiting' = waiting \o [i \in 1..Begun(m) - Seated(m) |-> <<m, Seated(m) + i>>]
<1> DEFINE begun == {w \in Team(m) : w[2] < FirstHole(m) /\ w[2] <= Items[m]}
           late == {w \in begun : w[2] > Free}
<1>1. /\ \A w \in Team(m) : pc[w] = "new"
      /\ \A w \in Workers : pc[w] \notin {"admitted", "woken", "released"}
      /\ pc' = [w \in Workers |-> IF w \notin Team(m) THEN pc[w]
                                  ELSE IF w \notin begun THEN "done"
                                  ELSE IF w \in late THEN "waiting" ELSE "admitted"]
      /\ item' = [w \in Workers |-> IF w \in begun THEN w[2] ELSE item[w]]
      /\ active' = active + Cardinality(begun \ late)
      /\ waiting' = waiting \o [i \in 1..Cardinality(late) |-> <<m, Free + i>>]
  BY DEF Start, Free
<1>2. \A w \in Team(m) : w \in begun <=> w[2] <= Begun(m)
  BY Teams, Rounds, TeamSizes, FirstHoles DEF Begun
<1>3. \A w \in Team(m) : w \in begun => (w \in late <=> w[2] > Seated(m))
  BY <1>2, Teams, Rounds, TeamSizes
<1>4. begun \ late = {<<m, i>> : i \in 1..Seated(m)}
  <2>1. \A w \in begun \ late : w = <<m, w[2]>> /\ w[2] \in 1..Seated(m)
    BY <1>2, <1>3, Teams, Rounds, TeamSizes
  <2>2. \A i \in 1..Seated(m) : <<m, i>> \in Team(m) /\ <<m, i>>[2] = i
    BY Rounds, TeamSizes DEF Team
  <2>3. \A i \in 1..Seated(m) : <<m, i>> \in begun \ late
    BY <1>2, <1>3, <2>2, Rounds
  <2> HIDE DEF begun, late
  <2> QED
    BY <2>1, <2>3
<1>5. late = {<<m, i>> : i \in Seated(m) + 1..Begun(m)}
  <2>1. \A w \in late : w = <<m, w[2]>> /\ w[2] \in Seated(m) + 1..Begun(m)
    BY <1>2, <1>3, Teams, Rounds, TeamSizes
  <2>2. \A i \in Seated(m) + 1..Begun(m) : <<m, i>> \in Team(m) /\ <<m, i>>[2] = i
    BY Rounds, TeamSizes DEF Team
  <2>3. \A i \in Seated(m) + 1..Begun(m) : <<m, i>> \in begun
    BY <1>2, <2>2, Rounds
  <2>4. \A i \in Seated(m) + 1..Begun(m) : <<m, i>> \in late
    BY <1>3, <2>2, <2>3, Rounds
  <2> HIDE DEF begun, late
  <2> QED
    BY <2>1, <2>4
<1> DEFINE B == Begun(m)
           S == Seated(m)
<1>6. /\ B \in Int /\ S \in Int /\ 0 <= S /\ S <= B /\ Free \in Int
      /\ B > Free => S = Free
      /\ B <= Free => S = B
  BY Rounds
<1>7. begun \ late = {<<m, i>> : i \in 1..S} /\ late = {<<m, i>> : i \in S + 1..B}
  BY <1>4, <1>5
<1> HIDE DEF begun, late, B, S
<1>8. Cardinality(begun \ late) = S /\ Cardinality(late) = B - S
  <2> DEFINE seats == {<<m, i>> : i \in 1..S}
             queue == {<<m, i>> : i \in S + 1..B}
  <2>1. 1 \in Int /\ S \in Int /\ S >= 0
    BY <1>6
  <2>2. IsFiniteSet(seats) /\ Cardinality(seats) = IF 1 > S THEN 0 ELSE S - 1 + 1
    BY <2>1, Blocks
  <2>3. IsFiniteSet(queue) /\ Cardinality(queue) = IF S + 1 > B THEN 0 ELSE B - (S + 1) + 1
    <3> DEFINE F == S + 1
    <3>1. F \in Int /\ B \in Int /\ F >= 0
      BY <1>6
    <3> HIDE DEF F
    <3>2. /\ IsFiniteSet({<<m, i>> : i \in F..B})
          /\ Cardinality({<<m, i>> : i \in F..B}) = IF F > B THEN 0 ELSE B - F + 1
      BY <3>1, Blocks
    <3> QED
      BY <3>2 DEF F
  <2>4. Cardinality(begun \ late) = IF 1 > S THEN 0 ELSE S - 1 + 1
    BY <1>7, <2>2
  <2>5. Cardinality(late) = IF S + 1 > B THEN 0 ELSE B - (S + 1) + 1
    BY <1>7, <2>3
  <2> QED
    BY <1>6, <2>4, <2>5
<1>9. waiting' = waiting \o [i \in 1..B - S |-> <<m, S + i>>]
  <2>1. waiting' = waiting \o [i \in 1..B - S |-> <<m, Free + i>>]
    BY <1>1, <1>8
  <2>2. CASE B > Free
    BY <1>6, <2>1, <2>2
  <2>3. CASE B <= Free
    <3>1. 1..B - S = {}
      BY <1>6, <2>3
    <3> QED
      BY <2>1, <3>1
  <2>4. B > Free \/ B <= Free
    BY <1>6
  <2> QED
    BY <2>2, <2>3, <2>4
<1>10. pc' = [w \in Workers |-> IF w \notin Team(m) THEN pc[w]
                               ELSE IF w[2] > Begun(m) THEN "done"
                               ELSE IF w[2] > Seated(m) THEN "waiting" ELSE "admitted"]
  BY <1>1, <1>2, <1>3, Teams, Rounds
<1>11. item' = [w \in Workers |-> IF w \in Team(m) /\ w[2] <= Begun(m) THEN w[2] ELSE item[w]]
  <2>1. begun \subseteq Team(m)
    BY DEF begun
  <2> QED
    BY <1>1, <1>2, <2>1
<1> QED
  BY <1>1, <1>8, <1>10, <1>11, <1>9 DEF B, S

LEMMA StartStep == ASSUME Inv, NEW m \in Maps, Start(m) PROVE Inv'
<1> DEFINE B == Begun(m)
           S == Seated(m)
<1>1. /\ Typed /\ B \in 0..TeamSize(m) /\ B <= Items[m] /\ S \in 0..B /\ Items[m] \in Nat
      /\ TeamSize(m) \in Nat \ {0}
  BY Rounds, TeamSizes DEF Inv
<1>2. /\ \A w \in Team(m) : pc[w] = "new"
      /\ \A w \in Workers : pc[w] # "woken"
      /\ pc' = [w \in Workers |-> IF w \notin Team(m) THEN pc[w]
                                  ELSE IF w[2] > B THEN "done"
                                  ELSE IF w[2] > S THEN "waiting" ELSE "admitted"]
      /\ item' = [w \in Workers |-> IF w \in Team(m) /\ w[2] <= B THEN w[2] ELSE item[w]]
      /\ active' = active + S
      /\ waiting' = waiting \o [i \in 1..B - S |-> <<m, S + i>>]
  BY <1>1, Started
<1>3. UNCHANGED <<verdict, ahead, told, lost, outcome, usage, reported, expired>>
  BY DEF Start
<1>4. cursor' = [cursor EXCEPT ![m] = Min({FirstHole(m), TeamSize(m), Items[m]})]
  BY DEF Start
<1>5. \/ /\ results' = [results EXCEPT ![m][FirstHole(m)] = "rejected"]
         /\ cause' = [cause EXCEPT ![m] = "undefined"]
      \/ /\ FirstHole(m) \notin 1..Min({TeamSize(m), Items[m]})
         /\ UNCHANGED <<results, cause>>
  BY DEF Start
<1>6. B = IF FirstHole(m) - 1 <= Items[m] THEN FirstHole(m) - 1 ELSE Items[m]
  BY DEF Begun
<1> HIDE DEF B, S
<1>7. \A n \in Maps : n # m => cursor'[n] = cursor[n] /\ results'[n] = results[n]
                               /\ cause'[n] = cause[n]
  BY <1>1, <1>4, <1>5 DEF Typed
<1>8. cursor' \in [Maps -> Nat]
  <2>1. FirstHole(m) \in Int /\ TeamSize(m) \in Int /\ Items[m] \in Int /\ FirstHole(m) >= 0
    BY <1>1, FirstHoles
  <2> DEFINE least == Min({FirstHole(m), TeamSize(m), Items[m]})
  <2>2. least \in Nat
    <3>1. least \in {FirstHole(m), TeamSize(m), Items[m]}
      BY <2>1, MinOfThree
    <3> HIDE DEF least
    <3> QED
      BY <1>1, <2>1, <3>1
  <2> QED
    BY <1>1, <1>4, <2>2 DEF Typed
<1>9. /\ results' = [n \in Maps |-> results'[n]]
      /\ \A n \in Maps : results'[n] \in [1..Items[n] -> {"none", "fulfilled", "rejected"}]
  <2>1. CASE results' = [results EXCEPT ![m][FirstHole(m)] = "rejected"]
    <3>1. /\ results' = [n \in Maps |-> results'[n]]
          /\ results'[m] = [results[m] EXCEPT ![FirstHole(m)] = "rejected"]
      BY <1>1, <2>1 DEF Typed
    <3>2. results'[m] \in [1..Items[m] -> {"none", "fulfilled", "rejected"}]
      <4>1. results[m] \in [1..Items[m] -> {"none", "fulfilled", "rejected"}]
        BY <1>1 DEF Typed
      <4> QED
        BY <3>1, <4>1
    <3> QED
      BY <1>1, <1>7, <3>1, <3>2 DEF Typed
  <2>2. CASE UNCHANGED results
    BY <1>1, <2>2 DEF Typed
  <2> QED
    BY <1>5, <2>1, <2>2
<1>10. /\ pc' \in [Workers -> {"new", "waiting", "woken", "admitted", "running",
                               "released", "done"}]
       /\ item' \in [Workers -> Nat] /\ active' \in Int
       /\ cause' \in [Maps -> Failures \cup {"none"}]
  <2>1. pc' \in [Workers -> {"new", "waiting", "woken", "admitted", "running",
                             "released", "done"}]
    BY <1>1, <1>2 DEF Typed
  <2>2. item' \in [Workers -> Nat]
    BY <1>1, <1>2, Teams DEF Typed
  <2>3. active' \in Int
    BY <1>1, <1>2 DEF Typed
  <2>4. cause' \in [Maps -> Failures \cup {"none"}]
    BY <1>1, <1>5 DEF Typed, Failures
  <2> QED
    BY <2>1, <2>2, <2>3, <2>4
<1>11. /\ \A w \in Workers : w \notin Team(m) => pc'[w] = pc[w] /\ item'[w] = item[w]
       /\ \A w \in Team(m) : pc'[w] \in {"done", "waiting", "admitted"}
       /\ \A w \in Team(m) : w[2] <= B => item'[w] = w[2] /\ pc'[w] # "done"
       /\ \A w \in Team(m) : pc'[w] = "admitted" <=> w[2] <= S
  BY <1>1, <1>2, Teams
\* The queue.
<1>12. /\ waiting' \in Seq(Workers) /\ Len(waiting') = Len(waiting) + (B - S)
       /\ Len(waiting) \in Nat /\ B - S \in Nat
       /\ \A i \in 1..Len(waiting) : waiting'[i] = waiting[i]
       /\ \A i \in 1..Len(waiting') : i > Len(waiting) =>
            waiting'[i] = <<m, S + (i - Len(waiting))>>
  <2> DEFINE late == [i \in 1..B - S |-> <<m, S + i>>]
  <2>1. \A i \in 1..B - S : <<m, S + i>> \in Workers
    BY <1>1, Teams DEF Team, Workers
  <2>2. B - S \in Nat /\ late \in Seq(Workers) /\ Len(late) = B - S
    BY <1>1, <2>1
  <2>3. waiting \in Seq(Workers) /\ waiting' = waiting \o late
    BY <1>1, <1>2 DEF Typed
  <2>4. \A i \in 1..B - S : late[i] = <<m, S + i>>
    OBVIOUS
  <2> HIDE DEF late
  <2>5. waiting' \in Seq(Workers)
    BY <2>2, <2>3
  <2>6. Len(waiting') = Len(waiting) + Len(late) /\ Len(waiting) \in Nat
    <3>1. Len(waiting \o late) = Len(waiting) + Len(late)
      BY <2>2, <2>3, ConcatProperties
    <3> QED
      BY <2>3, <3>1
  <2>7. waiting' \in Seq(Workers) /\ Len(waiting') = Len(waiting) + (B - S) /\ Len(waiting) \in Nat
    BY <2>2, <2>5, <2>6
  <2>8. \A i \in 1..Len(waiting) : waiting'[i] = waiting[i]
    BY <2>2, <2>3
  <2>9. ASSUME NEW i \in 1..Len(waiting'), i > Len(waiting)
        PROVE  waiting'[i] = <<m, S + (i - Len(waiting))>>
    <3>1. i - Len(waiting) \in 1..B - S
      BY <2>2, <2>7, <2>9
    <3>2. waiting'[i] = late[i - Len(waiting)]
      BY <2>2, <2>3, <2>7, <2>9
    <3> QED
      BY <2>4, <3>1, <3>2
  <2> QED
    BY <2>2, <2>7, <2>8, <2>9
<1>13. Typed'
  BY <1>1, <1>3, <1>8, <1>9, <1>10, <1>12 DEF Typed
<1>14. Queued'
  <2>1. ASSUME NEW i \in 1..Len(waiting), NEW w \in Team(m)
        PROVE  waiting[i] # w /\ pc'[waiting[i]] = "waiting"
    <3>1. waiting[i] \in Workers /\ pc[waiting[i]] = "waiting"
      BY <1>1 DEF Inv, Queued, Typed
    <3> QED
      BY <1>2, <1>11, <3>1
  <2>2. ASSUME NEW i \in 1..Len(waiting'), i > Len(waiting)
        PROVE  waiting'[i] \in Team(m) /\ pc'[waiting'[i]] = "waiting"
    <3>1. /\ waiting'[i] = <<m, S + (i - Len(waiting))>>
          /\ S + (i - Len(waiting)) \in S + 1..B
      BY <1>1, <1>12, <2>2
    <3>2. waiting'[i] \in Team(m) /\ waiting'[i][2] \in S + 1..B
      BY <1>1, <3>1 DEF Team
    <3>3. \A u \in Team(m) : u[2] \in S + 1..B => pc'[u] = "waiting"
      <4> SUFFICES ASSUME NEW u \in Team(m), u[2] \in S + 1..B PROVE pc'[u] = "waiting"
        OBVIOUS
      <4>1. u \in Workers /\ u[2] <= B /\ u[2] > S
        BY <1>1, Teams
      <4> QED
        BY <1>1, <1>2, <4>1
    <3> QED
      BY <3>2, <3>3
  <2>3. \A i \in 1..Len(waiting') : i <= Len(waiting) => i \in 1..Len(waiting)
    BY <1>12
  <2>4. \A i \in 1..Len(waiting') : pc'[waiting'[i]] = "waiting"
    <3>1. <<m, 1>> \in Team(m)
      BY Teams
    <3> QED
      BY <1>12, <2>1, <2>2, <2>3, <3>1
  <2>5. ASSUME NEW i \in 1..Len(waiting'), NEW j \in 1..Len(waiting'), waiting'[i] = waiting'[j]
        PROVE  i = j
    <3>1. CASE i <= Len(waiting) /\ j <= Len(waiting)
      BY <1>12, <2>3, <2>5, <3>1 DEF Inv, Queued
    <3>2. CASE i > Len(waiting) /\ j > Len(waiting)
      <4>1. S + (i - Len(waiting)) = S + (j - Len(waiting))
        BY <1>12, <2>5, <3>2
      <4> QED
        BY <1>1, <1>12, <4>1
    <3>3. CASE (i <= Len(waiting) /\ j > Len(waiting)) \/ (i > Len(waiting) /\ j <= Len(waiting))
      BY <1>12, <2>1, <2>2, <2>3, <2>5, <3>3
    <3> QED
      BY <1>12, <3>1, <3>2, <3>3
  <2> QED
    BY <2>4, <2>5 DEF Queued
\* The slots.
<1>15. Woken' = Woken
  BY <1>2, <1>11 DEF Woken
<1>16. Counted'
  <2> DEFINE new == {<<m, i>> : i \in 1..S}
  <2>1. IsFiniteSet(new) /\ Cardinality(new) = S
    <3>1. 1 \in Int /\ S \in Int /\ S >= 0
      BY <1>1
    <3>2. IsFiniteSet(new) /\ Cardinality(new) = IF 1 > S THEN 0 ELSE S - 1 + 1
      BY <3>1, Blocks
    <3> QED
      BY <3>1, <3>2
  <2>2. \A w \in Team(m) : w \in new <=> w[2] <= S
    BY <1>1, Teams
  <2>3. new \subseteq Team(m)
    BY <1>1 DEF Team
  <2> HIDE DEF new
  <2>4. Holding' = Holding \cup new /\ Holding \cap new = {}
    BY <1>2, <1>11, <2>2, <2>3, Teams DEF Holding
  <2>5. Cardinality(Holding') = Cardinality(Holding) + Cardinality(new) - Cardinality({})
    BY <2>1, <2>4, HoldingFinite, FS_Union
  <2> QED
    BY <1>1, <1>2, <2>1, <2>5, HoldingFinite, FS_CardinalityType, FS_EmptySet DEF Counted, Inv
<1>17. NoSlotLost'
  <2>1. Cardinality(Woken) \in Nat /\ active \in Int /\ active' = active + S /\ S \in Nat
        /\ B \in Nat /\ Limit \in Nat
    BY <1>1, <1>2, HoldingFinite, FS_CardinalityType, BatchAssumption DEF Typed
  <2>2. CASE B > S
    <3>1. S = Free /\ (active < Limit => Free = Limit - active)
      BY <1>1, <2>2, Rounds DEF B, S
    <3> QED
      BY <1>15, <2>1, <3>1 DEF NoSlotLost
  <2>3. CASE B <= S
    <3>1. Len(waiting') = Len(waiting)
      BY <1>1, <1>12, <2>3
    <3>2. waiting' # <<>> => waiting # <<>>
      BY <1>1, <1>12, <3>1 DEF Typed
    <3> QED
      BY <1>15, <2>1, <3>2 DEF NoSlotLost, Inv
  <2> QED
    BY <2>1, <2>2, <2>3
\* The items.
<1>18. Judged' /\ SiblingsTold'
  <2>1. \A w \in Workers : pc'[w] = "released" => pc[w] = "released"
    BY <1>11
  <2>2. \A w \in Workers : pc'[w] = "running" => pc[w] = "running" /\ w[1] \in Maps /\ w[1] # m
    BY <1>11, Teams
  <2> QED
    BY <1>3, <1>7, <2>1, <2>2 DEF Inv, Judged, SiblingsTold
<1>19. Accounted'
  <2>1. ASSUME NEW n \in Maps, n # m, cause'[n] = "none"
        PROVE  /\ (\E u \in Team(n) : pc'[u] = "done") => cursor'[n] >= Items[n]
               /\ \A i \in 1..Items[n] : i <= cursor'[n] =>
                    \/ results'[n][i] = "fulfilled"
                    \/ \E u \in Team(n) : item'[u] = i /\ pc'[u] \notin {"new", "done"}
    <3>1. \A u \in Team(n) : pc'[u] = pc[u] /\ item'[u] = item[u]
      BY <1>11, <2>1, Teams
    <3> QED
      BY <1>7, <2>1, <3>1 DEF Inv, Accounted
  <2>2. ASSUME cause'[m] = "none"
        PROVE  /\ (\E u \in Team(m) : pc'[u] = "done") => cursor'[m] >= Items[m]
               /\ \A i \in 1..Items[m] : i <= cursor'[m] =>
                    \/ results'[m][i] = "fulfilled"
                    \/ \E u \in Team(m) : item'[u] = i /\ pc'[u] \notin {"new", "done"}
    <3>1. FirstHole(m) \notin 1..Min({TeamSize(m), Items[m]})
      BY <1>1, <1>5, <2>2 DEF Typed
    <3>2. FirstHole(m) \in Nat \ {0} /\ (FirstHole(m) > TeamSize(m) \/ FirstHole(m) > Items[m])
      BY <1>1, <3>1, FirstHoles, MinOfTwo
    <3>3. cursor'[m] = Min({FirstHole(m), TeamSize(m), Items[m]})
      BY <1>1, <1>4 DEF Typed
    <3>4. cursor'[m] <= TeamSize(m) /\ cursor'[m] <= Items[m] /\ cursor'[m] \in Nat
          /\ (Items[m] = 0 => cursor'[m] = 0)
      BY <1>1, <3>2, <3>3, MinOfThree
    <3>5. B >= TeamSize(m) \/ B = Items[m]
      BY <1>1, <1>6, <3>2
    <3>6. ASSUME NEW i \in 1..Items[m], i <= cursor'[m]
          PROVE  \E u \in Team(m) : item'[u] = i /\ pc'[u] \notin {"new", "done"}
      <4>1. i \in 1..TeamSize(m) /\ i <= B
        BY <1>1, <3>4, <3>5, <3>6
      <4>2. <<m, i>> \in Team(m) /\ <<m, i>>[2] = i
        BY <4>1 DEF Team
      <4> QED
        BY <1>11, <4>1, <4>2
    <3>7. ASSUME NEW u \in Team(m), pc'[u] = "done" PROVE cursor'[m] >= Items[m]
      <4>1. u[2] \in 1..TeamSize(m) /\ u[2] > B
        BY <1>1, <1>11, <3>7, Teams
      <4>2. Items[m] = 0
        BY <1>1, <3>5, <4>1, TeamSizes
      <4> QED
        BY <3>4, <4>2
    <3> QED
      BY <3>6, <3>7
  <2> QED
    BY <2>1, <2>2 DEF Accounted
<1>20. WholeOrFailed'
  <2>1. outcome[m] = "none"
    BY <1>2, Teams DEF Inv, WholeOrFailed
  <2>2. \A n \in Maps : n # m =>
          Fulfilled(n)' = Fulfilled(n) /\ \A u \in Team(n) : pc'[u] = pc[u]
    BY <1>7, <1>11, Teams DEF Fulfilled
  <2> QED
    BY <1>3, <1>7, <2>1, <2>2 DEF Inv, WholeOrFailed
<1> QED
  BY <1>13, <1>14, <1>16, <1>17, <1>18, <1>19, <1>20 DEF Inv

-----------------------------------------------------------------------------

LEMMA InvStep == Inv /\ [Next]_vars => Inv'
BY StartStep, CollectStep, WakeStep, LaunchStep, SettleStep, EndsStep, IdleStep
   DEF Next, Goes, Executor

LEMMA Inductive == Spec => []Inv
BY InitInv, InvStep, PTL DEF Spec

\* Every variable has its type; in particular the limiter's count of active
\* executors never falls below zero, whatever wakes and takes slots when.
THEOREM TypeCorrect == Spec => []TypeOK
<1>1. Inv => TypeOK
  BY HoldingFinite, FS_CardinalityType DEF Inv, Typed, Counted, TypeOK
<1> QED
  BY <1>1, Inductive, PTL

\* While a worker waits for a slot, every slot is held or on its way to a waiter.
THEOREM SlotsAreKept == Spec => []NoSlotLost
<1>1. Inv => NoSlotLost
  BY DEF Inv
<1> QED
  BY <1>1, Inductive, PTL

\* A map that is over has all of its items, or has failed (for no reason, maybe), and
\* leaves no worker at its work.
THEOREM MapsAreWhole == Spec => []WholeOrFailed
<1>1. Inv => WholeOrFailed
  BY DEF Inv
<1> QED
  BY <1>1, Inductive, PTL

\* Every executor a failed map still waits for has been told to stop.
THEOREM FailuresAreTold == Spec => []SiblingsTold
<1>1. Inv => SiblingsTold
  BY DEF Inv
<1> QED
  BY <1>1, Inductive, PTL

-----------------------------------------------------------------------------
(* The contract of the maps.  Which worker has which item, and that every    *)
(* item taken is with one worker or settled, makes the steps of the workers  *)
(* steps of the items.                                                       *)

AtWork(w) == pc[w] \notin {"new", "done"}

\* Workers of a map have different items.
Distinct ==
  \A w, u \in Workers :
    AtWork(w) /\ AtWork(u) /\ w[1] = u[1] /\ item[w] = item[u] => w = u

\* The item of a worker is taken and not settled.
Unsettled ==
  \A w \in Workers : AtWork(w) =>
    /\ item[w] \in 1..Items[w[1]] /\ item[w] <= cursor[w[1]]
    /\ results[w[1]][item[w]] = "none"

\* What is taken and not settled is with a worker.
Held ==
  \A m \in Maps : \A i \in 1..Items[m] :
    i <= cursor[m] /\ results[m][i] = "none" => \E w \in Team(m) : AtWork(w) /\ item[w] = i

\* What is not taken is not settled, and nothing is taken before the map is started.
Untaken ==
  \A m \in Maps :
    /\ cursor[m] <= Items[m]
    /\ \A i \in 1..Items[m] : i > cursor[m] => results[m][i] = "none"
    /\ (\A w \in Team(m) : pc[w] = "new") => cursor[m] = 0

\* A map has failed by one of its items.
Caused ==
  \A m \in Maps : cause[m] = "none" <=> \A i \in 1..Items[m] : results[m][i] # "rejected"

Hands == Distinct /\ Unsettled /\ Held /\ Untaken /\ Caused

\* What becomes of an item by the worker it is with.
Role(p, v) ==
  IF p = "running" THEN "called"
  ELSE IF p = "released" THEN IF v = "valid" THEN "good" ELSE "bad" ELSE "taken"

CInv == Inv /\ Hands

LEMMA StageHeld ==
  CInv => \A w \in Workers : AtWork(w) => Stage(w[1], item[w]) = Role(pc[w], verdict[w])
<1> SUFFICES ASSUME CInv, NEW w \in Workers, AtWork(w)
             PROVE  Stage(w[1], item[w]) = Role(pc[w], verdict[w])
  OBVIOUS
<1> DEFINE m == w[1]
           i == item[w]
<1>1. m \in Maps /\ cursor[m] \in Nat /\ i \in Nat
  BY Teams DEF CInv, Inv, Typed
<1>2. results[m][i] = "none" /\ i <= cursor[m]
  BY DEF CInv, Hands, Unsettled
<1>3. \A p \in {"running", "released"} : With(m, i, p) = IF pc[w] = p THEN {w} ELSE {}
  BY DEF CInv, Hands, Distinct, With, AtWork
<1> HIDE DEF m, i
<1>4. ~ (i > cursor[m])
  BY <1>1, <1>2
<1>5. Stage(m, i) = Role(pc[w], verdict[w])
  BY <1>2, <1>3, <1>4 DEF Stage, Role
<1> QED
  BY <1>5 DEF m, i

\* An item that nobody has is settled, or nobody has taken it yet.
LEMMA StageFree ==
  CInv => \A m \in Maps : \A i \in 1..Items[m] :
    (\A w \in Team(m) : AtWork(w) => item[w] # i) =>
      IF results[m][i] # "none" THEN Stage(m, i) = results[m][i]
      ELSE Stage(m, i) = "idle" /\ i > cursor[m]
<1> SUFFICES ASSUME CInv, NEW m \in Maps, NEW i \in 1..Items[m],
                    \A w \in Team(m) : AtWork(w) => item[w] # i, results[m][i] = "none"
             PROVE  Stage(m, i) = "idle" /\ i > cursor[m]
  BY DEF Stage
<1>1. cursor[m] \in Nat /\ Items[m] \in Nat /\ i \in Nat
  BY TeamSizes DEF CInv, Inv, Typed
<1>2. ~ (i <= cursor[m])
  BY DEF CInv, Hands, Held
<1>3. i > cursor[m]
  BY <1>1, <1>2
<1> QED
  BY <1>3 DEF Stage

\* What is not taken is idle.
LEMMA StageIdle ==
  CInv => \A m \in Maps : \A i \in 1..Items[m] : Stage(m, i) = "idle" <=> i > cursor[m]
<1> SUFFICES ASSUME CInv, NEW m \in Maps, NEW i \in 1..Items[m]
             PROVE  Stage(m, i) = "idle" <=> i > cursor[m]
  OBVIOUS
<1>1. i > cursor[m] => results[m][i] = "none"
  BY DEF CInv, Hands, Untaken
<1>2. results[m][i] \in {"none", "fulfilled", "rejected"}
  BY DEF CInv, Inv, Typed
<1> QED
  BY <1>1, <1>2 DEF Stage

\* The items that are called are those of the executors at work.
LEMMA CalledHeld ==
  CInv => \A m \in Maps : \A i \in 1..Items[m] :
    Stage(m, i) = "called" <=> \E w \in Team(m) : pc[w] = "running" /\ item[w] = i
<1> SUFFICES ASSUME CInv, NEW m \in Maps, NEW i \in 1..Items[m]
             PROVE  Stage(m, i) = "called" <=>
                      \E w \in Team(m) : pc[w] = "running" /\ item[w] = i
  OBVIOUS
<1>1. CASE \E w \in Team(m) : AtWork(w) /\ item[w] = i
  <2>1. PICK w \in Team(m) : AtWork(w) /\ item[w] = i
    BY <1>1
  <2>2. Stage(m, i) = Role(pc[w], verdict[w])
    BY <2>1, StageHeld, Teams
  <2>3. \A u \in Team(m) : AtWork(u) /\ item[u] = i => u = w
    BY <2>1, Teams DEF CInv, Hands, Distinct
  <2> QED
    BY <2>1, <2>2, <2>3 DEF Role, AtWork
<1>2. CASE \A w \in Team(m) : AtWork(w) => item[w] # i
  <2>1. results[m][i] \in {"none", "fulfilled", "rejected"}
    BY DEF CInv, Inv, Typed
  <2> QED
    BY <1>2, <2>1, StageFree DEF AtWork
<1> QED
  BY <1>1, <1>2

\* The item of an executor at work is known to have failed siblings iff it is told.
LEMMA KnownHeld ==
  CInv => \A m \in Maps :
    /\ Known[m] \subseteq 1..Items[m]
    /\ \A w \in Team(m) : pc[w] = "running" => (item[w] \in Known[m] <=> told[w])
    /\ \A i \in Known[m] : \E w \in Team(m) : pc[w] = "running" /\ item[w] = i
<1> SUFFICES ASSUME CInv, NEW m \in Maps
    PROVE  /\ Known[m] \subseteq 1..Items[m]
           /\ \A w \in Team(m) : pc[w] = "running" => (item[w] \in Known[m] <=> told[w])
           /\ \A i \in Known[m] : \E w \in Team(m) : pc[w] = "running" /\ item[w] = i
  OBVIOUS
<1>1. Known[m] = {i \in 1..Items[m] : \E w \in With(m, i, "running") : told[w]}
  BY DEF Known, Aborted
<1>2. \A w \in Team(m) : pc[w] = "running" =>
        item[w] \in 1..Items[m] /\ With(m, item[w], "running") = {w}
  BY Teams DEF CInv, Hands, Distinct, Unsettled, With, AtWork
<1>3. \A i \in 1..Items[m] : \A w \in With(m, i, "running") :
        w \in Team(m) /\ pc[w] = "running" /\ item[w] = i
  BY Teams DEF With
<1> QED
  BY <1>1, <1>2, <1>3

\* A map has failed for its contract when it has a cause.
LEMMA FailedIs ==
  CInv => \A m \in Maps : /\ Contract!Failed(m) <=> cause[m] # "none"
                          /\ \A i \in 1..Items[m] : Stage(m, i) = "rejected" <=>
                                                    results[m][i] = "rejected"
<1> SUFFICES ASSUME CInv, NEW m \in Maps
             PROVE  /\ Contract!Failed(m) <=> cause[m] # "none"
                    /\ \A i \in 1..Items[m] : Stage(m, i) = "rejected" <=>
                                              results[m][i] = "rejected"
  OBVIOUS
<1>1. \A i \in 1..Items[m] : Stage(m, i) = "rejected" <=> results[m][i] = "rejected"
  BY DEF Stage
<1>2. Contract!Failed(m) <=> \E i \in 1..Items[m] : Stage(m, i) = "rejected"
  BY DEF Contract!Failed, Contract!In, Stages
<1> QED
  BY <1>1, <1>2 DEF CInv, Hands, Caused

\* The same of the state after a step.
LEMMA StagesNext ==
  CInv' =>
    /\ \A w \in Workers : AtWork(w)' => Stage(w[1], item[w])' = Role(pc'[w], verdict'[w])
    /\ \A m \in Maps : \A i \in 1..Items[m] :
         (\A w \in Team(m) : AtWork(w)' => item'[w] # i) =>
           IF results'[m][i] # "none" THEN Stage(m, i)' = results'[m][i]
           ELSE Stage(m, i)' = "idle" /\ i > cursor'[m]
    /\ \A m \in Maps : Contract!Failed(m)' <=> cause'[m] # "none"
    /\ \A m \in Maps :
         /\ Known'[m] \subseteq 1..Items[m]
         /\ \A w \in Team(m) : pc'[w] = "running" => (item'[w] \in Known'[m] <=> told'[w])
         /\ \A i \in Known'[m] : \E w \in Team(m) : pc'[w] = "running" /\ item'[w] = i
<1>1. (CInv => \A w \in Workers : AtWork(w) => Stage(w[1], item[w]) = Role(pc[w], verdict[w]))'
  BY StageHeld, PTL
<1>2. (CInv => \A m \in Maps : \A i \in 1..Items[m] :
         (\A w \in Team(m) : AtWork(w) => item[w] # i) =>
           IF results[m][i] # "none" THEN Stage(m, i) = results[m][i]
           ELSE Stage(m, i) = "idle" /\ i > cursor[m])'
  BY StageFree, PTL
<1>3. (CInv => \A m \in Maps : /\ Contract!Failed(m) <=> cause[m] # "none"
                               /\ \A i \in 1..Items[m] : Stage(m, i) = "rejected" <=>
                                                         results[m][i] = "rejected")'
  BY FailedIs, PTL
<1>4. (CInv => \A m \in Maps :
         /\ Known[m] \subseteq 1..Items[m]
         /\ \A w \in Team(m) : pc[w] = "running" => (item[w] \in Known[m] <=> told[w])
         /\ \A i \in Known[m] : \E w \in Team(m) : pc[w] = "running" /\ item[w] = i)'
  BY KnownHeld, PTL
<1> QED
  BY <1>1, <1>2, <1>3, <1>4

-----------------------------------------------------------------------------
(* Every step keeps the items in hand.                                     *)

LEMMA InitHands == Init => Hands
<1> SUFFICES ASSUME Init PROVE Hands
  OBVIOUS
<1>1. \A w \in Workers : ~ AtWork(w)
  BY DEF Init, AtWork
<1>2. Distinct /\ Unsettled
  BY <1>1 DEF Distinct, Unsettled
<1>3. Held /\ Untaken /\ Caused
  BY TeamSizes DEF Init, Held, Untaken, Caused
<1> QED
  BY <1>2, <1>3 DEF Hands

\* Steps that take and settle nothing.
Quiet ==
  /\ UNCHANGED <<item, cursor, results, cause>>
  /\ \A w \in Workers : (AtWork(w)' <=> AtWork(w)) /\ (pc'[w] = "new" <=> pc[w] = "new")

LEMMA QuietHands == ASSUME Hands, Quiet PROVE Hands'
<1>1. Distinct' /\ Unsettled'
  BY DEF Quiet, Hands, Distinct, Unsettled
<1>2. Held' /\ Untaken' /\ Caused'
  BY Teams DEF Quiet, Hands, Held, Untaken, Caused
<1> QED
  BY <1>1, <1>2 DEF Hands

\* A worker whose execution ends still has its item; so has the waiter it wakes.
LEMMA EndsQuietly ==
  ASSUME Inv, NEW w \in Workers, NEW v \in Verdicts, Ends(w, v)
  PROVE  /\ UNCHANGED <<item, told, cursor, results, cause, outcome>>
         /\ pc[w] = "running" /\ pc'[w] = "released" /\ verdict'[w] = v
         /\ \A u \in Workers : u # w => /\ verdict'[u] = verdict[u]
                                        /\ \/ pc'[u] = pc[u]
                                           \/ pc[u] = "waiting" /\ pc'[u] = "woken"
<1>1. Typed /\ Queued
  BY DEF Inv
<1>2. pc[w] = "running" /\ pc'[w] = "released" /\ verdict'[w] = v
      /\ \A u \in Workers : u # w => verdict'[u] = verdict[u]
  BY <1>1 DEF Ends, Release, Typed
<1>3. ASSUME waiting # <<>> PROVE pc[Head(waiting)] = "waiting"
  <2>1. Head(waiting) = waiting[1] /\ 1 \in 1..Len(waiting)
    BY <1>1, <1>3 DEF Typed
  <2> QED
    BY <1>1, <2>1 DEF Queued
<1>4. \A u \in Workers : u # w => pc'[u] = pc[u] \/ (pc[u] = "waiting" /\ pc'[u] = "woken")
  BY <1>3 DEF Ends, Release
<1> QED
  BY <1>2, <1>4 DEF Ends

LEMMA QuietSteps ==
  ASSUME Inv,
         \/ UNCHANGED vars \/ TimePasses \/ \E m \in Maps : Collect(m)
         \/ \E w \in Workers : \/ Wake(w) \/ Launch(w) \/ Watchdog(w) \/ LostEnds(w)
                               \/ \E v \in {"valid", "invalid", "thrown", "void"} : Answer(w, v)
  PROVE  Quiet
<1>1. CASE UNCHANGED vars \/ TimePasses \/ (\E m \in Maps : Collect(m))
             \/ (\E w \in Workers : LostEnds(w))
  BY <1>1 DEF vars, worker, node, TimePasses, Collect, LostEnds, Quiet, AtWork
<1>2. ASSUME NEW w \in Workers, Wake(w) \/ Launch(w) PROVE Quiet
  BY <1>2 DEF Wake, Launch, node, Quiet, AtWork, Inv, Typed
<1>3. ASSUME NEW w \in Workers, NEW v \in Verdicts, Ends(w, v) PROVE Quiet
  BY <1>3, EndsQuietly DEF Quiet, AtWork
<1> QED
  BY <1>1, <1>2, <1>3 DEF Watchdog, Answer, Verdicts

\* What Settle does.  The next item is refused when it is taken and the worker ends.
Refuses(w) == cursor'[w[1]] = cursor[w[1]] + 1 /\ pc'[w] = "done"

SettleEffect(w, m, i) ==
  /\ m \in Maps /\ w \in Team(m) /\ pc[w] = "released" /\ verdict[w] \in Verdicts \ {"none"}
  /\ cursor[m] \in Nat /\ Items[m] \in Nat
  /\ i \in 1..Items[m] /\ i <= cursor[m] /\ results[m][i] = "none"
  /\ \A u \in Workers : u # w => pc'[u] = pc[u] /\ item'[u] = item[u] /\ verdict'[u] = verdict[u]
  /\ \A n \in Maps : n # m =>
       cursor'[n] = cursor[n] /\ results'[n] = results[n] /\ cause'[n] = cause[n]
  /\ \/ /\ cursor'[m] = cursor[m] /\ pc'[w] = "done"
        /\ verdict[w] # "valid" \/ cause[m] # "none" \/ cursor[m] = Items[m]
     \/ /\ cursor'[m] = cursor[m] + 1 /\ cursor[m] < Items[m]
        /\ verdict[w] = "valid" /\ cause[m] = "none"
        /\ pc'[w] = "done" \/ (pc'[w] \in {"admitted", "waiting"} /\ item'[w] = cursor[m] + 1)
  /\ \A j \in 1..Items[m] :
       results'[m][j] = IF j = i THEN IF verdict[w] = "valid" THEN "fulfilled" ELSE "rejected"
                        ELSE IF Refuses(w) /\ j = cursor[m] + 1 THEN "rejected"
                        ELSE results[m][j]
  /\ cause'[m] = "none" <=> cause[m] = "none" /\ verdict[w] = "valid" /\ ~ Refuses(w)
  /\ cause'[m] = cause[m] \/ (cause[m] = "none" /\ (cause'[m] = "void" => verdict[w] # "valid"))
  /\ \A u \in Workers : u[1] # m \/ cause'[m] = "none" => told'[u] = told[u]
  /\ outcome' = outcome

LEMMA SettleEffects ==
  ASSUME CInv, NEW w \in Workers, Settle(w)
  PROVE  SettleEffect(w, w[1], item[w])
<1> DEFINE m == w[1]
           v == verdict[w]
           stop == v # "valid" \/ cause[m] # "none"
           hole == Hole(m, stop)
           first == IF v # "valid" THEN v ELSE IF hole THEN "undefined" ELSE "none"
<1>1. m \in Maps /\ w \in Team(m) /\ pc[w] = "released" /\ Typed /\ v \in Verdicts \ {"none"}
  BY Teams DEF Settle, CInv, Inv, Judged, Typed
<1>2. /\ cursor[m] \in Nat /\ Items[m] \in Nat /\ cursor[m] <= Items[m]
      /\ item[w] \in 1..Items[m] /\ item[w] <= cursor[m] /\ results[m][item[w]] = "none"
  BY <1>1, TeamSizes DEF Typed, CInv, Hands, Unsettled, Untaken, AtWork
<1>3. first \in Failures \cup {"none"} /\ (first = "none" <=> v = "valid" /\ ~hole)
  BY <1>1 DEF Verdicts, Failures
<1>4. /\ cause' = [cause EXCEPT ![m] = IF @ = "none" THEN first ELSE @]
      /\ told' = [u \in Workers |-> told[u] \/ (u[1] = m /\ pc[u] = "running" /\ first # "none")]
      /\ results' = [results EXCEPT ![m] =
           [i \in DOMAIN @ |-> IF i = item[w]
                               THEN IF v = "valid" THEN "fulfilled" ELSE "rejected"
                               ELSE IF hole /\ i = cursor[m] + 1 THEN "rejected" ELSE @[i]]]
      /\ verdict' = [verdict EXCEPT ![w] = "none"]
  BY DEF Settle, Recorded
<1>5. \/ /\ stop \/ hole \/ cursor[m] = Items[m]
         /\ pc' = [pc EXCEPT ![w] = "done"]
         /\ cursor' = [cursor EXCEPT ![m] = IF hole THEN @ + 1 ELSE @]
         /\ item' = item
      \/ ~stop /\ ~hole /\ cursor[m] < Items[m] /\ Take(w)
  BY DEF Settle
<1>6. hole => ~stop /\ cursor[m] < Items[m]
  BY DEF Hole
<1>7. stop <=> v # "valid" \/ cause[m] # "none"
  OBVIOUS
<1>8. m = w[1] /\ v = verdict[w] /\ UNCHANGED outcome
  BY DEF Settle
<1> HIDE DEF m, v, stop, hole, first
<1> DEFINE Moves ==
  /\ Refuses(w) <=> hole
  /\ \A u \in Workers : u # w => pc'[u] = pc[u] /\ item'[u] = item[u]
  /\ \A n \in Maps : n # m => cursor'[n] = cursor[n]
  /\ \/ /\ cursor'[m] = cursor[m] /\ pc'[w] = "done"
        /\ v # "valid" \/ cause[m] # "none" \/ cursor[m] = Items[m]
     \/ /\ cursor'[m] = cursor[m] + 1 /\ cursor[m] < Items[m]
        /\ v = "valid" /\ cause[m] = "none"
        /\ pc'[w] = "done" \/ (pc'[w] \in {"admitted", "waiting"} /\ item'[w] = cursor[m] + 1)
<1>9. ASSUME /\ stop \/ hole \/ cursor[m] = Items[m]
             /\ pc' = [pc EXCEPT ![w] = "done"]
             /\ cursor' = [cursor EXCEPT ![m] = IF hole THEN @ + 1 ELSE @]
             /\ item' = item
      PROVE  Moves
  <2>1. /\ pc'[w] = "done" /\ cursor'[m] = IF hole THEN cursor[m] + 1 ELSE cursor[m]
        /\ \A u \in Workers : u # w => pc'[u] = pc[u] /\ item'[u] = item[u]
        /\ \A n \in Maps : n # m => cursor'[n] = cursor[n]
    BY <1>1, <1>9 DEF Typed
  <2>2. Refuses(w) <=> hole
    BY <1>2, <1>8, <2>1 DEF Refuses
  <2> QED
    BY <1>6, <1>7, <1>9, <2>1, <2>2
<1>10. ASSUME ~stop, ~hole, cursor[m] < Items[m], Take(w) PROVE Moves
  <2>1. /\ pc'[w] \in {"admitted", "waiting"} /\ cursor'[m] = cursor[m] + 1
        /\ item'[w] = cursor[m] + 1
        /\ \A u \in Workers : u # w => pc'[u] = pc[u] /\ item'[u] = item[u]
        /\ \A n \in Maps : n # m => cursor'[n] = cursor[n]
    BY <1>1, <1>8, <1>10 DEF Typed, Take
  <2>2. ~ Refuses(w)
    BY <2>1 DEF Refuses
  <2> QED
    BY <1>7, <1>10, <2>1, <2>2
<1>11. Moves
  BY <1>5, <1>9, <1>10
<1>12. /\ \A u \in Workers : u # w => verdict'[u] = verdict[u]
       /\ \A n \in Maps : n # m => results'[n] = results[n] /\ cause'[n] = cause[n]
  BY <1>1, <1>4 DEF Typed
<1>13. cause'[m] = "none" <=> cause[m] = "none" /\ v = "valid" /\ ~hole
  BY <1>1, <1>3, <1>4 DEF Typed
<1>14. \A j \in 1..Items[m] :
         results'[m][j] = IF j = item[w] THEN IF v = "valid" THEN "fulfilled" ELSE "rejected"
                          ELSE IF hole /\ j = cursor[m] + 1 THEN "rejected" ELSE results[m][j]
  <2>1. DOMAIN results[m] = 1..Items[m] /\ m \in DOMAIN results
    BY <1>1 DEF Typed
  <2> QED
    BY <1>4, <2>1
<1>15. \A u \in Workers : u[1] # m \/ cause'[m] = "none" => told'[u] = told[u]
  <2>1. cause'[m] = "none" => first = "none"
    BY <1>1, <1>4 DEF Typed
  <2> QED
    BY <1>1, <1>4, <2>1 DEF Typed
<1>16. cause'[m] = cause[m] \/ (cause[m] = "none" /\ (cause'[m] = "void" => v # "valid"))
  <2>1. v = "valid" => first \in {"none", "undefined"}
    BY DEF first
  <2> QED
    BY <1>1, <1>4, <2>1 DEF Typed
<1> QED
  BY <1>1, <1>2, <1>8, <1>11, <1>12, <1>13, <1>14, <1>15, <1>16 DEF SettleEffect

LEMMA SettleHands == ASSUME CInv, NEW w \in Workers, Settle(w) PROVE Hands'
<1> DEFINE m == w[1]
           i == item[w]
<1>1. SettleEffect(w, m, i)
  BY SettleEffects
<1>2. /\ cursor \in [Maps -> Nat] /\ item \in [Workers -> Nat] /\ m = w[1] /\ i = item[w]
      /\ \A n \in Maps : Items[n] \in Nat
  BY TeamSizes DEF CInv, Inv, Typed
<1> HIDE DEF m, i
<1>3. \A u \in Workers : u # w /\ AtWork(u) /\ u[1] = m => item[u] <= cursor[m] /\ item[u] # i
  BY <1>1, <1>2 DEF CInv, Hands, Unsettled, Distinct, AtWork, SettleEffect
<1>4. \A u \in Workers : u # w => (AtWork(u)' <=> AtWork(u)) /\ item'[u] = item[u]
  BY <1>1 DEF SettleEffect, AtWork
<1>5. AtWork(w)' => /\ ~ Refuses(w) /\ item'[w] = cursor[m] + 1
                    /\ cursor'[m] = cursor[m] + 1 /\ cursor[m] < Items[m]
  BY <1>1, <1>2 DEF SettleEffect, AtWork, Refuses
<1>6. /\ cursor[m] \in Nat /\ Items[m] \in Nat /\ cursor[m] <= Items[m]
      /\ cursor'[m] \in {cursor[m], cursor[m] + 1} /\ cursor'[m] <= Items[m]
      /\ Refuses(w) => cursor'[m] = cursor[m] + 1
  BY <1>1, <1>2 DEF SettleEffect, Refuses, CInv, Hands, Untaken
<1>7. Distinct'
  <2>1. ASSUME NEW u \in Workers, u # w, AtWork(u)', AtWork(w)', u[1] = m PROVE item'[u] # item'[w]
    BY <1>2, <1>3, <1>4, <1>5, <1>6, <2>1
  <2> QED
    BY <1>2, <1>4, <2>1 DEF CInv, Hands, Distinct
<1>8. Unsettled'
  <2>1. ASSUME NEW u \in Workers, u # w, AtWork(u)'
        PROVE  /\ item'[u] \in 1..Items[u[1]] /\ item'[u] <= cursor'[u[1]]
               /\ results'[u[1]][item'[u]] = "none"
    <3>1. /\ item'[u] = item[u] /\ item[u] \in 1..Items[u[1]] /\ item[u] <= cursor[u[1]]
          /\ results[u[1]][item[u]] = "none" /\ u[1] \in Maps
      BY <1>4, <2>1, Teams DEF CInv, Hands, Unsettled
    <3>2. CASE u[1] # m
      BY <1>1, <3>1, <3>2 DEF SettleEffect
    <3>3. CASE u[1] = m
      <4>1. item[u] # i /\ item[u] <= cursor[m] /\ item[u] # cursor[m] + 1 /\ item[u] <= cursor'[m]
        BY <1>2, <1>3, <1>4, <1>6, <2>1, <3>1, <3>3
      <4>2. results'[m][item[u]] = results[m][item[u]]
        BY <1>1, <3>1, <3>3, <4>1 DEF SettleEffect
      <4> QED
        BY <3>1, <3>3, <4>1, <4>2
    <3> QED
      BY <3>2, <3>3
  <2>2. ASSUME AtWork(w)'
        PROVE  /\ item'[w] \in 1..Items[m] /\ item'[w] <= cursor'[m]
               /\ results'[m][item'[w]] = "none"
    <3>1. cursor[m] + 1 \in 1..Items[m] /\ cursor[m] + 1 > cursor[m] /\ cursor[m] + 1 # i
      BY <1>1, <1>5, <1>6, <2>2 DEF SettleEffect
    <3>2. results[m][cursor[m] + 1] = "none"
      BY <1>1, <3>1 DEF SettleEffect, CInv, Hands, Untaken
    <3>3. results'[m][cursor[m] + 1] = results[m][cursor[m] + 1]
      BY <1>1, <1>5, <2>2, <3>1 DEF SettleEffect
    <3> QED
      BY <1>5, <1>6, <2>2, <3>1, <3>2, <3>3
  <2> QED
    BY <1>2, <2>1, <2>2 DEF Unsettled
<1>9. Held'
  <2>1. ASSUME NEW n \in Maps, NEW j \in 1..Items[n], j <= cursor'[n], results'[n][j] = "none"
        PROVE  \E u \in Team(n) : AtWork(u)' /\ item'[u] = j
    <3>1. CASE n # m
      <4>1. j <= cursor[n] /\ results[n][j] = "none"
        BY <1>1, <2>1, <3>1 DEF SettleEffect
      <4>2. PICK u \in Team(n) : AtWork(u) /\ item[u] = j
        BY <2>1, <4>1 DEF CInv, Hands, Held
      <4> QED
        BY <1>2, <1>4, <3>1, <4>2, Teams
    <3>2. CASE n = m /\ j <= cursor[m]
      <4>1. j # i /\ j # cursor[m] + 1
        BY <1>1, <1>6, <2>1, <3>2 DEF SettleEffect
      <4>2. results[m][j] = "none"
        BY <1>1, <2>1, <3>2, <4>1 DEF SettleEffect
      <4>3. PICK u \in Team(m) : AtWork(u) /\ item[u] = j
        BY <2>1, <3>2, <4>2 DEF CInv, Hands, Held
      <4> QED
        BY <1>2, <1>4, <3>2, <4>1, <4>3, Teams
    <3>3. CASE n = m /\ ~ (j <= cursor[m])
      <4>1. j = cursor[m] + 1 /\ cursor'[m] = cursor[m] + 1 /\ j # i
        BY <1>1, <1>6, <2>1, <3>3 DEF SettleEffect
      <4>2. ~ Refuses(w)
        BY <1>1, <2>1, <3>3, <4>1 DEF SettleEffect
      <4>3. pc'[w] \in {"admitted", "waiting"} /\ item'[w] = cursor[m] + 1
        BY <1>1, <1>2, <1>6, <4>1, <4>2 DEF SettleEffect, Refuses
      <4> QED
        BY <1>1, <3>3, <4>1, <4>3 DEF AtWork, SettleEffect
    <3> QED
      BY <3>1, <3>2, <3>3
  <2> QED
    BY <2>1 DEF Held
<1>10. Untaken'
  <2>1. ASSUME NEW n \in Maps, n # m
        PROVE  /\ cursor'[n] <= Items[n]
               /\ \A j \in 1..Items[n] : j > cursor'[n] => results'[n][j] = "none"
               /\ (\A u \in Team(n) : pc'[u] = "new") => cursor'[n] = 0
    <3>1. \A u \in Team(n) : u \in Workers /\ u # w
      BY <1>2, <2>1, Teams
    <3> QED
      BY <1>1, <2>1, <3>1 DEF SettleEffect, CInv, Hands, Untaken
  <2>2. ASSUME NEW j \in 1..Items[m], j > cursor'[m] PROVE results'[m][j] = "none"
    <3>1. j > cursor[m] /\ j # i /\ (Refuses(w) => j # cursor[m] + 1)
      BY <1>1, <1>6, <2>2 DEF SettleEffect
    <3> QED
      BY <1>1, <2>2, <3>1 DEF SettleEffect, CInv, Hands, Untaken
  <2>3. \E u \in Team(m) : pc'[u] # "new"
    BY <1>1 DEF SettleEffect
  <2> QED
    BY <1>6, <2>1, <2>2, <2>3 DEF Untaken
<1>11. Caused'
  <2>1. ASSUME NEW n \in Maps, n # m
        PROVE  cause'[n] = "none" <=> \A j \in 1..Items[n] : results'[n][j] # "rejected"
    BY <1>1, <2>1 DEF SettleEffect, CInv, Hands, Caused
  <2>2. ASSUME cause'[m] = "none" PROVE \A j \in 1..Items[m] : results'[m][j] # "rejected"
    BY <1>1, <2>2 DEF SettleEffect, CInv, Hands, Caused
  <2>3. ASSUME cause'[m] # "none" PROVE \E j \in 1..Items[m] : results'[m][j] = "rejected"
    <3>1. CASE verdict[w] # "valid"
      BY <1>1, <3>1 DEF SettleEffect
    <3>2. CASE cause[m] # "none"
      <4>1. PICK j \in 1..Items[m] : results[m][j] = "rejected"
        BY <1>1, <3>2 DEF SettleEffect, CInv, Hands, Caused
      <4>2. j # i
        BY <1>1, <4>1 DEF SettleEffect
      <4> QED
        BY <1>1, <4>1, <4>2 DEF SettleEffect
    <3>3. CASE Refuses(w)
      <4>1. cursor[m] + 1 \in 1..Items[m] /\ cursor[m] + 1 # i
        BY <1>1, <1>6, <3>3 DEF SettleEffect
      <4> QED
        BY <1>1, <3>3, <4>1 DEF SettleEffect
    <3> QED
      BY <1>1, <2>3, <3>1, <3>2, <3>3 DEF SettleEffect
  <2> QED
    BY <2>1, <2>2, <2>3 DEF Caused
<1> QED
  BY <1>7, <1>8, <1>9, <1>10, <1>11 DEF Hands

\* What Start does: the first k items go to as many workers, and the next one may be
\* refused.
StartEffect(m, k, refused) ==
  /\ k \in 0..TeamSize(m) /\ k <= Items[m] /\ Items[m] \in Nat /\ cursor[m] = 0
  /\ outcome[m] = "none" /\ \A j \in 1..Items[m] : results[m][j] = "none"
  /\ \A u \in Team(m) : /\ pc[u] = "new" /\ pc'[u] \in {"done", "waiting", "admitted"}
                        /\ pc'[u] # "done" <=> u[2] <= k
                        /\ u[2] <= k => item'[u] = u[2]
  /\ \A u \in Workers : u[1] # m => pc'[u] = pc[u] /\ item'[u] = item[u]
  /\ \A n \in Maps : n # m =>
       cursor'[n] = cursor[n] /\ results'[n] = results[n] /\ cause'[n] = cause[n]
  /\ refused \in BOOLEAN /\ (refused => k < Items[m])
  /\ cursor'[m] = IF refused THEN k + 1 ELSE k
  /\ \A j \in 1..Items[m] : results'[m][j] = IF refused /\ j = k + 1 THEN "rejected" ELSE "none"
  /\ cause'[m] = "none" <=> ~ refused
  /\ Unexplained' = Unexplained
  /\ UNCHANGED <<verdict, told, outcome>>

LEMMA StartEffects ==
  ASSUME CInv, NEW m \in Maps, Start(m)
  PROVE  \E k \in Nat, refused \in BOOLEAN : StartEffect(m, k, refused)
<1> DEFINE k == Begun(m)
           hole == FirstHole(m)
           refused == hole \in 1..Min({TeamSize(m), Items[m]})
<1>1. /\ Typed /\ k \in 0..TeamSize(m) /\ k <= Items[m] /\ Items[m] \in Nat
      /\ TeamSize(m) \in Nat \ {0} /\ hole \in 1..TeamSize(m) + 1
      /\ TeamSize(m) = 1 \/ TeamSize(m) <= Items[m]
      /\ k = IF hole - 1 <= Items[m] THEN hole - 1 ELSE Items[m]
  BY Rounds, TeamSizes, FirstHoles DEF CInv, Inv, Begun
<1>2. /\ \A u \in Team(m) : pc[u] = "new"
      /\ pc' = [u \in Workers |-> IF u \notin Team(m) THEN pc[u]
                                  ELSE IF u[2] > k THEN "done"
                                  ELSE IF u[2] > Seated(m) THEN "waiting" ELSE "admitted"]
      /\ item' = [u \in Workers |-> IF u \in Team(m) /\ u[2] <= k THEN u[2] ELSE item[u]]
  BY <1>1, Started
<1>3. /\ cursor' = [cursor EXCEPT ![m] = Min({hole, TeamSize(m), Items[m]})]
      /\ IF refused
         THEN /\ results' = [results EXCEPT ![m][hole] = "rejected"]
              /\ cause' = [cause EXCEPT ![m] = "undefined"]
         ELSE UNCHANGED <<results, cause>>
      /\ UNCHANGED <<verdict, told, outcome>>
  BY DEF Start
<1>4. refused <=> hole <= TeamSize(m) /\ hole <= Items[m]
  BY <1>1, MinOfTwo
<1>5. cursor'[m] = IF refused THEN k + 1 ELSE k
  <2> DEFINE least == Min({hole, TeamSize(m), Items[m]})
  <2>1. /\ least \in {hole, TeamSize(m), Items[m]}
        /\ least <= hole /\ least <= TeamSize(m) /\ least <= Items[m]
    <3>1. hole \in Int /\ TeamSize(m) \in Int /\ Items[m] \in Int
      BY <1>1
    <3> HIDE DEF hole
    <3> QED
      BY <3>1, MinOfThree
  <2>2. cursor'[m] = least
    BY <1>1, <1>3 DEF Typed
  <2> HIDE DEF least, k, hole, refused
  <2>3. hole \in Int /\ TeamSize(m) \in Int /\ Items[m] \in Int /\ k \in Int
    BY <1>1
  <2> QED
    BY <1>1, <1>4, <2>1, <2>2, <2>3
<1> HIDE DEF k, hole, refused
<1>6. /\ cursor[m] = 0 /\ cause[m] = "none" /\ outcome[m] = "none"
      /\ \A j \in 1..Items[m] : results[m][j] = "none"
  <2>1. cursor[m] = 0 /\ outcome[m] = "none"
    BY <1>2, Teams DEF CInv, Inv, WholeOrFailed, Hands, Untaken
  <2>2. \A j \in 1..Items[m] : results[m][j] = "none"
    BY <2>1 DEF CInv, Hands, Untaken
  <2> QED
    BY <2>1, <2>2 DEF CInv, Hands, Caused
<1>7. /\ \A u \in Team(m) : /\ pc[u] = "new" /\ pc'[u] \in {"done", "waiting", "admitted"}
                            /\ pc'[u] # "done" <=> u[2] <= k
                            /\ u[2] <= k => item'[u] = u[2]
      /\ \A u \in Workers : u[1] # m => pc'[u] = pc[u] /\ item'[u] = item[u]
  <2>1. \A u \in Team(m) : u \in Workers /\ u[2] \in Int /\ k \in Int
    BY <1>1, Teams
  <2> QED
    BY <1>2, <2>1, Teams
<1>8. /\ \A n \in Maps : n # m =>
           cursor'[n] = cursor[n] /\ results'[n] = results[n] /\ cause'[n] = cause[n]
      /\ cause'[m] = "none" <=> ~ refused
  BY <1>1, <1>3, <1>6 DEF Typed
<1>9. refused => hole = k + 1 /\ k < Items[m]
  BY <1>1, <1>4
<1>10. \A j \in 1..Items[m] : results'[m][j] = IF refused /\ j = k + 1 THEN "rejected" ELSE "none"
  <2>1. DOMAIN results[m] = 1..Items[m] /\ m \in DOMAIN results
    BY <1>1 DEF Typed
  <2>2. CASE refused
    <3>1. results'[m] = [results[m] EXCEPT ![hole] = "rejected"]
      BY <1>3, <2>1, <2>2
    <3> QED
      BY <1>6, <1>9, <2>1, <2>2, <3>1
  <2>3. CASE ~ refused
    BY <1>3, <1>6, <2>3
  <2> QED
    BY <2>2, <2>3
<1>11. refused \in BOOLEAN /\ k \in Nat
  BY <1>1 DEF refused
<1>12. Unexplained' = Unexplained
  <2>1. cause[m] # "void" /\ cause'[m] # "void"
    BY <1>1, <1>3, <1>6 DEF Typed
  <2> QED
    BY <1>8, <2>1 DEF Unexplained
<1>13. StartEffect(m, k, refused)
  BY <1>1, <1>3, <1>5, <1>6, <1>7, <1>8, <1>9, <1>10, <1>11, <1>12 DEF StartEffect
<1> QED
  BY <1>11, <1>13

LEMMA StartHands == ASSUME CInv, NEW m \in Maps, Start(m) PROVE Hands'
<1>1. PICK k \in Nat, refused \in BOOLEAN : StartEffect(m, k, refused)
  BY StartEffects
<1>2. /\ \A u \in Workers : u[1] # m =>
           (AtWork(u)' <=> AtWork(u)) /\ item'[u] = item[u] /\ pc'[u] = pc[u] /\ u[1] \in Maps
      /\ \A u \in Team(m) : AtWork(u)' => item'[u] = u[2] /\ u[2] \in 1..k /\ u = <<m, u[2]>>
      /\ \A u \in Workers : u[1] = m => u \in Team(m)
  BY <1>1, Teams DEF StartEffect, AtWork
<1>3. k <= Items[m] /\ Items[m] \in Nat /\ cursor'[m] >= k /\ cursor'[m] <= Items[m]
  BY <1>1 DEF StartEffect
<1>4. Distinct'
  BY <1>2 DEF CInv, Hands, Distinct
<1>5. Unsettled'
  <2>1. ASSUME NEW u \in Workers, u[1] # m, AtWork(u)'
        PROVE  /\ item'[u] \in 1..Items[u[1]] /\ item'[u] <= cursor'[u[1]]
               /\ results'[u[1]][item'[u]] = "none"
    BY <1>1, <1>2, <2>1 DEF StartEffect, CInv, Hands, Unsettled
  <2>2. ASSUME NEW u \in Team(m), AtWork(u)'
        PROVE  /\ item'[u] \in 1..Items[m] /\ item'[u] <= cursor'[m]
               /\ results'[m][item'[u]] = "none"
    <3>1. item'[u] = u[2] /\ u[2] \in 1..k /\ u[2] # k + 1
      BY <1>2, <2>2
    <3>2. u[2] \in 1..Items[m] /\ u[2] <= cursor'[m]
      BY <1>1, <1>3, <3>1 DEF StartEffect
    <3> QED
      BY <1>1, <3>1, <3>2 DEF StartEffect
  <2> QED
    BY <1>2, <2>1, <2>2 DEF Unsettled
<1>6. Held'
  <2>1. ASSUME NEW n \in Maps, n # m, NEW j \in 1..Items[n], j <= cursor'[n],
               results'[n][j] = "none"
        PROVE  \E u \in Team(n) : AtWork(u)' /\ item'[u] = j
    <3>1. PICK u \in Team(n) : AtWork(u) /\ item[u] = j
      BY <1>1, <2>1 DEF StartEffect, CInv, Hands, Held
    <3> QED
      BY <1>2, <2>1, <3>1, Teams
  <2>2. ASSUME NEW j \in 1..Items[m], j <= cursor'[m], results'[m][j] = "none"
        PROVE  \E u \in Team(m) : AtWork(u)' /\ item'[u] = j
    <3>1. j <= k
      BY <1>1, <2>2 DEF StartEffect
    <3>2. j \in 1..TeamSize(m)
      BY <1>1, <3>1, TeamSizes DEF StartEffect
    <3>3. <<m, j>> \in Team(m) /\ <<m, j>>[2] = j
      BY <3>2 DEF Team
    <3> QED
      BY <1>1, <3>1, <3>3 DEF StartEffect, AtWork
  <2> QED
    BY <2>1, <2>2 DEF Held
<1>7. Untaken'
  <2>1. ASSUME NEW n \in Maps, n # m
        PROVE  /\ cursor'[n] <= Items[n]
               /\ \A j \in 1..Items[n] : j > cursor'[n] => results'[n][j] = "none"
               /\ (\A u \in Team(n) : pc'[u] = "new") => cursor'[n] = 0
    <3>1. \A u \in Team(n) : pc'[u] = pc[u]
      BY <1>2, <2>1, Teams
    <3> QED
      BY <1>1, <2>1, <3>1 DEF StartEffect, CInv, Hands, Untaken
  <2>2. \A j \in 1..Items[m] : j > cursor'[m] => results'[m][j] = "none"
    BY <1>1 DEF StartEffect
  <2>3. <<m, 1>> \in Team(m) /\ pc'[<<m, 1>>] # "new"
    BY <1>1, Teams DEF StartEffect
  <2> QED
    BY <1>3, <2>1, <2>2, <2>3 DEF Untaken
<1>8. Caused'
  <2>1. ASSUME NEW n \in Maps, n # m
        PROVE  cause'[n] = "none" <=> \A j \in 1..Items[n] : results'[n][j] # "rejected"
    BY <1>1, <2>1 DEF StartEffect, CInv, Hands, Caused
  <2>2. refused => k + 1 \in 1..Items[m]
    BY <1>1 DEF StartEffect
  <2>3. cause'[m] = "none" <=> \A j \in 1..Items[m] : results'[m][j] # "rejected"
    BY <1>1, <2>2 DEF StartEffect
  <2> QED
    BY <2>1, <2>3 DEF Caused
<1> QED
  BY <1>4, <1>5, <1>6, <1>7, <1>8 DEF Hands

LEMMA CInvStep == CInv /\ [Next]_vars => CInv'
<1> SUFFICES ASSUME CInv, [Next]_vars PROVE CInv'
  OBVIOUS
<1>1. Inv'
  BY InvStep DEF CInv
<1>2. Hands'
  BY StartHands, SettleHands, QuietSteps, QuietHands DEF CInv, Next, Goes, Executor
<1> QED
  BY <1>1, <1>2 DEF CInv

-----------------------------------------------------------------------------
(* Every step is a step of the contract or changes nothing of it.           *)

\* An item that stays where it is.
LEMMA StageKept ==
  ASSUME CInv, CInv', NEW n \in Maps, NEW j \in 1..Items[n], results'[n][j] = results[n][j],
         \A u \in Team(n) :
           /\ AtWork(u)' /\ item'[u] = j <=> AtWork(u) /\ item[u] = j
           /\ AtWork(u) /\ item[u] = j =>
                Role(pc'[u], verdict'[u]) = Role(pc[u], verdict[u])
  PROVE  Stage(n, j)' = Stage(n, j)
<1>1. CASE \E u \in Team(n) : AtWork(u) /\ item[u] = j
  <2>1. PICK u \in Team(n) : AtWork(u) /\ item[u] = j
    BY <1>1
  <2>2. u \in Workers /\ u[1] = n /\ AtWork(u)' /\ item'[u] = j
    BY <2>1, Teams
  <2>3. Stage(n, j) = Role(pc[u], verdict[u])
    BY <2>1, <2>2, StageHeld
  <2>4. Stage(u[1], item[u])' = Role(pc'[u], verdict'[u])
    BY <2>2, StagesNext
  <2>5. Stage(n, j)' = Stage(u[1], item[u])'
    BY <2>2 DEF Stage, With
  <2> QED
    BY <2>1, <2>3, <2>4, <2>5
<1>2. CASE \A u \in Team(n) : AtWork(u) => item[u] # j
  BY <1>2, StageFree, StagesNext
<1> QED
  BY <1>1, <1>2

\* The item of a worker after a step.
LEMMA StageMade ==
  ASSUME CInv', NEW w \in Workers, AtWork(w)', NEW j, item'[w] = j
  PROVE  Stage(w[1], j)' = Role(pc'[w], verdict'[w])
<1>1. Stage(w[1], item[w])' = Role(pc'[w], verdict'[w])
  BY StagesNext
<1>2. Stage(w[1], j)' = Stage(w[1], item[w])'
  BY DEF Stage, With
<1> QED
  BY <1>1, <1>2

LEMMA StagesAre ==
  /\ Stages = [m \in Maps |-> [i \in 1..Items[m] |-> Stage(m, i)]]
  /\ Stages' = [m \in Maps |-> [i \in 1..Items[m] |-> Stage(m, i)']]
  /\ Known = [m \in Maps |-> Known[m]] /\ Known' = [m \in Maps |-> Known'[m]]
BY DEF Stages, Known

LEMMA StagesAt == \A m \in Maps : \A i \in 1..Items[m] : Stages[m][i] = Stage(m, i)
BY DEF Stages

\* One item changes.
LEMMA OneStage ==
  ASSUME NEW m \in Maps, NEW i \in 1..Items[m],
         \A n \in Maps : \A j \in 1..Items[n] : n # m \/ j # i => Stage(n, j)' = Stage(n, j)
  PROVE  Stages' = [Stages EXCEPT ![m][i] = Stage(m, i)']
<1> DEFINE one == [Stages EXCEPT ![m][i] = Stage(m, i)']
<1>1. one = [n \in Maps |-> [j \in 1..Items[n] |->
               IF n = m /\ j = i THEN Stage(m, i)' ELSE Stage(n, j)]]
  BY StagesAre
<1>2. Stages' = [n \in Maps |-> [j \in 1..Items[n] |->
               IF n = m /\ j = i THEN Stage(m, i)' ELSE Stage(n, j)]]
  BY StagesAre
<1> QED
  BY <1>1, <1>2

\* Nothing changes in what is known of a map whose executors at work are the same.
LEMMA KnownKept ==
  ASSUME CInv, CInv', NEW n \in Maps,
         \A u \in Team(n) :
           /\ pc'[u] = "running" <=> pc[u] = "running"
           /\ pc[u] = "running" => item'[u] = item[u] /\ told'[u] = told[u]
  PROVE  Known'[n] = Known[n]
<1>1. \A j \in Known'[n] : j \in Known[n]
  BY KnownHeld, StagesNext
<1>2. \A j \in Known[n] : j \in Known'[n]
  BY KnownHeld, StagesNext
<1>3. Known'[n] \subseteq 1..Items[n] /\ Known[n] \subseteq 1..Items[n]
  BY KnownHeld, StagesNext
<1> QED
  BY <1>1, <1>2, <1>3

\* A quiet step changes the items of those workers only whose role it changes.
LEMMA QuietStages ==
  ASSUME CInv, CInv', Quiet, NEW w \in Workers, AtWork(w),
         \A u \in Workers : u # w /\ AtWork(u) =>
           Role(pc'[u], verdict'[u]) = Role(pc[u], verdict[u])
  PROVE  Stages' = [Stages EXCEPT ![w[1]][item[w]] = Role(pc'[w], verdict'[w])]
<1>1. w[1] \in Maps /\ item[w] \in 1..Items[w[1]] /\ item'[w] = item[w] /\ AtWork(w)'
  BY Teams DEF CInv, Hands, Unsettled, Quiet
<1>2. ASSUME NEW n \in Maps, NEW j \in 1..Items[n], n # w[1] \/ j # item[w]
      PROVE  Stage(n, j)' = Stage(n, j)
  <2>1. \A u \in Team(n) : item[u] = j => u # w /\ u \in Workers
    BY <1>2, Teams
  <2>2. \A u \in Team(n) :
          /\ AtWork(u)' /\ item'[u] = j <=> AtWork(u) /\ item[u] = j
          /\ AtWork(u) /\ item[u] = j => Role(pc'[u], verdict'[u]) = Role(pc[u], verdict[u])
    BY <2>1, Teams DEF Quiet
  <2>3. results'[n][j] = results[n][j]
    BY DEF Quiet
  <2> QED
    BY <2>2, <2>3, StageKept
<1>3. PICK i \in 1..Items[w[1]] : i = item[w]
  BY <1>1
<1>4. Stage(w[1], i)' = Role(pc'[w], verdict'[w])
  BY <1>1, <1>3, StageMade
<1>5. Stages' = [Stages EXCEPT ![w[1]][i] = Stage(w[1], i)']
  BY <1>1, <1>2, <1>3, OneStage
<1> QED
  BY <1>3, <1>4, <1>5

\* A worker with a slot calls its executor: its item is called.
LEMMA LaunchCalls ==
  ASSUME CInv, CInv', NEW w \in Workers, Launch(w)
  PROVE  Contract!Call(w[1], item[w])
<1>1. /\ w[1] \in Maps /\ w \in Team(w[1]) /\ AtWork(w) /\ pc[w] = "admitted"
      /\ pc'[w] = "running" /\ told'[w] = (cause[w[1]] # "none")
      /\ \A u \in Workers : u # w => pc'[u] = pc[u] /\ told'[u] = told[u]
      /\ UNCHANGED <<item, verdict, outcome, Unexplained>>
  BY Teams DEF Launch, CInv, Inv, Typed, AtWork, node, Unexplained
<1>2. Quiet
  BY QuietSteps DEF CInv
<1>3. PICK m \in Maps, i \in 1..Items[w[1]] : m = w[1] /\ i = item[w]
  BY <1>1 DEF CInv, Hands, Unsettled
<1>4. Stages[m][i] = "taken"
  <2>1. Stage(m, i) = "taken"
    BY <1>1, <1>3, StageHeld DEF Role
  <2> QED
    BY <1>3, <2>1, StagesAt
<1>5. Stages' = [Stages EXCEPT ![m][i] = "called"]
  BY <1>1, <1>2, <1>3, QuietStages DEF Role
<1>6. Known' = [Known EXCEPT ![m] = IF Contract!Failed(m) THEN @ \cup {i} ELSE @]
  <2>1. \A n \in Maps : n # m => Known'[n] = Known[n]
    BY <1>1, <1>3, KnownKept, Teams
  <2>2. i \notin Known[m] /\ (i \in Known'[m] <=> cause[m] # "none")
    <3>1. \A u \in Team(m) : item[u] = i /\ AtWork(u) => u = w
      BY <1>1, <1>3, Teams DEF CInv, Hands, Distinct
    <3>2. i \notin Known[m]
      BY <1>1, <3>1, KnownHeld DEF AtWork
    <3> QED
      BY <1>1, <1>3, <3>2, StagesNext
  <2>3. \A j : j # i => (j \in Known'[m] <=> j \in Known[m])
    <3>1. \A j \in Known'[m] : j # i => j \in Known[m]
      BY <1>1, <1>3, KnownHeld, StagesNext, Teams
    <3>2. \A j \in Known[m] : j # i => j \in Known'[m]
      BY <1>1, <1>3, KnownHeld, StagesNext, Teams
    <3> QED
      BY <3>1, <3>2
  <2>4. Known'[m] = IF cause[m] # "none" THEN Known[m] \cup {i} ELSE Known[m]
    BY <2>2, <2>3
  <2>5. Contract!Failed(m) <=> cause[m] # "none"
    BY FailedIs
  <2> QED
    BY <2>1, <2>4, <2>5, StagesAre
<1> QED
  BY <1>1, <1>3, <1>4, <1>5, <1>6 DEF Contract!Call

\* An execution that ends for the run: its item is back.
LEMMA EndsReturns ==
  ASSUME CInv, CInv', NEW w \in Workers, NEW v \in Verdicts, Ends(w, v)
  PROVE  Contract!Return(w[1], item[w])
<1>1. /\ UNCHANGED <<item, told, cursor, results, cause, outcome>>
      /\ w[1] \in Maps /\ w \in Team(w[1]) /\ AtWork(w)
      /\ pc[w] = "running" /\ pc'[w] = "released" /\ verdict'[w] = v
      /\ \A u \in Workers : u # w => /\ verdict'[u] = verdict[u]
                                     /\ \/ pc'[u] = pc[u]
                                        \/ pc[u] = "waiting" /\ pc'[u] = "woken"
  BY EndsQuietly, Teams DEF CInv, AtWork
<1>2. Quiet
  BY <1>1 DEF Quiet, AtWork
<1>3. PICK m \in Maps, i \in 1..Items[w[1]] : m = w[1] /\ i = item[w]
  BY <1>1 DEF CInv, Hands, Unsettled
<1>4. Stages[m][i] = "called"
  <2>1. Stage(m, i) = "called"
    BY <1>1, <1>3, StageHeld DEF Role
  <2> QED
    BY <1>3, <2>1, StagesAt
<1>5. Stages' = [Stages EXCEPT ![m][i] = IF v = "valid" THEN "good" ELSE "bad"]
  <2>1. \A u \in Workers : u # w => Role(pc'[u], verdict'[u]) = Role(pc[u], verdict[u])
    BY <1>1 DEF Role
  <2> QED
    BY <1>1, <1>2, <1>3, <2>1, QuietStages DEF Role
<1>6. Known' = [Known EXCEPT ![m] = @ \ {i}]
  <2>1. \A n \in Maps : n # m => Known'[n] = Known[n]
    BY <1>1, <1>3, KnownKept, Teams
  <2>2. \A u \in Team(m) : item[u] = i /\ AtWork(u) => u = w
    BY <1>1, <1>3, Teams DEF CInv, Hands, Distinct
  <2>3. i \notin Known'[m]
    BY <1>1, <2>2, StagesNext, Teams DEF AtWork
  <2>4. \A j \in Known'[m] : j \in Known[m]
    BY <1>1, <1>3, KnownHeld, StagesNext, Teams
  <2>5. \A j \in Known[m] : j # i => j \in Known'[m]
    BY <1>1, <1>3, KnownHeld, StagesNext, Teams
  <2>6. Known'[m] = Known[m] \ {i}
    BY <2>3, <2>4, <2>5
  <2> QED
    BY <2>1, <2>6, StagesAre
<1> QED
  BY <1>1, <1>3, <1>4, <1>5, <1>6 DEF Contract!Return, Unexplained

\* Two items of a map change.
LEMMA TwoStages ==
  ASSUME NEW m \in Maps, NEW i \in 1..Items[m], NEW k \in 1..Items[m], i # k,
         \A n \in Maps : \A j \in 1..Items[n] :
           n # m \/ (j # i /\ j # k) => Stage(n, j)' = Stage(n, j)
  PROVE  Stages' = [Stages EXCEPT ![m][i] = Stage(m, i)', ![m][k] = Stage(m, k)']
<1> DEFINE two == [Stages EXCEPT ![m][i] = Stage(m, i)', ![m][k] = Stage(m, k)']
<1>1. two = [n \in Maps |-> [j \in 1..Items[n] |->
               IF n = m /\ j = k THEN Stage(m, k)'
               ELSE IF n = m /\ j = i THEN Stage(m, i)' ELSE Stage(n, j)]]
  BY StagesAre
<1>2. Stages' = [n \in Maps |-> [j \in 1..Items[n] |->
               IF n = m /\ j = k THEN Stage(m, k)'
               ELSE IF n = m /\ j = i THEN Stage(m, i)' ELSE Stage(n, j)]]
  BY StagesAre
<1> QED
  BY <1>1, <1>2

\* The item after the last one taken is the next one, if there is one.
LEMMA FrontIs ==
  ASSUME CInv, NEW m \in Maps
  PROVE  /\ cursor[m] = Items[m] => Contract!Front(m) = {}
         /\ cursor[m] < Items[m] => cursor[m] + 1 \in Contract!Front(m)
<1>1. cursor[m] \in Nat /\ Items[m] \in Nat
  BY TeamSizes DEF CInv, Inv, Typed
<1>2. \A j \in 1..Items[m] : Stages[m][j] = "idle" <=> j > cursor[m]
  BY StagesAt, StageIdle
<1>3. cursor[m] = Items[m] => Contract!Front(m) = {}
  BY <1>1, <1>2 DEF Contract!Front, Contract!In
<1>4. ASSUME cursor[m] < Items[m] PROVE cursor[m] + 1 \in Contract!Front(m)
  <2>1. cursor[m] + 1 \in 1..Items[m] /\ Stages[m][cursor[m] + 1] = "idle"
    BY <1>1, <1>2, <1>4
  <2>2. \A j \in 1..(cursor[m] + 1) - 1 : Stages[m][j] # "idle"
    BY <1>1, <1>2, <1>4
  <2> QED
    BY <2>1, <2>2 DEF Contract!Front, Contract!In
<1> QED
  BY <1>3, <1>4

\* A worker settles its item, and the map fails or goes on.
LEMMA SettleSettles ==
  ASSUME CInv, CInv', NEW w \in Workers, Settle(w)
  PROVE  Contract!Settle(w[1], item[w])
<1>1. SettleEffect(w, w[1], item[w])
  BY SettleEffects
<1>2. PICK m \in Maps, i \in 1..Items[w[1]] : m = w[1] /\ i = item[w]
  BY <1>1 DEF SettleEffect
<1>3. SettleEffect(w, m, i) /\ i \in 1..Items[m]
  BY <1>1, <1>2
<1>4. Stages[m][i] = (IF verdict[w] = "valid" THEN "good" ELSE "bad")
  <2>1. Stage(m, i) = IF verdict[w] = "valid" THEN "good" ELSE "bad"
    BY <1>2, <1>3, StageHeld DEF SettleEffect, Role, AtWork
  <2> QED
    BY <1>3, <2>1, StagesAt
<1>5. Stage(m, i)' = Contract!Settled(Stages[m][i])
  <2>1. results'[m][i] = IF verdict[w] = "valid" THEN "fulfilled" ELSE "rejected"
    BY <1>3 DEF SettleEffect
  <2> QED
    BY <1>4, <2>1 DEF Stage, Contract!Settled
<1>6. ASSUME NEW n \in Maps, NEW j \in 1..Items[n],
             n # m \/ (j # i /\ ~ (cursor'[m] = cursor[m] + 1 /\ j = cursor[m] + 1))
      PROVE  Stage(n, j)' = Stage(n, j)
  <2>1. \A u \in Team(n) : u # w =>
          /\ AtWork(u)' /\ item'[u] = j <=> AtWork(u) /\ item[u] = j
          /\ AtWork(u) /\ item[u] = j => Role(pc'[u], verdict'[u]) = Role(pc[u], verdict[u])
    BY <1>3, Teams DEF SettleEffect, AtWork
  <2>2. w \in Team(n) => n = m /\ ~ (AtWork(w) /\ item[w] = j) /\ ~ (AtWork(w)' /\ item'[w] = j)
    BY <1>2, <1>3, <1>6, Teams DEF SettleEffect, AtWork
  <2>3. results'[n][j] = results[n][j]
    BY <1>2, <1>3, <1>6 DEF SettleEffect, Refuses
  <2> QED
    BY <2>1, <2>2, <2>3, StageKept
<1>7. Known' = [Known EXCEPT ![m] = IF Contract!Failed(m)' THEN Contract!Called(m) ELSE @]
  <2>1. \A u \in Workers : /\ pc'[u] = "running" <=> pc[u] = "running"
                           /\ pc[u] = "running" => item'[u] = item[u]
    BY <1>3 DEF SettleEffect
  <2>2. ASSUME NEW n \in Maps, n # m \/ cause'[m] = "none" PROVE Known'[n] = Known[n]
    <3>1. \A u \in Team(n) : told'[u] = told[u]
      BY <1>3, <2>2, Teams DEF SettleEffect
    <3> QED
      BY <2>1, <3>1, KnownKept, Teams
  <2>3. ASSUME cause'[m] # "none" PROVE Known'[m] = Contract!Called(m)
    <3>1. \A u \in Team(m) : pc[u] = "running" => told'[u]
      BY <2>3, Records, Teams DEF AllTold, CInv
    <3>2. Contract!Called(m) = {j \in 1..Items[m] : Stage(m, j) = "called"}
      BY StagesAt DEF Contract!Called, Contract!In
    <3>3. \A j \in 1..Items[m] : j \in Known'[m] <=>
            \E u \in Team(m) : pc[u] = "running" /\ item[u] = j
      BY <2>1, <3>1, StagesNext, Teams
    <3>4. Known'[m] \subseteq 1..Items[m]
      BY StagesNext
    <3> QED
      BY <3>2, <3>3, <3>4, CalledHeld
  <2>4. Contract!Failed(m)' <=> cause'[m] # "none"
    BY StagesNext
  <2> QED
    BY <2>2, <2>3, <2>4, StagesAre
<1>8. \/ Unexplained' = Unexplained
      \/ /\ Stages[m][i] = "bad" /\ ~ Contract!Failed(m)
         /\ Unexplained' = Unexplained \cup {m}
  <2>1. \A n \in Maps : n # m => cause'[n] = cause[n]
    BY <1>3 DEF SettleEffect
  <2>2. CASE cause'[m] = cause[m]
    BY <2>1, <2>2 DEF Unexplained
  <2>3. CASE cause[m] = "none" /\ (cause'[m] = "void" => verdict[w] # "valid")
    <3>1. CASE cause'[m] = "void"
      <4>1. Unexplained' = Unexplained \cup {m}
        BY <1>3, <2>1, <3>1 DEF Unexplained, SettleEffect
      <4> QED
        BY <1>3, <1>4, <2>3, <3>1, <4>1, FailedIs DEF SettleEffect
    <3>2. CASE cause'[m] # "void"
      BY <2>1, <2>3, <3>2 DEF Unexplained
    <3> QED
      BY <3>1, <3>2
  <2> QED
    BY <1>3, <2>2, <2>3 DEF SettleEffect
<1>9. CASE cursor'[m] = cursor[m]
  <2>1. Stages' = [Stages EXCEPT ![m][i] = Stage(m, i)']
    BY <1>3, <1>6, <1>9, OneStage DEF SettleEffect
  <2>2. Stages' = [Stages EXCEPT ![m][i] = Contract!Settled(@)]
    BY <1>3, <1>5, <2>1, StagesAre
  <2>3. Stages[m][i] = "bad" \/ Contract!Failed(m) \/ Contract!Front(m) = {}
    BY <1>3, <1>4, <1>9, FrontIs, FailedIs DEF SettleEffect
  <2> QED
    BY <1>3, <1>4, <1>7, <1>8, <2>2, <2>3, <1>2 DEF SettleEffect, Contract!Settle
<1>10. CASE cursor'[m] = cursor[m] + 1
  <2>1. PICK k \in 1..Items[m] : k = cursor[m] + 1 /\ k # i /\ k \in Contract!Front(m)
    BY <1>3, <1>10, FrontIs DEF SettleEffect
  <2>2. verdict[w] = "valid" /\ ~ Contract!Failed(m) /\ Stages[m][i] = "good"
    BY <1>3, <1>4, <1>10, FailedIs DEF SettleEffect
  <2>3. Stage(m, i)' = "fulfilled"
    BY <1>5, <2>2 DEF Contract!Settled
  <2>4. Stage(m, k)' \in {"taken", "rejected"}
    <3>1. CASE Refuses(w)
      <4>1. results'[m][k] = "rejected"
        BY <1>3, <2>1, <3>1 DEF SettleEffect
      <4> QED
        BY <4>1 DEF Stage
    <3>2. CASE ~ Refuses(w)
      <4>1. pc'[w] \in {"admitted", "waiting"} /\ item'[w] = k
        BY <1>2, <1>3, <1>10, <2>1, <3>2 DEF SettleEffect, Refuses
      <4>2. Stage(w[1], k)' = Role(pc'[w], verdict'[w])
        BY <4>1, StageMade DEF AtWork
      <4> QED
        BY <1>2, <4>1, <4>2 DEF Role
    <3> QED
      BY <3>1, <3>2
  <2>5. Stages' = [Stages EXCEPT ![m][i] = Stage(m, i)', ![m][k] = Stage(m, k)']
    BY <1>3, <1>6, <2>1, TwoStages
  <2>6. \E j \in Contract!Front(m), fate \in {"taken", "rejected"} :
          Stages' = [Stages EXCEPT ![m][i] = "fulfilled", ![m][j] = fate]
    BY <2>1, <2>3, <2>4, <2>5
  <2>7. outcome' = outcome
    BY <1>3 DEF SettleEffect
  <2>8. Contract!Settle(m, i)
    BY <1>7, <1>8, <2>2, <2>6, <2>7 DEF Contract!Settle
  <2> QED
    BY <1>2, <2>8
<1> QED
  BY <1>3, <1>9, <1>10 DEF SettleEffect

\* A map is started: its first items are taken.
LEMMA StartBegins ==
  ASSUME CInv, CInv', NEW m \in Maps, Start(m)
  PROVE  Contract!Begin(m)
<1>1. PICK k \in Nat, refused \in BOOLEAN : StartEffect(m, k, refused)
  BY StartEffects
<1>2. k \in 0..Items[m] /\ Items[m] \in Nat /\ outcome[m] = "none" /\ UNCHANGED outcome
  BY <1>1 DEF StartEffect
<1>3. Contract!In(m, {"idle"}) = 1..Items[m]
  <2>1. \A j \in 1..Items[m] : Stage(m, j) = "idle"
    BY <1>1, StageIdle DEF StartEffect
  <2> QED
    BY <2>1, StagesAt DEF Contract!In
<1>4. ASSUME NEW n \in Maps, n # m, NEW j \in 1..Items[n] PROVE Stage(n, j)' = Stage(n, j)
  <2>1. \A u \in Team(n) : pc'[u] = pc[u] /\ item'[u] = item[u] /\ verdict'[u] = verdict[u]
    BY <1>1, <1>4, Teams DEF StartEffect
  <2>2. results'[n][j] = results[n][j]
    BY <1>1, <1>4 DEF StartEffect
  <2> QED
    BY <2>1, <2>2, StageKept DEF AtWork
<1> DEFINE fate == IF refused THEN "rejected" ELSE "idle"
<1>5. ASSUME NEW j \in 1..Items[m]
      PROVE  Stage(m, j)' = IF j <= k THEN "taken" ELSE IF j = k + 1 THEN fate ELSE "idle"
  <2>1. CASE j <= k
    <3>1. j \in 1..TeamSize(m)
      BY <1>1, <2>1, TeamSizes DEF StartEffect
    <3>2. PICK u \in Team(m) : u[2] = j
      <4>1. <<m, j>> \in Team(m) /\ <<m, j>>[2] = j
        BY <3>1 DEF Team
      <4> QED
        BY <4>1
    <3>3. u \in Workers /\ u[1] = m /\ item'[u] = j /\ pc'[u] \in {"waiting", "admitted"}
      BY <1>1, <2>1, <3>2, Teams DEF StartEffect
    <3>4. Stage(u[1], j)' = Role(pc'[u], verdict'[u])
      BY <3>3, StageMade DEF AtWork
    <3> QED
      BY <2>1, <3>3, <3>4 DEF Role
  <2>2. CASE j > k
    <3>1. \A u \in Team(m) : AtWork(u)' => item'[u] # j
      BY <1>1, <2>2, Teams DEF StartEffect, AtWork
    <3>2. results'[m][j] = IF refused /\ j = k + 1 THEN "rejected" ELSE "none"
      BY <1>1 DEF StartEffect
    <3>3. IF results'[m][j] # "none" THEN Stage(m, j)' = results'[m][j]
          ELSE Stage(m, j)' = "idle"
      BY <3>1, StagesNext
    <3>4. ~ (j <= k)
      BY <2>2
    <3> QED
      BY <3>2, <3>3, <3>4
  <2> QED
    BY <2>1, <2>2
<1>6. Stages' = [Stages EXCEPT ![m] =
        [j \in 1..Items[m] |-> IF j <= k THEN "taken" ELSE IF j = k + 1 THEN fate ELSE "idle"]]
  <2> DEFINE G(j) == IF j <= k THEN "taken" ELSE IF j = k + 1 THEN fate ELSE "idle"
  <2>1. \A j \in 1..Items[m] : Stage(m, j)' = G(j)
    BY <1>5
  <2> HIDE DEF G, fate
  <2>2. Stages' = [Stages EXCEPT ![m] = [j \in 1..Items[m] |-> G(j)]]
    <3>1. [Stages EXCEPT ![m] = [j \in 1..Items[m] |-> G(j)]] =
            [n \in Maps |-> IF n = m THEN [j \in 1..Items[m] |-> G(j)]
                            ELSE [j \in 1..Items[n] |-> Stage(n, j)]]
      BY StagesAre
    <3>2. Stages' = [n \in Maps |-> IF n = m THEN [j \in 1..Items[m] |-> G(j)]
                                    ELSE [j \in 1..Items[n] |-> Stage(n, j)]]
      BY <1>4, <2>1, StagesAre
    <3> QED
      BY <3>1, <3>2
  <2> QED
    BY <2>2 DEF G
<1>7. Known' = Known
  <2>1. ASSUME NEW n \in Maps, NEW u \in Team(n)
        PROVE  /\ pc'[u] = "running" <=> pc[u] = "running"
               /\ pc[u] = "running" => item'[u] = item[u] /\ told'[u] = told[u]
    BY <1>1, Teams DEF StartEffect
  <2>2. \A n \in Maps : Known'[n] = Known[n]
    BY <2>1, KnownKept
  <2> QED
    BY <2>2, StagesAre
<1> QED
  BY <1>1, <1>2, <1>3, <1>6, <1>7 DEF Contract!Begin, StartEffect

\* A map is collected: it is complete, or it has failed with nothing in hand.
LEMMA CollectCloses ==
  ASSUME CInv, CInv', NEW m \in Maps, Collect(m)
  PROVE  Contract!Complete(m) \/ Contract!Fail(m)
<1>1. /\ outcome[m] = "none" /\ \A w \in Team(m) : pc[w] = "done"
      /\ outcome' = [outcome EXCEPT ![m] = IF NoFailure(m) THEN "completed" ELSE "failed"]
      /\ UNCHANGED <<pc, item, verdict, told, cursor, results, cause>>
  BY DEF Collect, worker
<1>2. Stages' = Stages /\ Known' = Known /\ Unexplained' = Unexplained
  BY <1>1 DEF Stages, Stage, Known, Aborted, With, Unexplained
<1>3. CASE cause[m] = "none"
  <2>1. outcome'[m] = "completed" /\ outcome' = [outcome EXCEPT ![m] = "completed"]
    BY <1>1, <1>3 DEF CInv, Inv, Typed, NoFailure
  <2>2. Fulfilled(m)' = 1..Items[m]
    BY <1>1, <1>3, <2>1 DEF CInv, Inv, WholeOrFailed
  <2>3. \A i \in 1..Items[m] : results[m][i] = "fulfilled"
    BY <1>1, <2>2 DEF Fulfilled
  <2>4. Contract!In(m, {"fulfilled"}) = 1..Items[m]
    BY <2>3, StagesAt DEF Contract!In, Stage
  <2> QED
    BY <1>1, <1>2, <2>1, <2>4 DEF Contract!Complete
<1>4. CASE cause[m] # "none"
  <2>1. ASSUME NEW i \in 1..Items[m]
        PROVE  Stages[m][i] \in {"idle", "fulfilled", "rejected"}
    <3>1. \A w \in Team(m) : ~ AtWork(w)
      BY <1>1 DEF AtWork
    <3>2. results[m][i] \in {"none", "fulfilled", "rejected"}
      BY DEF CInv, Inv, Typed
    <3> QED
      BY <3>1, <3>2, StageFree, StagesAt
  <2>2. Contract!InHand(m) = {}
    BY <2>1 DEF Contract!InHand, Contract!In
  <2>3. Contract!Over(m)
    BY <1>4, <2>2, FailedIs DEF Contract!Over
  <2>4. CASE cause[m] = "void"
    <3>1. outcome' = [outcome EXCEPT ![m] = "completed"] /\ m \in Unexplained
      BY <1>1, <2>4 DEF NoFailure, Unexplained
    <3> QED
      BY <1>1, <1>2, <2>3, <3>1 DEF Contract!Complete
  <2>5. CASE cause[m] # "void"
    <3>1. outcome' = [outcome EXCEPT ![m] = "failed"] /\ m \notin Unexplained
      BY <1>1, <1>4, <2>5 DEF NoFailure, Unexplained
    <3> QED
      BY <1>1, <1>2, <2>3, <3>1 DEF Contract!Fail
  <2> QED
    BY <2>4, <2>5
<1> QED
  BY <1>3, <1>4

\* The other steps are not seen by the contract.
LEMMA SilentSteps ==
  ASSUME CInv, CInv',
         UNCHANGED vars \/ TimePasses \/ \E w \in Workers : LostEnds(w) \/ Wake(w)
  PROVE  UNCHANGED <<Stages, Known, Unexplained, outcome>>
<1>1. CASE UNCHANGED vars \/ TimePasses \/ \E w \in Workers : LostEnds(w)
  <2>1. UNCHANGED <<pc, item, verdict, told, cursor, results, cause, outcome>>
    BY <1>1 DEF vars, worker, node, TimePasses, LostEnds
  <2> QED
    BY <2>1 DEF Stages, Stage, Known, Aborted, With, Unexplained
<1>2. ASSUME NEW w \in Workers, Wake(w) PROVE UNCHANGED <<Stages, Known, Unexplained, outcome>>
  <2>1. /\ pc[w] = "woken" /\ pc'[w] = "admitted"
        /\ \A u \in Workers : u # w => pc'[u] = pc[u]
        /\ UNCHANGED <<item, verdict, told, results, outcome, Unexplained>>
    BY <1>2 DEF Wake, node, CInv, Inv, Typed, Unexplained
  <2>2. \A u \in Workers : /\ AtWork(u)' <=> AtWork(u)
                           /\ Role(pc'[u], verdict'[u]) = Role(pc[u], verdict[u])
                           /\ pc'[u] = "running" <=> pc[u] = "running"
    BY <2>1 DEF AtWork, Role
  <2>3. \A n \in Maps : \A j \in 1..Items[n] : Stage(n, j)' = Stage(n, j)
    BY <2>1, <2>2, StageKept, Teams
  <2>4. \A n \in Maps : Known'[n] = Known[n]
    BY <2>1, <2>2, KnownKept, Teams
  <2> QED
    BY <2>1, <2>3, <2>4, StagesAre
<1> QED
  BY <1>1, <1>2

LEMMA StepKeepsContract ==
  ASSUME CInv, CInv', [Next]_vars
  PROVE  [Contract!Next]_<<Stages, Known, Unexplained, outcome>>
<1>1. ASSUME NEW m \in Maps, Start(m) \/ Collect(m) PROVE Contract!Next
  BY <1>1, StartBegins, CollectCloses DEF Contract!Next
<1>2. ASSUME NEW w \in Workers, Launch(w) \/ Settle(w) \/ \E v \in Verdicts : Ends(w, v)
      PROVE  Contract!Next
  <2>1. PICK m \in Maps, i \in 1..Items[w[1]] : m = w[1] /\ i = item[w]
    BY <1>2, Teams DEF CInv, Hands, Unsettled, AtWork, Launch, Settle, Ends
  <2>2. Contract!Call(m, i) \/ Contract!Settle(m, i) \/ Contract!Return(m, i)
    BY <1>2, <2>1, LaunchCalls, SettleSettles, EndsReturns
  <2> QED
    BY <2>1, <2>2 DEF Contract!Next
<1>3. \A w \in Workers : \A v \in {"valid", "invalid", "thrown", "void"} :
        v \in Verdicts /\ (Answer(w, v) => Ends(w, v))
  BY DEF Answer, Verdicts
<1>4. \A w \in Workers : "timeout" \in Verdicts /\ (Watchdog(w) => Ends(w, "timeout"))
  BY DEF Watchdog, Verdicts
<1> QED
  BY <1>1, <1>2, <1>3, <1>4, SilentSteps DEF Next, Goes, Executor

LEMMA InitContract == Init => Contract!Init
<1> SUFFICES ASSUME Init PROVE Contract!Init
  OBVIOUS
<1>1. \A m \in Maps : \A i \in 1..Items[m] : Stage(m, i) = "idle"
  BY TeamSizes DEF Init, Stage
<1>2. \A m \in Maps : Known[m] = {}
  BY DEF Init, Known, Aborted, With
<1>3. Unexplained = {}
  BY DEF Init, Unexplained
<1> QED
  BY <1>1, <1>2, <1>3, StagesAre DEF Init, Contract!Init

\* A fan-out keeps the contract of its maps, for any maps, items, undefined items,
\* teams and limit, in every order of its workers' continuations: items are taken in
\* order, called at most once and never taken after a failure, which every call at
\* work knows of; and a map is over only when nothing of it is in hand.
THEOREM FanOutKeepsTheContract == Spec => KeepsTheContract
<1>1. Init => CInv /\ Contract!Init
  BY InitInv, InitHands, InitContract DEF CInv
<1>2. CInv /\ [Next]_vars => CInv'
  BY CInvStep
<1>3. CInv /\ CInv' /\ [Next]_vars => [Contract!Next]_<<Stages, Known, Unexplained, outcome>>
  BY StepKeepsContract
<1> QED
  BY <1>1, <1>2, <1>3, PTL DEF Spec, KeepsTheContract, Contract!Spec
=============================================================================
