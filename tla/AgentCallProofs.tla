--------------------------- MODULE AgentCallProofs ---------------------------
(***************************************************************************)
(* Why no process is started without an authorization or after its call is  *)
(* over, why a call that is reported as stopped is dead, and why AgentCall   *)
(* implements GuardedCall: for any number of calls that share a provider.    *)
(***************************************************************************)
EXTENDS AgentCall, TLAPS

\* What holds of each call by itself.
Orderly(c) ==
  /\ outcome[c] = "idle" => gate[c] = "unasked" /\ child[c] = "none" /\ ~expired[c]
  /\ gate[c] \in {"asked", "answered"} => child[c] = "none"
  /\ gate[c] = "asked" => outcome[c] = "waiting"
  /\ gate[c] = "answered" /\ answer[c] = "allow" => outcome[c] = "waiting"
  /\ child[c] = "none" => cleanup[c] = "no" /\ ~helpers[c] /\ ~strays[c]
  /\ cleanup[c] = "done" => Swept(c)
  /\ strays[c] => platform = "win32"
  /\ outcome[c] = "stopped" => cleanup[c] \in {"done", "givenUp"}
  /\ gate[c] = "unasked" => outcome[c] = "idle" \/ source = "none"
  /\ aborted[c] /\ child[c] \in {"running", "exited"} => cleanup[c] # "no"

AllOrderly == \A c \in Calls : Orderly(c)

Inv == TypeOK /\ AllOrderly

\* The call that acts keeps the invariant, and the others are left alone.
Alone(c) ==
  /\ source' = source /\ platform' = platform
  /\ \A d \in Calls : d # c =>
       /\ expired'[d] = expired[d] /\ aborted'[d] = aborted[d] /\ gate'[d] = gate[d]
       /\ answer'[d] = answer[d] /\ outcome'[d] = outcome[d] /\ child'[d] = child[d]
       /\ helpers'[d] = helpers[d] /\ strays'[d] = strays[d] /\ cleanup'[d] = cleanup[d]

\* A process is started only as StartsAuthorized has it.
Authorized(c) == child[c] = "none" /\ child'[c] # "none" =>
  /\ source = "none" \/ (gate[c] = "answered" /\ answer[c] = "allow")
  /\ outcome[c] \in {"idle", "waiting"} /\ ~expired[c]

Good(c) == TypeOK' /\ Orderly(c)' /\ Alone(c) /\ Authorized(c)

LEMMA Starts == StartCleanup \in {"grace", "taskkill"}
BY DEF StartCleanup

LEMMA SpawnStep ==
  ASSUME Inv, NEW c \in Calls, Spawn(c), child[c] = "none", outcome[c] \in {"idle", "waiting"}
  PROVE  /\ child' \in [Calls -> {"none", "running", "exited", "gone"}]
         /\ helpers' = helpers /\ strays' = strays
         /\ cleanup' \in [Calls -> {"no", "grace", "taskkill", "powershell", "done", "givenUp"}]
         /\ outcome' \in [Calls -> Outcomes]
         /\ \A d \in Calls : d # c => child'[d] = child[d] /\ cleanup'[d] = cleanup[d]
                                      /\ outcome'[d] = outcome[d]
         /\ cleanup'[c] \in {"no", "grace", "taskkill"}
         /\ IF child'[c] = "none" THEN cleanup'[c] = "no" ELSE aborted[c] => cleanup'[c] # "no"
         /\ outcome'[c] \in {"waiting", "failed"}
<1>1. cleanup[c] = "no"
  BY DEF Inv, AllOrderly, Orderly
<1> QED
  BY <1>1, Starts DEF Spawn, Told, tree, Inv, TypeOK, Outcomes

LEMMA BeginStep == ASSUME Inv, NEW c \in Calls, Begin(c) PROVE Good(c)
<1> USE DEF gateVars, tree
<1>1. Orderly(c) /\ outcome[c] = "idle" /\ child[c] = "none" /\ gate[c] = "unasked"
      /\ cleanup[c] = "no" /\ ~helpers[c] /\ ~strays[c] /\ ~expired[c]
  BY DEF Inv, AllOrderly, Orderly, Begin
<1>2. CASE source = "none"
  <2>1. Spawn(c) /\ UNCHANGED <<platform, source, module, expired, aborted, gate, answer>>
    BY <1>2 DEF Begin
  <2>2. TypeOK' /\ Alone(c)
    BY <1>1, <2>1, SpawnStep DEF Inv, TypeOK, Alone
  <2>3. Orderly(c)'
    BY <1>1, <1>2, <2>1, SpawnStep DEF Orderly, Swept
  <2> QED
    BY <1>1, <1>2, <2>2, <2>3 DEF Good, Authorized
<1>3. CASE source # "none"
  <2>1. UNCHANGED <<platform, source, expired, aborted, child, helpers, strays, cleanup>>
    BY <1>3 DEF Begin
  <2>2. TypeOK' /\ Alone(c)
    BY <1>3, <2>1 DEF Begin, Inv, TypeOK, Alone, Outcomes, Answers
  <2>3. outcome'[c] = "waiting" /\ gate'[c] \in {"asked", "answered"}
        /\ (gate'[c] = "answered" => answer'[c] = "throws")
    BY <1>3 DEF Begin, Inv, TypeOK
  <2>4. Orderly(c)'
    BY <1>1, <2>1, <2>3 DEF Orderly, Swept
  <2> QED
    BY <2>1, <2>2, <2>4 DEF Good, Authorized
<1> QED
  BY <1>2, <1>3

\* An answer reaches a call that still waits for it.
LEMMA AnswerStep ==
  ASSUME Inv, NEW c \in Calls, NEW a \in Answers, Answer(c, a),
         UNCHANGED <<platform, source, module, expired, aborted, outcome, tree>>
  PROVE  Good(c)
<1> USE DEF tree
<1>1. Orderly(c) /\ child[c] = "none" /\ gate[c] = "asked"
  BY DEF Inv, AllOrderly, Orderly, Answer
<1>2. gate'[c] = "answered" /\ answer'[c] = a
  BY DEF Inv, TypeOK, Answer
<1>3. TypeOK' /\ Alone(c)
  BY DEF Inv, TypeOK, Alone, Answer
<1> QED
  BY <1>1, <1>2, <1>3 DEF Good, Authorized, Orderly, Swept

LEMMA ContinueStep == ASSUME Inv, NEW c \in Calls, Continue(c) PROVE Good(c)
<1> USE DEF tree
<1>1. Orderly(c) /\ child[c] = "none" /\ gate[c] = "answered" /\ cleanup[c] = "no" /\ ~helpers[c] /\ ~strays[c]
      /\ outcome[c] # "idle"
  BY DEF Inv, AllOrderly, Orderly, Continue
<1>2. UNCHANGED <<platform, source, module, expired, aborted, answer>>
  BY DEF Continue
<1>3. gate' = [gate EXCEPT ![c] = IF Permits(c) THEN "passed" ELSE "closed"]
  BY DEF Continue
<1>4. /\ gate' \in [Calls -> {"unasked", "asked", "answered", "passed", "closed"}]
      /\ gate'[c] \in {"passed", "closed"} /\ \A d \in Calls : d # c => gate'[d] = gate[d]
  BY <1>3 DEF Inv, TypeOK
<1>5. CASE Permits(c)
  <2>1. Spawn(c) /\ outcome[c] = "waiting" /\ answer[c] = "allow" /\ ~expired[c]
    BY <1>1, <1>5 DEF Continue, Permits, Orderly
  <2>2. TypeOK' /\ Alone(c)
    BY <1>1, <1>2, <1>4, <2>1, SpawnStep DEF Inv, TypeOK, Alone
  <2>3. Orderly(c)'
    BY <1>1, <1>2, <1>4, <2>1, SpawnStep DEF Orderly, Swept
  <2> QED
    BY <1>1, <2>1, <2>2, <2>3 DEF Good, Authorized
<1>6. CASE ~Permits(c)
  <2>1. Told(c, "failed") /\ UNCHANGED tree
    BY <1>6 DEF Continue
  <2>2. /\ outcome' \in [Calls -> Outcomes] /\ outcome'[c] \in {"failed", outcome[c]}
        /\ outcome'[c] # "idle" /\ \A d \in Calls : d # c => outcome'[d] = outcome[d]
    BY <1>1, <2>1 DEF Told, Inv, TypeOK, Outcomes
  <2>3. TypeOK' /\ Alone(c)
    BY <1>2, <1>4, <2>1, <2>2 DEF Inv, TypeOK, Alone
  <2>4. Orderly(c)'
    BY <1>1, <1>2, <1>4, <2>1, <2>2 DEF Orderly, Swept
  <2> QED
    BY <1>1, <2>1, <2>3, <2>4 DEF Good, Authorized
<1> QED
  BY <1>5, <1>6

LEMMA AbortStep ==
  ASSUME Inv, NEW c \in Calls, Abort(c),
         UNCHANGED <<platform, source, module, expired, child, helpers, strays>>,
         outcome' = outcome \/ (outcome' = [outcome EXCEPT ![c] = "timedOut"]
                                /\ outcome[c] = "waiting" /\ gate[c] # "answered")
  PROVE  Good(c)
<1> USE DEF gateVars
<1>1. Orderly(c)
  BY DEF Inv, AllOrderly
<1>2. /\ gate' \in [Calls -> {"unasked", "asked", "answered", "passed", "closed"}]
      /\ answer' \in [Calls -> Answers \cup {"none"}] /\ aborted' \in [Calls -> BOOLEAN]
      /\ \A d \in Calls : d # c => /\ gate'[d] = gate[d] /\ answer'[d] = answer[d]
                                   /\ aborted'[d] = aborted[d]
      /\ IF gate[c] = "asked" THEN gate'[c] = "answered" /\ answer'[c] = "throws"
         ELSE gate'[c] = gate[c] /\ answer'[c] = answer[c]
  BY DEF Abort, Answer, Inv, TypeOK, Answers
<1>3. /\ cleanup' \in [Calls -> {"no", "grace", "taskkill", "powershell", "done", "givenUp"}]
      /\ \A d \in Calls : d # c => cleanup'[d] = cleanup[d]
      /\ IF Listening(c) THEN cleanup'[c] \in {"grace", "taskkill"}
         ELSE cleanup'[c] = cleanup[c]
  BY Starts DEF Abort, Inv, TypeOK
<1>4. /\ outcome' \in [Calls -> Outcomes] /\ \A d \in Calls : d # c => outcome'[d] = outcome[d]
      /\ \/ outcome'[c] = outcome[c]
         \/ outcome'[c] = "timedOut" /\ outcome[c] = "waiting" /\ gate[c] # "answered"
  BY DEF Inv, TypeOK, Outcomes
<1>5. TypeOK' /\ Alone(c)
  BY <1>2, <1>3, <1>4 DEF Inv, TypeOK, Alone
<1>6. Orderly(c)'
  BY <1>1, <1>2, <1>3, <1>4 DEF Orderly, Swept, Listening
<1> QED
  BY <1>5, <1>6 DEF Good, Authorized

\* The steps of a process that has been started: nothing is started anew.
LEMMA TreeStep ==
  ASSUME Inv, NEW c \in Calls,
         ProcessLives(c) \/ ExitEvent(c) \/ SpawnTimer(c) \/ OutputLimit(c) \/ Cleaning(c)
  PROVE  Good(c)
<1> USE DEF elsewhere, gateVars
<1>1. Orderly(c) /\ UNCHANGED <<platform, source, module, expired, aborted, gate, answer>>
  BY DEF Inv, AllOrderly, ProcessLives, ExitEvent, SpawnTimer, OutputLimit, Cleaning,
         GraceEnds, CleanupSucceeds, TaskkillFails, FallbackFails
<1>2. child[c] # "none"
  BY <1>1 DEF Orderly, ProcessLives, ExitEvent, SpawnTimer, OutputLimit, Cleaning, Listening,
         GraceEnds, CleanupSucceeds, TaskkillFails, FallbackFails
<1>3. /\ outcome' \in [Calls -> Outcomes] /\ \A d \in Calls : d # c => outcome'[d] = outcome[d]
      /\ outcome'[c] = "idle" => outcome[c] = "idle"
  BY <1>1, <1>2 DEF Inv, TypeOK, Outcomes, Told, ProcessLives, ExitEvent, SpawnTimer,
         OutputLimit, Cleaning, GraceEnds, CleanupSucceeds, TaskkillFails, FallbackFails
<1>4. gate[c] \notin {"asked", "answered"} /\ outcome[c] # "idle"
  BY <1>1, <1>2 DEF Orderly
<1>5. /\ child' \in [Calls -> {"none", "running", "exited", "gone"}]
      /\ child'[c] # "none" /\ \A d \in Calls : d # c => child'[d] = child[d]
      /\ helpers' \in [Calls -> BOOLEAN] /\ \A d \in Calls : d # c => helpers'[d] = helpers[d]
      /\ strays' \in [Calls -> BOOLEAN] /\ \A d \in Calls : d # c => strays'[d] = strays[d]
      /\ strays'[c] => strays[c] \/ platform = "win32"
  <2>1. /\ child \in [Calls -> {"none", "running", "exited", "gone"}]
        /\ helpers \in [Calls -> BOOLEAN] /\ strays \in [Calls -> BOOLEAN]
    BY DEF Inv, TypeOK
  <2>2. \/ child' = child \/ child' = [child EXCEPT ![c] = "exited"]
        \/ child' = [child EXCEPT ![c] = "gone"]
    BY DEF ProcessLives, ExitEvent, SpawnTimer, OutputLimit, Cleaning,
           KillTree, GraceEnds, CleanupSucceeds, TaskkillFails, FallbackFails
  <2>3. helpers' = helpers \/ \E b \in BOOLEAN : helpers' = [helpers EXCEPT ![c] = b]
    BY DEF ProcessLives, ExitEvent, SpawnTimer, OutputLimit, Cleaning,
           KillTree, GraceEnds, CleanupSucceeds, TaskkillFails, FallbackFails
  <2>4. \/ strays' = strays \/ strays' = [strays EXCEPT ![c] = FALSE]
        \/ platform = "win32" /\ strays' = [strays EXCEPT ![c] = TRUE]
    BY DEF ProcessLives, ExitEvent, SpawnTimer, OutputLimit, Cleaning,
           KillTree, GraceEnds, CleanupSucceeds, TaskkillFails, FallbackFails
  <2>5. /\ child' \in [Calls -> {"none", "running", "exited", "gone"}]
        /\ child'[c] # "none" /\ \A d \in Calls : d # c => child'[d] = child[d]
    BY <1>2, <2>1, <2>2
  <2>6. helpers' \in [Calls -> BOOLEAN] /\ \A d \in Calls : d # c => helpers'[d] = helpers[d]
    BY <2>1, <2>3
  <2>7. /\ strays' \in [Calls -> BOOLEAN] /\ \A d \in Calls : d # c => strays'[d] = strays[d]
        /\ strays'[c] => strays[c] \/ platform = "win32"
    BY <2>1, <2>4
  <2> QED
    BY <2>5, <2>6, <2>7
<1>6. /\ cleanup' \in [Calls -> {"no", "grace", "taskkill", "powershell", "done", "givenUp"}]
      /\ \A d \in Calls : d # c => cleanup'[d] = cleanup[d]
  BY Starts DEF Inv, TypeOK, ProcessLives, ExitEvent, SpawnTimer, OutputLimit, Cleaning,
         GraceEnds, CleanupSucceeds, TaskkillFails, FallbackFails
<1>7. TypeOK' /\ Alone(c)
  BY <1>1, <1>3, <1>5, <1>6 DEF Inv, TypeOK, Alone
<1>8. cleanup'[c] = "done" => Swept(c)'
  <2>1. CASE ProcessLives(c) \/ ExitEvent(c)
    BY <1>1, <2>1 DEF ProcessLives, ExitEvent, Orderly, Swept, Inv, TypeOK
  <2>2. CASE SpawnTimer(c) \/ OutputLimit(c)
    BY <2>2, Starts DEF SpawnTimer, OutputLimit, Inv, TypeOK
  <2>3. CASE GraceEnds(c) \/ CleanupSucceeds(c)
    BY <2>3 DEF GraceEnds, CleanupSucceeds, KillTree, Swept, Inv, TypeOK
  <2>4. CASE TaskkillFails(c) \/ FallbackFails(c)
    BY <2>4 DEF TaskkillFails, FallbackFails, Inv, TypeOK
  <2> QED
    BY <2>1, <2>2, <2>3, <2>4 DEF Cleaning
<1>9. outcome'[c] = "stopped" => cleanup'[c] \in {"done", "givenUp"}
  <2>1. CASE ProcessLives(c)
    BY <1>1, <2>1 DEF ProcessLives, Orderly
  <2>2. CASE ExitEvent(c)
    BY <1>1, <2>2 DEF ExitEvent, Orderly, Told, Inv, TypeOK
  <2>3. CASE SpawnTimer(c) \/ OutputLimit(c)
    <3>1. cleanup[c] = "no" /\ outcome' = outcome
      BY <2>3 DEF SpawnTimer, OutputLimit, Listening
    <3> QED
      BY <1>1, <3>1 DEF Orderly
  <2>4. CASE GraceEnds(c) \/ CleanupSucceeds(c) \/ FallbackFails(c)
    BY <2>4 DEF GraceEnds, CleanupSucceeds, FallbackFails, Inv, TypeOK
  <2>5. CASE TaskkillFails(c)
    BY <1>1, <2>5 DEF TaskkillFails, Orderly
  <2> QED
    BY <2>1, <2>2, <2>3, <2>4, <2>5 DEF Cleaning
<1>10. aborted[c] /\ child'[c] \in {"running", "exited"} => cleanup'[c] # "no"
  <2>1. cleanup'[c] = cleanup[c] \/ cleanup'[c] # "no"
    BY Starts DEF Inv, TypeOK, ProcessLives, ExitEvent, SpawnTimer, OutputLimit, Cleaning,
           GraceEnds, CleanupSucceeds, TaskkillFails, FallbackFails
  <2>2. child'[c] \in {"running", "exited"} /\ cleanup'[c] = "no" =>
          child[c] \in {"running", "exited"}
    BY DEF Inv, TypeOK, ProcessLives, ExitEvent, SpawnTimer, OutputLimit, Cleaning,
           KillTree, GraceEnds, CleanupSucceeds, TaskkillFails, FallbackFails
  <2> QED
    BY <1>1, <2>1, <2>2 DEF Orderly
<1>11. Orderly(c)'
  BY <1>1, <1>3, <1>4, <1>5, <1>8, <1>9, <1>10 DEF Orderly
<1> QED
  BY <1>2, <1>7, <1>11 DEF Good, Authorized

LEMMA OneCallSteps ==
  ASSUME Inv, NEW c \in Calls,
         \/ Begin(c) \/ ProviderAnswers(c) \/ ProviderUnavailable(c) \/ Continue(c)
         \/ ExternalAbort(c) \/ TimePasses(c) \/ Timers(c) \/ ProcessLives(c)
         \/ ExitEvent(c) \/ OutputLimit(c) \/ Cleaning(c)
  PROVE  Good(c)
<1>1. CASE ProviderAnswers(c)
  <2>1. PossibleAnswers \subseteq Answers
    BY DEF PossibleAnswers, Answers, Decisions, AtbashDecision
  <2> QED
    BY <1>1, <2>1, AnswerStep DEF ProviderAnswers
<1>2. CASE ProviderUnavailable(c) \/ GateTimer(c)
  <2>1. "throws" \in Answers
    BY DEF Answers
  <2> QED
    BY <1>2, <2>1, AnswerStep DEF ProviderUnavailable, GateTimer
<1>3. CASE ExternalAbort(c) \/ Watchdog(c)
  BY <1>3, AbortStep DEF ExternalAbort, Watchdog
<1>4. CASE TimePasses(c)
  <2>1. Orderly(c) /\ outcome[c] # "idle" /\ expired' = [expired EXCEPT ![c] = TRUE]
    BY <1>4 DEF Inv, AllOrderly, TimePasses
  <2>2. UNCHANGED <<platform, source, module, aborted, gate, answer, outcome, child,
                    helpers, strays, cleanup>>
    BY <1>4 DEF TimePasses, gateVars, tree
  <2>3. TypeOK' /\ Alone(c)
    BY <2>1, <2>2 DEF Inv, TypeOK, Alone
  <2> QED
    BY <2>1, <2>2, <2>3 DEF Good, Authorized, Orderly, Swept
<1> QED
  BY <1>1, <1>2, <1>3, <1>4, BeginStep, ContinueStep, TreeStep DEF Timers

LEMMA InvStep == Inv /\ [Next]_vars => Inv' /\ \A c \in Calls : Authorized(c)
<1> SUFFICES ASSUME Inv, [Next]_vars PROVE Inv' /\ \A c \in Calls : Authorized(c)
  OBVIOUS
<1>1. ASSUME NEW c \in Calls, Good(c) PROVE Inv' /\ \A d \in Calls : Authorized(d)
  <2>1. ASSUME NEW d \in Calls, d # c PROVE Orderly(d)' /\ Authorized(d)
    BY <1>1, <2>1 DEF Good, Alone, Inv, AllOrderly, Orderly, Swept, Authorized
  <2> QED
    BY <1>1, <2>1 DEF Good, Inv, AllOrderly
<1>2. CASE ModuleLoads
  BY <1>2 DEF ModuleLoads, Inv, TypeOK, AllOrderly, Orderly, Swept, Authorized, gateVars, tree
<1>3. CASE UNCHANGED vars
  BY <1>3 DEF vars, Inv, TypeOK, AllOrderly, Orderly, Swept, Authorized, gateVars, tree
<1> QED
  BY <1>1, <1>2, <1>3, OneCallSteps DEF Next

LEMMA InitInv == Init => Inv
<1> SUFFICES ASSUME Init PROVE Inv
  OBVIOUS
<1>1. source \in {"none", "refusing", "atbash", "module"}
  BY DEF Init, ProviderFor
<1>2. TypeOK
  BY <1>1, PlatformAssumption DEF Init, TypeOK, Outcomes
<1> QED
  BY <1>2 DEF Init, Inv, AllOrderly, Orderly

LEMMA Inductive == Spec => []Inv
<1>1. Inv /\ [Next]_vars => Inv'
  BY InvStep
<1> QED
  BY InitInv, <1>1, PTL DEF Spec

-----------------------------------------------------------------------------

\* Every variable keeps its type, in every environment and for any number of calls:
\* whatever the environment says, it comes to one of the four kinds of provider.
THEOREM TypeCorrect == Spec => []TypeOK
<1>1. Inv => TypeOK
  BY DEF Inv
<1> QED
  BY <1>1, Inductive, PTL

\* A process is started only by a call whose own authorization was allowed in time
\* and whose caller still waits: late, lost and malformed answers of the provider
\* start nothing.
THEOREM NothingStartsUnauthorized == Spec => StartsAuthorized
<1>1. Inv /\ [Next]_vars =>
        [\A c \in Calls : child[c] = "none" /\ child'[c] # "none" =>
           /\ source = "none" \/ (gate[c] = "answered" /\ answer[c] = "allow")
           /\ outcome[c] \in {"idle", "waiting"} /\ ~expired[c]]_vars
  BY InvStep DEF Authorized
<1> QED
  BY <1>1, Inductive, PTL DEF Spec, StartsAuthorized

\* A call reported as stopped has no process left that a cleanup could find from its
\* root, and on POSIX none at all, unless the cleanup gave up and the report says so.
THEOREM StoppedLeavesNothing == Spec => []StoppedIsDead
<1>1. Inv => StoppedIsDead
  BY DEF Inv, AllOrderly, Orderly, StoppedIsDead, Dead
<1> QED
  BY <1>1, Inductive, PTL

-----------------------------------------------------------------------------
(* What a guarded call promises (GuardedCall).  A step changes what is seen of  *)
(* one call only, so that each kind of step is one of the contract's for it.   *)

LEMMA OneChanged ==
  ASSUME NEW D, NEW c \in D, NEW f, NEW g,
         f = [d \in D |-> f[d]], g = [d \in D |-> g[d]], \A d \in D : d # c => g[d] = f[d]
  PROVE  /\ g = [f EXCEPT ![c] = g[c]]
         /\ g[c] = f[c] => g = f
OBVIOUS

\* A step of one call changes what is seen of that call only.
SeenOf(c, f, g) ==
  /\ g = [f EXCEPT ![c] = g[c]]
  /\ g[c] = f[c] => g = f

LEMMA SeenAlone ==
  ASSUME Inv, NEW c \in Calls, Good(c)
  PROVE  /\ SeenOf(c, Leaves, Leaves') /\ SeenOf(c, Processes, Processes')
         /\ SeenOf(c, Verdicts, Verdicts') /\ SeenOf(c, expired, expired')
         /\ SeenOf(c, aborted, aborted')
<1>1. /\ Leaves = [d \in Calls |-> Leaves[d]] /\ Leaves' = [d \in Calls |-> Leaves'[d]]
      /\ \A d \in Calls : d # c => Leaves'[d] = Leaves[d]
  BY DEF Leaves, Good, Alone
<1>2. /\ Processes = [d \in Calls |-> Processes[d]] /\ Processes' = [d \in Calls |-> Processes'[d]]
      /\ \A d \in Calls : d # c => Processes'[d] = Processes[d]
  BY DEF Processes, Good, Alone
<1>3. /\ Verdicts = [d \in Calls |-> Verdicts[d]] /\ Verdicts' = [d \in Calls |-> Verdicts'[d]]
      /\ \A d \in Calls : d # c => Verdicts'[d] = Verdicts[d]
  BY DEF Verdicts, Good, Alone
<1>4. /\ expired = [d \in Calls |-> expired[d]] /\ expired' = [d \in Calls |-> expired'[d]]
      /\ aborted = [d \in Calls |-> aborted[d]] /\ aborted' = [d \in Calls |-> aborted'[d]]
  BY DEF Inv, TypeOK, Good
<1>5. \A d \in Calls : d # c => expired'[d] = expired[d] /\ aborted'[d] = aborted[d]
  BY DEF Good, Alone
<1> QED
  BY <1>1, <1>2, <1>3, <1>4, <1>5, OneChanged DEF SeenOf

LeaveAlone(c) == Leaves'[c] = Leaves[c]
ProcessAlone(c) == Processes'[c] = Processes[c]
VerdictAlone(c) == Verdicts'[c] = Verdicts[c]
ClockAlone(c) == expired'[c] = expired[c] /\ aborted'[c] = aborted[c]

LEMMA Unseen ==
  ASSUME Inv, NEW c \in Calls, Good(c)
  PROVE  /\ LeaveAlone(c) => Leaves' = Leaves
         /\ ProcessAlone(c) => Processes' = Processes
         /\ VerdictAlone(c) => Verdicts' = Verdicts
         /\ ClockAlone(c) => expired' = expired /\ aborted' = aborted
BY SeenAlone DEF SeenOf, LeaveAlone, ProcessAlone, VerdictAlone, ClockAlone

Seen == <<Leaves, Processes, Verdicts, expired, aborted>>
GuardStep == Guard!Next \/ UNCHANGED Seen

LEMMA ProcessKinds ==
  ASSUME Inv, NEW c \in Calls
  PROVE  /\ Processes[c] \in {"none", "running", "orphaned", "dead"}
         /\ Processes[c] = "none" <=> child[c] = "none"
BY DEF Processes, Inv, TypeOK

\* What an action may do to the call that it is about.
Proceeding(c) ==
  /\ LeaveAlone(c) /\ ClockAlone(c) /\ Processes[c] # "none"
  /\ Processes'[c] \in Guard!Later[Processes[c]]
  /\ \/ VerdictAlone(c)
     \/ /\ Verdicts[c] = "waiting" /\ Processes'[c] # "running"
        /\ \/ Verdicts'[c] \in {"fulfilled", "failed"} /\ ~aborted[c]
           \/ Verdicts'[c] = "abandoned"
           \/ Verdicts'[c] = "stopped" /\ Processes'[c] = "dead"

LEMMA ProceedIsAllowed ==
  ASSUME Inv, NEW c \in Calls, Good(c), Proceeding(c)
  PROVE  Guard!Proceed(c)
<1>1. UNCHANGED <<Leaves, expired, aborted>>
  BY Unseen DEF Proceeding, ClockAlone
<1>2. /\ Processes' = [Processes EXCEPT ![c] = Processes'[c]]
      /\ Verdicts' = [Verdicts EXCEPT ![c] = Verdicts'[c]]
  BY SeenAlone DEF SeenOf
<1>3. Processes'[c] \in {"running", "orphaned", "dead"}
  BY ProcessKinds DEF Proceeding, Guard!Later
<1>4. VerdictAlone(c) => Verdicts' = Verdicts
  BY Unseen
<1>5. CASE VerdictAlone(c)
  BY <1>1, <1>2, <1>4, <1>5 DEF Guard!Proceed, Proceeding
<1>6. CASE ~VerdictAlone(c)
  <2>1. Processes'[c] \in Guard!Truth(Verdicts'[c])
    BY <1>3, <1>6 DEF Proceeding, Guard!Truth
  <2> QED
    BY <1>1, <1>2, <1>6, <2>1 DEF Guard!Proceed, Proceeding
<1> QED
  BY <1>5, <1>6

\* The tree of a call that has been started.
LEMMA TreeKeepsGuard ==
  ASSUME Inv, NEW c \in Calls, Good(c),
         ProcessLives(c) \/ ExitEvent(c) \/ SpawnTimer(c) \/ OutputLimit(c) \/ Cleaning(c)
  PROVE  Guard!Proceed(c)
<1> USE DEF elsewhere, gateVars
<1>1. Orderly(c) /\ UNCHANGED <<platform, source, module, expired, aborted, gate, answer>>
  BY DEF Inv, AllOrderly, ProcessLives, ExitEvent, SpawnTimer, OutputLimit, Cleaning,
         GraceEnds, CleanupSucceeds, TaskkillFails, FallbackFails
<1>2. child[c] # "none"
  BY <1>1 DEF Orderly, ProcessLives, ExitEvent, SpawnTimer, OutputLimit, Cleaning, Listening,
         GraceEnds, CleanupSucceeds, TaskkillFails, FallbackFails
<1>3. LeaveAlone(c) /\ ClockAlone(c) /\ Processes[c] # "none"
  BY <1>1, <1>2 DEF LeaveAlone, ClockAlone, Leaves, Processes
<1>4. Processes'[c] \in Guard!Later[Processes[c]]
  BY <1>2 DEF Guard!Later, Processes, Inv, TypeOK, ProcessLives, ExitEvent, SpawnTimer, OutputLimit,
         Cleaning, KillTree, GraceEnds, CleanupSucceeds, TaskkillFails, FallbackFails
<1>5. CASE ProcessLives(c) \/ SpawnTimer(c) \/ OutputLimit(c) \/ TaskkillFails(c)
  <2>1. /\ outcome' = outcome
        /\ \/ cleanup' = cleanup
           \/ cleanup[c] \in {"no", "taskkill"} /\ cleanup'[c] # "givenUp"
    BY <1>5, Starts DEF ProcessLives, SpawnTimer, OutputLimit, TaskkillFails, Listening, Inv, TypeOK
  <2>2. VerdictAlone(c)
    BY <1>1, <2>1 DEF VerdictAlone, Verdicts, Orderly
  <2> QED
    BY <1>3, <1>4, <2>2, ProceedIsAllowed DEF Proceeding
<1>6. CASE ExitEvent(c)
  <2>1. cleanup' = cleanup /\ child[c] = "exited" /\ child'[c] = "gone"
    BY <1>6 DEF ExitEvent, Inv, TypeOK
  <2>2. Processes'[c] # "running"
    BY <2>1 DEF Processes
  <2>3. \/ outcome'[c] = outcome[c]
        \/ /\ cleanup[c] = "no" /\ outcome[c] = "waiting"
           /\ outcome'[c] \in {"fulfilled", "failed"}
    BY <1>1, <1>2, <1>6 DEF ExitEvent, Told, Inv, TypeOK, Orderly
  <2>4. CASE outcome'[c] = outcome[c]
    BY <1>3, <1>4, <2>1, <2>4, ProceedIsAllowed DEF Proceeding, VerdictAlone, Verdicts
  <2>5. CASE /\ cleanup[c] = "no" /\ outcome[c] = "waiting"
             /\ outcome'[c] \in {"fulfilled", "failed"}
    <3>1. ~aborted[c]
      BY <1>1, <2>1, <2>5 DEF Orderly
    <3>2. Verdicts[c] = "waiting" /\ Verdicts'[c] \in {"fulfilled", "failed"}
      BY <2>1, <2>5 DEF Verdicts
    <3> QED
      BY <1>3, <1>4, <2>2, <3>1, <3>2, ProceedIsAllowed DEF Proceeding
  <2> QED
    BY <2>3, <2>4, <2>5
<1>7. CASE GraceEnds(c) \/ CleanupSucceeds(c) \/ FallbackFails(c)
  <2>1. cleanup[c] \in {"grace", "taskkill", "powershell"} /\ outcome[c] \notin {"idle", "stopped"}
    BY <1>1, <1>2, <1>7 DEF GraceEnds, CleanupSucceeds, FallbackFails, Orderly
  <2>2. \/ outcome'[c] = outcome[c] /\ outcome[c] # "waiting"
        \/ outcome[c] = "waiting" /\ outcome'[c] = "stopped"
    BY <1>7, <2>1 DEF GraceEnds, CleanupSucceeds, FallbackFails, Told, Inv, TypeOK
  <2>3. \/ cleanup'[c] = "done" /\ Processes'[c] = "dead"
        \/ cleanup'[c] = "givenUp" /\ Processes'[c] # "running"
    BY <1>2, <1>7 DEF GraceEnds, CleanupSucceeds, FallbackFails, KillTree, Processes, Inv, TypeOK
  <2>4. CASE outcome'[c] = outcome[c] /\ outcome[c] # "waiting"
    BY <1>3, <1>4, <2>1, <2>4, ProceedIsAllowed DEF Proceeding, VerdictAlone, Verdicts
  <2>5. CASE outcome[c] = "waiting" /\ outcome'[c] = "stopped"
    <3>1. Verdicts[c] = "waiting"
          /\ Verdicts'[c] = IF cleanup'[c] = "givenUp" THEN "abandoned" ELSE "stopped"
      BY <2>5 DEF Verdicts
    <3> QED
      BY <1>3, <1>4, <2>3, <3>1, ProceedIsAllowed DEF Proceeding
  <2> QED
    BY <2>2, <2>4, <2>5
<1> QED
  BY <1>5, <1>6, <1>7 DEF Cleaning

\* A call with leave starts its process, or finds that it cannot.
LEMMA SpawnKeepsGuard ==
  ASSUME Inv, NEW c \in Calls, Good(c), Spawn(c), child[c] = "none", LeaveAlone(c), ClockAlone(c),
         outcome[c] \in {"idle", "waiting"}, Leaves[c] \in {"free", "allowed"}, ~expired[c]
  PROVE  Guard!Start(c) \/ Guard!Decline(c)
<1>1. /\ Leaves' = Leaves /\ expired' = expired /\ aborted' = aborted
      /\ Processes' = [Processes EXCEPT ![c] = Processes'[c]]
      /\ Verdicts' = [Verdicts EXCEPT ![c] = Verdicts'[c]]
      /\ ProcessAlone(c) => Processes' = Processes
  BY Unseen, SeenAlone DEF SeenOf, ClockAlone
<1>2. Verdicts[c] \in {"idle", "waiting"} /\ Processes[c] = "none"
  BY DEF Verdicts, Processes
<1>3. \/ child'[c] = "running" /\ outcome'[c] = "waiting"
      \/ child'[c] = "none" /\ outcome'[c] = "failed"
  BY DEF Spawn, Told, tree, Inv, TypeOK
<1>4. CASE child'[c] = "running" /\ outcome'[c] = "waiting"
  <2>1. Processes'[c] = "running" /\ Verdicts'[c] = "waiting"
    BY <1>4 DEF Processes, Verdicts
  <2> QED
    BY <1>1, <1>2, <2>1 DEF Guard!Start
<1>5. CASE child'[c] = "none" /\ outcome'[c] = "failed"
  <2>1. ProcessAlone(c) /\ Verdicts'[c] = "failed"
    BY <1>2, <1>5 DEF Processes, ProcessAlone, Verdicts
  <2> QED
    BY <1>1, <1>2, <2>1 DEF Guard!Decline
<1> QED
  BY <1>3, <1>4, <1>5

LEMMA BeginKeepsGuard ==
  ASSUME Inv, NEW c \in Calls, Good(c), Begin(c)
  PROVE  Guard!Start(c) \/ Guard!Decline(c) \/ Guard!Ask(c)
<1> USE DEF gateVars, tree
<1>1. /\ outcome[c] = "idle" /\ child[c] = "none" /\ gate[c] = "unasked" /\ ~expired[c]
      /\ UNCHANGED <<source, expired, aborted>>
  BY DEF Inv, AllOrderly, Orderly, Begin
<1>2. CASE source = "none"
  <2>1. Spawn(c) /\ Leaves[c] = "free" /\ LeaveAlone(c) /\ ClockAlone(c)
    BY <1>1, <1>2 DEF Begin, Leaves, LeaveAlone, ClockAlone
  <2> QED
    BY <1>1, <2>1, SpawnKeepsGuard
<1>3. CASE source # "none"
  <2>1. /\ ProcessAlone(c) /\ Verdicts[c] = "idle" /\ Verdicts'[c] = "waiting"
        /\ Leaves[c] = "undecided"
    BY <1>1, <1>3 DEF Begin, ProcessAlone, Processes, Verdicts, Leaves, Inv, TypeOK
  <2>2. Leaves'[c] \in IF aborted[c] THEN {"denied"} ELSE {"undecided", "denied"}
    BY <1>1, <1>3 DEF Begin, Leaves, Inv, TypeOK
  <2>3. /\ Leaves' = [Leaves EXCEPT ![c] = Leaves'[c]]
        /\ Verdicts' = [Verdicts EXCEPT ![c] = "waiting"]
        /\ UNCHANGED <<Processes, expired, aborted>>
    BY <1>1, <2>1, Unseen, SeenAlone DEF SeenOf
  <2> QED
    BY <2>1, <2>2, <2>3 DEF Guard!Ask
<1> QED
  BY <1>2, <1>3

LEMMA AnswerKeepsGuard ==
  ASSUME Inv, NEW c \in Calls, Good(c), NEW a \in Answers, Answer(c, a),
         UNCHANGED <<platform, source, module, expired, aborted, outcome, tree>>
  PROVE  Guard!Decide(c) \/ UNCHANGED Seen
<1> USE DEF tree
<1>1. gate[c] = "asked" /\ outcome[c] = "waiting" /\ gate'[c] = "answered" /\ answer'[c] = a
  BY DEF Inv, TypeOK, AllOrderly, Orderly, Answer
<1>2. ProcessAlone(c) /\ VerdictAlone(c) /\ Verdicts[c] = "waiting"
  BY <1>1 DEF ProcessAlone, Processes, VerdictAlone, Verdicts
<1>3. UNCHANGED <<Processes, Verdicts, expired, aborted>>
  BY <1>2, Unseen
<1>4. CASE source = "none"
  <2>1. LeaveAlone(c)
    BY <1>4 DEF LeaveAlone, Leaves
  <2> QED
    BY <1>3, <2>1, Unseen DEF Seen
<1>5. CASE source # "none"
  <2>1. Leaves[c] = "undecided" /\ Leaves'[c] \in {"allowed", "denied"}
    BY <1>1, <1>5 DEF Leaves
  <2>2. Leaves' = [Leaves EXCEPT ![c] = Leaves'[c]]
    BY SeenAlone DEF SeenOf
  <2> QED
    BY <1>2, <1>3, <2>1, <2>2 DEF Guard!Decide
<1> QED
  BY <1>4, <1>5

LEMMA ContinueKeepsGuard ==
  ASSUME Inv, NEW c \in Calls, Good(c), Continue(c)
  PROVE  Guard!Start(c) \/ Guard!Decline(c) \/ UNCHANGED Seen
<1> USE DEF tree
<1>1. /\ child[c] = "none" /\ gate[c] = "answered" /\ outcome[c] # "idle"
      /\ gate'[c] \in {"passed", "closed"}
      /\ UNCHANGED <<source, expired, aborted, answer>>
  BY DEF Inv, TypeOK, AllOrderly, Orderly, Continue
<1>2. LeaveAlone(c) /\ ClockAlone(c) /\ Leaves[c] # "undecided"
  BY <1>1 DEF LeaveAlone, ClockAlone, Leaves
<1>3. CASE Permits(c)
  <2>1. Spawn(c) /\ outcome[c] = "waiting" /\ ~expired[c] /\ Leaves[c] \in {"free", "allowed"}
    BY <1>1, <1>3 DEF Continue, Permits, Inv, AllOrderly, Orderly, Leaves
  <2> QED
    BY <1>1, <1>2, <2>1, SpawnKeepsGuard
<1>4. CASE ~Permits(c)
  <2>1. Told(c, "failed") /\ UNCHANGED tree
    BY <1>4 DEF Continue
  <2>2. ProcessAlone(c) /\ Processes[c] = "none"
    BY <1>1, <2>1 DEF ProcessAlone, Processes
  <2>3. UNCHANGED <<Leaves, Processes, expired, aborted>>
    BY <1>2, <2>2, Unseen DEF ClockAlone
  <2>4. CASE outcome[c] = "waiting"
    <3>1. Verdicts[c] = "waiting" /\ Verdicts'[c] = "failed"
      BY <2>1, <2>4 DEF Told, Verdicts, Inv, TypeOK
    <3>2. Verdicts' = [Verdicts EXCEPT ![c] = "failed"]
      BY <3>1, SeenAlone DEF SeenOf
    <3> QED
      BY <1>2, <2>2, <2>3, <3>1, <3>2 DEF Guard!Decline
  <2>5. CASE outcome[c] # "waiting"
    <3>1. VerdictAlone(c)
      BY <1>1, <2>1, <2>5 DEF Told, VerdictAlone, Verdicts
    <3> QED
      BY <2>3, <3>1, Unseen DEF Seen
  <2> QED
    BY <2>4, <2>5
<1> QED
  BY <1>3, <1>4

LEMMA AbortKeepsGuard ==
  ASSUME Inv, NEW c \in Calls, Good(c), Abort(c),
         UNCHANGED <<platform, source, module, expired, child, helpers, strays>>,
         outcome[c] \in {"idle", "waiting"}
  PROVE  /\ Guard!Stop(c) /\ Verdicts[c] = outcome[c]
         /\ outcome'[c] = outcome[c] => UNCHANGED Verdicts
         /\ outcome'[c] = "timedOut" => Verdicts' = [Verdicts EXCEPT ![c] = "timedOut"]
<1> USE DEF gateVars
<1>1. /\ Leaves' = [Leaves EXCEPT ![c] = Leaves'[c]] /\ aborted' = [aborted EXCEPT ![c] = TRUE]
      /\ Verdicts' = [Verdicts EXCEPT ![c] = Verdicts'[c]]
  BY SeenAlone DEF SeenOf, Abort
<1>2. ProcessAlone(c) /\ Verdicts[c] = outcome[c]
  BY DEF ProcessAlone, Processes, Verdicts
<1>3. UNCHANGED <<Processes, expired>>
  BY <1>2, Unseen
<1>4. Leaves'[c] =
        IF Verdicts[c] = "waiting" /\ Leaves[c] = "undecided" THEN "denied" ELSE Leaves[c]
  <2>1. Orderly(c)
    BY DEF Inv, AllOrderly
  <2>2. CASE gate[c] = "asked"
    <3>1. gate'[c] = "answered" /\ answer'[c] = "throws" /\ outcome[c] = "waiting"
      BY <2>1, <2>2 DEF Abort, Answer, Inv, TypeOK, Orderly
    <3> QED
      BY <1>2, <2>2, <3>1 DEF Leaves
  <2>3. CASE gate[c] # "asked"
    <3>1. gate' = gate /\ answer' = answer
      BY <2>3 DEF Abort
    <3> QED
      BY <1>2, <2>1, <2>3, <3>1 DEF Leaves, Orderly
  <2> QED
    BY <2>2, <2>3
<1>5. Guard!Stop(c)
  BY <1>1, <1>3, <1>4 DEF Guard!Stop, Leaves
<1>6. outcome'[c] = outcome[c] => VerdictAlone(c)
  BY DEF VerdictAlone, Verdicts
<1>7. outcome'[c] = "timedOut" => Verdicts'[c] = "timedOut"
  BY DEF Verdicts
<1> QED
  BY <1>1, <1>2, <1>5, <1>6, <1>7, Unseen

LEMMA OneCallKeepsGuard ==
  ASSUME Inv, NEW c \in Calls,
         \/ Begin(c) \/ ProviderAnswers(c) \/ ProviderUnavailable(c) \/ Continue(c)
         \/ ExternalAbort(c) \/ TimePasses(c) \/ Timers(c) \/ ProcessLives(c)
         \/ ExitEvent(c) \/ OutputLimit(c) \/ Cleaning(c)
  PROVE  GuardStep
<1>1. Good(c)
  BY OneCallSteps
<1>2. CASE ProviderAnswers(c) \/ ProviderUnavailable(c) \/ GateTimer(c)
  <2>1. PossibleAnswers \subseteq Answers /\ "throws" \in Answers
    BY DEF PossibleAnswers, Answers, Decisions, AtbashDecision
  <2>2. PICK a \in Answers : Answer(c, a)
    BY <1>2, <2>1 DEF ProviderAnswers, ProviderUnavailable, GateTimer
  <2>3. UNCHANGED <<platform, source, module, expired, aborted, outcome, tree>>
    BY <1>2 DEF ProviderAnswers, ProviderUnavailable, GateTimer
  <2>4. Guard!Decide(c) \/ UNCHANGED Seen
    BY <1>1, <2>2, <2>3, AnswerKeepsGuard
  <2> QED
    BY <2>4 DEF GuardStep, Guard!Next
<1>3. CASE ExternalAbort(c)
  <2>1. /\ outcome[c] \in {"idle", "waiting"} /\ Abort(c) /\ outcome' = outcome
        /\ UNCHANGED <<platform, source, module, expired, child, helpers, strays>>
    BY <1>3 DEF ExternalAbort
  <2>2. Guard!Abort(c)
    BY <1>1, <2>1, AbortKeepsGuard DEF Guard!Abort
  <2> QED
    BY <2>2 DEF GuardStep, Guard!Next
<1>4. CASE Watchdog(c)
  <2>1. /\ outcome[c] = "waiting" /\ expired[c] /\ Abort(c) /\ outcome'[c] = "timedOut"
        /\ UNCHANGED <<platform, source, module, expired, child, helpers, strays>>
    BY <1>4 DEF Watchdog, Inv, TypeOK
  <2>2. Guard!GiveUp(c)
    BY <1>1, <2>1, AbortKeepsGuard DEF Guard!GiveUp
  <2> QED
    BY <2>2 DEF GuardStep, Guard!Next
<1>5. CASE TimePasses(c)
  <2>1. /\ UNCHANGED <<source, aborted, gate, answer, outcome, child, helpers, strays, cleanup>>
        /\ outcome[c] # "idle" /\ expired' = [expired EXCEPT ![c] = TRUE]
    BY <1>5 DEF TimePasses, gateVars, tree
  <2>2. UNCHANGED <<Leaves, Processes, Verdicts>> /\ Verdicts[c] # "idle"
    BY <2>1 DEF Leaves, Processes, Verdicts
  <2>3. Guard!TimePasses(c)
    BY <2>1, <2>2 DEF Guard!TimePasses
  <2> QED
    BY <2>3 DEF GuardStep, Guard!Next
<1>6. CASE Begin(c)
  <2>1. Guard!Start(c) \/ Guard!Decline(c) \/ Guard!Ask(c)
    BY <1>1, <1>6, BeginKeepsGuard
  <2> QED
    BY <2>1 DEF GuardStep, Guard!Next
<1>7. CASE Continue(c)
  <2>1. Guard!Start(c) \/ Guard!Decline(c) \/ UNCHANGED Seen
    BY <1>1, <1>7, ContinueKeepsGuard
  <2> QED
    BY <2>1 DEF GuardStep, Guard!Next
<1>8. CASE ProcessLives(c) \/ ExitEvent(c) \/ SpawnTimer(c) \/ OutputLimit(c) \/ Cleaning(c)
  <2>1. Guard!Proceed(c)
    BY <1>1, <1>8, TreeKeepsGuard
  <2> QED
    BY <2>1 DEF GuardStep, Guard!Next
<1> QED
  BY <1>2, <1>3, <1>4, <1>5, <1>6, <1>7, <1>8 DEF Timers

LEMMA StepKeepsGuard == Inv /\ [Next]_vars => GuardStep
<1> SUFFICES ASSUME Inv, [Next]_vars PROVE GuardStep
  OBVIOUS
<1>1. CASE ModuleLoads \/ UNCHANGED vars
  <2>1. UNCHANGED <<source, expired, aborted, gate, answer, outcome, child, helpers, strays, cleanup>>
    BY <1>1 DEF ModuleLoads, vars, gateVars, tree
  <2>2. UNCHANGED <<Leaves, Processes, Verdicts>>
    BY <2>1 DEF Leaves, Processes, Verdicts
  <2> QED
    BY <2>1, <2>2 DEF GuardStep, Seen
<1> QED
  BY <1>1, OneCallKeepsGuard DEF Next

LEMMA InitKeepsGuard == Init => Guard!Init
<1> SUFFICES ASSUME Init PROVE Guard!Init
  OBVIOUS
<1>1. Processes = [c \in Calls |-> "none"] /\ Verdicts = [c \in Calls |-> "idle"]
  BY DEF Init, Processes, Verdicts
<1>2. Leaves = [c \in Calls |-> IF source = "none" THEN "free" ELSE "undecided"]
  BY DEF Init, Leaves
<1> QED
  BY <1>1, <1>2 DEF Init, Guard!Init

\* A call keeps what a guarded call promises, in every environment and with any
\* number of calls beside it: it starts a process once, with leave and in time; a
\* denial is final; its caller is told once and the truth; what is dead stays dead.
THEOREM CallsKeepTheGuard == Spec => CallsAreGuarded
<1>1. Inv /\ [Next]_vars => [Guard!Next]_<<Leaves, Processes, Verdicts, expired, aborted>>
  BY StepKeepsGuard DEF GuardStep, Seen
<1> QED
  BY <1>1, Inductive, InitKeepsGuard, PTL DEF Spec, CallsAreGuarded, Guard!Spec
=============================================================================
