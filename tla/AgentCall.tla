------------------------------ MODULE AgentCall ------------------------------
(***************************************************************************)
(* One execution of an agent, from invokeExecutor (runtime.ts) through the  *)
(* security gate (security.ts) to the process tree that spawnCapture        *)
(* (executors.ts) starts, watches and kills.  Several calls share one       *)
(* security provider, whose module is loaded once.                          *)
(*                                                                         *)
(* A call ends by whichever comes first: the provider's refusal, the exit   *)
(* of the process, the output limit, an abort from outside, the timers of   *)
(* the gate and of the process, or the watchdog of invokeExecutor.  All     *)
(* three timers run to the same deadline, so "expired" stands for all.      *)
(*                                                                         *)
(* Abstracted: prompts, arguments and output; bytes are "too many or not".  *)
(* The processes of a tree are the root, "some helper" that a cleanup finds, *)
(* and "some stray" that it does not: on Windows only the parent's id leads   *)
(* to a process, so one whose parent has ended is lost from sight.  On POSIX  *)
(* a helper is supposed to stay in the process group it is born into.        *)
(***************************************************************************)
EXTENDS Naturals

CONSTANTS Calls, Platforms

ASSUME PlatformAssumption == Platforms \subseteq {"posix", "win32"}

VARIABLES
  platform,   \* process.platform
  source,     \* what securityProviderFromEnvironment made of the environment
  module,     \* the cached promise of the provider's module, shared by all calls
  expired,    \* the deadline of the call has passed
  aborted,    \* controller.signal.aborted
  gate,       \* where SecurityGatedExecutor.execute is
  answer,     \* what its race of the provider, the timer and the signal came to
  outcome,    \* what invokeExecutor's caller has been told
  child,      \* the root process; "exited" until its exit event is handled
  helpers,    \* some process the root has started is alive, and can be found
  strays,     \* some process of the tree is alive that cannot be found
  cleanup     \* terminateTree; "no" unless terminating

gateVars == <<gate, answer>>
tree == <<child, helpers, strays, cleanup>>
vars == <<platform, source, module, expired, aborted, gateVars, outcome, tree>>

Decisions == {"allow", "hold", "block"}
Answers == Decisions \cup {"invalid", "throws"}
Outcomes == {"idle", "waiting", "fulfilled", "failed", "stopped", "timedOut"}

-----------------------------------------------------------------------------
(* The security provider.                                                  *)

\* Mutant of ProviderFor: an unknown name is taken for a provider.
ProviderForUnchecked(selected, path) ==
  CASE selected # "unset" /\ path # "unset" -> "refusing"
    [] selected # "unset" -> selected
    [] path = "unset" -> "none"
    [] path = "relative" -> "refusing"
    [] OTHER -> "module"

\* securityProviderFromEnvironment: a contradiction, an unknown name or a relative
\* path gives a provider that refuses everything.
ProviderFor(selected, path) ==
  CASE selected # "unset" /\ path # "unset" -> "refusing"
    [] selected = "atbash" -> "atbash"
    [] selected # "unset" -> "refusing"
    [] path = "unset" -> "none"
    [] path = "relative" -> "refusing"
    [] OTHER -> "module"

\* AtbashSecurityProvider.authorize: whatever is not allowed or held is blocked.
AtbashDecision(result) ==
  CASE result.allow -> "allow"
    [] result.verdict = "HOLD" -> "hold"
    [] OTHER -> "block"

AtbashResults == [allow : BOOLEAN, verdict : {"ALLOW", "HOLD", "BLOCK", "ERROR"}]

\* What authorize may come to.  A module of the user's own may answer anything.
PossibleAnswers ==
  IF source = "atbash" THEN {AtbashDecision(r) : r \in AtbashResults} \cup {"throws"}
  ELSE Answers

Asks == source \notin {"none", "refusing"}

\* The import ends, and the promise is kept whichever way it ends.
ModuleLoads ==
  /\ module = "loading"
  /\ module' \in {"ready", "broken"}
  /\ UNCHANGED <<platform, source, expired, aborted, gateVars, outcome, tree>>

-----------------------------------------------------------------------------
(* The process tree.                                                       *)

\* Nothing is left that a cleanup would find; nothing is left at all.
Swept(c) == child[c] # "running" /\ ~helpers[c]

Dead(c) == Swept(c) /\ ~strays[c]

\* failAndTerminate: how the tree is told to end; its end is waited for.
StartCleanup == IF platform = "posix" THEN "grace" ELSE "taskkill"

\* What an abort does to a process that is not being terminated yet.
Listening(c) == child[c] \in {"running", "exited"} /\ cleanup[c] = "no"

\* The execution settles; the caller hears of it unless its watchdog was faster.
Told(c, what) ==
  outcome' = IF outcome[c] \in {"idle", "waiting"}
             THEN [outcome EXCEPT ![c] = what] ELSE outcome

\* spawnCapture: a process that starts under an aborted signal is terminated at
\* once; one that cannot be started fails the call.
Spawn(c) ==
  \/ /\ child' = [child EXCEPT ![c] = "running"]
     /\ cleanup' = IF aborted[c] THEN [cleanup EXCEPT ![c] = StartCleanup] ELSE cleanup
     /\ Told(c, "waiting")
     /\ UNCHANGED <<helpers, strays>>
  \/ /\ Told(c, "failed")
     /\ UNCHANGED tree

-----------------------------------------------------------------------------
(* invokeExecutor and the gate.                                            *)

\* executor.execute is called: the provider is asked, or there is none.
Begin(c) ==
  /\ outcome[c] = "idle"
  /\ IF source = "none"
     THEN Spawn(c) /\ UNCHANGED <<module, gateVars>>
     ELSE /\ outcome' = [outcome EXCEPT ![c] = "waiting"]
          /\ module' = IF Asks /\ module = "unloaded" THEN "loading" ELSE module
          /\ IF Asks /\ ~aborted[c]
             THEN gate' = [gate EXCEPT ![c] = "asked"] /\ UNCHANGED answer
             ELSE /\ gate' = [gate EXCEPT ![c] = "answered"]
                  /\ answer' = [answer EXCEPT ![c] = "throws"]
          /\ UNCHANGED tree
  /\ UNCHANGED <<platform, source, expired, aborted>>

\* Mutant of Answer: an answer that comes after the race replaces its result.
AnswerLate(c, what) ==
  /\ gate[c] \in {"asked", "closed"}
  /\ gate' = [gate EXCEPT ![c] = "answered"]
  /\ answer' = [answer EXCEPT ![c] = what]

\* The race is decided by the first of its members; later ones are not heard.
Answer(c, what) ==
  /\ gate[c] = "asked"
  /\ gate' = [gate EXCEPT ![c] = "answered"]
  /\ answer' = [answer EXCEPT ![c] = what]

ProviderAnswers(c) ==
  /\ module = "ready" /\ \E a \in PossibleAnswers : Answer(c, a)
  /\ UNCHANGED <<platform, source, module, expired, aborted, outcome, tree>>

\* A module that failed to load refuses every call from then on.
ProviderUnavailable(c) ==
  /\ module = "broken" /\ Answer(c, "throws")
  /\ UNCHANGED <<platform, source, module, expired, aborted, outcome, tree>>

GateTimer(c) ==
  /\ expired[c] /\ Answer(c, "throws")
  /\ UNCHANGED <<platform, source, module, expired, aborted, outcome, tree>>

\* Only an explicit "allow" counts, and only while time remains.
Permits(c) == answer[c] = "allow" /\ ~expired[c]

\* The continuation after the race: the delegate is called, or the call is denied.
Continue(c) ==
  /\ gate[c] = "answered"
  /\ gate' = [gate EXCEPT ![c] = IF Permits(c) THEN "passed" ELSE "closed"]
  /\ IF Permits(c) THEN Spawn(c) ELSE Told(c, "failed") /\ UNCHANGED tree
  /\ UNCHANGED <<platform, source, module, expired, aborted, answer>>

\* controller.abort(): the gate's race is lost, a running process is terminated.
Abort(c) ==
  /\ aborted' = [aborted EXCEPT ![c] = TRUE]
  /\ IF gate[c] = "asked" THEN Answer(c, "throws") ELSE UNCHANGED gateVars
  /\ cleanup' = IF Listening(c) THEN [cleanup EXCEPT ![c] = StartCleanup] ELSE cleanup

\* The signal of the request, a fan-out whose sibling has failed, aborts.  Between
\* the provider's answer and the continuation it is seen by the process only.
ExternalAbort(c) ==
  /\ outcome[c] \in {"idle", "waiting"} /\ ~aborted[c]
  /\ Abort(c)
  /\ UNCHANGED <<platform, source, module, expired, outcome, child, helpers, strays>>

\* invokeExecutor's timer.  Continuations that are due run before any timer.
Watchdog(c) ==
  /\ outcome[c] = "waiting" /\ expired[c] /\ gate[c] # "answered"
  /\ Abort(c)
  /\ outcome' = [outcome EXCEPT ![c] = "timedOut"]
  /\ UNCHANGED <<platform, source, module, expired, child, helpers, strays>>

TimePasses(c) ==
  /\ outcome[c] # "idle" /\ ~expired[c]
  /\ expired' = [expired EXCEPT ![c] = TRUE]
  /\ UNCHANGED <<platform, source, module, aborted, gateVars, outcome, tree>>

-----------------------------------------------------------------------------
(* spawnCapture while the process lives.                                   *)

elsewhere == <<platform, source, module, expired, aborted, gateVars>>

\* The process, or one of its helpers, does as it likes.  On Windows a helper that
\* ends leaves behind what it has started as strays.
ProcessLives(c) ==
  /\ \/ /\ child[c] = "running"
        /\ child' = [child EXCEPT ![c] = "exited"] /\ UNCHANGED <<helpers, strays>>
     \/ /\ child[c] = "running" /\ ~helpers[c]
        /\ helpers' = [helpers EXCEPT ![c] = TRUE] /\ UNCHANGED <<child, strays>>
     \/ /\ helpers[c]
        /\ helpers' = [helpers EXCEPT ![c] = FALSE] /\ UNCHANGED <<child, strays>>
     \/ /\ platform = "win32" /\ helpers[c] /\ ~strays[c]
        /\ strays' = [strays EXCEPT ![c] = TRUE] /\ UNCHANGED <<child, helpers>>
     \/ /\ strays[c]
        /\ strays' = [strays EXCEPT ![c] = FALSE] /\ UNCHANGED <<child, helpers>>
  /\ UNCHANGED <<elsewhere, outcome, cleanup>>

\* The "exit" event settles the call, whatever is still in the pipes.
ExitEvent(c) ==
  /\ child[c] = "exited"
  /\ child' = [child EXCEPT ![c] = "gone"]
  /\ IF cleanup[c] = "no" THEN \E what \in {"fulfilled", "failed"} : Told(c, what)
     ELSE UNCHANGED outcome
  /\ UNCHANGED <<elsewhere, helpers, strays, cleanup>>

SpawnTimer(c) ==
  /\ expired[c] /\ Listening(c)
  /\ cleanup' = [cleanup EXCEPT ![c] = StartCleanup]
  /\ UNCHANGED <<elsewhere, outcome, child, helpers, strays>>

\* capture: too much output, also from a helper or a stray that outlives the root.
OutputLimit(c) ==
  /\ Listening(c) \/ (child[c] = "gone" /\ ~Dead(c) /\ cleanup[c] = "no")
  /\ cleanup' = [cleanup EXCEPT ![c] = StartCleanup]
  /\ UNCHANGED <<elsewhere, outcome, child, helpers, strays>>

\* Mutant of KillTree: the root is killed instead of its process group.
KillRoot(c) ==
  /\ child' = IF child[c] = "running" THEN [child EXCEPT ![c] = "exited"] ELSE child
  /\ UNCHANGED <<helpers, strays>>

\* The process group, or what taskkill and powershell find from the root: no strays.
KillTree(c) ==
  /\ child' = IF child[c] = "running" THEN [child EXCEPT ![c] = "exited"] ELSE child
  /\ helpers' = [helpers EXCEPT ![c] = FALSE]
  /\ UNCHANGED strays

\* Mutant of GraceEnds: SIGTERM is trusted.
GraceEndsKindly(c) ==
  /\ cleanup[c] = "grace"
  /\ cleanup' = [cleanup EXCEPT ![c] = "done"]
  /\ Told(c, "stopped")
  /\ UNCHANGED <<elsewhere, child, helpers, strays>>

\* A second after SIGTERM the process group gets SIGKILL, then the call rejects.
GraceEnds(c) ==
  /\ cleanup[c] = "grace"
  /\ KillTree(c)
  /\ cleanup' = [cleanup EXCEPT ![c] = "done"]
  /\ Told(c, "stopped")
  /\ UNCHANGED elsewhere

\* taskkill, and after it powershell, end by themselves or at their own deadline;
\* code 0 says that what was found is dead.
CleanupSucceeds(c) ==
  /\ cleanup[c] \in {"taskkill", "powershell"}
  /\ KillTree(c)
  /\ cleanup' = [cleanup EXCEPT ![c] = "done"]
  /\ Told(c, "stopped")
  /\ UNCHANGED elsewhere

TaskkillFails(c) ==
  /\ cleanup[c] = "taskkill"
  /\ cleanup' = [cleanup EXCEPT ![c] = "powershell"]
  /\ UNCHANGED <<elsewhere, outcome, child, helpers, strays>>

\* Neither proved the tree dead: the root is killed and the call says so.
FallbackFails(c) ==
  /\ cleanup[c] = "powershell"
  /\ child' = IF child[c] = "running" THEN [child EXCEPT ![c] = "exited"] ELSE child
  /\ cleanup' = [cleanup EXCEPT ![c] = "givenUp"]
  /\ Told(c, "stopped")
  /\ UNCHANGED <<elsewhere, helpers, strays>>

-----------------------------------------------------------------------------
Init ==
  /\ platform \in Platforms
  /\ \E selected \in {"unset", "atbash", "other"},
        path \in {"unset", "relative", "absolute"} : source = ProviderFor(selected, path)
  /\ module = "unloaded"
  /\ expired = [c \in Calls |-> FALSE]
  /\ aborted = [c \in Calls |-> FALSE]
  /\ gate = [c \in Calls |-> "unasked"]
  /\ answer = [c \in Calls |-> "none"]
  /\ outcome = [c \in Calls |-> "idle"]
  /\ child = [c \in Calls |-> "none"]
  /\ helpers = [c \in Calls |-> FALSE]
  /\ strays = [c \in Calls |-> FALSE]
  /\ cleanup = [c \in Calls |-> "no"]

\* What the event loop, its timers and the operating system do by themselves.
Timers(c) == GateTimer(c) \/ Watchdog(c) \/ SpawnTimer(c)

Cleaning(c) == GraceEnds(c) \/ CleanupSucceeds(c) \/ TaskkillFails(c) \/ FallbackFails(c)

Next ==
  \/ ModuleLoads
  \/ \E c \in Calls :
       \/ Begin(c) \/ ProviderAnswers(c) \/ ProviderUnavailable(c) \/ Continue(c)
       \/ ExternalAbort(c) \/ TimePasses(c) \/ Timers(c) \/ ProcessLives(c)
       \/ ExitEvent(c) \/ OutputLimit(c) \/ Cleaning(c)

Spec == Init /\ [][Next]_vars

\* Time passes, timers fire, continuations and exit events are handled, and the
\* cleanup helpers end.  Nothing is assumed of the provider or of the processes.
Fairness == \A c \in Calls :
  /\ WF_vars(TimePasses(c)) /\ WF_vars(Timers(c)) /\ WF_vars(Continue(c))
  /\ WF_vars(ExitEvent(c)) /\ WF_vars(Cleaning(c))

FairSpec == Spec /\ Fairness

-----------------------------------------------------------------------------
(* Properties.                                                             *)

TypeOK ==
  /\ platform \in {"posix", "win32"}
  /\ source \in {"none", "refusing", "atbash", "module"}
  /\ module \in {"unloaded", "loading", "ready", "broken"}
  /\ expired \in [Calls -> BOOLEAN] /\ aborted \in [Calls -> BOOLEAN]
  /\ gate \in [Calls -> {"unasked", "asked", "answered", "passed", "closed"}]
  /\ answer \in [Calls -> Answers \cup {"none"}]
  /\ outcome \in [Calls -> Outcomes]
  /\ child \in [Calls -> {"none", "running", "exited", "gone"}]
  /\ helpers \in [Calls -> BOOLEAN] /\ strays \in [Calls -> BOOLEAN]
  /\ cleanup \in [Calls -> {"no", "grace", "taskkill", "powershell", "done", "givenUp"}]

\* "An unavailable provider, malformed response, hold, or block decision prevents
\* executor invocation": a process is started only for a call whose own
\* authorization was allowed (or that needs none), before its deadline, and never
\* after the caller has been told how the call ended, however late the provider's
\* answer comes.
StartsAuthorized ==
  [][\A c \in Calls : child[c] = "none" /\ child'[c] # "none" =>
       /\ source = "none" \/ (gate[c] = "answered" /\ answer[c] = "allow")
       /\ outcome[c] \in {"idle", "waiting"} /\ ~expired[c]]_vars

\* "Complete subprocess trees are terminated on abort or timeout": a call that is
\* reported as stopped (aborted, timed out by itself, or over its output limit) leaves
\* nothing that a cleanup would find, and on POSIX nothing at all, unless the report
\* says that the cleanup failed: terminateTree is awaited before the promise rejects.
StoppedIsDead ==
  \A c \in Calls : outcome[c] = "stopped" =>
    \/ cleanup[c] = "givenUp"
    \/ Swept(c) /\ (platform = "posix" => Dead(c))

\* What a call looks like to its caller: see GuardedCall.  Its processes are those
\* that a cleanup finds: "dead" says nothing of strays.
Leaves == [c \in Calls |->
  IF source = "none" THEN "free"
  ELSE IF gate[c] \in {"unasked", "asked"} THEN "undecided"
  ELSE IF answer[c] = "allow" THEN "allowed" ELSE "denied"]

Processes == [c \in Calls |->
  IF child[c] \in {"none", "running"} THEN child[c]
  ELSE IF helpers[c] THEN "orphaned" ELSE "dead"]

Verdicts == [c \in Calls |->
  IF outcome[c] = "stopped" /\ cleanup[c] = "givenUp" THEN "abandoned" ELSE outcome[c]]

Guard == INSTANCE GuardedCall WITH leave <- Leaves, proc <- Processes, told <- Verdicts

\* A call keeps what a guarded call promises: a process is started once, with leave
\* and in time; a denial is final; the caller is told once, and the truth (an aborted
\* call has not succeeded, a stopped one is dead); and what is dead stays dead.
CallsAreGuarded == Guard!Spec

\* "Complete subprocess trees are terminated on abort or timeout", although they may
\* ignore SIGTERM and although invokeExecutor no longer waits for them: unless the
\* root ends by itself first, or Windows' helpers fail, or a process is a stray.
TreesReaped == \A c \in Calls :
  (child[c] = "running" /\ (aborted[c] \/ expired[c])) ~>
     (child[c] # "running" /\ (helpers[c] => cleanup[c] \in {"no", "givenUp"}))
=============================================================================
