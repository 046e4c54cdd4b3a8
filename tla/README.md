# A verification project for the graph runtime

This directory holds TLA+ models of *autonomous-graph-engineering*, the TLC runs
that check them on small instances, and TLAPS proofs of what matters most for
every instance. The models follow the code under `packages/` and `scripts/`; `PROJECT.json`
names, for every definition, the lines it stands for.

Check it with

    tlc -workers 2 -config Release.cfg MCGraphRuntime.tla
    tlapm GraphRuntimeProofs.tla

and likewise for the other runs and proof modules listed below.

## 1. The system

A *graph* is a DAG of nodes (agents, maps, verifiers, reductions, human gates)
with budgets and permissions. `runGraph` executes it in one process, keeps an
append-only audit file and a checkpoint, and can be resumed from the checkpoint
after a crash, a failure or a pause at a gate.

| component | state it keeps | operations | modelled in |
|---|---|---|---|
| scheduler `runGraph` (`runtime.ts` 535-970, 1106-1146) | node states, failure kinds and scopes, outputs, usage, deadline | start, resume, batch, gate, fail, skip, pause, end | `GraphRuntime` |
| fan-out and limiter (`runtime.ts` 211-331, 421-519) | cursor, settlements, first failure; active count and waiters | take, wait, wake, launch, answer, abort, watchdog, collect | `FanOut` |
| repair loop (`runtime.ts` 972-1104) | rounds, candidate, verdict | repair, reverify, accept, give up | `RepairLoop` |
| stores (`persistence.ts`) | two chains of writes, event number; the files | append, save, load | in `GraphRuntime`, `RepairLoop` |
| reconciliation (`reconciliation.ts`) | the checkpoint | completed, not_applied | in `GraphRuntime` |
| validator (`validator.ts`) | indegrees, queue and order of its sort | shape, rules, sort, depth, budgets | `GraphSpec`, `Validator` |
| planner (`planner.ts`) | none | request to graph | `GraphSpec`, `Planner` |
| built-in evaluation (`evaluation.ts`) | none | plan, spoil the plan, validate | `Evaluation`, without the cases that run a graph |
| gated executor, providers (`security.ts`) | the provider's module | choose a provider, load, ask, race, permit | `AgentCall` |
| CLI executors (`executors.ts`) | child process, buffers, timers | spawn, capture, abort, terminate | `AgentCall`; command lines and parsing are not |
| installer (`scripts/install-lib.mjs`, `install.mjs`, `verify-install.mjs`) | lock file, directories | lock, stage, swap, verify, roll back | `Installer` |
| runtime identity (`runtime-info.ts`) | the install id of the process | compare with the manifest | `Installer` (`RuntimeStatus`) |
| job table (`mcp-server.ts`) | jobs by id | start, prune, end, loss with the process | `PluginHost` |
| graders, report, doctor, evaluation | none | read the files | `AuditVerifies` states what grader and report look for |
| HTTP server, CLI | none | dispatch | not planned: parsing and I/O |
| prompt refiner (`packages/prompt-refiner`) | none | compile, refine, serve | not modelled: text processing and one call with a fallback |
| benchmarks, demos, repository checks, plugins, schemas | none | | not planned |

**Interactions.** `runGraph` calls the validator first and refuses an invalid
graph. The nodes of a batch run as coroutines of one process: they share node
states, usage, outputs, the two write chains and the limiter, and `Promise.all`
waits for them. Executors are called through `invokeExecutor`, which races them
with a watchdog; they may answer late, never, or after they have been given up.
The executors of the command line
stand behind a security gate, and start a process tree each. Everything that survives a process is in the checkpoint and the audit file. The
operator resumes, supplies approvals, and reconciles side effects in doubt
between two invocations. The MCP server runs out of a bundle that an installer may
replace under it; it compares the identity it was started with with the manifest
on the disk, and keeps its jobs in memory.

**What is hard.** Several coroutines change shared state around their awaits;
writes are queued and reach the disk later than the memory they were taken from;
a crash may fall before or after any write; a refused write makes `Promise.all`
reject while other nodes go on; a watchdog abandons executors that are still at
work; an undone side effect cannot be told from a done one; a provider answers
after its call is over; a process tree does not die when it is told to; an
installer dies between two renames. `PROJECT.json` lists the hazards, each at its
line, with the properties that watch it.

**What makes each component correct.** The scheduler never repeats a side effect
on its own, never acts below an unapproved gate, loses no tokens or completions,
isolates failed branches, completes only whole graphs, and always ends. A fan-out
completes only when every item has succeeded, tells siblings of a failure to
stop, and loses no slot of the limiter. The repair loop is capped over the whole
life of a run and pairs a candidate only with a verdict on it. A valid graph is one
the scheduler can be given: ordered, gated, within its budgets; every plan is
valid. No process starts without an authorization in time, and a stopped call
leaves none behind. A working bundle is never lost, a server knows whether it is
the installed one, and its table drops the oldest ended jobs only.

## 2. The models

### GraphRuntime

One invocation after another of one run. `phase` is where the coroutine of
`runGraph` is, `pc[n]` where the coroutine of node `n` is. An action is what the
code does between two awaits. A write is queued (`events`, `checkpoints`) with the
snapshot taken at the call, reaches the disk in order (`EventWritten`,
`CheckpointWritten`), may be refused (`EventRefused`, `CheckpointRefused`), and
only then lets its caller go on. `Crash` empties everything but `disk`.

- `Start`, `Resume`: the checks on the checkpoint, restoration, the first event
  and save (`Restored`, `Kept`, `Rebranded` follow lines 613-677).
- `Dispatch`, `StartLogged`, `Ready`, `DeadlinePassed`, `PassGate`, `StopAtGate`,
  `RunLocally`, `FailBeforeExecution`, `Launch`, `Return`, `Raise`, `Watchdog`,
  `EndLogged`, `EndSaved`, `CompletionRefused`: the callback of a node.
- `BatchDone`, `Skip`, `Block`, `Finish`, `EndingLogged`, ...: the main coroutine.
- `ReconcileCompleted`, `ReconcileNotApplied`: the operator, when no process is at
  work.

Two observers that the code does not have: `attempts[n]` counts executions of a
side-effecting node that nobody has declared void, and `live[n]` says whether the
last executor is still at work, known to the run or abandoned by it.

### FanOut

One batch while its executors run. Each worker of each map has a `pc`; the
limiter is `active` and `waiting`. A released slot goes back at once, while the
waiter it wakes counts itself only when its own continuation runs (`Wake`), as in
lines 274-285. Continuations run in any order, except that a woken waiter goes on
before the worker that woke it (its promise was resolved first), and a node starts
only when no continuation is left, since it starts after a file write.

### MapContract

What a `parallel_map` promises about its items, without workers, limiter or signals:
items are taken in order, the first ones at once and each further one when another is
settled, and none after the first failure; an item is called once; from the first
failure on every call at work is informed of it; and a map ends complete, or failed
with nothing in hand. `FanOut` implements it (`Contract`, `KeepsTheContract`): `Stages`
reads the state of an item off the worker that has it and the settlements, `Known`
are the items whose executors have an aborted signal. A map may fail without a reason:
`executeNode` asks whether `firstFailure` is `undefined` (line 471), so a map whose first
failure is an executor that throws `undefined` (the verdict `"void"`) is aborted like any
other and then completed, with nothing in the place of what failed. The contract allows
that (`excused`), and `Unexplained` are those maps.

### RepairLoop

The phase after scheduling, where writes follow one another, so they are atomic.
The audit file is kept as numbered lines to see what a resume does to the
numbers. Candidates are numbered; `judged` collects what verifiers really said,
`calls` how many repairs were launched. A policy that is not enabled may name a
candidate that does not exist, since the validator looks at enabled ones only (`Named`).

### EffectLedger

What a run promises about its side effects, whatever implements it: an effect is
entered in a book before it is tried, tried once per entry, and struck out only by
the operator. `GraphRuntime` implements it (`Ledger`, `EffectsFollowTheLedger`): the
checkpoint on the disk, read per side-effecting node, is the book, and `attempts`
are the acts. A write of a checkpoint is `Write` or a stutter, an execution is
`Act`, `ReconcileNotApplied` is `Void`.

### RunRecord

What the checkpoints of a run tell one after another, seen by somebody who reads
nothing else: an execution of the graph in the order of its dependencies. A node is
shown running once its dependencies are completed, and done only after it was shown
running; it is skipped only under a failed or skipped dependency; tokens never shrink;
`completed` and `needs_confirmation` are true of the nodes beside them. An ending
stands until the run is opened again, which needs that no side effect is in doubt
and takes back nodes that are not completed (`Open`). After a refused write two things
more may happen, and nothing else: a completion is taken back (`May`), and nodes
outlast the end of their run (`Progress`). `GraphRuntime` implements it (`Record`,
`CheckpointsTellTheRun`), the record being what is on `disk`.

### GraphSpec, Planner, Validator, Evaluation

Graphs are data here. `GraphSpec` has the ranks and kinds that planner and validator
share. `Planner` is `planGraph` as operators on the features of a prompt.
`Validator` has the shape check and the rules as operators that yield error codes;
the topological sort is a state machine (`BeginSort`, one `SortStep` per iteration,
`Judge`), because the promises about it hold at every iteration. Its indegrees are
kept as the edges that are still open. `Evaluation` composes both and submits every
plan, every spoiled plan of the evaluation suite and of the validator's tests, and
graphs drafted by hand. The reference definitions are of another kind than the
code: a cycle is a *knot* (a set of ids that wait for one another), gates and unsafe
ancestors are judged by the histories a run can have, depth by its batches.

### AgentCall

One call of an agent from `invokeExecutor` through `SecurityGatedExecutor` to the
process tree of `spawnCapture`; several calls share the provider, whose module is
loaded once. `gate[c]` is where the gate is, `answer[c]` what its race came to,
`child[c]`, `helpers[c]`, `strays[c]` and `cleanup[c]` are the tree and its
termination, `outcome[c]` what the caller has been told. Time is "the deadline has
passed or not", the same deadline for all three timers. The helpers of a tree, which a
cleanup finds, are one flag, and so are its strays, which it does not: on Windows
`taskkill /T` and the script after it go from parent to child, and a process whose own
parent has ended is not reached from the root. On POSIX a helper is supposed to stay in
the process group it is born into (one that calls `setsid` escapes the code, too).
Process ids are not reused.

### GuardedCall

What an execution of an agent promises its caller, without gate, timers, signals or
platforms: leave to start a process is asked for (or needs not be), decided once and
final; a process is started at most once, with leave, before the deadline and while the
caller waits; the caller is told once how the call ended, and that is true of the
process at that moment (`Truth`): a call that succeeded had not been aborted, a stopped
one is dead, an abandoned one admits that helpers may be left; and a dead process stays
dead. "Dead" means that nothing is left that a cleanup would find; it says nothing of strays. `AgentCall` implements it (`Guard`, `CallsAreGuarded`): `Leaves`, `Processes` and
`Verdicts` are what gate, tree and cleanup look like from there.

### Installer, PluginHost

`Installer` has one action per step of an installer: the lock, staging, two renames,
the verification, the removal of what failed, the return of what was put aside, the
removal of the old bundle part by part, and the two `finally`s. Every rename and
removal may be refused, every step may be the last (`Crash`). A bundle is its
build and the parts that are left of it. What a build is stands in `made`, which is
chosen at the start and never changes: the version its manifest declares and the version
its code reports; for any other fault the verification may fail too. Nothing
keeps two builds from having one version (reinstalling a version is a documented use),
nor a manifest from declaring another version than the code reports. `PluginHost`
adds a host: it reads the configuration (`ReadConfiguration`), starts the server
(`Launch`, from whatever is there by then), and may stop it at any time. The server
has the job table, a set of jobs each with its id; a job ends at a millisecond of
`clock`, and `Evicted` is what the loop of `pruneCompletedJobs` deletes.

### Correspondences and abstractions

Prompts, outputs and attribution have no content. Elapsed time is "the deadline
has passed or not". Tokens are input plus output tokens, small numbers. The
rename of a checkpoint is atomic, as its write is to a temporary file first. In
`GraphRuntime` a map is one execution that may cost tokens when it fails; `FanOut`
opens it up. One run at a time is at work on a run id: nothing in the code locks
the files, and no document promises more. Validated graphs are assumed:
`GraphAssumption`, `KindAssumption` and `BudgetAssumption` of `GraphRuntime` are what
`validateGraph` guarantees (dependencies that exist, their transitive closure, an
order of all ids in which they come first, one kind per id, budgets that are
numbers). `AssumptionsMet` of `Validator` restates them for the graph, the ancestors and the
order that the validator computes. It is part of `ValidMeansRunnable` (beside gates,
preflight and depth), which is checked in `evaluation` and proved for graphs of any
size, so the theorems about the scheduler hold of every graph the validator admits.

## 3. What is checked

| run | instance | what it shows |
|---|---|---|
| `release` | a fan-out, a write beside it, a gate, a deployment, a reduction; 3 invocations, 1 crash | types; no side effect twice, each on record before it happens; gates bind every invocation; pauses are clean; completed means whole; a failure costs its descendants only; the scheduler is never stuck; the final checkpoint is the last write; the run implements the ledger of effects and the record of an execution, which loses neither tokens nor completions |
| `refused` | a review, a write, a gate, a deployment; 1 refused write, 1 crash, 2 invocations; fairness | an abandoned attempt is not declared void although `Promise.all` rejects early; the record is kept although writes are missing from it; every invocation ends |
| `fan_out` | three items (the third undefined) and two, two workers each, one slot; fairness | no slot is lost, siblings are told, the workers keep the contract of their maps, maps end |
| `repair` | 2 rounds, budget 2, answers of 0 to 2 tokens, 2 resumes, 1 crash, 1 refused write; fairness | the cap, the record, genuine verdicts, budget and tokens, the audit, the end |
| `evaluation` | 1512 requests, which make every plan there is; all graphs of three nodes over four types of node, every choice of dependencies, two ids alike; the spoiled plans of evaluation and tests | the order respects dependencies at every iteration; cycles are found exactly; valid graphs are runnable and meet the scheduler's assumptions; plans are accepted, cases refused |
| `agent_call` | two calls, one provider, both platforms, every environment; fairness | nothing starts unauthorized or too late; the calls keep what a guarded call promises; trees that are told to end are reaped |
| `plugin_host` | two installers over a shipped bundle, builds of one or of two versions, 1 death, 1 refused operation; a host; a table of two jobs, three starts, two instants | a working bundle is never lost; a server that says it is current never runs the code of another verified bundle; only the oldest ended jobs are dropped, and only to make room |

Five runs end in a counterexample, each against a sentence of the documents
(quoted in `findings` of `PROJECT.json`):

| run | what the code does |
|---|---|
| `overlap_after_crash` | a crash between a timeout and its checkpoint loses the failure kind, so the attempt can be declared void without termination evidence |
| `fan_out_limit` | a worker that comes back for its next item takes the slot that a woken waiter takes as well: more executors than `maxParallel` (it needs two executions to end within one drain of the microtask queue) |
| `fan_out_usage` | tokens of an answer that breaks the output schema are not accounted for |
| `repair_audit_crash` | a resume after a crash reuses event numbers, so the audit of a completed run no longer verifies |
| `rejected_code` | a host reads the configuration before a swap and starts the server after it; the swap is rolled back, and if both bundles have one version the server runs the rejected code and says it is current |

**Bounds.** Two kinds of parallel nodes, one gate with a node above and one below,
and one fan-out with a reduction are the smallest graphs in which every branch of
the scheduler is taken. Three invocations allow a pause, a crash and a
reconciliation in one history. A budget of three with answers of one or two tokens
is exceeded by two nodes of a batch together. One refused write suffices to reject
`Promise.all`; one crash falls at every instant. Three nodes are enough for a cycle
behind a node, for a gate beside a path that avoids it, and for two nodes of one id.
Two calls can disagree about everything but their provider. A second installer
starts from what a dead one left, and two versions among three builds leave every pair
of them equal or different; three starts fill a table of two and evict. In `FanOut` one slot for four
workers lets up to three wait while an item fails. The proofs below do not depend
on any of these bounds.

**Deadlock** is checked in `plugin_host` and `rejected_code` only: elsewhere a run, call
or validation that is over may stay so, and the instances stop when invocations are used
up. That nothing stops before its end is `NeverStuck`, `Terminates`, `MapsEnd`, `InvocationEnds` and `TreesReaped`.

**Fairness.** The event loop runs every callback that is due, the file system
answers (with success or refusal), timers fire once time has passed. Nothing is
assumed of executors, of the operator or of crashes: the liveness properties hold
with executors that never answer, by the watchdogs alone. In `AgentCall` the same
holds of continuations, timers and exit events, and of the cleanup commands, which
have deadlines of their own; nothing is assumed of providers, of processes, or of
the `SIGTERM` they get.

**Things the models showed that are no runs.** "Complete subprocess trees are terminated on
abort or timeout" (`docs/security-model.md`) does not hold of strays on Windows: a call
may be reported as stopped while one goes on. With a refused
write the outer catch saves `failed` while nodes of the batch still run, and their
saves replace it by `running` (so `FinalCheckpointStands` and `CompletionKept` speak of
runs without refused writes, and `RunRecord` has what else may happen after one). If a second write is refused then, that of a node that
has timed out meanwhile, the timeout is lost, and the attempt can be declared void
while it is at work; `NoOverlapUncrashed` therefore allows one refused write, which the
proof shows to be harmless. Every item of a fan-out gets the node's whole remaining time, so
a map may go on beginning items after the deadline; and a map whose first failure
was an answer does not count as timed out although a sibling's executor was given
up later. An installer that dies between its two renames leaves the target empty; the
working bundle is then in a `.backup-` directory, which no later installer looks
for, so after one more failed installation it still has to be put back by hand.
The install id alone does not say whose code a server runs: a host may read the
configuration before a swap and the code after it. What `NeverTheCodeOfAnother` says is
that this ends well if the new bundle stays, since the ids then differ; if the swap is
rolled back, the rejected code runs under the old id, and only a different version
gives it away (`rejected_code`). A job whose result nobody has
read may be dropped for a new one, as the documents say.

## 4. What is proved

For every graph, budget and number of crashes, refused writes and resumes:

| theorem | module | argument |
|---|---|---|
| `TypeInvariant` | `GraphRuntimeProofs` | induction, one step per action |
| `SideEffectsAtMostOnce`, `SideEffectsOnRecord` | `GraphRuntimeProofs` | `WriteAhead` |
| `GatesBindEachInvocation` | `SchedulerProofs` | `InOrder`, `InBatch`, `Approved` |
| `SchedulerNeverStuck`, `CompletedRunsAreWhole`, `PausedRunsAreClean`, `FailedBranchesAreIsolated` | `SchedulerProofs` | `Memory`, `Records` |
| `TokensNeverForgotten` | `CheckpointProofs` | `Ascending` |
| `RunKeepsTheLedger` | `CheckpointProofs` | `OneOrder`; every step is a step of `EffectLedger` or a stutter |
| `FinalCheckpointIsLast`, `CompletionsAreKept` | `CheckpointProofs` | `Alone`, `Growing`, while no write is refused |
| `RunTellsItsRecord` | `CheckpointProofs` | `Telling`, `Opening`, `Silenced`; every step is a step of `RunRecord` or a stutter |
| `TimeoutsNeverOverlap` | `CheckpointProofs` | `TimeoutKept`, `OneRefusal`, without a crash and with at most one refused write |
| `RepairTypes`, `RepairsAreCapped`, `RepairsAreOnRecord`, `CompletedMeansAccepted`, `OverBudgetRunsDoNotRepair`, `RepairTokensKept` | `RepairProofs` | `Behind`, `Counted`, `Judged`, `Final`, `InBudget` |
| `AuditsVerify` | `RepairProofs` | `Traced` |
| `TypeCorrect`, `DependenciesFirst`, `CyclesFound` | `ValidatorProofs` | `Tracked`, `Untied`, for submissions of any size |
| `ValidIsRunnable` | `ValidatorProofs` | ancestors are the transitive closure, places in the order are ranks, depths are batches; for submissions of any size |
| `TypeCorrect`, `NothingStartsUnauthorized`, `StoppedLeavesNothing` | `AgentCallProofs` | `Orderly`, for any number of calls |
| `CallsKeepTheGuard` | `AgentCallProofs` | `Orderly`; every step is a step of `GuardedCall` or a stutter |
| `TypeCorrect`, `SlotsAreKept`, `MapsAreWhole`, `FailuresAreTold` | `FanOutProofs` | `Counted`, `Queued`, `Accounted`, for any maps, items, teams and limit |
| `FanOutKeepsTheContract` | `FanOutProofs` | `Hands`, `Untaken`; every step is a step of `MapContract` or a stutter |
| `WorkingBundleKept` | `PluginHostProofs` | `Exclusive`, `Placed`, `Orderly`, for any number of installers |
| `CurrentIsNeverAnother` | `PluginHostProofs` | `Known`, `Superseded`, for any number of installers and any versions |
| `JobTableKept` | `PluginHostProofs` | what `Evicted` leaves, for any limit and number of jobs |

The arguments about `GraphRuntime` start from `TypeOK` and `Asleep` (no process: no coroutine and no
queued write). The assumptions are the named `ASSUME`s of the modules.

*Write ahead.* `AtMostOnce` alone is not inductive: it does not say why a resume
never finds an executed node still to do. `WriteAhead` does: before a node's
executor is called, its own save has been written, and it and every save queued
behind it show the node as running or finished, for states in memory never go back
within an invocation. So each checkpoint a crash may leave shows the node as
uncertain, which resume refuses, or as completed, which it keeps.

*Gates.* A node that has been dispatched has only completed ancestors, in memory
and in each queued or written checkpoint; a gate that is completed in memory was
passed by an approval of this invocation or admitted by the test of resume. The
delicate case is a completion that is taken back because its event was refused:
`InBatch` says that nothing below a node of the current batch has been reached.

*Tokens.* The disk, the queued saves in order and the process form an ascending
chain; a step appends to its end or drops its head.

*Outcomes.* Between two batches nothing is running, what has failed has failed as a
branch, and what is skipped has a failed ancestor (`Memory`); each save says so of
what it shows (`Records`). Of the nodes still pending the one of least rank
therefore has only dependencies that are done: if none failed or was skipped it is
runnable, else it is doomed. When the run ends, no node is pending, and which of
the three endings was taken says the rest.

*The final checkpoint.* While no write is refused, a node waits for its own save and
`Promise.all` for every node, so outside a batch at most one save is on its way, that
of `runGraph` itself (`Alone`). Completions grow along the queue for the same reason:
only a refused write takes one back (`CompletionRefused`).

*Timeouts.* An attempt that the watchdog gave up must be on record as timed out when
an operator can look. Memory remembers it (`Remembered`), and the save of the node
brings it to the disk, behind which every later save shows it too (`Due`). If that
save, or the event before it, is the refused write, `Promise.all` rejects and the
checkpoint of the failed run brings it there instead (`RunWillSave`): this needs that
the batch is still waited for, which `OneRefusal` gives. A second refused write breaks
it, and so does a crash (`overlap_after_crash`).

*Repairs.* A round is counted before it is saved and saved before its executor is
called, and the disk is never ahead of the process that resumed from it. As long as
nothing dies or is refused, the number in memory is the length of the audit, and the
last event is the one the state of the loop has just appended (`Traced`).

*Ledger.* That an effect is on record before it is tried is the write-ahead
argument again. What is missing for the refinement is that no write takes an entry
back: disk, queued saves and memory stand in one order per node (`OneOrder`), so
whichever save comes next, an entry is not lost, and none is settled that was not
entered. `Entry` reads a failed node as entered: a resume does not run it again.

*The record.* The same order, now of whole checkpoints and of every node (`Leads`,
`InTurn`), does not suffice: of two saves on their way the first may be refused, and
the second must still follow from the disk. It does, since a node that the disk shows
as pending is nowhere beyond running (`Begins`): its coroutine waits for its own save
before it goes on (`OwnStart`), and if that save is refused it never does. A resume
starts another order. Until its opening checkpoint is written the process differs from
the disk, in what the resume takes back (`Opening`); if that write is refused,
`runGraph` rejects and nothing is written any more (`Silenced`). That nodes are reached
in order, and that endings are true, is what *Gates* and *Outcomes* have shown of each
save; that an ending stands is *The final checkpoint*.

*The sort.* At every moment queue and open edges are a function of the order so far
(`Tracked`), and no knot has been entered (`Untied`). When the queue is empty, what
is left is a knot or nothing, and the order is as long as the list of nodes exactly
if nothing is left and no id occurs twice.

*Valid graphs.* `AncestorIds` and `Batches` count rounds, `Depth` looks back along the
order. Each of these recursive functions is first shown to exist and to satisfy its
equation (as an iteration, or from the sort's order); what it computes is then shown by
taking the least argument at which it would fail. A round that adds nothing is a
fixpoint, and rounds that add something are no more than the nodes; so
`AncestorIds` is closed under dependencies, and a history that holds a node holds all
its ancestors. Two such facts in turn make it the transitive closure that
`GraphRuntime` assumes. A node of depth `k` is one that batch `k` adds, so depth and number of
batches agree.

*Agent calls.* A call in the gate has no process yet; its answer is the first of the
race; a cleanup that has ended has killed root and helpers; and a call is told
"stopped" by a cleanup only. So `StoppedLeavesNothing` says that nothing is left that can
be found, and on POSIX nothing of the process group. A step of one call changes what is seen of that call only
(`SeenAlone`), so the refinement is shown call by call. That an aborted call never
succeeds needs that no process of an aborted call lives without being cleaned up,
also one that was started under the abort (`Orderly`).

*Fan-out.* The limiter's count is the number of workers with a slot, and whoever is
in its queue waits there once; so a release that wakes the first waiter moves one
worker from the queue to the woken, and the sum in `NoSlotLost` stays. That a
completed map is whole needs where each item is: until the map has failed, an item
that was taken has succeeded or is with a worker, and a worker leaves only when no
item is left (`Accounted`). It rests on an execution being judged before its worker
goes on (`Judged`): without a verdict an item would be dropped without a failure.

*The contract of the maps.* The steps of the code are about workers, those of the
contract about items. `Hands` connects them: two workers of a map never hold the same
item, and an item is in a worker's hand exactly while it is neither untaken nor settled
(`Distinct`, `Held`, `Untaken`). So a step of a worker changes one item, except when it
settles one and takes the next. `Caused` says that a map that has failed has an item
that failed it, so "none is taken after a failure" can be read off the items.

*Bundles.* An installer at work holds the lock, so directories change under nobody
else. What is activated is not yet verified, so removing it loses nothing; what was
put aside is discarded only over a verified target, and comes back only to an empty
one. The second part of the property needs where the working bundle is at each step
when nothing has failed.

*Whose code runs.* A server that says it is current was configured from the bundle in the
target, so what has to be shown is that its code is not that of another verified one.
If it was, the bundle it was configured from has been replaced for good: it is not in
the target, and no installer at work can put it back (`Superseded`, `Gone`), for what
comes back was put aside by an installer whose own bundle is not verified, and a build
that has not been activated yet is in nobody's configuration (`Known`).

*Jobs.* `Evicted` takes the oldest of the ended jobs, as many as are too many; so what
stays is not older, and a full table that loses none of its jobs has none that ended.

Left to TLC: liveness under fairness (`Terminates`, `MapsEnd`, `InvocationEnds`,
`TreesReaped`), which is out of the prover's reach; `PlansAccepted` and `CasesRejected`,
which are about finitely many plans and cases, and the run enumerates them all.
`CompletedIsAccepted` of `RepairLoop` is proved and not part of a run; neither are
`UsageKept` and `CompletionKept` of `GraphRuntime` and `WholeOrFailed` of `FanOut`,
which the abstract specifications contain, and `StoppedIsDead` of `AgentCall`, which
`GuardedCall` contains but for strays.

## 5. Not modelled

- Text: the prompt compiler, JSON Schema checking, command lines and answers of the
  agents, rendering of reports, HTTP and command-line parsing. They keep no state,
  and their correctness is about strings.
- The remote and local providers of the prompt refiner: one call each, with a
  fallback to the deterministic brief.
- Reading the files for grading, reports and the doctor: views without state. What
  the grader looks for in an audit is `AuditVerifies`.
- Benchmarks, demos, repository checks, plugin manifests and hooks.
- Several processes at work on one run, several installers with a lock that an
  operator removes while one is at work, and process groups that are left: nothing in
  the code handles them.
