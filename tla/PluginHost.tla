------------------------------ MODULE PluginHost ------------------------------
(***************************************************************************)
(* A host that runs the graph engineer's MCP server out of the plugin        *)
(* directory while installers (Installer) replace it: what get_runtime_info   *)
(* says of the process, and the table of background jobs the process keeps    *)
(* in memory (mcp-server.ts).  The host reads the configuration, starts the   *)
(* server, and may end it at any time, to reload it for instance.            *)
(*                                                                         *)
(* Abstracted: graphs and results; a run of a job ends when it likes.        *)
(***************************************************************************)
EXTENDS Installer

CONSTANTS Limit, MaxStarts, MaxClock

ASSUME LimitAssumption == Limit \in Nat \ {0}

VARIABLES
  server,   \* "off", "configured" or "up"
  boot,     \* GRAPHVIGIL_INSTALL_ID of the process
  loaded,   \* the build its code was read from; Nobody if from the sources, or not yet
  jobs,     \* the values of the Map of jobs
  started,  \* jobs the process has started; it names the next one, so that ids grow
            \* with insertion
  clock     \* milliseconds the process is up

host == <<server, boot, loaded>>
table == <<jobs, started, clock>>
vars == <<installVars, host, table>>

\* GraphJob: one that is not running has completedAt; completed or failed is alike here.
Job(id) == [id |-> id, running |-> TRUE, at |-> 0]

-----------------------------------------------------------------------------
\* The host reads .mcp.json of the installed bundle...
ReadConfiguration ==
  /\ server = "off" /\ target # Absent
  /\ "config" \in target.parts
  /\ server' = "configured" /\ boot' = target.install
  /\ UNCHANGED <<installVars, loaded, table>>

\* ... or starts the server out of the sources, without an identity...
StartFromSources ==
  /\ server = "off"
  /\ server' = "up" /\ boot' = Nobody /\ loaded' = Nobody
  /\ UNCHANGED <<installVars, table>>

\* ... and node reads whatever is at the configured path by then.
Launch ==
  /\ server = "configured"
  /\ IF target # Absent /\ "runtime" \in target.parts
     THEN server' = "up" /\ loaded' = target.install /\ UNCHANGED boot
     ELSE server' = "off" /\ boot' = Nobody /\ UNCHANGED loaded
  /\ UNCHANGED <<installVars, table>>

\* The host ends the process, and the jobs with it.
Stop ==
  /\ server = "up"
  /\ server' = "off" /\ boot' = Nobody /\ loaded' = Nobody
  /\ jobs' = {} /\ started' = 0 /\ clock' = 0
  /\ UNCHANGED installVars

-----------------------------------------------------------------------------
(* The job table.                                                          *)

\* Mutant of Older: the order of insertion counts.
InsertedEarlier(i, j) == i.id < j.id

\* pruneCompletedJobs sorts by completion; equal times keep the order of insertion.
Older(i, j) == i.at < j.at \/ (i.at = j.at /\ i.id < j.id)

Ended == {job \in jobs : ~job.running}

\* The oldest ended jobs go, as many as it takes to make room for one.
Evicted ==
  {i \in Ended : Cardinality({j \in Ended : Older(j, i)}) < Cardinality(jobs) + 1 - Limit}

Pruned == jobs \ Evicted

\* start_graph: there is room after pruning, or the call fails.
StartJob ==
  /\ server = "up" /\ started < MaxStarts
  /\ IF Cardinality(Pruned) >= Limit
     THEN jobs' = Pruned /\ UNCHANGED started
     ELSE jobs' = Pruned \cup {Job(started)} /\ started' = started + 1
  /\ UNCHANGED <<installVars, host, clock>>

\* The promise of runGraph settles, one way or the other.
EndJob ==
  /\ server = "up"
  /\ \E job \in jobs :
       /\ job.running
       /\ jobs' = (jobs \ {job}) \cup {[job EXCEPT !.running = FALSE, !.at = clock]}
  /\ UNCHANGED <<installVars, host, started, clock>>

\* Time goes on.  An instant at which no job has ended is not told from the next.
Tick ==
  /\ clock < MaxClock /\ \E job \in Ended : job.at = clock
  /\ clock' = clock + 1
  /\ UNCHANGED <<installVars, host, jobs, started>>

-----------------------------------------------------------------------------
Init ==
  /\ InstallInit
  /\ server = "off" /\ boot = Nobody /\ loaded = Nobody
  /\ jobs = {} /\ started = 0 /\ clock = 0

Next ==
  \/ Install /\ UNCHANGED <<host, table>>
  \/ ReadConfiguration \/ StartFromSources \/ Launch \/ Stop
  \/ StartJob \/ EndJob \/ Tick

Spec == Init /\ [][Next]_vars

-----------------------------------------------------------------------------
(* Properties.                                                             *)

\* What get_runtime_info answers a managed process.
Status == RuntimeStatus(boot, TRUE, made[loaded].says, target)

\* "status is current after the host loads the active installation, reload_required
\* when the bundle changed": over a working bundle, a process that took configuration
\* and code from it is current, and one that is current took its configuration from
\* it and never runs the code of another bundle that was verified, an older or a
\* newer one of the same version for instance, however the host's reads, swaps,
\* deaths and rollbacks were interleaved.
NeverTheCodeOfAnother ==
  server = "up" /\ boot # Nobody /\ Proven(target) =>
    /\ boot = target.install /\ loaded = target.install => Status = "current"
    /\ Status = "current" =>
         /\ boot = target.install
         /\ loaded = target.install \/ loaded \notin verified

\* docs/interfaces.md:91-92 as it stands: a process that is current runs the code of
\* the bundle that is installed.  It may run that of a bundle that was rolled back: the
\* host read the configuration before the swap and launched the server before the
\* verification failed, and the two bundles have the same version.
CurrentRunsTheInstalled ==
  server = "up" /\ boot # Nobody /\ Proven(target) /\ Status = "current" =>
    loaded = target.install

\* "Completed jobs are evicted oldest-first when the bound is reached": a running job
\* is never dropped, nothing is dropped while there is room, an ended one only after
\* those that ended before it, and a call that is refused has dropped nothing.
JobsKept ==
  /\ [](Cardinality(Pruned) >= Limit => Pruned = jobs /\ \A job \in jobs : job.running)
  /\ [][server' = "up" =>
          \A i \in jobs :
            (\A j \in jobs' : j.id # i.id) =>
              /\ ~i.running /\ Cardinality(jobs) = Limit
              /\ \A j \in jobs' : ~j.running => j.at >= i.at]_vars
=============================================================================
