---------------------------- MODULE RuntimeConfig ----------------------------
(***************************************************************************)
(* RuntimeConfigManager (src/mcp_proxy/runtime.py) with what it drives:    *)
(* UpstreamManager.apply_diff, restart and stop (proxy/manager.py), the    *)
(* replacement of the telemetry pipeline, the config file watcher and the  *)
(* shutdown handler of server.py.                                          *)
(*                                                                         *)
(* A transport is known by its upstream and by the apply() call that made  *)
(* it, and is modelled by how many sets of resources (processes, clients)  *)
(* it has running: start() adds one, whether or not there is one, and      *)
(* stop() ends the last.  TelemetryPipeline says why stop() of a pipeline  *)
(* may raise CancelledError; StdioTransport why stop() of a transport may  *)
(* fail, or swallow a cancellation.  An action is the code between two     *)
(* awaits.                                                                 *)
(***************************************************************************)
EXTENDS Naturals, Sequences, SequencesExt, FiniteSets

CONSTANTS Names,       \* names of upstreams
          Candidates,  \* configurations
          Malformed,   \* those validate_config_payload rejects
          Unexpanded,  \* those that are valid only with ${env:...} expanded
          Initial,     \* the configuration at the start
          Calls,       \* calls of RuntimeConfigManager.apply
          Watched,     \* those among them made by _watch_loop
          Restarts,    \* calls of admin.restart_upstream
          Faults       \* what may go wrong

Boot == "boot"
Absent == "absent"
Makers == Calls \cup {Boot}
Instances == Names \X Makers

\* A configuration says which settings each upstream has, if it is there, and
\* which the telemetry has.
ASSUME ConfigAssumption ==
    /\ IsFiniteSet(Names) /\ IsFiniteSet(Calls) /\ IsFiniteSet(Restarts)
    /\ Calls \cap {Boot, Absent} = {}
    /\ \A c \in Candidates :
          DOMAIN c = {"upstreams", "telemetry"} /\ c.upstreams = [n \in Names |-> c.upstreams[n]]
    /\ Malformed \subseteq Candidates /\ Unexpanded \subseteq Candidates
    /\ Initial \in Candidates \ (Malformed \cup Unexpanded)
    /\ Watched \subseteq Calls
    /\ Faults \subseteq {"start", "stop", "restore", "cancel", "flush", "swallow"}

VARIABLES config,     \* RuntimeConfigManager.config, and raw_config with it
          upstreams,  \* UpstreamManager._config_upstreams
          live,       \* UpstreamManager._upstreams: who made each transport
          running,    \* sets of resources each transport has running
          candidate,  \* "candidate" of each apply()
          pc,         \* where each apply() stands, then how it ended
          line,       \* the calls at RuntimeConfigManager._lock; the first has it
          left,       \* upstreams the loop of the first has yet to deal with
          started,    \* its started_new
          stopped,    \* its stopped_previous
          telemetry,  \* RuntimeConfigManager.telemetry: who made the pipeline
          backup,     \* backup_telemetry of the first
          flush,      \* state of the pipeline each call made
          worn,       \* history: a call gave up after it had stopped the pipeline
          restart,    \* where each restart stands
          target,     \* the transport it restarts
          down,       \* where the shutdown handler stands
          leaving,    \* transports the shutdown has yet to stop
          mishaps     \* history: what has gone wrong with the transports

store == <<config, upstreams, live>>
loop == <<left, started, stopped>>
pipeline == <<telemetry, backup, flush, worn>>
restarting == <<restart, target>>
closing == <<down, leaving>>
vars == <<store, running, candidate, pc, line, loop, pipeline, restarting, closing, mishaps>>

AtWork == {"telemetry", "sink", "starting", "stopping", "undoing", "restoring"}
Ended == {"rejected", "dry_run", "applied", "rolled_back", "cancelled", "raised"}
InProgress(a) == pc[a] \in AtWork \cup {"waiting"}
Restarting(r) == restart[r] \in {"stopping", "starting"}

TypeOK ==
    /\ config \in Candidates
    /\ upstreams \in {c.upstreams : c \in Candidates}
    /\ live \in [Names -> Makers \cup {Absent}]
    /\ running \in [Instances -> 0 .. 1 + Cardinality(Calls) + Cardinality(Restarts)]
    /\ candidate \in [Makers -> Candidates]
    /\ pc \in [Calls -> {"idle", "waiting"} \cup AtWork \cup Ended]
    /\ line \in Seq(Calls)
    /\ \A x \in {left, started, stopped} : x \subseteq Names
    /\ {telemetry, backup} \subseteq Makers
    /\ flush \in [Makers -> {"absent", "running", "stopped", "cancelled"}]
    /\ worn \in BOOLEAN
    /\ restart \in [Restarts -> {"idle", "stopping", "starting", "done", "missing", "failed"}]
    /\ target \in [Restarts -> Instances \cup {<<>>}]
    /\ down \in {"up", "cancelling", "joining", "stopping", "over", "failed"}
    /\ leaving \subseteq Instances
    /\ mishaps \subseteq {"stop", "restore", "cancel", "overlap", "swallow"}

Configured(u) == {n \in Names : u[n] # Absent}

Init ==
    /\ config = Initial
    /\ upstreams = Initial.upstreams
    /\ live = [n \in Names |-> IF n \in Configured(upstreams) THEN Boot ELSE Absent]
    /\ running = [i \in Instances |-> IF live[i[1]] = Boot /\ i[2] = Boot THEN 1 ELSE 0]
    /\ candidate = [m \in Makers |-> Initial]
    /\ pc = [a \in Calls |-> "idle"]
    /\ line = <<>>
    /\ left = {} /\ started = {} /\ stopped = {}
    /\ telemetry = Boot /\ backup = Boot
    /\ flush = [m \in Makers |-> IF m = Boot THEN "running" ELSE "absent"]
    /\ worn = FALSE
    /\ restart = [r \in Restarts |-> "idle"]
    /\ target = [r \in Restarts |-> <<>>]
    /\ down = "up"
    /\ leaving = {}
    /\ mishaps = {}

------------------------------------------------------------------------------
(* Transports.  One that is cancelled or fails may have done its work or not. *)

Up(i) == [running EXCEPT ![i] = @ + 1]

Down(i) == [running EXCEPT ![i] = IF @ = 0 THEN 0 ELSE @ - 1]

Starts(i) == running' = Up(i)
Stops(i) == running' = Down(i)
StopFails(i) == "stop" \in Faults /\ running' \in {running, Down(i)}
Note(what) == mishaps' = mishaps \cup {what}

------------------------------------------------------------------------------
(* apply_diff: the difference is that of the manager's own configuration.  *)

Wanted(a) == candidate[a].upstreams
ToRemove(a) == Configured(upstreams) \ Configured(Wanted(a))
ToAdd(a) == Configured(Wanted(a)) \ Configured(upstreams)
ToRestart(a) ==
    {n \in Configured(upstreams) \cap Configured(Wanted(a)) : upstreams[n] # Wanted(a)[n]}

\* apply() is over and gives the lock up.
Finish(a, how) ==
    /\ pc' = [pc EXCEPT ![a] = how]
    /\ line' = Tail(line)
    /\ left' = {}

\* Mutant: "self.config = next_config" is missing.
Unregistered(a) == UNCHANGED config

Registered(a) == config' = candidate[a]

\* Nothing suspends between the manager's commit and that of apply().
Commit(a) ==
    /\ live' = [n \in Names |-> CASE n \in ToAdd(a) \cup ToRestart(a) -> a
                                  [] n \in ToRemove(a) -> Absent
                                  [] OTHER -> live[n]]
    /\ upstreams' = Wanted(a)
    /\ Registered(a)
    /\ Finish(a, "applied")

\* A loop over the names in s, at the place w; nothing else changes.
LoopOver(a, w, s) ==
    /\ pc' = [pc EXCEPT ![a] = w]
    /\ left' = s
    /\ UNCHANGED <<store, line>>

StopPrevious(a) ==
    LET old == ToRemove(a) \cup ToRestart(a)
    IN  IF old = {} THEN Commit(a) ELSE LoopOver(a, "stopping", old)

\* Mutant: the old transports are stopped before the new ones are started.
StopFirst(a) == StopPrevious(a)

StartNew(a) ==
    LET new == ToAdd(a) \cup ToRestart(a)
    IN  IF new = {} THEN StopPrevious(a) ELSE LoopOver(a, "starting", new)

\* Mutant: the new pipeline stays.
KeepPipeline == UNCHANGED telemetry

PutBack == telemetry' = backup

ReplacesTelemetry(a) == candidate[a].telemetry # config.telemetry

\* The except clause of apply(): the old pipeline is put back as it is, stopped.
RolledBack(a) ==
    /\ Finish(a, "rolled_back")
    /\ PutBack
    /\ worn' = (worn \/ ReplacesTelemetry(a))
    /\ UNCHANGED store

\* Mutant: what was stopped is not started again.
RestoreNothing(a, s) == RolledBack(a)

\* The except clause of apply_diff: stop what was started, then start what was
\* stopped.
RestorePrevious(a, s) ==
    IF s = {} THEN RolledBack(a) ELSE LoopOver(a, "restoring", s) /\ UNCHANGED <<telemetry, worn>>

\* Mutant: what was started is not stopped again.
UndoNothing(a, new, old) == RestorePrevious(a, old)

RollBack(a, new, old) ==
    IF new = {} THEN RestorePrevious(a, old)
                ELSE LoopOver(a, "undoing", new) /\ UNCHANGED <<telemetry, worn>>

\* The call at work; while the shutdown's cancel() is on its way to the watcher
\* its call does not go on.
Works(a, w) == pc[a] = w /\ ~(a \in Watched /\ down = "cancelling")

\* Additions and removals come before the replacements.
NextUp(n, first) == n \in left /\ (n \in first \/ left \cap first = {})

Start(a, n) ==
    /\ Works(a, "starting") /\ NextUp(n, ToAdd(a))
    /\ Starts(<<n, a>>)
    /\ started' = started \cup {n}
    /\ IF left = {n} THEN StopPrevious(a) ELSE LoopOver(a, "starting", left \ {n})
    /\ UNCHANGED <<candidate, stopped, pipeline, restarting, closing, mishaps>>

\* The type is unknown, the settings are not accepted, or start() raises.
StartRaises(a) ==
    /\ Works(a, "starting")
    /\ "start" \in Faults
    /\ RollBack(a, started, {})
    /\ UNCHANGED <<running, candidate, started, stopped, backup, flush, restarting, closing, mishaps>>

Stop(a, n) ==
    /\ Works(a, "stopping") /\ NextUp(n, ToRemove(a))
    /\ Stops(<<n, live[n]>>)
    /\ stopped' = stopped \cup {n}
    /\ IF left = {n} THEN Commit(a) ELSE LoopOver(a, "stopping", left \ {n})
    /\ UNCHANGED <<candidate, started, pipeline, restarting, closing, mishaps>>

StopRaises(a, n) ==
    /\ Works(a, "stopping") /\ NextUp(n, ToRemove(a))
    /\ StopFails(<<n, live[n]>>)
    /\ Note("stop")
    /\ stopped' = stopped \cup {n}
    /\ RollBack(a, started, stopped')
    /\ UNCHANGED <<candidate, started, backup, flush, restarting, closing>>

\* What stop() and start() raise here is suppressed.
Undo(a, n) ==
    /\ Works(a, "undoing") /\ n \in left
    /\ \/ Stops(<<n, a>>) /\ UNCHANGED mishaps
       \/ StopFails(<<n, a>>) /\ Note("stop")
    /\ RollBack(a, left \ {n}, stopped)
    /\ UNCHANGED <<candidate, started, stopped, backup, flush, restarting, closing>>

Restore(a, n) ==
    /\ Works(a, "restoring") /\ n \in left
    /\ \/ Starts(<<n, live[n]>>) /\ UNCHANGED mishaps
       \/ "restore" \in Faults /\ Note("restore") /\ UNCHANGED running
    /\ RestorePrevious(a, left \ {n})
    /\ UNCHANGED <<candidate, started, stopped, backup, flush, restarting, closing>>

------------------------------------------------------------------------------
(* apply *)

\* The watcher makes one call after another while its task is alive.
WatcherAlive == \A a \in Watched : pc[a] \notin {"cancelled", "raised"}
WatcherFree ==
    /\ down \in {"up", "joining"}
    /\ WatcherAlive
    /\ \A a \in Watched : ~InProgress(a)

\* Validation has no await.  What it accepts may still raise when it is
\* validated again, without ${env:...} expanded.
Apply(a) ==
    /\ pc[a] = "idle"
    /\ IF a \in Watched THEN WatcherFree ELSE down = "up"
    /\ \E c \in Candidates :
        /\ candidate' = [candidate EXCEPT ![a] = c]
        /\ \/ c \in Malformed
              /\ pc' = [pc EXCEPT ![a] = "rejected"] /\ UNCHANGED <<line, mishaps>>
           \/ c \in Unexpanded
              /\ pc' = [pc EXCEPT ![a] = "raised"] /\ UNCHANGED <<line, mishaps>>
           \/ c \notin Malformed \cup Unexpanded /\ a \notin Watched
              /\ pc' = [pc EXCEPT ![a] = "dry_run"] /\ UNCHANGED <<line, mishaps>>
           \/ c \notin Malformed \cup Unexpanded
              /\ pc' = [pc EXCEPT ![a] = "waiting"]
              /\ line' = Append(line, a)
              /\ IF \E r \in Restarts : Restarting(r) THEN Note("overlap") ELSE UNCHANGED mishaps
    /\ UNCHANGED <<store, running, loop, pipeline, restarting, closing>>

\* The lock is fair.
Acquire(a) ==
    /\ Works(a, "waiting")
    /\ Head(line) = a
    /\ started' = {} /\ stopped' = {}
    /\ IF ReplacesTelemetry(a) THEN LoopOver(a, "telemetry", {}) ELSE StartNew(a)
    /\ backup' = telemetry
    /\ UNCHANGED <<running, candidate, telemetry, flush, worn, restarting, closing, mishaps>>

\* telemetry.stop() returns: the flush task had ended, or swallowed the cancel.
TelemetryStopped(a) ==
    /\ Works(a, "telemetry")
    /\ flush[telemetry] \in {"running", "stopped"}
    /\ flush' = [flush EXCEPT ![telemetry] = "stopped"]
    /\ LoopOver(a, "sink", {})
    /\ UNCHANGED <<running, candidate, started, stopped, telemetry, backup, worn, restarting,
                   closing, mishaps>>

\* It raises CancelledError, which is no Exception: apply() raises it too.
TelemetryRaises(a) ==
    /\ Works(a, "telemetry")
    /\ "flush" \in Faults
    /\ flush[telemetry] \in {"running", "cancelled"}
    /\ flush' = [flush EXCEPT ![telemetry] = "cancelled"]
    /\ worn' = TRUE
    /\ Finish(a, "cancelled")
    /\ UNCHANGED <<store, running, candidate, started, stopped, telemetry, backup, restarting,
                   closing, mishaps>>

\* The new pipeline starts.
SinkStarted(a) ==
    /\ Works(a, "sink")
    /\ telemetry' = a
    /\ flush' = [flush EXCEPT ![a] = "running"]
    /\ StartNew(a)
    /\ UNCHANGED <<running, candidate, started, stopped, backup, worn, restarting, closing, mishaps>>

\* The sink is unknown or does not start.
SinkRaises(a) ==
    /\ Works(a, "sink")
    /\ "start" \in Faults
    /\ RollBack(a, {}, {})
    /\ UNCHANGED <<running, candidate, started, stopped, backup, flush, restarting, closing, mishaps>>

\* Mutant: the lock is not given up by a call that is cancelled.
KeepPlace(a) == UNCHANGED line

LeaveLine(a) == \E i \in DOMAIN line : line[i] = a /\ line' = RemoveAt(line, i)

\* The caller is cancelled: an admin call by the request timeout, the watcher by
\* the shutdown.  No except clause sees it; the lock is given up.
Cancelled(a) ==
    /\ InProgress(a)
    /\ IF a \in Watched THEN down = "cancelling" ELSE "cancel" \in Faults
    /\ pc' = [pc EXCEPT ![a] = "cancelled"]
    /\ LeaveLine(a)
    /\ left' = IF pc[a] \in AtWork THEN {} ELSE left
    /\ IF pc[a] = "telemetry" /\ flush[telemetry] = "running"
         THEN flush' = [flush EXCEPT ![telemetry] = "cancelled"] ELSE UNCHANGED flush
    /\ worn' = (worn \/ pc[a] \in {"telemetry", "sink"})
    /\ IF pc[a] \in {"starting", "stopping", "undoing", "restoring"}
         THEN /\ Note("cancel")
              /\ \E n \in left : running' \in {running,
                     CASE pc[a] = "starting" -> Up(<<n, a>>)
                       [] pc[a] = "undoing" -> Down(<<n, a>>)
                       [] pc[a] = "stopping" -> Down(<<n, live[n]>>)
                       [] pc[a] = "restoring" -> Up(<<n, live[n]>>)}
         ELSE UNCHANGED <<running, mishaps>>
    /\ UNCHANGED <<store, candidate, started, stopped, telemetry, backup, restarting, closing>>

\* Mutant: apply() catches BaseException and answers.
SwallowedAnywhere(a) ==
    /\ a \in Watched /\ InProgress(a)
    /\ down = "cancelling"
    /\ down' = "joining"
    /\ UNCHANGED <<store, running, candidate, pc, line, loop, pipeline, restarting, leaving, mishaps>>

\* stop() of a stdio transport suppresses the CancelledError while it waits for
\* its reader, and a flush task that is waited for may keep it and end as it was
\* asked to: the cancellation is lost and the call goes on.
Swallowed(a) ==
    /\ "swallow" \in Faults
    /\ a \in Watched
    /\ pc[a] \in {"stopping", "undoing"} \/ (pc[a] = "telemetry" /\ flush[telemetry] = "running")
    /\ down = "cancelling"
    /\ down' = "joining"
    /\ Note("swallow")
    /\ UNCHANGED <<store, running, candidate, pc, line, loop, pipeline, restarting, leaving>>

------------------------------------------------------------------------------
(* UpstreamManager.restart, which does not take the lock *)

Restart(r) ==
    /\ restart[r] = "idle"
    /\ down = "up"
    /\ \E n \in Names :
        IF live[n] = Absent
          THEN restart' = [restart EXCEPT ![r] = "missing"] /\ UNCHANGED target
          ELSE /\ restart' = [restart EXCEPT ![r] = "stopping"]
               /\ target' = [target EXCEPT ![r] = <<n, live[n]>>]
    /\ IF line # <<>> \/ \E s \in Restarts : Restarting(s) THEN Note("overlap") ELSE UNCHANGED mishaps
    /\ UNCHANGED <<store, running, candidate, pc, line, loop, pipeline, closing>>

RestartStops(r) ==
    /\ restart[r] = "stopping"
    /\ Stops(target[r])
    /\ restart' = [restart EXCEPT ![r] = "starting"]
    /\ UNCHANGED <<store, candidate, pc, line, loop, pipeline, target, closing, mishaps>>

RestartStarts(r) ==
    /\ restart[r] = "starting"
    /\ Starts(target[r])
    /\ restart' = [restart EXCEPT ![r] = "done"]
    /\ UNCHANGED <<store, candidate, pc, line, loop, pipeline, target, closing, mishaps>>

\* stop() or start() raises, or the call is cancelled by the request timeout.
RestartFails(r) ==
    /\ "restore" \in Faults
    /\ \/ restart[r] = "stopping" /\ running' \in {running, Down(target[r])}
       \/ restart[r] = "starting" /\ running' \in {running, Up(target[r])}
    /\ restart' = [restart EXCEPT ![r] = "failed"]
    /\ Note("restore")
    /\ UNCHANGED <<store, candidate, pc, line, loop, pipeline, target, closing>>

------------------------------------------------------------------------------
(* on_shutdown: the server has seen the admin calls to their end. *)

\* _watch_task.cancel()
Shutdown ==
    /\ down = "up"
    /\ \A a \in Calls \ Watched : ~InProgress(a)
    /\ \A r \in Restarts : ~Restarting(r)
    /\ down' = "cancelling"
    /\ UNCHANGED <<store, running, candidate, pc, line, loop, pipeline, restarting, leaving, mishaps>>

\* The transports get() hands out.
InTable == {i \in Instances : live[i[1]] = i[2]}

\* Mutant: the upstreams of the start.
FromStart == {i \in Instances : Initial.upstreams[i[1]] # Absent /\ i[2] = Boot}

ToStop == InTable

\* "await self._watch_task": only a CancelledError is suppressed.  The upstreams
\* are those of the manager at this moment.
WatcherEnded ==
    /\ \/ down = "cancelling" /\ \A a \in Watched : ~InProgress(a)
       \/ down = "joining" /\ ~WatcherAlive
    /\ IF \E a \in Watched : pc[a] = "raised"
         THEN down' = "failed" /\ UNCHANGED leaving
         ELSE /\ down' = "stopping"
              /\ leaving' = ToStop
    /\ UNCHANGED <<store, running, candidate, pc, line, loop, pipeline, restarting, mishaps>>

ShutdownStops(i) ==
    /\ down = "stopping" /\ i \in leaving
    /\ Stops(i)
    /\ leaving' = leaving \ {i}
    /\ UNCHANGED <<store, candidate, pc, line, loop, pipeline, restarting, down, mishaps>>

\* Nothing catches what stop() raises: the upstreams left are not stopped.
ShutdownRaises(i) ==
    /\ down = "stopping" /\ i \in leaving
    /\ StopFails(i)
    /\ Note("stop")
    /\ down' = "failed"
    /\ UNCHANGED <<store, candidate, pc, line, loop, pipeline, restarting, leaving>>

\* telemetry.stop(), one way or the other.
ShutdownEnds ==
    /\ down = "stopping" /\ leaving = {}
    /\ flush' \in {[flush EXCEPT ![telemetry] = s] : s \in {"stopped", "cancelled"}}
    /\ down' = "over"
    /\ UNCHANGED <<store, running, candidate, pc, line, loop, telemetry, backup, worn, restarting,
                   leaving, mishaps>>

\* What a call does by itself once it is made.
Proceed(a) ==
    \/ Acquire(a) \/ TelemetryStopped(a) \/ TelemetryRaises(a) \/ SinkStarted(a)
    \/ SinkRaises(a) \/ StartRaises(a)
    \/ \E n \in Names : Start(a, n) \/ Stop(a, n) \/ StopRaises(a, n) \/ Undo(a, n) \/ Restore(a, n)

ProceedRestart(r) == RestartStops(r) \/ RestartStarts(r) \/ RestartFails(r)

ProceedShutdown ==
    \/ WatcherEnded \/ ShutdownEnds
    \/ \E i \in Instances : ShutdownStops(i) \/ ShutdownRaises(i)

Next ==
    \/ \E a \in Calls : Apply(a) \/ Proceed(a) \/ Cancelled(a) \/ Swallowed(a)
    \/ \E r \in Restarts : Restart(r) \/ ProceedRestart(r)
    \/ Shutdown \/ ProceedShutdown

Spec == Init /\ [][Next]_vars

\* Transports and sinks end what they are asked to do, and a cancellation of the
\* watcher is delivered; no call has to be made or cancelled.
Fairness ==
    /\ \A a \in Calls : WF_vars(Proceed(a))
    /\ \A a \in Watched : WF_vars(Cancelled(a) \/ Swallowed(a))
    /\ \A r \in Restarts : WF_vars(ProceedRestart(r))
    /\ WF_vars(ProceedShutdown)

FairSpec == Spec /\ Fairness

------------------------------------------------------------------------------
\* Routing, the manager and the transports it hands out change their
\* configuration together and only when the caller is told so, through rollbacks
\* and cancellations (runtime.py:91-110, manager.py:66-71, 84-86).
Serving(n) == IF live[n] = Absent THEN Absent ELSE candidate[live[n]].upstreams[n]
Status(a) ==
    CASE pc[a] = "idle" -> "idle"
      [] pc[a] = "applied" -> "applied"
      [] InProgress(a) -> "open"
      [] OTHER -> "refused"

Atomic ==
    INSTANCE AtomicConfig
        WITH wanted <- [a \in Calls |-> candidate[a]],
             status <- [a \in Calls |-> Status(a)],
             visible <- [routing |-> config, registered |-> upstreams,
                         serving |-> [n \in Names |-> Serving(n)]]

AtomicSpec == Atomic!Spec

\* Nothing is at work on the transports.
Quiet ==
    /\ down = "up"
    /\ \A a \in Calls : pc[a] \notin AtWork
    /\ \A r \in Restarts : ~Restarting(r)

AllLiveRun == \A i \in InTable : running[i] > 0
OnlyLiveRun == \A i \in Instances : running[i] <= IF i \in InTable THEN 1 ELSE 0

\* Whatever was applied or rolled back, and even if a stop() failed on the way,
\* every upstream in the table runs (manager.py:72-86).
LiveRuns == Quiet /\ mishaps \cap {"restore", "cancel", "overlap"} = {} => AllLiveRun

\* Nothing else runs, and nothing twice (manager.py:46-86).
NothingLeaks == Quiet /\ mishaps \subseteq {"restore"} => OnlyLiveRun

\* The pipeline in use has the settings of the configuration, after a rollback
\* as well, unless an apply() was cancelled at its transports; and it flushes, and
\* no other does, unless a call gave up once it had stopped the one in use
\* (runtime.py:99-109, 115-128).
SinkAsConfigured ==
    Quiet =>
        /\ "cancel" \notin mishaps => candidate[telemetry].telemetry = config.telemetry
        /\ ~worn => \A m \in Makers : flush[m] = "running" <=> m = telemetry

\* A shutdown leaves no transport running, those of the watcher's last call
\* included, even if one could not be restored and if a cancellation was lost on
\* the way.  Left out are a stop() that failed, a call that was cancelled at its
\* transports and a restart that met with a call (runtime.py:51-60,
\* manager.py:28-32).
AllStopped ==
    down = "over" /\ mishaps \subseteq {"restore", "swallow"} => \A i \in Instances : running[i] = 0

\* The counts stay within what calls and restarts can start, and nothing is left
\* at the end.
Consistent == TypeOK /\ AllStopped

\* An upstream is taken down only to be removed or once its replacement runs
\* (manager.py:49), except to undo a stop() that failed.
NoGap ==
    down = "up" /\ mishaps = {} /\ (\A r \in Restarts : restart[r] \in {"idle", "done", "missing"}) =>
        \A n \in Configured(live) :
            \/ running[<<n, live[n]>>] > 0
            \/ \E a \in Calls : pc[a] = "stopping" /\ (n \in ToRemove(a) \/ running[<<n, a>>] > 0)

\* Every call gets the lock and ends, whatever the ones before it met with.
ApplyEnds == \A a \in Calls : pc[a] = "waiting" ~> pc[a] \in Ended

\* A shutdown gets past the watcher whatever its call is at, unless the transport
\* it was stopping kept the cancellation to itself (runtime.py:52-57).
StopsWatching == down = "cancelling" ~> "swallow" \in mishaps \/ down \notin {"cancelling", "joining"}

\* docs/Design.md:25, "applied atomically with rollback on failure": of the
\* transports.
AppliedOrRolledBack == Quiet => AllLiveRun /\ OnlyLiveRun
==============================================================================
