------------------------------- MODULE Lifecycle -------------------------------
(***************************************************************************)
(* The proxy from its command line to its end: build_state (cli.py), the   *)
(* plugin registry (plugins/registry.py), on_startup, on_shutdown and the  *)
(* signal handler (server.py), start and stop of the manager (manager.py)  *)
(* and the watcher of the configuration file (runtime.py).                 *)
(*                                                                         *)
(* The file is written by others at any moment; its versions are numbered, *)
(* and each has an mtime of its own.  Here apply() works for a while and   *)
(* ends; what it does on its way, the calls of the admin and the failures  *)
(* of a rollback are in RuntimeConfig.  The server library is external: it *)
(* runs on_startup, then serves, and runs on_shutdown when it stops        *)
(* serving, but not after an on_startup that raised.                       *)
(***************************************************************************)
EXTENDS Naturals, Sequences, SequencesExt, FiniteSets

CONSTANTS Contents,   \* what the file may hold
          Installed,  \* what the entry points of the installed packages may be
          MaxVersions \* bound: versions of the file

Kinds == {"good", "unexpanded", "malformed", "torn", "missing"}

\* upstreams: a sequence of name and type.  A "torn" file is no JSON, one that is
\* "unexpanded" is valid only with its ${env:...} replaced.
ASSUME LifecycleAssumption ==
    /\ \A c \in Contents :
          /\ DOMAIN c = {"kind", "upstreams", "sink"}
          /\ c.kind \in Kinds
          /\ c.upstreams \in Seq(ToSet(c.upstreams))
          /\ IsInjective([i \in DOMAIN c.upstreams |-> c.upstreams[i][1]])
    /\ MaxVersions \in Nat \ {0}

BuiltIns == {<<"upstream", "stdio">>, <<"upstream", "http">>, <<"sink", "http">>, <<"sink", "noop">>}

VARIABLES stage,     \* how far the proxy has come
          versions,  \* contents of the file, one after the other
          raw,       \* version of AppState.raw_config
          config,    \* version of RuntimeConfigManager.config
          plugins,   \* keys of the two registries
          entries,   \* entry points still to load
          left,      \* upstreams manager.start() or stop() has yet to deal with
          table,     \* names in UpstreamManager._upstreams
          running,   \* names of the transports that run
          lost,      \* history: those that a rollback could not start again
          pipeline,  \* the telemetry pipeline in use
          watch,     \* the watcher's task
          noted,     \* version of _last_mtime_ns, 0 if None
          got,       \* version the watcher has read
          gate,      \* the bridge's shutdown event: "open" until it is set
          exiting,   \* the server library has been told to stop
          since,     \* history: the version when the watcher was started
          cut        \* history: the shutdown cancelled apply()

booting == <<raw, config, plugins, entries>>
transports == <<left, table, running, lost>>
watcher == <<watch, noted, got>>
control == <<gate, exiting>>
vars == <<stage, versions, booting, transports, pipeline, watcher, control, since, cut>>

Now == Len(versions)
Content(v) == versions[v]
Names(v) == {Content(v).upstreams[i][1] : i \in DOMAIN Content(v).upstreams}
AllNames == UNION {{c.upstreams[i][1] : i \in DOMAIN c.upstreams} : c \in Contents}

\* What the file is good for: json.loads, AppConfig with ${env:...} replaced, and
\* AppConfig without.
IsJson(v) == Content(v).kind \notin {"torn", "missing"}
Valid(v) == Content(v).kind \in {"good", "unexpanded"}
ValidUnexpanded(v) == Content(v).kind = "good"

\* validate_upstream_type, validate_telemetry_sink_type
Has(kind, name) == <<kind, name>> \in plugins
Known(v) ==
    /\ \A i \in DOMAIN Content(v).upstreams : Has("upstream", Content(v).upstreams[i][2])
    /\ Has("sink", Content(v).sink)

TypeOK ==
    /\ stage \in {"reading", "loading", "registering", "booting", "starting", "serving",
                  "cancelling", "joining", "stopping", "over", "refused", "duplicate", "failed", "broken"}
    /\ versions \in Seq(Contents) /\ Now \in 1 .. MaxVersions
    /\ {raw, config, noted, got, since} \subseteq 0 .. Now
    /\ BuiltIns \subseteq plugins
    /\ left \in Seq(AllNames) /\ table \subseteq AllNames /\ running \subseteq AllNames
    /\ lost \subseteq table
    /\ stage = "starting" => table \cap ToSet(left) = {}
    /\ pipeline \in {"none", "built", "running", "stopped", "cancelled"}
    /\ watch \in {"off", "sleeping", "reading", "applying", "over", "raised"}
    /\ gate \in {"open", "closed"} /\ exiting \in BOOLEAN /\ cut \in BOOLEAN

Init ==
    /\ stage = "reading"
    /\ \E c \in Contents : versions = <<c>>
    /\ raw = 0 /\ config = 0
    /\ plugins = BuiltIns
    /\ entries \in Installed
    /\ left = <<>> /\ table = {} /\ running = {} /\ lost = {}
    /\ pipeline = "none"
    /\ watch = "off" /\ noted = 0 /\ got = 0
    /\ gate = "open" /\ exiting = FALSE
    /\ since = 0 /\ cut = FALSE

\* Somebody writes the file: all of it at once, or a part first; or removes it.
Edit ==
    /\ Now < MaxVersions
    /\ \E c \in Contents : versions' = Append(versions, c)
    /\ UNCHANGED <<stage, booting, transports, pipeline, watcher, control, since, cut>>

------------------------------------------------------------------------------
(* build_state *)

Starting == UNCHANGED <<versions, transports, watcher, control, since, cut>>

\* The file is read twice.
ReadRaw ==
    /\ stage = "reading"
    /\ IF IsJson(Now)
         THEN stage' = "loading" /\ raw' = Now
         ELSE stage' = "refused" /\ UNCHANGED raw
    /\ UNCHANGED <<config, plugins, entries, pipeline>> /\ Starting

LoadConfig ==
    /\ stage = "loading"
    /\ IF Valid(Now)
         THEN stage' = "registering" /\ config' = Now
         ELSE stage' = "refused" /\ UNCHANGED config
    /\ UNCHANGED <<raw, plugins, entries, pipeline>> /\ Starting

\* _register
Duplicate(plugin) == plugin \in plugins

\* load_entry_points allows no overrides, whoever the package belongs to.
Register ==
    /\ stage = "registering" /\ entries # <<>>
    /\ IF Duplicate(Head(entries))
         THEN stage' = "duplicate" /\ UNCHANGED plugins
         ELSE plugins' = plugins \cup {Head(entries)} /\ UNCHANGED stage
    /\ entries' = Tail(entries)
    /\ UNCHANGED <<raw, config, pipeline>> /\ Starting

\* The plugin cannot be loaded, or the sink not be made.
PluginRaises ==
    /\ stage = "registering"
    /\ stage' = "refused"
    /\ UNCHANGED <<booting, pipeline>> /\ Starting

\* The sink and its pipeline are made; then the application, and the server.
Build ==
    /\ stage = "registering" /\ entries = <<>>
    /\ IF Has("sink", Content(config).sink)
         THEN stage' = "booting" /\ pipeline' = "built"
         ELSE stage' = "refused" /\ UNCHANGED pipeline
    /\ UNCHANGED booting /\ Starting

------------------------------------------------------------------------------
(* on_startup *)

\* Both handlers are replaced; what comes before the first await follows at once.
OnStartup ==
    /\ stage = "booting"
    /\ stage' = "starting"
    /\ left' = [i \in DOMAIN Content(config).upstreams |-> Content(config).upstreams[i][1]]
    /\ UNCHANGED <<versions, booting, table, running, lost, pipeline, watcher, control, since, cut>>

Starts == stage = "starting" /\ left # <<>>
TypeOf(n) == LET u == Content(config).upstreams
             IN  u[CHOOSE i \in DOMAIN u : u[i][1] = n][2]

StartUpstream ==
    /\ Starts
    /\ Has("upstream", TypeOf(Head(left)))
    /\ running' = running \cup {Head(left)}
    /\ table' = table \cup {Head(left)}
    /\ left' = Tail(left)
    /\ UNCHANGED <<stage, versions, booting, lost, pipeline, watcher, control, since, cut>>

\* Mutant: an upstream that fails is left out.
StartWithout ==
    /\ Starts
    /\ left' = Tail(left)
    /\ UNCHANGED <<stage, versions, booting, table, running, lost, pipeline, watcher, control, since, cut>>

\* The type is unknown or start() raises: nobody stops those before it.
StartFails ==
    /\ Starts
    /\ stage' = "failed"
    /\ UNCHANGED <<versions, booting, transports, pipeline, watcher, control, since, cut>>

\* runtime.start()
StartWatcher ==
    /\ watch' = "sleeping"
    /\ noted' = IF Content(Now).kind = "missing" THEN 0 ELSE Now
    /\ since' = Now

\* Nothing suspends between telemetry.start() and the end of runtime.start().
StartRest ==
    /\ stage = "starting" /\ left = <<>>
    /\ stage' = "serving"
    /\ pipeline' = "running"
    /\ StartWatcher
    /\ UNCHANGED <<versions, booting, transports, got, control, cut>>

\* The sink does not start, or then the file cannot be looked at.
RestFails ==
    /\ stage = "starting" /\ left = <<>>
    /\ stage' = "failed"
    /\ pipeline' \in {pipeline, "running"}
    /\ UNCHANGED <<versions, booting, transports, watcher, control, since, cut>>

------------------------------------------------------------------------------
(* _watch_loop: the shutdown has not cancelled it yet, or its cancellation is lost. *)

Watching(w) == stage \in {"serving", "joining"} /\ watch = w
Watches == UNCHANGED <<stage, versions, plugins, entries, left, control, since, cut>>

\* stat(); the mtime is noted before the file is read.
Poll ==
    /\ Watching("sleeping")
    /\ Content(Now).kind # "missing" /\ noted # Now
    /\ noted' = Now
    /\ watch' = "reading"
    /\ UNCHANGED <<raw, config, table, running, lost, pipeline, got>> /\ Watches

\* stat() raises what is not FileNotFoundError.
StatFails ==
    /\ Watching("sleeping")
    /\ watch' = "raised"
    /\ UNCHANGED <<raw, config, table, running, lost, pipeline, noted, got>> /\ Watches


Unreadable == watch' = "sleeping"

\* apply() up to its first await: rejected, ValidationError, or on to the lock.
Apply ==
    watch' = IF ~Valid(Now) THEN "sleeping"
             ELSE IF ~ValidUnexpanded(Now) THEN "raised" ELSE "applying"

\* The file is read, and handed to apply() if it is JSON.
ReadFile ==
    /\ Watching("reading")
    /\ got' = Now
    /\ IF IsJson(Now) THEN Apply ELSE Unreadable
    /\ UNCHANGED <<raw, config, table, running, lost, pipeline, noted>> /\ Watches

\* Mutant: the mtime is noted once more.
SleepNoted == watch' = "sleeping" /\ noted' = Now

SleepAgain == watch' = "sleeping" /\ UNCHANGED noted

\* What an apply() of the version read changes: the sink, and the upstreams of the
\* configuration that it stops.
NewSink == Content(got).sink # Content(config).sink
Upstreams(v) == ToSet(Content(v).upstreams)
Touched == {u[1] : u \in Upstreams(config) \ Upstreams(got)}

\* An upstream that is down and not touched stays down.

Applied ==
    /\ Watching("applying")
    /\ Known(got)
    /\ raw' = got /\ config' = got
    /\ table' = Names(got)
    /\ lost' = lost \ Touched
    /\ running' = Names(got) \ lost'
    /\ pipeline' = IF NewSink THEN "running" ELSE pipeline
    /\ SleepAgain
    /\ UNCHANGED got /\ Watches

\* A version that could not be applied is not tried again.  Of the upstreams stopped
\* so far any may fail to start again, which nobody hears of.  The old pipeline
\* comes back as it is, stopped if it was to be replaced.
RolledBack ==
    /\ Watching("applying")
    /\ \E stopped \in SUBSET IF Known(got) THEN Touched ELSE {} :
       \E down \in SUBSET stopped :
          /\ lost' = (lost \ stopped) \cup down
          /\ running' = (running \cup stopped) \ down
    /\ pipeline' \in IF NewSink THEN {pipeline, "stopped"} ELSE {pipeline}
    /\ SleepAgain
    /\ UNCHANGED <<raw, config, table, got>> /\ Watches

\* CancelledError out of stop() of the pipeline that is to be replaced.
StopRaises ==
    /\ Watching("applying") /\ NewSink
    /\ pipeline' = "cancelled"
    /\ watch' = "over"
    /\ UNCHANGED <<raw, config, table, running, lost, noted, got>> /\ Watches

------------------------------------------------------------------------------
(* Signals and on_shutdown *)

\* Before on_startup the signal is the server's; then it is the proxy's, whose
\* handler tells the server nothing.
Signal ==
    /\ stage \in {"booting", "starting", "serving"}
    /\ IF stage = "booting" THEN exiting' = TRUE /\ UNCHANGED gate
                            ELSE gate' = "closed" /\ UNCHANGED exiting
    /\ UNCHANGED <<stage, versions, booting, transports, pipeline, watcher, since, cut>>

Ends == UNCHANGED <<versions, booting, exiting, since>>

\* The server stops serving; on_shutdown runs to the cancel() of the watcher.  The
\* watcher does not suspend between stat() and the first await of apply().
OnShutdown ==
    /\ stage = "serving" /\ watch # "reading"
    /\ stage' = "cancelling"
    /\ gate' = "closed"
    /\ UNCHANGED <<transports, pipeline, watcher, cut>> /\ Ends

\* Mutant: apply() keeps every cancellation to itself.
Reached == watch = "sleeping"

Reachable == watch \in {"sleeping", "applying"}

\* The cancellation arrives.  Within apply() it may leave anything half done.
Cancelled ==
    /\ stage = "cancelling" /\ Reachable
    /\ watch' = "over"
    /\ cut' = (watch = "applying")
    /\ running' \in IF cut' THEN SUBSET (running \cup Names(got)) ELSE {running}
    /\ pipeline' \in IF cut' /\ NewSink THEN {pipeline, "stopped", "cancelled"} ELSE {pipeline}
    /\ UNCHANGED <<stage, left, table, lost, noted, got, gate>> /\ Ends

\* The stop() of an upstream, or of the pipeline, waits for a task of its own and
\* takes the cancellation for that task's: apply() and the loop go on.
Swallowed ==
    /\ stage = "cancelling" /\ watch = "applying"
    /\ NewSink \/ Upstreams(got) # Upstreams(config)
    /\ stage' = "joining"
    /\ UNCHANGED <<transports, pipeline, watcher, gate, cut>> /\ Ends

\* Mutant: the watcher is not awaited.
WatcherAsked == TRUE

WatcherGone == watch \in {"over", "raised"}

\* "await self._watch_task" raises what the watcher raised, unless that is
\* CancelledError.
JoinWatcher ==
    /\ stage \in {"cancelling", "joining"} /\ WatcherGone
    /\ IF watch = "raised"
         THEN stage' = "broken" /\ UNCHANGED left
         ELSE /\ stage' = "stopping"
              /\ left' \in SetToSeqs(table)
    /\ UNCHANGED <<table, running, lost, pipeline, watcher, gate, cut>> /\ Ends

StopUpstream ==
    /\ stage = "stopping" /\ left # <<>>
    /\ running' = running \ {Head(left)}
    /\ left' = Tail(left)
    /\ UNCHANGED <<stage, table, lost, pipeline, watcher, gate, cut>> /\ Ends

\* Those after it are not stopped, and neither is the pipeline.
StopFails ==
    /\ stage = "stopping" /\ left # <<>>
    /\ stage' = "broken"
    /\ UNCHANGED <<transports, pipeline, watcher, gate, cut>> /\ Ends

StopTelemetry ==
    /\ stage = "stopping" /\ left = <<>>
    /\ stage' = "over"
    /\ pipeline' \in {"stopped", "cancelled"}
    /\ UNCHANGED <<transports, watcher, gate, cut>> /\ Ends

------------------------------------------------------------------------------
Booting == ReadRaw \/ LoadConfig \/ Register \/ PluginRaises \/ Build \/ OnStartup
           \/ StartUpstream \/ StartFails \/ StartRest \/ RestFails
WatchLoop == Poll \/ StatFails \/ ReadFile \/ Applied \/ RolledBack \/ StopRaises
Closing == Cancelled \/ Swallowed \/ JoinWatcher \/ StopUpstream \/ StopFails \/ StopTelemetry

Next == Edit \/ Booting \/ WatchLoop \/ Signal \/ OnShutdown \/ Closing

Spec == Init /\ [][Next]_vars

\* The event loop runs, transports and sinks end what they are asked to do;
\* a server that was told to stop does.  Nobody has to edit the file or to signal.
FairSpec ==
    /\ Spec
    /\ WF_vars(Booting) /\ WF_vars(WatchLoop) /\ WF_vars(Closing)
    /\ WF_vars(exiting /\ OnShutdown)

------------------------------------------------------------------------------
\* The proxy serves with the upstreams of its configuration and no others in the
\* table, and each of them runs, after a startup and after every change of the file,
\* but for those that a rollback has stopped and not been able to start again
\* (manager.py:19-26, 79-85, server.py:286-296).
ServingMeansUp ==
    stage = "serving" /\ watch # "applying" =>
        /\ table = Names(config)
        /\ running = Names(config) \ lost
        /\ pipeline \notin {"none", "built"}

\* A version of the file that the watcher takes for known is one it has read,
\* however edits fall between stat(), read_text() and apply() (runtime.py:63-75);
\* what was there when it started is left to build_state.
NothingMissed == watch = "sleeping" /\ noted = Now /\ Now > since => got = Now


\* The table of transports has one writer at a time: the startup, a call of
\* apply(), the shutdown (server.py:289-302, runtime.py:55-57).
OneWriter == stage \in {"starting", "stopping", "over"} => watch \notin {"reading", "applying"}

\* The stages of the proxy and the tasks it has started agree (server.py:286-302).
Consistent == TypeOK /\ OneWriter

\* A signal that the server hears ends the proxy, through whatever startup and
\* shutdown meet with, unless the stop() of an upstream or of the pipeline takes the
\* cancellation of the watcher for its own: then on_shutdown waits for a watcher that
\* was never cancelled (server.py:286-305, runtime.py:51-60, stdio.py:44-48).
EndsWhenTold == exiting ~> stage \in {"joining", "over", "failed", "broken"}

\* README.md:152: built-ins "can be overridden by external plugins installed with
\* pip".
BuiltInsOverridden == stage # "duplicate"
==============================================================================
