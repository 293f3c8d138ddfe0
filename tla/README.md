# MCPy in TLA+

TLA+ models of the MCP proxy in `src/mcp_proxy`, the TLC configurations that
check them on small instances, and TLAPS proofs, for every value of the constants,
of every invariant, action property and refinement that those check.
Comments in the modules name files of `src/mcp_proxy` by their last part
(`stdio.py:89-92`); `docs/Design.md`, `README.md` and the tests are named as in
the repository. `PROJECT.json` maps every definition to the lines it models.

The proxy is one asyncio event loop. A coroutine runs alone from one `await` to
the next, so an action of these models is the code between two awaits. The two
exceptions are the signal handler (server.py:269-280), which Python runs between
two bytecodes, and `cancel()`, which makes an exception come out of the await a
task stands in. The signal is modelled wherever it matters to the code it
interrupts: around the two checks of `forward()`, in `emit_nowait`, and at each
stage of the proxy. A cancellation is modelled wherever the server or the code itself
cancels: calls of the bridge and of a transport, the flush task, the reader, an
`apply()`, the watcher and the handler of a request. Inside `stop()` of a transport it
is modelled by its effect, where its callers stand (`Swallowed`, `Cancelled` and
`Kept`), and not in `StdioTransport`. Details of asyncio (`wait_for`, task
cancellation) are those of Python 3.11, the oldest the repository supports.

## The system

| Component | State | Operations | Talks to | What is hard |
|---|---|---|---|---|
| `ProxyBridge` (bridge.py) | queue used as a semaphore, shutdown event | `forward`, `start_shutdown` | asks the manager for a transport, calls its `request`/`send_notification`, emits telemetry | two tasks race, the caller is cancelled, the signal arrives between two checks |
| `TelemetryPipeline` and sinks (telemetry/) | bounded queue, drop counters, flush task | `emit_nowait`, `start`, `stop`, `_run` | bridge and signal handler emit; sink posts batches | retries after lost answers, stop racing `wait_for`, emit interrupted by emit |
| `StdioUpstreamTransport` (stdio.py) | process, reader task, pending futures by id, write lock, restart count | `start`, `stop`, `restart`, `request`, `send_notification`, `_reader`, `_maybe_restart` | a child process; called by bridge, manager, admin | crashes, respawns, `stop` re-reading `self._proc` after each await, shared ids |
| `RuntimeConfigManager` (runtime.py) | configuration, raw configuration, pipeline, lock, watcher task | `apply`, `start`, `stop`, `_watch_loop` | drives the manager and the pipeline; called by admin and watcher | rollback, cancellation by the request timeout, shutdown in the middle |
| `UpstreamManager` (manager.py) | table of transports, their configuration | `start`, `stop`, `apply_diff`, `restart`, `get` | owns the transports | a start or stop that fails half way, restart without the lock |
| `HttpUpstreamTransport` (http.py) | one HTTP client | `start`, `stop`, `restart`, `request` | an HTTP library | a second `start` replaces the client |
| Request handling and routing (server.py, routing.py) | per request: payload position, lines sent, status | `handle_proxy` and its wrappers | reads the configuration, calls bridge and admin | configuration replaced between two messages, errors after the status is out, timeout of the first line |
| JSON parser (server.py:124-206) | buffer, cursor, mode | `parse_messages` | feeds request handling | values cut by chunk boundaries, what is left at the end |
| Lifecycle and signals (cli.py, server.py:269-305) | - | `build_state`, `on_startup`, `on_shutdown`, `handle_shutdown_signal` | all of the above | a failure half way, a file edited meanwhile, the watcher met by the shutdown |
| `AdminService` (admin.py) | log buffer | `apply_config`, `restart_upstream`, reads | runtime, manager | - |
| `PluginRegistry` (registry.py) | two tables, filled at startup | register, look up | manager, runtime | duplicate names |
| Configuration models, command line, logging, web pages | none of their own | - | - | - |

What makes each correct:

- bridge: a slot for every call inside and no other; after the shutdown event
  nothing is handed over that had not passed both checks; a shutdown empties it.
- pipeline: first in, first out; no event is lost uncounted before the sink has
  been offered it; `stop` is final.
- stdio transport: a call gets an answer to its id or is released; one process that
  can answer and one reader; no lock left held.
- configuration: what the parts see changes together, or not at all; nothing
  that should run is down and nothing else runs.
- request handling: one line per request, in order; the URL decides.
- JSON parser: the messages and the verdict are those of the whole text, however
  it is cut, and each message comes out as soon as it is complete.
- lifecycle: what serves is up, but for what could not be started again; no version
  of the file is missed; one writer of the table of transports; the end comes when
  the server is told.

## Modules

| Module | What it is |
|---|---|
| `ForwardContract` | abstract: a bounded section with a gate, who is inside and how each left |
| `ProxyBridge` | `forward()` call by call; implements `ForwardContract` (`ContractSpec`) |
| `ProxyBridge_proofs` | theorems about `ProxyBridge` |
| `LossyFifo` | abstract: a bounded FIFO that counts what it has no room for, and offers the rest to a reader in order |
| `TelemetryPipeline` | pipeline, flush task and three kinds of sink; implements `LossyFifo` (`FifoSpec`) |
| `TelemetryPipeline_proofs` | theorems about `TelemetryPipeline` |
| `StdioTransport` | one stdio transport with its processes, readers, callers |
| `StdioTransport_proofs` | theorems about `StdioTransport` and about `BridgedTransport` |
| `AtomicConfig` | abstract: a configuration that all parts see, replaced in one step |
| `RuntimeConfig` | `apply`, `apply_diff`, `restart`, watcher, shutdown; implements `AtomicConfig` (`AtomicSpec`) |
| `RuntimeConfig_proofs` | theorems about `RuntimeConfig` |
| `RequestStream` | one POST from authorisation to the end of its response |
| `RequestStream_proofs` | theorems about `RequestStream` |
| `BridgedTransport` | `ProxyBridge` over `StdioTransport`: one step of both where the code makes one |
| `JsonStream` | `parse_messages`, chunk by chunk, with a description of whole texts to compare it with |
| `JsonStream_proofs` | theorems about `JsonStream` |
| `Lifecycle` | command line, plugin registry, startup, watcher's polling, signals, shutdown |
| `Lifecycle_proofs` | theorems about `Lifecycle` |
| `QueueLemmas` | lemmas about the queues of the models: sequences without repetition, their ends, what is taken out of them |
| `MC...` | values of the constants for TLC |

`BridgedTransport` composes two of them; the others are tied by assumption and
guarantee: a module says in its first comment which behaviour it takes from which
other module. `RequestStream` takes from `ProxyBridge` how `forward()` may end,
from `AtomicConfig` that the configuration is replaced in one step between two
messages, and from `JsonStream` that a payload is a sequence of messages and then
an error or none. `RuntimeConfig` takes from `TelemetryPipeline` that `stop()` of
a pipeline may return or raise `CancelledError`, and from `StdioTransport` that
`stop()` of a transport may raise or swallow a cancellation. `Lifecycle` takes
from `RuntimeConfig` how `apply()` may end.

### ProxyBridge

`pc[c]` is where call `c` stands: `admitted` between `put_nowait` and the second look
at the event (lines 51-61), `passed` between that look and the hand-over (lines
63-68); only the signal handler can come in at either. `sending` is in
`send_notification`, `waiting` in `asyncio.wait`, `cancelling` and `reaping` in the
awaits after it (lines 73 and 78). `task` and `waiter` are the two tasks of lines
67-68: the request task is `created` until the loop gives it its first turn, in which
the upstream has the message (`TaskStarts`). `handed` is a history of the calls whose
message an upstream has been given: a notification's by the call itself, a request's
by its task. `slots` is `queue.qsize()`. `Cancel` is the cancellation of the caller,
by the request timeout or the client's departure; it leaves the request task running,
as the code does.

### TelemetryPipeline

`hand` is what the flush task has taken from the queue, `flush` where it stands,
`received` what has reached the sink (a batch given up, or held by a cancelled
task, is lost and counted nowhere: `Abandon` in `LossyFifo`).
`wait_for(queue.get())` is two steps (`Take`, then `Fill`), because the inner
`get()` has the item before the flush task resumes; a cancellation that arrives
in between is swallowed, and `while self._running` then ends the loop. The HTTP
sink may have delivered a batch whose post failed (`PostFail`), and tries four
times. A third-party sink has `emit()` alone and may raise, which ends the task.
`emitting` is the moment between `get_nowait` and `put_nowait` where the signal
handler may emit, after which `put_nowait` may raise (`raised`).

### StdioTransport

`child`, `stdin`, `full`, `inbox`, `outbox` are the processes, which are external;
one that has closed its stdout and lives on is `mute`, and the reader takes its end
of file for an exit, as the code does. `reader[k]` is the reader task started with
process `k`, `source[k]` the process whose output it awaits: the code reads
`self._proc` at every turn, so they may differ. `pending`, `lock`, `fut` and `req`
are the calls. `ctl[c]` is where a `start`, `stop` or `restart` stands, `target[c]`
what it awaits (line 46 the task, lines 56, 61 and 64 the process). Controllers stop
and restart as often as they like, at the same time as well; `last` is a history of
who began last, and `Alone` says that no two of these calls have overlapped so far.
`attempts` starts at 0 or just below the overflow: the transport may have been
stopped and started before, and the count is never reset.

### RuntimeConfig

A transport is known by its upstream and the `apply()` that made it;
`running[i]` counts the resources it has running, because `start()` adds to them
whether or not there are any. `line` is the lock with its waiters. `left` are the
upstreams the current loop of `apply_diff` has yet to deal with. `mishaps`
records a `stop` that failed, a `restore` that failed, a call cancelled inside
`apply_diff`, a cancellation that was lost and an overlap of a `restart` with an
`apply` or with another `restart`; the properties about
transports say which of these they do without. `worn` remembers that a call gave up
once it had stopped the pipeline in use: what is put back is then a stopped pipeline,
and the flush task of the new one may run on. A cancellation is lost (`Swallowed`)
inside a stdio transport's `stop()`, and where the watcher waits for a flush task that
keeps it and ends as asked. Upstream settings are values
compared for equality. Admin calls are over when `on_shutdown` runs (the server
library sees to that); the watcher's need not be.

### RequestStream

`taken` counts the messages parsed, `sent` the lines yielded, `went` is a history of
where each message was sent. `BadPayload` is an error of the parser, `Raised` an
exception of `forward()` other than `JsonRpcError`, `Disconnect` the client's
departure. `timer` is `wait_for`'s: when it has `fired` (`Expire`) the handler is
cancelled and waited for. `Timeout` is the `CancelledError` that comes out of it;
`Kept` is a handler that keeps the cancellation, inside an upstream's `stop()` under
an admin call (stdio.py:44-53) or in `forward()` (bridge.py:70-79), and goes on
without a timer. `Reconfigure` may come between any two steps.

### BridgedTransport

Extends `StdioTransport` and instantiates `ProxyBridge` for the same requests. The
request task, which the bridge module leaves open, is tied to the transport's
coroutine: it begins with the first step of `request()`, which is when the transport
has the message (`handed`), makes the transport's steps, makes `CancelCall` wherever
it stands when it is cancelled, and ends with `request()` (`TasksFollow`). That a
cancelled request task ends, which `ProxyBridge` leaves open, thus becomes something
to show (`DrainsThrough`), and `BridgeSpec` says that the transport is no more than
the upstream the bridge was checked with. The transport is in use all the time:
`stop` and `restart` are in `StdioTransport`.

### JsonStream

A text is a sequence of lexical pieces: a message, the two halves of one that a
chunk may cut, a value that is no object, brackets, a comma, spaces. `buffer`,
`cursor` and `mode` are the code's; `text` and `dropped` remember what has
arrived and how much of it has left the buffer, so that a message is known by its
place. `Receive` takes a chunk of any length, an empty one too; an action is then
one turn of the code's loop. `ValueEnd` is `raw_decode`, which is external: `Ends` is a
table that says for every place of a text where a value that begins there ends, and
where the rest of a list does.
`Messages` and `Acceptable` say in terms of the whole text what must come out;
they know no cursor, mode or chunk. A payload is refused for what has arrived
(`rejected`), which is compared with every text that may still become of it
(`Continuations`), or at its end for what has not (`incomplete`). So a parser that
refused a message because a chunk cuts it would not pass (`RefuseNow`).

### Lifecycle

`stage` is how far the proxy has come. `versions` is the history of the file: any
content may be written at any moment, torn, malformed, valid only with its
environment variables replaced, or nothing at all when it is removed. `raw` and
`config` are versions, because `build_state` reads the file twice; `noted` is the
mtime the watcher knows, `got` what it has read. `left` are the upstreams that
`manager.start()` or `stop()` has yet to deal with. Every start and stop may raise,
and so may the loading of a plugin, the making of a sink and a look at the file.
`lost` are the upstreams of the table that a rollback had stopped and could not start
again (manager.py:79-85), until a later version touches them. In `"joining"` the
shutdown waits for a watcher whose cancellation was lost. After a failed `on_startup`
the server library does not run `on_shutdown` (`"failed"`); what `on_shutdown` itself
raises ends it (`"broken"`).

## Runs

| Run | Question | Bounds | Result |
|---|---|---|---|
| `ProxyBridge` | slots, gate, contract | 3 requests and 1 notification for 2 slots | holds |
| `TelemetryPipeline` | FIFO, accounting, final and finite stop, progress | queue 2, batch 2, 3 events, 1 signal, both policies, 3 sinks, 2 stoppers | holds |
| `TelemetryPipelineStop` | does `stop()` return? | the same, HTTP sink, no signal | violated |
| `StdioTransport` | correlation, table, lock, one process, one reader, no respawn after `stop` | 2 requests, 1 notification, 1 caller of `stop` and `restart`, 1 process that exits or falls silent by itself, 3 processes, all misbehaviour | holds |
| `StdioTransportLive` | released or answered, stop ends, respawn | 1 request, 1 caller of `stop` and `restart`, 2 crashes, 4 processes that keep to the protocol | holds |
| `BridgedTransport` | is the transport the upstream the bridge expects, does the drain get through, do slots come back? | 2 requests, 2 slots, 1 crash, 2 processes, one that may stop reading | holds |
| `RuntimeConfig` | atomicity, transports, pipeline, shutdown; every call ends | 1 admin call, 1 watcher call, 1 restart, 2 upstreams, 7 candidates, all faults | holds |
| `RuntimeConfigCancel` | applied or rolled back? | 2 admin calls, cancellation | violated |
| `RequestStream` | order, status, routing, a status comes | every payload of at most 2 messages, names: 1 upstream, 1 unknown, admin, none | holds |
| `JsonStream` | messages, verdict and progress for every cut | every text of at most 5 pieces in every division into chunks | holds |
| `Lifecycle` | start, reload and end through every failure | 3 versions of the file, 8 contents, 2 upstreams, 3 sets of packages | holds |
| `LifecycleInstalled` | may built-ins be overridden? | the proxy's own entry points | violated |

`Consistent` is in each module the type invariant together with what ties its
variables to one another: `NobodyForgotten`, `LockInUse` and `OneReader` in
`StdioTransport`, `AllStopped` in `RuntimeConfig`, `AcceptedMeansDone` and
`UrlDecides` in `RequestStream`, `NothingElse` in `JsonStream`, `OneWriter` in
`Lifecycle`, `FirstSeenInOrder` in `TelemetryPipeline`.

Why these bounds show the interesting cases. Bridge: with 4 calls for 2 slots two are
inside while others are rejected or wait for a slot to come back. Pipeline: a queue
and a batch of two differ from "one at a time", and the third event finds the queue
full before the flush task moves or after. Transport: two requests can be answered
out of order; three processes are a first one, its respawn, and the one of a restart,
before or after the respawn, with any number of calls of `stop` before, between and
after. A process that exits by itself takes one of `MaxCrashes`, a restart one of the
other processes. The one caller of the runs makes its calls one after the other;
calls that overlap are in the model and in the proofs, and no run has them. The
safety run has a `VIEW`, which takes two states for one that differ only in what no
later step and no invariant looks at (`MCView`). The liveness run needs no second
call: with ids of their own, calls meet at the write lock alone, and nobody waits
there for a process that reads. Configuration: the candidates change, add, replace
and remove upstreams and change the sink; two calls and a restart are every pairing
that can overlap; `RuntimeConfigCancel` has two admin calls in line for the lock.
Requests: two messages have a before and an after, whatever the error. Texts: five
pieces hold an array of a cut message with its brackets and a piece too many, and two
lines with a cut message. Versions: three are one at startup, one that is read and
one that comes in between. Composition: with two requests one waits at the write lock
while the other fills the pipe. `MaxText`, `MaxVersions`, `MaxEvents`, `MaxSignals`,
`MaxCrashes`, `MaxChildren` and `MaxBody` are the only bounds on counters, and stand
in the guards or in the initial state. `OverflowAt` is 1024, its real value.

Deadlock is not checked: in each model all calls may have been made, and the
system then rests.

### Fairness

Weak fairness, and only for what asyncio or a timeout guarantees to go on.

- `TelemetryPipeline`: the flush task and a joining `stop()` run; a post ends
  because the HTTP client has a timeout, a sleep because it is one. Nobody has to
  emit or stop.
- `StdioTransport`: coroutines run, sleeps and the one-second timeout end, and a
  process answers what it has read. Without the last, a silent upstream keeps a
  request waiting, which is no fault of the proxy.
- `RuntimeConfig`: transports and sinks end what they are asked to do, a
  cancellation of the watcher is delivered, and so is an answer. That a transport's
  `stop()` ends is what `StdioTransportLive` shows for well-behaved processes.
- `BridgedTransport`: the loop runs what is ready, and a process answers what it
  reads. Nothing more is assumed of a request task, cancelled or not, or of the
  bridge. `ProxyBridge` alone is checked without fairness: how it drains depends on
  its transport.
- `JsonStream`: the generator runs while it has a chunk; nobody has to send one.
- `Lifecycle`: the loop runs, starts and stops end one way or the other, and a
  server that was told to stop does. A cancellation is delivered or lost
  (`Swallowed`), which `EndsWhenTold` names. Nobody has to edit the file or to signal.
- `RequestStream`: a request that has arrived is handled, the timer of the first line
  runs out if no line came, and the cancellation comes out of the handler or is kept
  by it. Nothing is assumed of upstreams or client.

## What the code does otherwise

| Run | Disagreement |
|---|---|
| `TelemetryPipelineStop` | `stop()` awaits the task it has cancelled under `suppress(Exception)`. `CancelledError` is no `Exception`: `stop()` raises it and the sink is not stopped. It follows that a change of the telemetry at runtime ends in an exception, neither applied nor rolled back (`TelemetryRaises` in `RuntimeConfig`). |
| `RuntimeConfigCancel` | The request timeout cancels `apply_diff` with no rollback: new transports run that are in no table, or old ones in the table are stopped. |
| `LifecycleInstalled` | `load_entry_points()` allows no override, and the package declares its own built-ins as entry points (pyproject.toml:44-50): once it is installed, `build_state` raises "Duplicate upstream plugin key". README.md:152 promises that built-ins can be overridden. |

The models contain further behaviour that a maintainer should know of and that
the properties above leave out by name:

- a cancelled caller gives its slot back while its request task runs on
  (`Cancel` in `ProxyBridge`);
- a message is handed over after the shutdown event, if the signal came when its
  call was past the second check or its task had not had its first turn (`passed`
  and `created` in `ProxyBridge`); `NothingStartsAfterShutdown` is about all others;
- a request made between the flush in `stop()` and the end of the process waits
  for ever; `ReceivedEnds` is about requests a process received;
- a `stop()` behind a line that is no JSON object raises before it reaches the
  process (`JoinFailed`); `StopStops` is about a `stop()` that returned;
- a `stop()` waits for ever for the stdin of a process that does not read
  (`Closed`); `StopEnds` is checked with processes that read;
- a process that closes its stdout and lives on is replaced at the end of file
  (stdio.py:82-86) and never stopped: `NoOrphan` and `StopStops` are about processes
  with their stdout open. A request written to it before its successor is there waits
  for ever;
- two overlapping restarts of one transport leave a process nobody knows (`Alone` in
  `NoOrphan`, `OneReader` and `StopStops`);
- after 1023 respawns the delay overflows and the process is not replaced any more
  (`OverflowAt` in `Retry`); `RestartsAfterExit` is about counts below that;
- a `restart` that overlaps an `apply` starts a transport outside the table (the
  "overlap" of `mishaps`);
- after a failure that follows the replacement of the pipeline, the restored
  pipeline is one that has been stopped, and the new one's flush task runs on (`worn`);
  of what flushes `SinkAsConfigured` says nothing then, only of the settings;
- a rollback that cannot start a stopped upstream again says nothing and leaves it in
  the table, down (`lost` in `ServingMeansUp`, "restore" in `mishaps`);
- a watcher cancelled inside a stdio transport's `stop()`, or while it waits for a flush
  task that keeps it, loses the cancellation, and the shutdown waits for it for ever
  ("swallow" in `mishaps`, left out of `StopsWatching`; `"joining"` in
  `EndsWhenTold`); cancelled elsewhere in `apply_diff` it leaves transports
  running ("cancel", left out of `AllStopped`);
- the request timeout does not end a handler that keeps its cancellation: no status
  comes until the handler is done by itself (`Kept`, named in `StatusComes`);
- pending requests are keyed by the client's own id: of two clients that use the same
  either may get the other's answer, and one may wait for ever. `OwnAnswer` is about
  ids; the runs have distinct ones, the theorems any;
- an exception of a transport that is no `JsonRpcError` ends the response, and the
  messages after it are not processed (`Raised` in `RequestStream`; README.md:16
  has "each message is processed in arrival order");
- a file that is valid only with `${env:...}` replaced passes the validation of
  `apply()` and then fails the second one outside its `try` (runtime.py:86): the
  watcher ends, and at shutdown `runtime.stop()` raises before the transports are
  stopped (`Apply` and `JoinWatcher` in `Lifecycle`);
- an upstream that fails at startup leaves those before it running, and no
  `on_shutdown` follows (`StartFails`);
- the proxy's signal handlers replace the server's: after startup SIGTERM closes
  the gate and does not stop the server (`Signal` in `Lifecycle`);
- the file is read twice at startup, so `raw_config` and `config` may be of two
  versions, and an edit between `build_state` and `runtime.start()` is not applied
  until the next one (`since` in `NothingMissed`); a version that could not be
  applied is not tried again (`RolledBack`);
- an array may lack its commas, have too many, or never be closed, and an empty
  payload is one without messages (`Acceptable` in `JsonStream`); messages before
  the piece that makes a payload wrong have been forwarded by then;
- one chunk with invalid UTF-8 loses the messages that came in it (`Undecodable`);
- a call cancelled while it waits for the write lock leaves its entry in the
  pending table until the next flush (`CancelCall`);
- a header or a message that names the admin mount comes before the path
  (`IsAdminTarget`); `UrlDecides` is about the other messages.

## Proofs

`ProxyBridge_proofs` proves, for every finite set of calls, every choice of
notifications and every queue of at least one slot (`BridgeAssumption`):

| Theorem | Says |
|---|---|
| `TypeCorrect` | `Spec => []TypeOK`; in particular the slots never exceed the queue |
| `SlotsCounted` | `Spec => []SlotsMatchHolders` |
| `ShutdownGate` | `Spec => NothingStartsAfterShutdown` |
| `ImplementsContract` | `Spec => ContractSpec` |

`TypeOK` is not inductive: `slots <= QueueSize` follows from the guard of `Admit`,
but `slots >= 0` needs that whoever gives a slot back had one. So the invariant is
`Inv == TypeOK /\ SlotsMatchHolders /\ Staged`. `SlotsMatchHolders` is kept by
counting: lemmas `HolderAdded` and `HolderRemoved` say what a step into or out of the
section does to the cardinality of `Holders`, and `HoldersKept` that other steps
leave it. `Staged` says what the stage of a call tells about its outcome and its
tasks: an outcome is open until the call is done, the waiter is set only after a
shutdown. The refinement needs it to show that a call leaves with an outcome the
contract allows. The gate needs no invariant beyond `TypeOK`: `Underway`, the calls
past both checks whose message is not handed over yet, gains nobody once the event is
set, and only they are handed over. Each preservation proof has one step per action
of `Next`.

`Lifecycle_proofs` proves, for any contents of the file, any entry points and any
number of versions (`LifecycleAssumption`):

| Theorem | Says |
|---|---|
| `NoVersionMissed` | `Spec => []NothingMissed` |
| `OneWriterAtATime` | `Spec => []OneWriter`, a part of `Consistent` |
| `UpWhenServing` | `Spec => []ServingMeansUp` |
| `StagesAgree` | `Spec => []Consistent` |

`NothingMissed` speaks of one moment, when the noted mtime is the current one.
`Caught` says what it takes at every other: outside the read, what is noted is no
later than what was read or what was there at the start. It holds because the mtime
is noted before the read; noted after it (`SleepNoted`), an edit between the two is
lost. `OneWriter` needs `Staged`, where the watcher's task is at each stage: no stage
but `"serving"`, `"cancelling"` and `"joining"` has a watcher at work, which is what
the await in `runtime.stop()` is for (`WatcherGone`). `ServingMeansUp` speaks of what
serves; `Started` says it from the first step on: what the startup has in the table
runs, and with what it has `left` it is the upstreams of the configuration, each
once, and what a serving table has not running is `lost`. It needs `Read`, that a
configuration in use is a version that was written.

`TelemetryPipeline_proofs` proves, for every size of queue and batch, both drop
policies, every kind of sink and any number of callers of `stop()`
(`PipelineAssumption`):

| Theorem | Says |
|---|---|
| `TypeCorrect` | `Spec => [](TypeOK /\ Counted)` |
| `InOrder` | `Spec => []Consistent` |
| `ImplementsFifo` | `Spec => FifoSpec` |
| `SilenceAfterStop` | `Spec => SilentAfterStop` |

The types are kept by `Sized`: `Held`, the flush task has a batch in hand exactly
where it works on one; `Counted`, no event is counted twice or while it waits;
`RoomTaken`, the room `emit_nowait` has made is gone only if a signal's event took
it. `Ordered` says that what was received, what is in hand and what waits are older
before newer, except for a batch of the HTTP sink that has been received as a whole
and is posted again. `FifoSpec` needs only `Sized`. `Gone` says that a `stop()`
that has returned leaves no flush task.

`StdioTransport_proofs` proves, for any requests, notifications, crashes,
processes and callers of `start`, `stop` and `restart` (`StdioAssumption`):

| Theorem | Says |
|---|---|
| `TypeCorrect` | `Spec => []TypeOK` |
| `LockInUseAlways` | `Spec => []LockInUse` |
| `OwnAnswers` | `Spec => [](OwnAnswer /\ NobodyForgotten)` |
| `OneProcessOneReader` | `Spec => [](NoOrphan /\ OneReader)` |
| `AllConsistent` | `Spec => []Consistent` |
| `StopIsFinal` | `Spec => []StopStops` |

None has a condition on ids or on callers. Where the code itself ends is in the
properties: `NobodyForgotten` allows for a future whose place in the table a later
call with the same id has taken (stdio.py:108), and `NoOrphan`, `OneReader` and
`StopStops` speak of the time until two of the calls of `start`, `stop` and `restart`
overlap (`Alone`). `apply()` makes them under its lock (runtime.py:91),
`UpstreamManager.restart` (manager.py:92-98) and the shutdown take none, and two that
overlap do leave a process nobody knows. Until then there may be as many of them as
their callers like, a restart after a stop among them.

`Typed` has a part for each group of variables: `ReaderInv` counts the attempts (each
reader task adds one at most, which bounds them by the overflow and the number of
processes), `LockInv` says that the lock's queue is the calls that are at the lock,
each once; `CtlInv`, `PipesInv` and `FuturesInv` are types. `TableInv` says that an
entry of the table is of the call with that id, and that a call that waits is in it,
or one with its id; stopping only flushes the table, so `Alone` is not needed.
`PhaseInv`, which holds while `Alone` does, is the argument for one process: the one
reader at work is the one the transport knows, it reads from the process the
transport knows, and nobody is stopping it (`TaskInv`); what a controller waits for
is the process the transport knows (`ControlInv`); nothing runs before the first
`start` (`BootInv`) or after a `stop` until the next restart (`StaysStopped`).

`RuntimeConfig_proofs` proves, for any upstreams, candidates, admin and watcher
calls, restarts and faults (`ConfigAssumption`):

| Theorem | Says |
|---|---|
| `TypeCorrect` | `Spec => []TypeOK` |
| `AppliesAtomically` | `Spec => AtomicSpec` |
| `SinkFollowsConfig` | `Spec => []SinkAsConfigured` |
| `WhatIsInTheTableRuns` | `Spec => []LiveRuns` |
| `ReplacedBeforeStopped` | `Spec => []NoGap` |
| `NothingElseRuns` | `Spec => []NothingLeaks` |
| `ShutdownStopsAll` | `Spec => []Consistent`, `AllStopped` with it |

`LineInv` says that the calls in progress are those in the line, and only its first
is at work. `TableInv` says that the configuration, the manager's copy of it and the
table agree, and a transport of the table was made by a call that was applied; with
these two every step is one of `AtomicConfig` or none. `SinkInv` says which pipeline
is in use and which is kept for a rollback, `FlushInv` that until `worn` it alone
flushes, but between its stop and the start of the next. What runs needs more, for `apply_diff`
is a chain of loops, and restarts and the shutdown come in between: `LoopInv` says
what each loop has done and has left, `TargetInv` that restarts and the shutdown
work on what was in the table, `FreshInv` that what a call has yet to start does not
run, `BoundInv` how often one transport can have been started (`TypeOK` needs it),
`DownInv` and `OverlapInv` who can be at work at the same time.

From these come two inductions in opposite directions. `LowerInv`: as long as the
proxy is up, no restore failed, no call was cancelled in `apply_diff` and no restart
overlapped anything (`Sound`), a transport of the table runs, or was stopped by a
call or a restart that has yet to start it or its replacement; and what the call at
work has started runs. `UpperInv`: as long as nothing happened but failed restores
and lost cancellations, a transport runs once at most, and only if the table has it,
the call at work has started it, or the shutdown has yet to stop it. The conditions
are those the properties themselves name, by `mishaps`.

`RequestStream_proofs` proves, for any upstreams, configurations and payloads:

| Theorem | Says |
|---|---|
| `LinesInOrder` | `Spec => []OneLineEach` |
| `StreamConsistent` | `Spec => []Consistent` |

The invariant is `StreamInv`: `Lines`, the lines sent are those due, or all of them
but the answer to the last message taken; `Statuses`, what a status says of the
lines and of how the response ends; `Urls`, where messages may go under a URL that
names an upstream. `Due` is a predicate on the lines and not the sequence of them,
as nothing could be proved about a recursive filter.

The last part of `StdioTransport_proofs` proves of `BridgedTransport`, for any
requests, crashes and processes:

| Theorem | Says |
|---|---|
| `ImplementsBridge` | `System => BridgeSpec` |
| `TransportSpec` | `System => Spec` of `StdioTransport` |
| `NothingIsLeft` | `System => []NoLateWork` |
| `ServingTransport` | `System => [](Consistent /\ NoOrphan /\ OwnAnswer /\ NeverStopped)` |

All of them have the hypothesis `Composed`: no call is a notification, nobody but
the bridge drives the transport, and the queue has a slot. It says which instances
of the two parts are composed; TLC evaluates it for the run (`MCBridgedTransport`),
and no theorem about `StdioTransport` alone rests on it.

The invariant is `Together`: a coroutine is inside `request()` only while its task
lives, and a task lives only while `forward()` waits for it or its caller was
cancelled. It turns every step of the composition into one of the bridge and one
of the transport, or a stutter. So the theorems about either part carry over, and
as nobody stops a transport that is serving (`NeverStopped`), no two calls overlap
(`Alone`): the process that can answer is the one it knows, all the time.

`JsonStream_proofs` proves, for texts of any length, made of any pieces and cut
anywhere (`StreamAssumption`):

| Theorem | Says |
|---|---|
| `ConsistentAlways` | `Spec => []Consistent`: what has been yielded is the first so many messages of the text |
| `CompleteAlways` | `Spec => []AsSoonAsComplete` |
| `VerdictAlways` | `Spec => []RightVerdict` |
| `EveryTurnMoves` | `Spec => [][TurnMoves]_vars`: a turn that does not leave the loop leaves less of the buffer to look at |

The properties speak of the whole text, the code of a buffer and a cursor; the
invariant `IInv` relates the two. The buffer is the text from `dropped` on
(`BufferIs`), and what has been yielded is, in order, the messages of the text up to
the place dealt with (`Ordered`). For JSON, `JsonInv` says what the text is up to
there (`ReadTo`): nothing yet, one message and spaces, a list so far, or a closed
one; and, while the parser waits, that what is left begins with no whole message. For
NDJSON, `LinesInv` says that the lines dealt with are good and, while it waits, that
there is no other. So chunks occur in the step that receives one, and nowhere else:
`Longer` says what a longer text leaves as it was. A rejected payload is `Hopeless`:
it has a piece that fits nowhere (`WrongAt`) or a line that is no message, and has it
however it goes on (`WrongForEver`, `BadLineForEver`), so that no reading of any of
its `Continuations` accepts it; and no message begins behind that place, so that none
is withheld. One that is refused at its end has only to be wrong as it stands. What
`json.loads()` takes is compared with `Acceptable` by the table of ends, which must
first be shown to exist and to stay within the text: from the end of the text towards
its beginning, since an entry depends on later ones only.

Those inductions over the places of a text are stated of sets and not of predicates
(`Least`, `Downward`, `Induct`): a non-empty set of numbers has a least element. The
library's induction theorems have an operator as a parameter, which the provers cannot
instantiate. That is also why `ValueEnd` is a table over the places and not a
recursive operator.

`QueueLemmas` has what these proofs share: what appending, taking the first and
taking one out of the middle do to the members of a queue, to its order and to the
absence of repetitions.

Only model-checked is all liveness, as TLAPS has no `ENABLED`. Of `ComesBack` in
`JsonStream`, `EveryTurnMoves` is what does not need it: the buffer is finite, and
every turn uses up some of it or leaves the loop.

## Not modelled

- Fields of the configuration models, redaction, argument parsing, the log buffer
  and log format, web pages: no state that steps depend on. (`admin.py:30` takes
  the buffer it is given for none while it is empty, which it always is then, so
  `admin.get_logs` stays empty.)
- Admin calls in `Lifecycle`: they are in `RuntimeConfig`.
- A `QueueFull` out of the emit in `_shutdown_error`: it takes a full queue,
  `drop_oldest` and one more signal in the middle of that emit (`raised` in
  `TelemetryPipeline`). `forward()` then ends with that exception, which is `Raised` in
  `RequestStream`, and its `finally` gives the slot back as after any other.
- A cancellation of `stop` or `restart` in `StdioTransport`: what it does to the
  callers is in `RuntimeConfig`, `Lifecycle` and `RequestStream`.
- `stop` and `restart` in `BridgedTransport`: with them the state space is beyond
  what liveness can be checked on; `StdioTransport` has both.
- Bytes: `JsonStream` has lexical pieces, and the white space that Python and JSON
  take differently is one kind of space.
- `HttpUpstreamTransport.request`: one call of a library.
- stderr of the processes.

## Plan

1. Core, done: `ProxyBridge` with its contract and proofs, `TelemetryPipeline`,
   `StdioTransport`, `RuntimeConfig`, `RequestStream`.
2. Parser, lifecycle with the registry, and the composition of bridge and
   transport, done: `JsonStream`, `Lifecycle`, `BridgedTransport`.
3. Proofs, done: every invariant, every action property and every refinement that a
   run expected to hold checks is a theorem.
4. Left: `StdioTransport` once two calls of `stop` or `restart` have overlapped, beyond
   `OwnAnswers` and the types. What should hold then is for the code to decide:
   `UpstreamManager.restart` takes no lock.
