-------------------------- MODULE TelemetryPipeline --------------------------
(***************************************************************************)
(* TelemetryPipeline (src/mcp_proxy/telemetry/pipeline.py) with the sinks  *)
(* it drives: the HTTP sink and the no-op sink of this repository, and a   *)
(* third-party sink that has only emit() and may raise.                    *)
(*                                                                         *)
(* An action is the code between two awaits of the flush task or of a      *)
(* caller of stop().  wait_for(queue.get()) is cut in two: the inner get() *)
(* takes the item in a task of its own (Python 3.11), so an emit or a      *)
(* stop() may come before the flush task resumes with it.  emit_nowait()   *)
(* has no await, but the signal handler of server.py may run between its   *)
(* two operations on the queue; nothing else may ("Loop" below).           *)
(***************************************************************************)
EXTENDS Naturals, Sequences, SequencesExt, FiniteSets

CONSTANTS QueueMax,    \* TelemetryConfig.queue_max
          BatchSize,   \* TelemetryConfig.batch_size
          Policies,    \* the drop policies to consider
          Sinks,       \* the kinds of sink to consider
          Stoppers,    \* callers of stop()
          MaxEvents,   \* bound: events emitted
          MaxSignals   \* bound: those among them from the signal handler

ASSUME PipelineAssumption ==
    /\ QueueMax \in Nat \ {0}
    /\ BatchSize \in Nat \ {0}
    /\ Policies \subseteq {"drop_newest", "drop_oldest"}
    /\ Sinks \subseteq {"http", "noop", "plugin"}
    /\ MaxEvents \in Nat
    /\ MaxSignals \in Nat

VARIABLES policy,     \* self.drop_policy
          sinkType,   \* which sink this is
          sink,       \* its state
          queue,      \* self.queue
          hand,       \* the item taken by get(), then the batch
          flush,      \* where the flush task stands
          attempt,    \* "attempt" of HttpTelemetrySink.emit_batch
          running,    \* self._running
          cancelled,  \* a cancel() of the flush task not yet delivered
          stop,       \* where each stop() stands
          emitting,   \* emit_nowait is between get_nowait and put_nowait
          emitted,    \* events emitted so far; they are numbered
          signals,    \* those from the signal handler
          raised,     \* calls of emit_nowait that raised
          dropped,    \* self.dropped_events
          received    \* what has reached the sink's reader (the no-op sink is its own)

config == <<policy, sinkType>>
consumer == <<hand, flush, attempt, received>>
control == <<sink, running, cancelled, stop>>
producer == <<emitting, emitted, signals, raised, dropped>>
vars == <<config, queue, consumer, control, producer>>

Attempts == 4
Finished == {"ended", "cancelled", "raised"}

TypeOK ==
    /\ policy \in Policies
    /\ sinkType \in Sinks
    /\ sink \in {"new", "started", "stopped"}
    /\ queue \in Seq(1 .. MaxEvents) /\ Len(queue) <= QueueMax
    /\ hand \in Seq(1 .. MaxEvents) /\ Len(hand) <= BatchSize
    /\ flush \in {"absent", "getting", "taken", "sending", "backoff"} \cup Finished
    /\ attempt \in 0 .. Attempts
    /\ {running, cancelled, emitting} \subseteq BOOLEAN
    /\ stop \in [Stoppers -> {"idle", "joining", "returned", "cancelled"}]
    /\ emitted \in 0 .. MaxEvents
    /\ signals \in 0 .. MaxSignals
    /\ raised \in 0 .. signals
    /\ dropped \in 0 .. MaxEvents
    /\ received \in Seq(1 .. MaxEvents)

Init ==
    /\ policy \in Policies
    /\ sinkType \in Sinks
    /\ sink = "new"
    /\ queue = <<>> /\ hand = <<>>
    /\ flush = "absent"
    /\ attempt = 0
    /\ running = FALSE
    /\ cancelled = FALSE
    /\ stop = [s \in Stoppers |-> "idle"]
    /\ emitting = FALSE
    /\ emitted = 0 /\ signals = 0 /\ raised = 0 /\ dropped = 0
    /\ received = <<>>

Loop == ~emitting

Full == Len(queue) = QueueMax

------------------------------------------------------------------------------
(* emit_nowait *)

Fresh == emitted < MaxEvents /\ emitted' = emitted + 1
Put == queue' = Append(queue, emitted')

Emit ==
    /\ Loop /\ Fresh
    /\ ~Full /\ Put
    /\ UNCHANGED <<config, consumer, control, emitting, signals, raised, dropped>>

DropNewest ==
    /\ Loop /\ Fresh
    /\ Full /\ policy = "drop_newest"
    /\ dropped' = dropped + 1
    /\ UNCHANGED <<config, queue, consumer, control, emitting, signals, raised>>

\* Mutant: what makes room is not counted.
MakeRoomUncounted == queue' = Tail(queue) /\ UNCHANGED dropped

MakeRoom == queue' = Tail(queue) /\ dropped' = dropped + 1

\* The queue is full: get_nowait() makes room ...
DropOldest ==
    /\ Loop
    /\ emitted < MaxEvents
    /\ Full /\ policy = "drop_oldest"
    /\ MakeRoom
    /\ emitting' = TRUE
    /\ UNCHANGED <<config, consumer, control, emitted, signals, raised>>

\* ... and put_nowait() uses it, or raises if it is gone.
PutInRoom ==
    /\ emitting /\ Fresh
    /\ emitting' = FALSE
    /\ \/ ~Full /\ Put /\ UNCHANGED raised
       \/ Full /\ raised' = raised + 1 /\ UNCHANGED queue
    /\ UNCHANGED <<config, consumer, control, signals, dropped>>

\* handle_shutdown_signal emits an event of its own; the one it interrupts
\* still has its number to come.
EmitFromSignal ==
    /\ signals < MaxSignals
    /\ Fresh /\ (emitting => emitted' < MaxEvents)
    /\ signals' = signals + 1
    /\ \/ ~Full /\ Put /\ UNCHANGED dropped
       \/ Full /\ dropped' = dropped + 1
               /\ queue' = IF policy = "drop_oldest" THEN Append(Tail(queue), emitted')
                                                     ELSE queue
    /\ UNCHANGED <<config, consumer, control, emitting, raised>>

------------------------------------------------------------------------------
(* _run, the flush task *)

start ==
    /\ Loop
    /\ flush = "absent"
    /\ \A s \in Stoppers : stop[s] = "idle"
    /\ sink' = "started"
    /\ running' = TRUE
    /\ flush' = "getting"
    /\ UNCHANGED <<config, queue, hand, attempt, received, cancelled, stop, producer>>

\* Mutant: "while True" in place of "while self._running".
RoundForEver == flush' = "getting"

\* The test at the head of the loop.
Round == flush' = IF running THEN "getting" ELSE "ended"

\* The inner get() has an item.  It may come before a cancel() is delivered.
Take ==
    /\ Loop
    /\ flush = "getting"
    /\ queue # <<>>
    /\ hand' = <<Head(queue)>>
    /\ queue' = Tail(queue)
    /\ flush' = "taken"
    /\ UNCHANGED <<config, attempt, received, control, producer>>

\* Lines 80-89 from the item in hand on: fill the batch without waiting and
\* hand it over.  The no-op sink does not suspend.
Collect(first) ==
    LET room == BatchSize - Len(first)
        n == IF Len(queue) < room THEN Len(queue) ELSE room
        batch == first \o SubSeq(queue, 1, n)
    IN  /\ queue' = SubSeq(queue, n + 1, Len(queue))
        /\ IF sinkType = "noop" \/ batch = <<>>
             THEN received' = received \o batch /\ hand' = <<>> /\ Round
             ELSE hand' = batch /\ flush' = "sending" /\ UNCHANGED received
        /\ attempt' = 0

\* wait_for returns the item; a cancel() that came after the get() is swallowed.
Fill ==
    /\ Loop
    /\ flush = "taken"
    /\ Collect(hand)
    /\ cancelled' = FALSE
    /\ UNCHANGED <<config, sink, running, stop, producer>>

\* flush_interval_s has passed; an event that came just then is collected.
Timeout ==
    /\ Loop
    /\ flush = "getting" /\ ~cancelled
    /\ Collect(<<>>)
    /\ UNCHANGED <<config, control, producer>>

Sending(type) == Loop /\ flush = "sending" /\ ~cancelled /\ sinkType = type

\* client.post succeeds.
PostOk ==
    /\ Sending("http")
    /\ received' = received \o hand
    /\ hand' = <<>> /\ Round
    /\ UNCHANGED <<config, queue, attempt, control, producer>>

\* client.post raises: the endpoint may have the batch or not.
PostFail ==
    /\ Sending("http")
    /\ received' \in {received, received \o hand}
    /\ attempt' = attempt + 1
    /\ flush' = "backoff"
    /\ UNCHANGED <<config, queue, hand, control, producer>>

BackoffOver == Loop /\ flush = "backoff" /\ ~cancelled

\* Mutant: a batch that failed once makes way for the events in the queue.
RetryLater ==
    /\ BackoffOver
    /\ attempt < Attempts
    /\ flush' = "sending"
    /\ IF queue = <<>> THEN UNCHANGED <<queue, hand>> ELSE queue' = hand /\ hand' = queue
    /\ UNCHANGED <<config, attempt, received, control, producer>>

Retry ==
    /\ BackoffOver
    /\ attempt < Attempts
    /\ flush' = "sending"
    /\ UNCHANGED <<config, queue, hand, attempt, received, control, producer>>

\* Mutant: "while True" in place of "for attempt in range(4)".
NeverGiveUp ==
    /\ BackoffOver
    /\ attempt = Attempts
    /\ attempt' = 0 /\ flush' = "sending"
    /\ UNCHANGED <<config, queue, hand, received, control, producer>>

\* The sleep after the last failure is over.
GiveUp ==
    /\ BackoffOver
    /\ attempt = Attempts
    /\ hand' = <<>> /\ Round
    /\ UNCHANGED <<config, queue, attempt, received, control, producer>>

\* A sink with emit() only gets the batch event by event.
PluginOk ==
    /\ Sending("plugin")
    /\ received' = Append(received, Head(hand))
    /\ hand' = Tail(hand)
    /\ IF hand' = <<>> THEN Round ELSE UNCHANGED flush
    /\ UNCHANGED <<config, queue, attempt, control, producer>>

\* Nothing catches what it raises: the flush task is over.
PluginRaises ==
    /\ Sending("plugin")
    /\ received' \in {received, Append(received, Head(hand))}
    /\ hand' = <<>>
    /\ flush' = "raised"
    /\ UNCHANGED <<config, queue, attempt, control, producer>>

\* CancelledError comes out of the await the task is in: what it holds is lost,
\* after it may have reached the sink's reader.
Cancelled ==
    /\ Loop
    /\ cancelled
    /\ \/ flush \in {"getting", "backoff"} /\ UNCHANGED received
       \/ flush = "sending" /\ \/ UNCHANGED received
                               \/ sinkType = "http" /\ received' = received \o hand
                               \/ sinkType = "plugin" /\ received' = Append(received, Head(hand))
    /\ hand' = <<>>
    /\ cancelled' = FALSE
    /\ flush' = "cancelled"
    /\ UNCHANGED <<config, queue, attempt, sink, running, stop, producer>>

------------------------------------------------------------------------------
(* stop *)

\* _running is cleared and the task cancelled; without a task there is only
\* the sink to stop.
Stop(s) ==
    /\ Loop
    /\ stop[s] = "idle"
    /\ running' = FALSE
    /\ cancelled' = (cancelled \/ flush \notin Finished \cup {"absent"})
    /\ IF flush = "absent"
         THEN stop' = [stop EXCEPT ![s] = "returned"] /\ sink' = "stopped"
         ELSE stop' = [stop EXCEPT ![s] = "joining"] /\ UNCHANGED sink
    /\ UNCHANGED <<config, queue, consumer, producer>>

\* Mutant: the task is cancelled but not awaited.
NotAwaited == TRUE

\* The flush task is done.
Joined == flush \in Finished

\* "await self._task" is over.  suppress(Exception) lets CancelledError through,
\* and then the sink is not stopped.
Join(s) ==
    /\ Loop
    /\ stop[s] = "joining"
    /\ Joined
    /\ IF flush = "cancelled"
         THEN stop' = [stop EXCEPT ![s] = "cancelled"] /\ UNCHANGED sink
         ELSE stop' = [stop EXCEPT ![s] = "returned"] /\ sink' = "stopped"
    /\ UNCHANGED <<config, queue, consumer, running, cancelled, producer>>

Producers == Emit \/ DropNewest \/ DropOldest \/ PutInRoom \/ EmitFromSignal

FlushTask ==
    \/ Take \/ Fill \/ Timeout \/ PostOk \/ PostFail \/ Retry \/ GiveUp
    \/ PluginOk \/ PluginRaises \/ Cancelled

Next == start \/ Producers \/ FlushTask \/ \E s \in Stoppers : Stop(s) \/ Join(s)

Spec == Init /\ [][Next]_vars

\* The loop runs the flush task when it is ready; a post ends because the
\* client has a timeout, and a sleep because it is one.
Fairness ==
    /\ WF_vars(PutInRoom)
    /\ WF_vars(FlushTask)
    /\ \A s \in Stoppers : WF_vars(Join(s))

FairSpec == Spec /\ Fairness

------------------------------------------------------------------------------
\* Events reach the sink in the order in which they were emitted, and none is
\* lost before that without being counted, or told to its producer by an
\* exception (pipeline.py:48-89): see LossyFifo.
Fifo ==
    INSTANCE LossyFifo
        WITH Room <- QueueMax, waiting <- queue, offered <- hand, seen <- received,
             dropped <- dropped + raised

FifoSpec == Fifo!Spec

\* Through retries, lost answers and cancellations the reader sees every event
\* for the first time in the order of emission (pipeline.py:76-89,
\* http_sink.py:36-41).
FirstSeenInOrder ==
    \A i \in DOMAIN received :
        (\A k \in 1 .. i - 1 : received[k] # received[i]) =>
            \A k \in 1 .. i - 1 : received[k] < received[i]

\* The queue and the batch keep their bounds, and what has left them their order
\* (pipeline.py:55-89).
Consistent == TypeOK /\ FirstSeenInOrder

\* After a stop() that returned, the reader is sent nothing (pipeline.py:40-46).
SilentAfterStop ==
    [][(\E s \in Stoppers : stop[s] = "returned") => UNCHANGED received]_vars

\* While the pipeline runs and its sink does not raise, no event stays in the
\* queue for ever, however the endpoint behaves (pipeline.py:72-89).
QueueMoves ==
    \A e \in 1 .. MaxEvents :
        e \in ToSet(queue) ~> e \notin ToSet(queue) \/ ~running \/ flush = "raised"

\* Every stop() comes to an end, one way or the other (pipeline.py:40-46).
StopEnds == \A s \in Stoppers : stop[s] = "joining" ~> stop[s] \in {"returned", "cancelled"}

\* test_telemetry_queue_flush.py:58 stops an idle pipeline with "await
\* pipe.stop()" and goes on.  The code raises CancelledError there.
StopReturns == \A s \in Stoppers : stop[s] # "cancelled"
==============================================================================
