----------------------- MODULE TelemetryPipeline_proofs -----------------------
(***************************************************************************)
(* Proofs about TelemetryPipeline for queues and batches of any size, both *)
(* policies, every sink, any number of events, signals and callers of      *)
(* stop().                                                                 *)
(*                                                                         *)
(* Sized is what keeps the types: what left the queue is accounted for,    *)
(* and the hand is empty when the flush task waits.  Ordered says that the *)
(* reader, the hand and the queue hold older events before newer ones,     *)
(* except for a batch that the reader has seen and is shown again.         *)
(***************************************************************************)
EXTENDS TelemetryPipeline, QueueLemmas, TLAPS

Events == 1 .. MaxEvents

\* The hand holds something exactly while the task works on it, and a batch is
\* not sent more often than the loop allows.
Held ==
    /\ flush \in {"sending", "backoff"} => hand # <<>>
    /\ flush \notin {"taken", "sending", "backoff"} => hand = <<>>
    /\ flush = "sending" => attempt < Attempts

\* No event is counted twice, or counted while it waits.
Counted == dropped + raised + Len(queue) <= emitted

\* The room that was made is gone only if a signal's event took it.
RoomTaken == emitting /\ Full => raised < signals

Sized == TypeOK /\ Held /\ Counted /\ RoomTaken

\* The constants as the proofs need them.
LEMMA Sizes ==
  /\ QueueMax \in Nat \ {0} /\ BatchSize \in Nat \ {0} /\ MaxEvents \in Nat /\ MaxSignals \in Nat
  /\ Attempts = 4 /\ Events \subseteq Nat
  BY PipelineAssumption DEF Attempts, Events

\* At the start there is nothing.
LEMMA SizedInit == Init => Sized
<1>. SUFFICES ASSUME Init PROVE Sized
  OBVIOUS
<1>1. <<>> \in Seq(1 .. MaxEvents) /\ Len(<<>>) = 0
  BY EmptySeq
<1>2. TypeOK
  <2>1. {running, cancelled, emitting} \subseteq BOOLEAN
    BY DEF Init
  <2>2. Len(queue) <= QueueMax /\ Len(hand) <= BatchSize
    BY <1>1, Sizes DEF Init
  <2>. QED  BY <1>1, <2>1, <2>2, Sizes DEF Init, TypeOK
<1>3. Held /\ RoomTaken
  BY DEF Init, Held, RoomTaken
<1>4. Counted
  BY <1>1 DEF Init, Counted
<1>. QED  BY <1>2, <1>3, <1>4 DEF Sized

\* What the sequences are.
LEMMA Sequential ==
  ASSUME TypeOK
  PROVE  /\ queue \in Seq(Events) /\ hand \in Seq(Events) /\ received \in Seq(Events)
         /\ Len(queue) \in Nat /\ Len(hand) \in Nat
         /\ emitted \in Nat /\ dropped \in Nat /\ raised \in Nat /\ signals \in Nat
  BY LenProperties DEF TypeOK, Events

\* An event is put into a queue that has room for it, after another has left it
\* perhaps.
LEMMA SizedPut ==
  ASSUME Sized, Fresh, NEW q \in Seq(Events), Len(q) < QueueMax,
         queue' = Append(q, emitted'),
         signals' \in signals .. MaxSignals,
         emitting' \in BOOLEAN, emitting' => emitting /\ signals' > signals,
         dropped' \in Nat, raised' = raised,
         dropped' + Len(q) <= dropped + Len(queue),
         UNCHANGED <<config, hand, flush, attempt, received, control>>
  PROVE  Sized'
<1>0. TypeOK /\ Len(q) \in Nat
  BY LenProperties DEF Sized
<1>1. /\ emitted \in Nat /\ emitted' = emitted + 1 /\ emitted' \in 0 .. MaxEvents /\ emitted' \in Events
      /\ Len(queue) \in Nat /\ Len(q) \in Nat /\ dropped \in Nat /\ raised \in Nat /\ signals \in Nat
  <2>1. Len(queue) \in Nat /\ emitted \in Nat /\ dropped \in Nat /\ raised \in Nat /\ signals \in Nat
    BY <1>0, Sequential
  <2>2. emitted' = emitted + 1 /\ emitted' \in 1 .. MaxEvents
    BY <2>1, Sizes DEF Fresh
  <2>. QED  BY <1>0, <2>1, <2>2, Sizes DEF Events
<1>2. queue' \in Seq(Events) /\ Len(queue') = Len(q) + 1
  BY <1>1
<1>3. Counted'
  <2>1. dropped + raised + Len(queue) <= emitted
    BY DEF Sized, Counted
  <2>2. dropped' + Len(q) <= dropped + Len(queue) /\ dropped' \in Nat /\ raised' = raised
    OBVIOUS
  <2>3. Len(queue') = Len(q) + 1 /\ emitted' = emitted + 1
    BY <1>1, <1>2
  <2>. QED  BY <1>1, <2>1, <2>2, <2>3 DEF Counted
<1>4. dropped' \in 0 .. MaxEvents /\ Len(queue') <= QueueMax
  <2>1. Len(queue') <= QueueMax
    BY <1>1, <1>2, Sizes
  <2>2. dropped' + raised' + Len(queue') <= emitted' /\ emitted' <= MaxEvents
    BY <1>1, <1>3, Sizes DEF Counted
  <2>3. dropped' \in Nat /\ raised' \in Nat /\ Len(queue') \in Nat /\ emitted' \in Nat
    BY <1>1, <1>2
  <2>. QED  BY <2>1, <2>2, <2>3, Sizes
<1>5. raised' \in 0 .. signals' /\ signals' \in 0 .. MaxSignals
  BY <1>1, Sizes DEF Sized, TypeOK
<1>6. RoomTaken'
  BY <1>1, <1>5 DEF Sized, TypeOK, RoomTaken
<1>7. TypeOK'
  BY <1>1, <1>2, <1>4, <1>5 DEF Sized, TypeOK, config, control, Events
<1>8. Held'
  BY DEF Sized, Held
<1>. QED  BY <1>3, <1>6, <1>7, <1>8 DEF Sized

\* A step of the flush task: what it takes from the queue stays within the
\* queue, the batch within its size.
LEMMA SizedFlush ==
  ASSUME Sized, UNCHANGED <<config, producer, stop, sink, running>>,
         queue' \in Seq(Events), Len(queue') <= Len(queue), Loop,
         hand' \in Seq(Events), Len(hand') <= BatchSize,
         received' \in Seq(Events), cancelled' \in BOOLEAN,
         flush' \in {"absent", "getting", "taken", "sending", "backoff"} \cup Finished,
         attempt' \in 0 .. Attempts, Held'
  PROVE  Sized'
<1>1. Len(queue') \in Nat /\ Len(queue) \in Nat /\ dropped \in Nat /\ raised \in Nat /\ emitted \in Nat
  BY Sequential, LenProperties DEF Sized
<1>2. UNCHANGED <<emitting, emitted, signals, raised, dropped, policy, sinkType>>
  BY DEF producer, config
<1>3. Counted'
  BY <1>1, <1>2 DEF Sized, Counted
<1>4. Len(queue') <= QueueMax
  BY <1>1, Sizes DEF Sized, TypeOK
<1>5. RoomTaken'
  BY <1>2 DEF RoomTaken, Loop
<1>6. TypeOK'
  BY <1>2, <1>4 DEF Sized, TypeOK, Events
<1>. QED  BY <1>3, <1>5, <1>6 DEF Sized

\* What Collect does to the queue and the hand.
LEMMA Collected ==
  ASSUME TypeOK, Collect(hand)
  PROVE  \E n \in 0 .. Len(queue), batch \in Seq(Events) :
           /\ batch = hand \o SubSeq(queue, 1, n)
           /\ Len(batch) = Len(hand) + n /\ Len(batch) <= BatchSize
           /\ queue' = SubSeq(queue, n + 1, Len(queue))
           /\ queue' \in Seq(Events) /\ Len(queue') = Len(queue) - n
           /\ \/ /\ sinkType = "noop" \/ batch = <<>>
                 /\ received' = received \o batch /\ hand' = <<>> /\ Round
              \/ /\ sinkType # "noop" /\ batch # <<>>
                 /\ received' = received /\ hand' = batch /\ flush' = "sending"
           /\ attempt' = 0
<1>1. /\ queue \in Seq(Events) /\ hand \in Seq(Events)
      /\ Len(queue) \in Nat /\ Len(hand) \in Nat /\ Len(hand) <= BatchSize
  BY Sequential DEF TypeOK
<1>. DEFINE room == BatchSize - Len(hand)
            n == IF Len(queue) < room THEN Len(queue) ELSE room
            batch == hand \o SubSeq(queue, 1, n)
<1>2. n \in 0 .. Len(queue) /\ Len(hand) + n <= BatchSize
  BY <1>1, Sizes
<1>3. /\ queue' = SubSeq(queue, n + 1, Len(queue)) /\ attempt' = 0
      /\ \/ /\ sinkType = "noop" \/ batch = <<>>
            /\ received' = received \o batch /\ hand' = <<>> /\ Round
         \/ /\ ~(sinkType = "noop" \/ batch = <<>>)
            /\ hand' = batch /\ flush' = "sending" /\ received' = received
  BY DEF Collect
<1>. HIDE DEF n
<1>4. /\ SubSeq(queue, 1, n) \in Seq(Events) /\ Len(SubSeq(queue, 1, n)) = n
      /\ SubSeq(queue, n + 1, Len(queue)) \in Seq(Events)
      /\ Len(SubSeq(queue, n + 1, Len(queue))) = Len(queue) - n
  BY <1>1, <1>2, Cut
<1>5. batch \in Seq(Events) /\ Len(batch) = Len(hand) + n /\ batch = hand \o SubSeq(queue, 1, n)
  BY <1>1, <1>4, Concatenate
<1>. HIDE DEF batch
<1>. QED  BY <1>2, <1>3, <1>4, <1>5

\* Every step keeps it.
LEMMA SizedStep == Sized /\ [Next]_vars => Sized'
<1>. SUFFICES ASSUME Sized, [Next]_vars PROVE Sized'
  OBVIOUS
<1>. USE DEF Finished
<1>0. /\ queue \in Seq(Events) /\ hand \in Seq(Events) /\ received \in Seq(Events)
      /\ Len(queue) \in Nat /\ Len(hand) \in Nat /\ Len(queue) <= QueueMax /\ Len(hand) <= BatchSize
      /\ emitted \in Nat /\ dropped \in Nat /\ raised \in Nat /\ signals \in Nat
      /\ <<>> \in Seq(Events) /\ Len(<<>>) = 0
      /\ signals \in 0 .. MaxSignals /\ attempt \in 0 .. Attempts /\ cancelled \in BOOLEAN /\ TypeOK
      /\ flush \in {"absent", "getting", "taken", "sending", "backoff"} \cup Finished
  BY Sequential, EmptySeq DEF Sized, TypeOK
<1>1. CASE start
  BY <1>1 DEF start, Sized, TypeOK, Held, Counted, RoomTaken, Full, config, producer
<1>2. CASE Emit
  <2>1. Len(queue) < QueueMax
    BY <1>0, <1>2, Sizes DEF Emit, Full
  <2>2. /\ Fresh /\ queue \in Seq(Events) /\ queue' = Append(queue, emitted')
        /\ UNCHANGED <<config, hand, flush, attempt, received, control>>
    BY <1>0, <1>2 DEF Emit, Put, consumer
  <2>3. /\ signals' \in signals .. MaxSignals /\ dropped' \in Nat /\ raised' = raised
        /\ dropped' + Len(queue) <= dropped + Len(queue)
    BY <1>0, <1>2 DEF Emit
  <2>4. emitting' \in BOOLEAN /\ ~emitting'
    BY <1>0, <1>2 DEF Emit, Loop, TypeOK
  <2>. QED  BY <2>1, <2>2, <2>3, <2>4, SizedPut
<1>3. CASE DropNewest
  <2>1. /\ emitted' = emitted + 1 /\ dropped' = dropped + 1 /\ emitted' \in 0 .. MaxEvents
        /\ UNCHANGED <<config, queue, consumer, control, emitting, signals, raised>>
    BY <1>0, <1>3, Sizes DEF DropNewest, Fresh
  <2>2. Counted' /\ dropped' \in 0 .. MaxEvents
    BY <1>0, <2>1, Sizes DEF Sized, Counted
  <2>. QED  BY <2>1, <2>2 DEF Sized, TypeOK, Held, RoomTaken, Full, config, consumer, control
<1>4. CASE DropOldest
  <2>1. /\ queue' = Tail(queue) /\ dropped' = dropped + 1 /\ emitting' = TRUE /\ Full
        /\ UNCHANGED <<config, consumer, control, emitted, signals, raised>>
    BY <1>4 DEF DropOldest, MakeRoom
  <2>2. queue # <<>> /\ Len(queue) = QueueMax
    BY <1>0, <2>1, Sizes DEF Full
  <2>3. queue' \in Seq(Events) /\ Len(queue') = Len(queue) - 1
    BY <1>0, <2>1, <2>2, Dequeue
  <2>4. Counted' /\ dropped' \in 0 .. MaxEvents /\ Len(queue') <= QueueMax /\ ~Full'
    BY <1>0, <2>1, <2>2, <2>3, Sizes DEF Sized, TypeOK, Counted, Full
  <2>. QED
    BY <2>1, <2>3, <2>4 DEF Sized, TypeOK, Held, RoomTaken, config, consumer, control, Events
<1>5. CASE PutInRoom
  <2>1. CASE ~Full
    <3>1. Len(queue) < QueueMax
      BY <1>0, <2>1, Sizes DEF Full
    <3>2. /\ Fresh /\ queue \in Seq(Events) /\ queue' = Append(queue, emitted')
          /\ emitting' \in BOOLEAN /\ ~emitting'
          /\ UNCHANGED <<config, hand, flush, attempt, received, control>>
      BY <1>0, <1>5, <2>1 DEF PutInRoom, Put, consumer
    <3>3. /\ signals' \in signals .. MaxSignals /\ dropped' \in Nat /\ raised' = raised
          /\ dropped' + Len(queue) <= dropped + Len(queue)
      BY <1>0, <1>5, <2>1 DEF PutInRoom
    <3>. QED  BY <3>1, <3>2, <3>3, SizedPut
  <2>2. CASE Full
    <3>1. /\ raised' = raised + 1 /\ queue' = queue /\ emitted' = emitted + 1 /\ emitting' = FALSE
          /\ emitted' \in 0 .. MaxEvents
          /\ UNCHANGED <<config, consumer, control, signals, dropped>>
      BY <1>0, <1>5, <2>2, Sizes DEF PutInRoom, Fresh, Put
    <3>2. raised < signals
      BY <1>5, <2>2 DEF Sized, RoomTaken, PutInRoom
    <3>3. Counted' /\ raised' \in 0 .. signals'
      BY <1>0, <3>1, <3>2 DEF Sized, Counted
    <3>. QED  BY <3>1, <3>3 DEF Sized, TypeOK, Held, RoomTaken, config, consumer, control
  <2>. QED  BY <2>1, <2>2
<1>6. CASE EmitFromSignal
  <2>1. /\ Fresh /\ signals' = signals + 1 /\ signals' \in signals .. MaxSignals
        /\ signals' \in 0 .. MaxSignals /\ emitted' = emitted + 1 /\ emitted' \in 0 .. MaxEvents
        /\ UNCHANGED <<config, hand, flush, attempt, received, consumer, control, emitting, raised>>
    BY <1>0, <1>6, Sizes DEF EmitFromSignal, Fresh, consumer
  <2>2. CASE ~Full
    <3>1. Len(queue) < QueueMax
      BY <1>0, <2>2, Sizes DEF Full
    <3>2. queue' = Append(queue, emitted') /\ dropped' = dropped
      BY <1>6, <2>2 DEF EmitFromSignal, Put
    <3>3. /\ dropped' \in Nat /\ dropped' + Len(queue) <= dropped + Len(queue)
          /\ emitting' \in BOOLEAN /\ (emitting' => emitting /\ signals' > signals)
      BY <1>0, <2>1, <3>2 DEF TypeOK
    <3>. QED  BY <1>0, <2>1, <3>1, <3>2, <3>3, SizedPut
  <2>3. CASE Full /\ queue' = Append(Tail(queue), emitted')
    <3>1. queue # <<>> /\ Len(queue) = QueueMax
      BY <1>0, <2>3, Sizes DEF Full
    <3>2. Tail(queue) \in Seq(Events) /\ Len(Tail(queue)) = Len(queue) - 1
      BY <1>0, <3>1, Dequeue
    <3>3. dropped' = dropped + 1
      BY <1>6, <2>3 DEF EmitFromSignal
    <3>4. /\ Len(Tail(queue)) < QueueMax /\ dropped' \in Nat
          /\ dropped' + Len(Tail(queue)) <= dropped + Len(queue)
      BY <1>0, <3>1, <3>2, <3>3
    <3>5. emitting' \in BOOLEAN /\ (emitting' => emitting /\ signals' > signals)
      BY <1>0, <2>1 DEF TypeOK
    <3>. QED  BY <2>1, <2>3, <3>2, <3>4, <3>5, SizedPut
  <2>4. CASE Full /\ queue' = queue
    <3>1. dropped' = dropped + 1
      BY <1>6, <2>4 DEF EmitFromSignal
    <3>2. Counted' /\ dropped' \in 0 .. MaxEvents
      BY <1>0, <2>1, <2>4, <3>1, Sizes DEF Sized, Counted
    <3>3. raised < signals' /\ raised' \in 0 .. signals'
      BY <1>0, <2>1 DEF Sized, TypeOK
    <3>. QED
      BY <2>1, <2>4, <3>2, <3>3 DEF Sized, TypeOK, Held, RoomTaken, config, consumer, control
  <2>. QED  BY <1>6, <2>2, <2>3, <2>4 DEF EmitFromSignal
<1>7. CASE Take
  <2>1. queue # <<>> /\ hand' = <<Head(queue)>> /\ queue' = Tail(queue) /\ flush' = "taken"
    BY <1>7 DEF Take
  <2>2. queue' \in Seq(Events) /\ Len(queue') <= Len(queue) /\ Head(queue) \in Events
    BY <1>0, <2>1, Dequeue
  <2>3. hand' \in Seq(Events) /\ Len(hand') <= BatchSize
    BY <2>1, <2>2, Sizes
  <2>. QED  BY <1>0, <1>7, <2>1, <2>2, <2>3, SizedFlush DEF Take, Held, control
<1>8. CASE Fill \/ Timeout
  <2>1. flush = "getting" => hand = <<>>
    BY DEF Sized, Held
  <2>2. Collect(hand)
    BY <1>8, <2>1 DEF Fill, Timeout
  <2>3. PICK n \in 0 .. Len(queue), batch \in Seq(Events) :
           /\ batch = hand \o SubSeq(queue, 1, n)
           /\ Len(batch) = Len(hand) + n /\ Len(batch) <= BatchSize
           /\ queue' = SubSeq(queue, n + 1, Len(queue))
           /\ queue' \in Seq(Events) /\ Len(queue') = Len(queue) - n
           /\ \/ /\ sinkType = "noop" \/ batch = <<>>
                 /\ received' = received \o batch /\ hand' = <<>> /\ Round
              \/ /\ sinkType # "noop" /\ batch # <<>>
                 /\ received' = received /\ hand' = batch /\ flush' = "sending"
           /\ attempt' = 0
    BY <1>0, <2>2, Collected
  <2>4. received \o batch \in Seq(Events)
    BY <1>0, <2>3, Concatenate
  <2>5. received' \in Seq(Events) /\ hand' \in Seq(Events) /\ Len(hand') <= BatchSize
    <3>1. CASE received' = received \o batch /\ hand' = <<>>
      <4>1. Len(hand') <= BatchSize
        BY <1>0, <3>1, Sizes
      <4>. QED  BY <1>0, <2>4, <3>1, <4>1
    <3>2. CASE received' = received /\ hand' = batch
      BY <1>0, <2>3, <3>2
    <3>. QED  BY <2>3, <3>1, <3>2
  <2>6. /\ flush' \in {"getting", "sending", "ended"} /\ attempt' = 0
        /\ flush' = "sending" => hand' # <<>>
        /\ flush' # "sending" => hand' = <<>>
    BY <2>3 DEF Round
  <2>7. Held' /\ attempt' \in 0 .. Attempts
    BY <2>6, Sizes DEF Held
  <2>8. queue' \in Seq(Events) /\ Len(queue') <= Len(queue)
    BY <1>0, <2>3
  <2>9. Loop /\ cancelled' \in BOOLEAN /\ UNCHANGED <<config, producer, stop, sink, running>>
    BY <1>0, <1>8 DEF Fill, Timeout, control
  <2>. QED  BY <2>5, <2>6, <2>7, <2>8, <2>9, SizedFlush
<1>9. CASE PostOk \/ PostFail
  <2>1. received \o hand \in Seq(Events)
    BY <1>0, Concatenate
  <2>2. /\ received' \in {received, received \o hand} /\ hand' \in {<<>>, hand} /\ Loop
        /\ UNCHANGED <<config, queue, control, producer>>
    BY <1>9 DEF PostOk, PostFail, Sending
  <2>3. attempt' \in 0 .. Attempts /\ flush' \in {"getting", "ended", "backoff"} /\ Held'
    BY <1>0, <1>9, Sizes DEF Sized, Held, PostOk, PostFail, Sending, Round
  <2>4. received' \in Seq(Events)
    BY <1>0, <2>1, <2>2
  <2>5. hand' \in Seq(Events) /\ Len(hand') <= BatchSize
    <3>1. CASE hand' = <<>>
      BY <1>0, <3>1, Sizes
    <3>2. CASE hand' = hand
      BY <1>0, <3>2
    <3>. QED  BY <2>2, <3>1, <3>2
  <2>6. /\ cancelled' \in BOOLEAN /\ queue' \in Seq(Events) /\ Len(queue') <= Len(queue)
        /\ UNCHANGED <<config, producer, stop, sink, running>>
    BY <1>0, <2>2 DEF control
  <2>. QED  BY <2>2, <2>3, <2>4, <2>5, <2>6, SizedFlush
<1>10. CASE Retry \/ GiveUp
  <2>1. /\ hand' \in {<<>>, hand} /\ Loop
        /\ UNCHANGED <<config, queue, attempt, received, control, producer>>
    BY <1>10 DEF Retry, GiveUp, BackoffOver
  <2>2. flush' \in {"getting", "ended", "sending"} /\ Held'
    BY <1>0, <1>10, Sizes DEF Sized, Held, Retry, GiveUp, BackoffOver, Round
  <2>3. hand' \in Seq(Events) /\ Len(hand') <= BatchSize
    <3>1. CASE hand' = <<>>
      BY <1>0, <3>1, Sizes
    <3>2. CASE hand' = hand
      BY <1>0, <3>2
    <3>. QED  BY <2>1, <3>1, <3>2
  <2>4. /\ received' \in Seq(Events) /\ queue' \in Seq(Events) /\ Len(queue') <= Len(queue)
        /\ cancelled' \in BOOLEAN /\ attempt' \in 0 .. Attempts
        /\ UNCHANGED <<config, producer, stop, sink, running>>
    BY <1>0, <2>1 DEF control
  <2>. QED  BY <2>1, <2>2, <2>3, <2>4, SizedFlush
<1>11. CASE PluginOk \/ PluginRaises \/ Cancelled
  <2>1. flush \in {"sending", "backoff"} => hand # <<>>
    BY DEF Sized, Held
  <2>2. hand # <<>> => /\ Tail(hand) \in Seq(Events) /\ Len(Tail(hand)) <= BatchSize
                       /\ Append(received, Head(hand)) \in Seq(Events)
    BY <1>0, Dequeue, Enqueue, Sizes
  <2>3. received \o hand \in Seq(Events)
    BY <1>0, Concatenate
  <2>4. /\ hand' \in {<<>>, Tail(hand)} /\ (hand' # <<>> => hand # <<>>)
        /\ \/ received' \in {received, received \o hand}
           \/ hand # <<>> /\ received' = Append(received, Head(hand))
        /\ cancelled' \in {FALSE, cancelled}
        /\ Loop /\ UNCHANGED <<config, queue, attempt, sink, running, stop, producer>>
    <3>1. CASE PluginOk
      BY <2>1, <3>1 DEF PluginOk, Sending, control
    <3>2. CASE PluginRaises
      BY <2>1, <3>2 DEF PluginRaises, Sending, control
    <3>3. CASE Cancelled
      BY <2>1, <3>3 DEF Cancelled
    <3>. QED  BY <1>11, <3>1, <3>2, <3>3
  <2>5. flush' \in {"getting", "ended", "sending", "raised", "cancelled"} /\ Held'
    BY <1>0, <1>11, Sizes DEF Sized, Held, PluginOk, PluginRaises, Cancelled, Sending, Round
  <2>6. hand' \in Seq(Events) /\ Len(hand') <= BatchSize
    <3>1. CASE hand' = <<>>
      BY <1>0, <3>1, Sizes
    <3>2. CASE hand' = Tail(hand) /\ hand # <<>>
      BY <2>2, <3>2
    <3>. QED  BY <2>4, <3>1, <3>2
  <2>7. received' \in Seq(Events)
    BY <1>0, <2>2, <2>3, <2>4
  <2>8. /\ queue' \in Seq(Events) /\ Len(queue') <= Len(queue)
        /\ attempt' \in 0 .. Attempts
    BY <1>0, <2>4
  <2>9. cancelled' \in BOOLEAN
    BY <1>0, <2>4
  <2>. QED  BY <2>4, <2>5, <2>6, <2>7, <2>8, <2>9, SizedFlush
<1>12. ASSUME NEW s \in Stoppers, Stop(s) \/ Join(s) PROVE Sized'
  <2>1. /\ sink' \in {sink, "stopped"} /\ running' \in BOOLEAN /\ cancelled' \in BOOLEAN
        /\ stop' \in [Stoppers -> {"idle", "joining", "returned", "cancelled"}]
        /\ UNCHANGED <<config, queue, consumer, producer>>
    BY <1>0, <1>12 DEF Stop, Join, Sized, TypeOK
  <2>. QED  BY <2>1 DEF Sized, TypeOK, Held, Counted, RoomTaken, Full, config, consumer, producer
<1>13. CASE UNCHANGED vars
  BY <1>13 DEF Sized, TypeOK, Held, Counted, RoomTaken, Full, vars, config, consumer, control, producer
<1>. QED
  BY <1>1, <1>2, <1>3, <1>4, <1>5, <1>6, <1>7, <1>8, <1>9, <1>10, <1>11, <1>12, <1>13
     DEF Next, Producers, FlushTask

\* Always.
LEMMA SizedAlways == Spec => []Sized
  BY SizedInit, SizedStep, PTL DEF Spec

\* Whatever is emitted, fails or is stopped, the queue keeps to queue_max, the
\* batch to batch_size, and no event is counted as dropped that was not emitted
\* (pipeline.py:48-89).
THEOREM TypeCorrect == Spec => [](TypeOK /\ Counted)
<1>1. Sized => TypeOK /\ Counted
  BY DEF Sized
<1>. QED  BY <1>1, SizedAlways, PTL

------------------------------------------------------------------------------
(* The order of events *)

\* The first occurrence of each element is above all before it.
FirstSeen(s) ==
    \A i \in DOMAIN s :
        (\A k \in 1 .. i - 1 : s[k] # s[i]) => \A k \in 1 .. i - 1 : s[k] < s[i]

\* What the reader has seen of the hand is either nothing of it or, for a batch
\* that is retried, all.
Ordered ==
    /\ Increasing(queue) /\ Increasing(hand)
    /\ Before(hand, queue) /\ Before(received, queue)
    /\ \A e \in ToSet(queue) \cup ToSet(hand) \cup ToSet(received) : e <= emitted
    /\ \/ Before(received, hand)
       \/ /\ sinkType = "http" /\ flush \in {"sending", "backoff"}
          /\ ToSet(hand) \subseteq ToSet(received)
    /\ FirstSeen(received)

\* A reader is shown newer events in order, or events that it knows.
LEMMA FirstSeenGrows ==
  ASSUME NEW S \in SUBSET Nat, NEW r \in Seq(S), NEW b \in Seq(S), FirstSeen(r),
         (Increasing(b) /\ Before(r, b)) \/ ToSet(b) \subseteq ToSet(r)
  PROVE  FirstSeen(r \o b)
<1>. DEFINE u == r \o b
<1>1. /\ Len(u) = Len(r) + Len(b) /\ u \in Seq(S)
      /\ \A i \in 1 .. Len(r) + Len(b) : u[i] = IF i <= Len(r) THEN r[i] ELSE b[i - Len(r)]
  BY ConcatProperties
<1>. HIDE DEF u
<1>2. /\ DOMAIN r = 1 .. Len(r) /\ Len(r) \in Nat
      /\ DOMAIN b = 1 .. Len(b) /\ Len(b) \in Nat
      /\ DOMAIN u = 1 .. Len(r) + Len(b)
  BY <1>1, LenProperties
<1>3. ASSUME NEW i \in DOMAIN u, \A k \in 1 .. i - 1 : u[k] # u[i], NEW k \in 1 .. i - 1
      PROVE  u[k] < u[i]
  <2>1. CASE i <= Len(r)
    <3>1. i \in DOMAIN r /\ u[i] = r[i] /\ \A j \in 1 .. i - 1 : u[j] = r[j]
      BY <1>1, <1>2, <2>1
    <3>2. \A j \in 1 .. i - 1 : r[j] # r[i]
      BY <1>3, <3>1
    <3>3. r[k] < r[i]
      BY <3>1, <3>2 DEF FirstSeen
    <3>. QED  BY <3>1, <3>3
  <2>2. CASE Len(r) < i
    <3>1. i - Len(r) \in DOMAIN b /\ u[i] = b[i - Len(r)]
      BY <1>1, <1>2, <2>2
    <3>2. u[i] \in ToSet(b)
      BY <3>1 DEF ToSet
    <3>3. u[i] \notin ToSet(r)
      <4>1. \A j \in DOMAIN r : j \in 1 .. i - 1 /\ u[j] = r[j]
        BY <1>1, <1>2, <2>2
      <4>. QED  BY <1>3, <4>1 DEF ToSet
    <3>4. Increasing(b) /\ Before(r, b)
      BY <3>2, <3>3
    <3>5. CASE k <= Len(r)
      <4>1. k \in DOMAIN r /\ u[k] = r[k]
        BY <1>1, <1>2, <2>2, <3>5
      <4>2. u[k] \in ToSet(r)
        BY <4>1 DEF ToSet
      <4>. QED  BY <3>2, <3>4, <4>2 DEF Before
    <3>6. CASE Len(r) < k
      <4>1. k - Len(r) \in DOMAIN b /\ u[k] = b[k - Len(r)] /\ k - Len(r) < i - Len(r)
        BY <1>1, <1>2, <2>2, <3>6
      <4>. QED  BY <3>1, <3>4, <4>1 DEF Increasing
    <3>. QED  BY <1>2, <3>5, <3>6
  <2>. QED  BY <1>2, <2>1, <2>2
<1>. QED  BY <1>3 DEF FirstSeen, u

\* An event is put into the queue, after others have left it perhaps.
LEMMA OrderedPut ==
  ASSUME Sized, Ordered, Fresh, NEW q \in Seq(Events),
         Increasing(q), ToSet(q) \subseteq ToSet(queue),
         queue' = Append(q, emitted'), UNCHANGED <<sinkType, hand, flush, received>>
  PROVE  Ordered'
<1>1. /\ emitted \in Nat /\ emitted' = emitted + 1 /\ emitted' \in Events
      /\ queue \in Seq(Events) /\ hand \in Seq(Events) /\ received \in Seq(Events)
  BY Sequential, Sizes DEF Sized, Fresh, Events
<1>2. ToSet(queue') = ToSet(q) \cup {emitted'}
  BY <1>1, Enqueue
<1>3. /\ ToSet(queue) \subseteq Nat /\ ToSet(hand) \subseteq Nat /\ ToSet(received) \subseteq Nat
      /\ ToSet(q) \subseteq Nat
  BY <1>1, InQueue, Sizes
<1>4. \A e \in ToSet(queue) \cup ToSet(hand) \cup ToSet(received) : e < emitted'
  BY <1>1, <1>3 DEF Ordered
<1>5. Increasing(queue')
  BY <1>1, <1>4, IncreasingAppend
<1>6. Before(hand', queue') /\ Before(received', queue')
  BY <1>2, <1>4 DEF Ordered, Before
<1>7. \A e \in ToSet(queue') \cup ToSet(hand') \cup ToSet(received') : e <= emitted'
  BY <1>1, <1>2, <1>3, <1>4
<1>. QED  BY <1>5, <1>6, <1>7 DEF Ordered

\* Only the queue loses events.
LEMMA OrderedLess ==
  ASSUME Sized, Ordered, emitted' \in {emitted, emitted + 1},
         Increasing(queue'), ToSet(queue') \subseteq ToSet(queue),
         UNCHANGED <<sinkType, hand, received>>,
         flush' = flush \/ flush \notin {"sending", "backoff"} \/ flush' \in {"sending", "backoff"}
  PROVE  Ordered'
<1>1. /\ emitted \in Nat
      /\ queue \in Seq(Events) /\ hand \in Seq(Events) /\ received \in Seq(Events)
  BY Sequential DEF Sized
<1>2. ToSet(queue) \subseteq Nat /\ ToSet(hand) \subseteq Nat /\ ToSet(received) \subseteq Nat
  BY <1>1, InQueue, Sizes
<1>3. \A e \in ToSet(queue') \cup ToSet(hand') \cup ToSet(received') : e <= emitted'
  BY <1>1, <1>2 DEF Ordered
<1>. QED  BY <1>3 DEF Ordered, Before

\* The hand with the n oldest events of the queue, while the hand is not sent.
LEMMA OrderedBatch ==
  ASSUME Sized, Ordered, NEW n \in 0 .. Len(queue), flush \notin {"sending", "backoff"},
         NEW batch, batch = hand \o SubSeq(queue, 1, n),
         NEW rest, rest = SubSeq(queue, n + 1, Len(queue))
  PROVE  /\ batch \in Seq(Events) /\ rest \in Seq(Events)
         /\ Increasing(batch) /\ Increasing(rest)
         /\ Before(received, batch) /\ Before(batch, rest) /\ Before(received, rest)
         /\ ToSet(batch) \cup ToSet(rest) \subseteq ToSet(hand) \cup ToSet(queue)
<1>. DEFINE a == SubSeq(queue, 1, n)
<1>1. queue \in Seq(Events) /\ hand \in Seq(Events)
  BY Sequential DEF Sized
<1>2. /\ a \in Seq(Events) /\ ToSet(a) \subseteq ToSet(queue)
      /\ rest \in Seq(Events) /\ ToSet(rest) \subseteq ToSet(queue)
  BY <1>1, Cut
<1>3. Increasing(a) /\ Increasing(rest) /\ Before(a, rest)
  BY <1>1, IncreasingCut DEF Ordered
<1>4. batch = hand \o a
  OBVIOUS
<1>. HIDE DEF a
<1>5. Before(hand, a) /\ Before(hand, rest) /\ Before(received, a) /\ Before(received, rest) /\ Before(received, hand)
  BY <1>2 DEF Ordered, Before
<1>6. batch \in Seq(Events) /\ ToSet(batch) = ToSet(hand) \cup ToSet(a)
  <2>1. hand \o a \in Seq(Events) /\ ToSet(hand \o a) = ToSet(hand) \cup ToSet(a)
    BY <1>1, <1>2, Concatenate
  <2>. QED  BY <1>4, <2>1, Zenon
<1>7. Increasing(batch)
  BY <1>1, <1>2, <1>3, <1>4, <1>5, IncreasingConcat DEF Ordered
<1>8. Before(batch, rest) /\ Before(received, batch)
  BY <1>3, <1>5, <1>6 DEF Before
<1>. QED  BY <1>2, <1>3, <1>5, <1>6, <1>7, <1>8

\* The hand takes them.
LEMMA OrderedTake ==
  ASSUME Sized, Ordered, NEW n \in 0 .. Len(queue), flush \notin {"sending", "backoff"},
         hand' = hand \o SubSeq(queue, 1, n), queue' = SubSeq(queue, n + 1, Len(queue)),
         UNCHANGED <<emitted, sinkType, received>>
  PROVE  Ordered'
<1>1. PICK batch, rest : batch = hand \o SubSeq(queue, 1, n) /\ rest = SubSeq(queue, n + 1, Len(queue))
  OBVIOUS
<1>2. hand' = batch /\ queue' = rest
  BY <1>1
<1>. QED  BY <1>1, <1>2, OrderedBatch DEF Ordered

\* The reader is shown them at once.
LEMMA OrderedTakeShow ==
  ASSUME Sized, Ordered, NEW n \in 0 .. Len(queue), flush \notin {"sending", "backoff"},
         received' = received \o (hand \o SubSeq(queue, 1, n)), hand' = <<>>,
         queue' = SubSeq(queue, n + 1, Len(queue)), UNCHANGED <<emitted, sinkType>>
  PROVE  Ordered'
<1>1. PICK batch, rest : batch = hand \o SubSeq(queue, 1, n) /\ rest = SubSeq(queue, n + 1, Len(queue))
  OBVIOUS
<1>2. received' = received \o batch /\ queue' = rest
  BY <1>1
<1>3. /\ batch \in Seq(Events) /\ rest \in Seq(Events)
      /\ Increasing(batch) /\ Increasing(rest)
      /\ Before(received, batch) /\ Before(batch, rest) /\ Before(received, rest)
      /\ ToSet(batch) \cup ToSet(rest) \subseteq ToSet(hand) \cup ToSet(queue)
  BY <1>1, OrderedBatch
<1>4. received \in Seq(Events) /\ Events \in SUBSET Nat
  BY Sequential, Sizes DEF Sized
<1>5. ToSet(received') = ToSet(received) \cup ToSet(batch)
  <2>1. ToSet(received \o batch) = ToSet(received) \cup ToSet(batch)
    BY <1>3, <1>4, Concatenate
  <2>. QED  BY <1>2, <2>1, Zenon
<1>6. FirstSeen(received')
  BY <1>2, <1>3, <1>4, FirstSeenGrows DEF Ordered
<1>7. ToSet(hand') = {} /\ Increasing(hand')
  BY EmptyQueue DEF Increasing
<1>. QED  BY <1>2, <1>3, <1>5, <1>6, <1>7 DEF Ordered, Before

\* The reader is shown the first n events of the hand, which then lets them go,
\* or everything, or keeps all to show them again.
LEMMA OrderedShow ==
  ASSUME Sized, Ordered, NEW n \in 0 .. Len(hand),
         received' = received \o SubSeq(hand, 1, n),
         UNCHANGED <<emitted, sinkType, queue>>,
         \/ hand' = <<>>
         \/ hand' = SubSeq(hand, n + 1, Len(hand)) /\ sinkType # "http"
         \/ hand' = hand /\ n = Len(hand) /\ sinkType = "http" /\ flush' \in {"sending", "backoff"}
  PROVE  Ordered'
<1>. DEFINE a == SubSeq(hand, 1, n)
            b == SubSeq(hand, n + 1, Len(hand))
<1>1. queue \in Seq(Events) /\ hand \in Seq(Events) /\ received \in Seq(Events) /\ Events \in SUBSET Nat
  BY Sequential, Sizes DEF Sized
<1>2. a \in Seq(Events) /\ b \in Seq(Events) /\ ToSet(a) \subseteq ToSet(hand) /\ ToSet(b) \subseteq ToSet(hand)
  BY <1>1, Cut
<1>3. Increasing(a) /\ Increasing(b) /\ Before(a, b)
  BY <1>1, IncreasingCut DEF Ordered
<1>4. n = Len(hand) => a = hand
  BY <1>1, SubSeqFull
<1>. HIDE DEF a, b
<1>5. received' = received \o a /\ ToSet(received') = ToSet(received) \cup ToSet(a)
  <2>1. received' = received \o a
    BY DEF a
  <2>2. ToSet(received \o a) = ToSet(received) \cup ToSet(a)
    BY <1>1, <1>2, Concatenate
  <2>. QED  BY <2>1, <2>2, Zenon
<1>6. (Increasing(a) /\ Before(received, a)) \/ ToSet(a) \subseteq ToSet(received)
  BY <1>2, <1>3 DEF Ordered, Before
<1>7. FirstSeen(received')
  BY <1>1, <1>2, <1>5, <1>6, FirstSeenGrows DEF Ordered
<1>8. Before(received', queue')
  BY <1>2, <1>5 DEF Ordered, Before
<1>9. CASE hand' = <<>>
  BY <1>2, <1>5, <1>7, <1>8, <1>9, EmptyQueue DEF Ordered, Before, Increasing
<1>10. CASE hand' = SubSeq(hand, n + 1, Len(hand)) /\ sinkType # "http"
  <2>1. hand' = b
    BY <1>10 DEF b
  <2>2. Before(received', hand') /\ Before(hand', queue')
    BY <1>2, <1>3, <1>5, <1>10, <2>1 DEF Ordered, Before
  <2>. QED  BY <1>2, <1>3, <1>5, <1>7, <1>8, <2>1, <2>2 DEF Ordered
<1>11. CASE hand' = hand /\ n = Len(hand) /\ sinkType = "http" /\ flush' \in {"sending", "backoff"}
  <2>1. ToSet(hand') \subseteq ToSet(received')
    BY <1>4, <1>5, <1>11
  <2>. QED  BY <1>2, <1>4, <1>5, <1>7, <1>8, <1>11, <2>1 DEF Ordered
<1>. QED  BY <1>9, <1>10, <1>11

\* At the start no event is anywhere.
LEMMA OrderedInit == Init => Ordered
<1>. SUFFICES ASSUME Init PROVE Ordered
  OBVIOUS
<1>1. /\ queue = <<>> /\ hand = <<>> /\ received = <<>>
      /\ ToSet(<<>>) = {} /\ Increasing(<<>>) /\ FirstSeen(<<>>)
  BY EmptyQueue DEF Init, Increasing, FirstSeen
<1>. QED  BY <1>1 DEF Ordered, Before

\* No step breaks the order.
LEMMA OrderedStep == Sized /\ Ordered /\ [Next]_vars => Ordered'
<1>. SUFFICES ASSUME Sized, Ordered, [Next]_vars PROVE Ordered'
  OBVIOUS
<1>0. /\ queue \in Seq(Events) /\ hand \in Seq(Events) /\ received \in Seq(Events)
      /\ Len(queue) \in Nat /\ Len(hand) \in Nat /\ emitted \in Nat
      /\ Increasing(queue) /\ ToSet(queue) \subseteq ToSet(queue)
  BY Sequential DEF Sized, Ordered
<1>a. queue # <<>> =>
        /\ Tail(queue) \in Seq(Events) /\ Increasing(Tail(queue)) /\ ToSet(Tail(queue)) \subseteq ToSet(queue)
        /\ 1 \in 0 .. Len(queue) /\ <<Head(queue)>> = SubSeq(queue, 1, 1)
        /\ Tail(queue) = SubSeq(queue, 1 + 1, Len(queue))
  <2>. SUFFICES ASSUME queue # <<>>
                PROVE  /\ Tail(queue) \in Seq(Events) /\ Increasing(Tail(queue))
                       /\ ToSet(Tail(queue)) \subseteq ToSet(queue)
                       /\ 1 \in 0 .. Len(queue) /\ <<Head(queue)>> = SubSeq(queue, 1, 1)
                       /\ Tail(queue) = SubSeq(queue, 1 + 1, Len(queue))
    OBVIOUS
  <2>1. /\ 1 \in 0 .. Len(queue)
        /\ SubSeq(queue, 1, 1) = <<Head(queue)>> /\ SubSeq(queue, 1 + 1, Len(queue)) = Tail(queue)
    BY <1>0, HeadIsCut
  <2>2. Increasing(SubSeq(queue, 1 + 1, Len(queue)))
    BY <1>0, <2>1, IncreasingCut
  <2>3. Tail(queue) \in Seq(Events) /\ ToSet(queue) = ToSet(Tail(queue)) \cup {Head(queue)}
    BY <1>0, Dequeue
  <2>. QED  BY <2>1, <2>2, <2>3
<1>b. /\ received \o SubSeq(hand, 1, 0) = received /\ 0 \in 0 .. Len(hand)
      /\ SubSeq(hand, 1, Len(hand)) = hand /\ Len(hand) \in 0 .. Len(hand)
      /\ hand # <<>> => /\ 1 \in 0 .. Len(hand)
                        /\ received \o SubSeq(hand, 1, 1) = Append(received, Head(hand))
                        /\ SubSeq(hand, 1 + 1, Len(hand)) = Tail(hand)
  <2>1. SubSeq(hand, 1, 0) = <<>>
    BY SubSeqEmpty
  <2>2. received \o <<>> = received
    BY <1>0, ConcatEmptySeq
  <2>3. SubSeq(hand, 1, Len(hand)) = hand
    BY <1>0, SubSeqFull
  <2>4. ASSUME hand # <<>>
        PROVE  /\ 1 \in 0 .. Len(hand)
               /\ received \o SubSeq(hand, 1, 1) = Append(received, Head(hand))
               /\ SubSeq(hand, 1 + 1, Len(hand)) = Tail(hand)
    BY <1>0, <2>4, HeadIsCut, AppendIsConcat, Dequeue
  <2>. QED  BY <1>0, <2>1, <2>2, <2>3, <2>4
<1>1. CASE start
  BY <1>0, <1>1, OrderedLess DEF start, config, producer
<1>2. CASE Emit
  BY <1>0, <1>2, OrderedPut DEF Emit, Put, config, consumer
<1>3. CASE DropNewest
  BY <1>0, <1>3, OrderedLess DEF DropNewest, Fresh, config, consumer
<1>4. CASE DropOldest
  <2>1. queue # <<>>
    BY <1>0, <1>4, Sizes DEF DropOldest, Full
  <2>. QED  BY <1>0, <1>a, <1>4, <2>1, OrderedLess DEF DropOldest, MakeRoom, config, consumer
<1>5. CASE PutInRoom
  <2>1. CASE ~Full
    BY <1>0, <1>5, <2>1, OrderedPut DEF PutInRoom, Put, config, consumer
  <2>2. CASE Full
    BY <1>0, <1>5, <2>2, OrderedLess DEF PutInRoom, Fresh, Put, config, consumer
  <2>. QED  BY <2>1, <2>2
<1>6. CASE EmitFromSignal
  <2>1. Fresh /\ UNCHANGED <<sinkType, hand, flush, received>> /\ emitted' = emitted + 1
    BY <1>6 DEF EmitFromSignal, Fresh, config, consumer
  <2>2. CASE queue' = Append(queue, emitted')
    BY <1>0, <2>1, <2>2, OrderedPut
  <2>3. CASE queue' = queue
    BY <1>0, <2>1, <2>3, OrderedLess
  <2>4. CASE Full /\ queue' = Append(Tail(queue), emitted')
    <3>1. queue # <<>>
      BY <1>0, <2>4, Sizes DEF Full
    <3>. QED  BY <1>a, <2>1, <2>4, <3>1, OrderedPut
  <2>. QED  BY <1>6, <2>2, <2>3, <2>4 DEF EmitFromSignal, Put
<1>7. CASE Take
  <2>1. /\ queue # <<>> /\ hand' = <<Head(queue)>> /\ queue' = Tail(queue) /\ flush = "getting"
        /\ UNCHANGED <<emitted, sinkType, received>>
    BY <1>7 DEF Take, config, producer
  <2>2. hand = <<>>
    BY <2>1 DEF Sized, Held
  <2>3. hand \o SubSeq(queue, 1, 1) = SubSeq(queue, 1, 1)
    BY <1>0, <1>a, <2>1, <2>2, Cut, ConcatEmptySeq
  <2>. QED  BY <1>a, <2>1, <2>3, OrderedTake
<1>8. CASE Fill \/ Timeout
  <2>1. flush = "getting" => hand = <<>>
    BY DEF Sized, Held
  <2>2. Collect(hand) /\ flush \notin {"sending", "backoff"} /\ UNCHANGED <<emitted, sinkType>>
    BY <1>8, <2>1 DEF Fill, Timeout, config, producer
  <2>3. PICK n \in 0 .. Len(queue), batch \in Seq(Events) :
           /\ batch = hand \o SubSeq(queue, 1, n)
           /\ queue' = SubSeq(queue, n + 1, Len(queue))
           /\ \/ received' = received \o batch /\ hand' = <<>>
              \/ received' = received /\ hand' = batch
    BY <2>2, Collected DEF Sized
  <2>4. CASE received' = received \o batch /\ hand' = <<>>
    BY <2>2, <2>3, <2>4, OrderedTakeShow
  <2>5. CASE received' = received /\ hand' = batch
    BY <2>2, <2>3, <2>5, OrderedTake
  <2>. QED  BY <2>3, <2>4, <2>5
<1>9. CASE PostOk
  BY <1>b, <1>9, OrderedShow DEF PostOk, config, producer
<1>10. CASE PostFail
  <2>1. sinkType = "http" /\ flush' = "backoff" /\ UNCHANGED <<queue, hand, emitted, sinkType>>
    BY <1>10 DEF PostFail, Sending, config, producer
  <2>2. CASE received' = received
    BY <1>0, <2>1, <2>2, OrderedLess
  <2>3. CASE received' = received \o hand
    BY <1>b, <2>1, <2>3, OrderedShow
  <2>. QED  BY <1>10, <2>2, <2>3 DEF PostFail
<1>11. CASE Retry
  BY <1>0, <1>11, OrderedLess DEF Retry, config, producer
<1>12. CASE GiveUp
  BY <1>b, <1>12, OrderedShow DEF GiveUp, config, producer
<1>13. CASE PluginOk
  <2>1. /\ hand # <<>> /\ sinkType # "http" /\ hand' = Tail(hand)
        /\ received' = Append(received, Head(hand))
        /\ UNCHANGED <<emitted, sinkType, queue>>
    BY <1>13 DEF PluginOk, Sending, Sized, Held, config, producer
  <2>. QED  BY <1>b, <2>1, OrderedShow
<1>14. CASE PluginRaises \/ Cancelled
  <2>1. hand' = <<>> /\ UNCHANGED <<emitted, sinkType, queue>>
    BY <1>14 DEF PluginRaises, Cancelled, config, producer
  <2>2. \/ received' = received
        \/ received' = received \o hand
        \/ hand # <<>> /\ received' = Append(received, Head(hand))
    BY <1>14 DEF PluginRaises, Cancelled, Sending, Sized, Held
  <2>. QED  BY <1>b, <2>1, <2>2, OrderedShow
<1>15. ASSUME NEW s \in Stoppers, Stop(s) \/ Join(s) PROVE Ordered'
  BY <1>15 DEF Stop, Join, Ordered, config, consumer, producer
<1>16. CASE UNCHANGED vars
  BY <1>16 DEF Ordered, vars, config, consumer, producer
<1>. QED
  BY <1>1, <1>2, <1>3, <1>4, <1>5, <1>6, <1>7, <1>8, <1>9, <1>10, <1>11, <1>12, <1>13, <1>14,
     <1>15, <1>16 DEF Next, Producers, FlushTask

\* Through retries, lost answers, cancellations and sinks that raise the reader
\* sees every event for the first time in the order of emission
\* (pipeline.py:76-89, http_sink.py:36-41).
THEOREM InOrder == Spec => []Consistent
<1>1. Spec => []Ordered
  BY OrderedInit, OrderedStep, SizedAlways, PTL DEF Spec
<1>2. Sized /\ Ordered => Consistent
  BY DEF Sized, Ordered, Consistent, FirstSeen, FirstSeenInOrder
<1>. QED  BY <1>1, <1>2, SizedAlways, PTL

------------------------------------------------------------------------------
(* TelemetryPipeline implements LossyFifo *)

\* What a step that shows the reader the first n events of the hand is there.
LEMMA FifoShow ==
  ASSUME NEW n \in DOMAIN hand, NEW k \in {0} \cup n .. Len(hand),
         received' = received \o SubSeq(hand, 1, n),
         hand' = SubSeq(hand, k + 1, Len(hand)),
         UNCHANGED <<queue, emitted, dropped, raised>>
  PROVE  Fifo!Next
<1>1. Fifo!Show(n)
  BY DEF Fifo!Show, Fifo!From
<1>. QED  BY <1>1 DEF Fifo!Next

\* What a step that only empties the hand is there.
LEMMA FifoAbandon ==
  ASSUME hand' = <<>>, UNCHANGED <<received, queue, emitted, dropped, raised>>
  PROVE  Fifo!Next
  BY DEF Fifo!Next, Fifo!Abandon

\* What a step that moves nothing is there.
LEMMA FifoStutter ==
  ASSUME UNCHANGED <<hand, received, queue, emitted, dropped, raised>>
  PROVE  UNCHANGED Fifo!vars
  BY DEF Fifo!vars

\* The initial states are the same.
LEMMA FifoInit == Init => Fifo!Init
  BY DEF Init, Fifo!Init

\* Every step is one of LossyFifo, or moves nothing.
LEMMA FifoStep == Sized /\ [Next]_vars => [Fifo!Next]_(Fifo!vars)
<1>. SUFFICES ASSUME Sized, [Next]_vars PROVE Fifo!Next \/ UNCHANGED Fifo!vars
  OBVIOUS
<1>0. /\ queue \in Seq(Events) /\ hand \in Seq(Events) /\ received \in Seq(Events)
      /\ Len(queue) \in Nat /\ Len(hand) \in Nat
      /\ emitted \in Nat /\ dropped \in Nat /\ raised \in Nat
      /\ DOMAIN hand = 1 .. Len(hand) /\ DOMAIN queue = 1 .. Len(queue)
  BY Sequential, LenProperties DEF Sized
<1>a. /\ SubSeq(hand, 1, Len(hand)) = hand /\ SubSeq(hand, 0 + 1, Len(hand)) = hand
      /\ SubSeq(hand, Len(hand) + 1, Len(hand)) = <<>>
  BY <1>0, SubSeqFull, SubSeqEmpty
<1>b. ASSUME hand # <<>>
      PROVE  /\ 1 \in DOMAIN hand /\ Len(hand) \in DOMAIN hand
             /\ received \o SubSeq(hand, 1, 1) = Append(received, Head(hand))
             /\ SubSeq(hand, 1 + 1, Len(hand)) = Tail(hand)
  <2>1. 1 \in DOMAIN hand /\ SubSeq(hand, 1, 1) = <<Head(hand)>> /\ SubSeq(hand, 1 + 1, Len(hand)) = Tail(hand)
    BY <1>0, <1>b, HeadIsCut
  <2>2. Head(hand) \in Events
    BY <1>0, <1>b, Dequeue
  <2>3. Append(received, Head(hand)) = received \o <<Head(hand)>>
    BY <1>0, <2>2, AppendIsConcat
  <2>4. Len(hand) \in DOMAIN hand
    BY <1>0, <2>1
  <2>. QED  BY <2>1, <2>3, <2>4, Zenon
<1>1. CASE start
  BY <1>1, FifoStutter DEF start, config, producer
<1>2. CASE Emit
  <2>1. Fifo!Accept
    BY <1>2 DEF Emit, Fresh, Put, Full, config, consumer, Fifo!Accept, Fifo!Full
  <2>. QED  BY <2>1 DEF Fifo!Next
<1>3. CASE DropNewest
  <2>1. Fifo!Refuse
    BY <1>0, <1>3 DEF DropNewest, Fresh, Full, config, consumer, Fifo!Refuse, Fifo!Full
  <2>. QED  BY <2>1 DEF Fifo!Next
<1>4. CASE DropOldest
  <2>1. Fifo!Displace
    BY <1>0, <1>4 DEF DropOldest, MakeRoom, Full, config, consumer, Fifo!Displace, Fifo!Full
  <2>. QED  BY <2>1 DEF Fifo!Next
<1>5. CASE PutInRoom
  <2>1. CASE ~Full
    <3>1. Fifo!Accept
      BY <1>5, <2>1 DEF PutInRoom, Fresh, Put, Full, config, consumer, Fifo!Accept, Fifo!Full
    <3>. QED  BY <3>1 DEF Fifo!Next
  <2>2. CASE Full
    <3>1. Fifo!Refuse
      BY <1>0, <1>5, <2>2 DEF PutInRoom, Fresh, Put, Full, config, consumer, Fifo!Refuse, Fifo!Full
    <3>. QED  BY <3>1 DEF Fifo!Next
  <2>. QED  BY <2>1, <2>2
<1>6. CASE EmitFromSignal
  <2>1. UNCHANGED <<hand, received, raised>> /\ emitted' = emitted + 1
    BY <1>6 DEF EmitFromSignal, Fresh, config, consumer
  <2>2. CASE ~Full
    <3>1. Fifo!Accept
      BY <1>6, <2>1, <2>2 DEF EmitFromSignal, Put, Full, Fifo!Accept, Fifo!Full
    <3>. QED  BY <3>1 DEF Fifo!Next
  <2>3. CASE Full /\ policy = "drop_oldest"
    <3>1. Fifo!Replace
      BY <1>0, <1>6, <2>1, <2>3 DEF EmitFromSignal, Full, Fifo!Replace, Fifo!Full
    <3>. QED  BY <3>1 DEF Fifo!Next
  <2>4. CASE Full /\ policy # "drop_oldest"
    <3>1. Fifo!Refuse
      BY <1>0, <1>6, <2>1, <2>4 DEF EmitFromSignal, Full, Fifo!Refuse, Fifo!Full
    <3>. QED  BY <3>1 DEF Fifo!Next
  <2>. QED  BY <2>2, <2>3, <2>4
<1>7. CASE Take
  <2>1. /\ queue # <<>> /\ hand' = <<Head(queue)>> /\ queue' = Tail(queue) /\ flush = "getting"
        /\ UNCHANGED <<emitted, dropped, raised, received>>
    BY <1>7 DEF Take, config, producer
  <2>2. hand = <<>>
    BY <2>1 DEF Sized, Held
  <2>3. 1 \in DOMAIN queue /\ SubSeq(queue, 1, 1) = <<Head(queue)>> /\ SubSeq(queue, 1 + 1, Len(queue)) = Tail(queue)
    BY <1>0, <2>1, HeadIsCut
  <2>4. <<Head(queue)>> \in Seq(Events)
    BY <1>0, <2>1, Dequeue
  <2>5. hand \o SubSeq(queue, 1, 1) = <<Head(queue)>>
    BY <2>2, <2>3, <2>4, ConcatEmptySeq
  <2>6. Fifo!Offer(1)
    BY <2>1, <2>3, <2>5 DEF Fifo!Offer, Fifo!From
  <2>. QED  BY <2>3, <2>6 DEF Fifo!Next
<1>8. CASE Fill \/ Timeout
  <2>1. flush = "getting" => hand = <<>>
    BY DEF Sized, Held
  <2>2. Collect(hand) /\ UNCHANGED <<emitted, dropped, raised>>
    BY <1>8, <2>1 DEF Fill, Timeout, producer
  <2>3. PICK n \in 0 .. Len(queue), batch \in Seq(Events) :
           /\ batch = hand \o SubSeq(queue, 1, n)
           /\ queue' = SubSeq(queue, n + 1, Len(queue))
           /\ \/ received' = received \o batch /\ hand' = <<>>
              \/ received' = received /\ hand' = batch
    BY <2>2, Collected DEF Sized
  <2>4. CASE received' = received \o batch /\ hand' = <<>>
    <3>1. SubSeq(queue, 1, n) \in Seq(Events)
      BY <1>0, Cut
    <3>2. received' = received \o (hand \o SubSeq(queue, 1, n))
      BY <2>3, <2>4
    <3>3. received' = received \o hand \o SubSeq(queue, 1, n)
      <4>1. \A s, t, u \in Seq(Events) : (s \o t) \o u = s \o (t \o u)
        BY ConcatAssociative
      <4>2. received \in Seq(Events) /\ hand \in Seq(Events)
        BY <1>0
      <4>. QED  BY <3>1, <3>2, <4>1, <4>2, Zenon
    <3>4. Fifo!ShowAll(n)
      BY <2>2, <2>3, <2>4, <3>3 DEF Fifo!ShowAll, Fifo!From
    <3>. QED  BY <3>4 DEF Fifo!Next
  <2>5. CASE received' = received /\ hand' = batch /\ n = 0
    <3>1. SubSeq(queue, 1, n) = <<>> /\ SubSeq(queue, n + 1, Len(queue)) = queue
      BY <1>0, <2>5, SubSeqFull, SubSeqEmpty
    <3>2. hand \o <<>> = hand
      BY <1>0, ConcatEmptySeq
    <3>3. hand' = hand /\ queue' = queue
      BY <2>3, <2>5, <3>1, <3>2, Zenon
    <3>. QED  BY <2>2, <2>5, <3>3, FifoStutter
  <2>6. CASE received' = received /\ hand' = batch /\ n # 0
    <3>1. n \in DOMAIN queue
      BY <1>0, <2>6
    <3>2. Fifo!Offer(n)
      BY <2>2, <2>3, <2>6 DEF Fifo!Offer, Fifo!From
    <3>. QED  BY <3>1, <3>2 DEF Fifo!Next
  <2>. QED  BY <2>3, <2>4, <2>5, <2>6
<1>9. CASE PostOk
  <2>1. /\ hand # <<>> /\ received' = received \o hand /\ hand' = <<>>
        /\ UNCHANGED <<queue, emitted, dropped, raised>>
    BY <1>9 DEF PostOk, Sending, Sized, Held, producer
  <2>2. Len(hand) \in {0} \cup Len(hand) .. Len(hand)
    BY <1>0
  <2>. QED  BY <1>a, <1>b, <2>1, <2>2, FifoShow
<1>10. CASE PostFail
  <2>1. /\ hand # <<>> /\ hand' = hand /\ received' \in {received, received \o hand}
        /\ UNCHANGED <<queue, emitted, dropped, raised>>
    BY <1>10 DEF PostFail, Sending, Sized, Held, producer
  <2>2. CASE received' = received
    BY <2>1, <2>2, FifoStutter
  <2>3. CASE received' = received \o hand
    BY <1>a, <1>b, <2>1, <2>3, FifoShow
  <2>. QED  BY <2>1, <2>2, <2>3
<1>11. CASE Retry
  BY <1>11, FifoStutter DEF Retry, producer
<1>12. CASE GiveUp
  BY <1>12, FifoAbandon DEF GiveUp, producer
<1>13. CASE PluginOk
  <2>1. /\ hand # <<>> /\ hand' = Tail(hand) /\ received' = Append(received, Head(hand))
        /\ UNCHANGED <<queue, emitted, dropped, raised>>
    BY <1>13 DEF PluginOk, Sending, Sized, Held, producer
  <2>2. 1 \in {0} \cup 1 .. Len(hand)
    BY <1>0, <1>b, <2>1
  <2>. QED  BY <1>b, <2>1, <2>2, FifoShow
<1>14. CASE PluginRaises \/ Cancelled
  <2>1. hand' = <<>> /\ UNCHANGED <<queue, emitted, dropped, raised>>
    BY <1>14 DEF PluginRaises, Cancelled, producer
  <2>2. \/ received' = received
        \/ hand # <<>> /\ received' = received \o hand
        \/ hand # <<>> /\ received' = Append(received, Head(hand))
    BY <1>14 DEF PluginRaises, Cancelled, Sending, Sized, Held
  <2>3. CASE received' = received
    BY <2>1, <2>3, FifoAbandon
  <2>4. CASE hand # <<>> /\ received' = received \o hand
    <3>1. Len(hand) \in {0} \cup Len(hand) .. Len(hand)
      BY <1>0
    <3>. QED  BY <1>a, <1>b, <2>1, <2>4, <3>1, FifoShow
  <2>5. CASE hand # <<>> /\ received' = Append(received, Head(hand))
    <3>1. Len(hand) \in {0} \cup 1 .. Len(hand)
      BY <1>0, <1>b, <2>5
    <3>. QED  BY <1>a, <1>b, <2>1, <2>5, <3>1, FifoShow
  <2>. QED  BY <2>2, <2>3, <2>4, <2>5
<1>15. ASSUME NEW s \in Stoppers, Stop(s) \/ Join(s) PROVE UNCHANGED Fifo!vars
  BY <1>15, FifoStutter DEF Stop, Join, consumer, producer
<1>16. CASE UNCHANGED vars
  BY <1>16, FifoStutter DEF vars, consumer, producer
<1>. QED
  BY <1>1, <1>2, <1>3, <1>4, <1>5, <1>6, <1>7, <1>8, <1>9, <1>10, <1>11, <1>12, <1>13, <1>14,
     <1>15, <1>16 DEF Next, Producers, FlushTask

\* Whatever interrupts, fails or stops it, the pipeline is a bounded first-in
\* first-out queue that loses no waiting event uncounted (pipeline.py:48-89).
THEOREM ImplementsFifo == Spec => FifoSpec
  BY FifoInit, FifoStep, SizedAlways, PTL DEF Spec, FifoSpec, Fifo!Spec

------------------------------------------------------------------------------
(* The end *)

\* A stop() returns only when there is no flush task or it is done.
Gone == \A s \in Stoppers : stop[s] = "returned" => flush \in Finished \cup {"absent"}

\* Nothing brings it back.
LEMMA GoneStep == Sized /\ Gone /\ [Next]_vars => Gone'
<1>. SUFFICES ASSUME Sized, Gone, [Next]_vars PROVE Gone'
  OBVIOUS
<1>1. CASE start
  BY <1>1 DEF start, Gone
<1>2. CASE Producers
  BY <1>2 DEF Producers, Emit, DropNewest, DropOldest, PutInRoom, EmitFromSignal, consumer, control, Gone
<1>3. CASE FlushTask
  <2>1. flush \notin Finished \cup {"absent"} /\ stop' = stop
    BY <1>3 DEF FlushTask, Take, Fill, Timeout, PostOk, PostFail, Retry, GiveUp, BackoffOver, PluginOk,
                PluginRaises, Cancelled, Sending, control, Finished
  <2>. QED  BY <2>1 DEF Gone
<1>4. ASSUME NEW s \in Stoppers, Stop(s) \/ Join(s) PROVE Gone'
  BY <1>4 DEF Stop, Join, Joined, consumer, Gone, Sized, TypeOK
<1>5. CASE UNCHANGED vars
  BY <1>5 DEF vars, consumer, control, Gone
<1>. QED  BY <1>1, <1>2, <1>3, <1>4, <1>5 DEF Next

\* After a stop() that returned, the reader is sent nothing, whoever else calls
\* stop() and in whatever order (pipeline.py:40-46).
THEOREM SilenceAfterStop == Spec => SilentAfterStop
<1>1. Init => Gone
  BY DEF Init, Gone
<1>2. Gone /\ [Next]_vars => ((\E s \in Stoppers : stop[s] = "returned") => UNCHANGED received)
  <2>. SUFFICES ASSUME Gone, [Next]_vars, NEW s \in Stoppers, stop[s] = "returned"
                PROVE  received' = received
    OBVIOUS
  <2>1. flush \in Finished \cup {"absent"}
    BY DEF Gone
  <2>2. ~FlushTask
    BY <2>1 DEF FlushTask, Take, Fill, Timeout, PostOk, PostFail, Retry, GiveUp, BackoffOver, PluginOk,
                PluginRaises, Cancelled, Sending, Finished
  <2>. QED  BY <2>2 DEF Next, start, Producers, Emit, DropNewest, DropOldest, PutInRoom, EmitFromSignal,
                     Stop, Join, vars, consumer
<1>. QED  BY <1>1, <1>2, GoneStep, SizedAlways, PTL DEF Spec, SilentAfterStop
==============================================================================
