------------------------- MODULE RequestStream_proofs -------------------------
(***************************************************************************)
(* Proofs about RequestStream for any body, any names and configurations   *)
(* that change at any moment.  One invariant ties the lines that were      *)
(* yielded and the status to how far the payload has been taken; where     *)
(* the messages went is a second one, of its own.                          *)
(***************************************************************************)
EXTENDS RequestStream, QueueLemmas, TLAPS

\* Before the end the answer to the last message taken may be missing, and a line
\* has been yielded only under status 200; 202 and a complete 200 come last.
Lines ==
    /\ pc = "arrived" => taken = 0
    /\ pc \in {"arrived", "reading", "yielded"} => Due(taken)
    /\ pc \in {"admin", "forwarding"} => taken # 0
    /\ Due(taken) \/ Due(taken - 1)

Statuses ==
    /\ pc # "closed" => status \in {0, 200} /\ ending = "open"
    /\ pc \in {"admin", "forwarding"} => Due(taken - 1)
    /\ status \in {0, 202} => sent = <<>>
    /\ status = 202 => ending = "complete"
    /\ timer = "fired" /\ pc # "closed" => status = 0
    /\ ending = "complete" /\ status \in {200, 202} => taken = Len(body) /\ Due(taken)

\* What a name in the URL leaves open is whether the message is for the admin.
Urls == path # None => \A i \in DOMAIN went : went[i] \in {path, Admin, "unresolved"}

Typed == TypeOK
StreamInv == Typed /\ Lines /\ Statuses /\ Urls

------------------------------------------------------------------------------
(* What has been sent *)

\* A sequence of at most n messages is a sequence of messages.
LEMMA BoundedIsSeq == ASSUME NEW S, NEW n \in Nat PROVE BoundedSeq(S, n) \subseteq Seq(S)
  BY DEF BoundedSeq, SeqOf

\* Nothing is due while nothing has been taken.
LEMMA NothingDue == sent = <<>> => Due(0)
  BY EmptyQueue DEF Due

\* Message n needs no line: what was due before it is due after it.
LEMMA DueNotification ==
  ASSUME NEW n \in Nat, n # 0, Due(n - 1), ~body[n].request, UNCHANGED <<sent, body>>
  PROVE  Due(n)'
<1>1. 1 .. n = (1 .. n - 1) \cup {n}
  OBVIOUS
<1>2. {i \in 1 .. n : body[i].request} = {i \in 1 .. n - 1 : body[i].request}
  BY <1>1
<1>. QED  BY <1>2 DEF Due

\* The answer to message n is appended.
LEMMA DueRequest ==
  ASSUME NEW N \in Nat, NEW n \in 1 .. N, sent \in Seq(1 .. N), Due(n - 1), body[n].request,
         sent' = Append(sent, n), body' = body
  PROVE  sent' \in Seq(1 .. N) /\ Due(n)'
<1>1. sent' \in Seq(1 .. N) /\ ToSet(sent') = ToSet(sent) \cup {n}
  BY Enqueue
<1>2. {i \in 1 .. n : body[i].request} = {i \in 1 .. n - 1 : body[i].request} \cup {n}
  OBVIOUS
<1>3. Increasing(sent)
  BY DEF Increasing, Due
<1>4. \A y \in ToSet(sent) : y < n
  BY DEF Due
<1>5. Increasing(Append(sent, n))
  BY <1>3, <1>4, IncreasingAppend
<1>. QED  BY <1>1, <1>2, <1>5 DEF Due, Increasing

\* Message n is dealt with: a request has its line, and the first line the status.
LEMMA LineSent ==
  ASSUME TypeOK, NEW n \in 1 .. Len(body), Due(n - 1), pc # "closed", Statuses,
         taken' = n, Line(body[n]), UNCHANGED <<body, ending>>
  PROVE  /\ sent' \in Seq(DOMAIN body) /\ Due(n)'
         /\ pc' \in {"reading", "yielded"}
         /\ status' \in {0, 200} /\ (status' = 0 => sent' = <<>>)
         /\ ending' = "open"
<1>1. DOMAIN body = 1 .. Len(body) /\ Len(body) \in Nat /\ n \in Nat /\ n # 0
  BY LenProperties DEF TypeOK
<1>2. sent \in Seq(1 .. Len(body))
  BY <1>1 DEF TypeOK
<1>3. /\ sent' \in Seq(1 .. Len(body)) /\ Due(n)'
      /\ pc' \in {"reading", "yielded"}
  <2>1. CASE body[n].request
    BY <2>1, <1>1, <1>2, DueRequest DEF Line, Answer
  <2>2. CASE ~body[n].request
    BY <2>2, <1>1, <1>2, DueNotification DEF Line, Answer
  <2>. QED  BY <2>1, <2>2
<1>4. status \in {0, 200} /\ (status = 0 => sent = <<>>) /\ ending = "open"
  BY DEF Statuses
<1>5. status' \in {0, 200} /\ (status' = 0 => sent' = <<>>)
  BY <1>4 DEF Line
<1>. QED  BY <1>1, <1>3, <1>4, <1>5

------------------------------------------------------------------------------
(* The invariant *)

\* It holds at the start.
LEMMA StreamInit == Init => StreamInv
<1>. SUFFICES ASSUME Init PROVE StreamInv
  OBVIOUS
<1>1. body \in Seq(Messages) /\ Len(body) \in Nat
  BY BoundedIsSeq, StreamAssumption, LenProperties DEF Init
<1>2. Typed
  BY <1>1 DEF Init, Configuration, TypeOK, Typed
<1>3. Due(taken) /\ sent = <<>> /\ went = <<>> /\ taken = 0
  BY NothingDue DEF Init
<1>. QED  BY <1>2, <1>3 DEF Init, StreamInv, Lines, Statuses, Urls

\* A step that leaves alone everything but the configuration.
LEMMA StreamKept ==
  ASSUME StreamInv, UNCHANGED <<payload, pc, taken, sent, status, timer, ending, went>>,
         \/ UNCHANGED config
         \/ known' \in SUBSET Upstreams /\ default' \in known' \cup {None} /\ enabled' \in BOOLEAN
  PROVE  StreamInv'
<1>. USE DEF payload, config, StreamInv
<1>1. Typed'
  BY DEF Typed, TypeOK
<1>2. Lines'
  BY DEF Lines, Due
<1>3. Statuses'
  BY DEF Statuses, Due
<1>4. Urls'
  BY DEF Urls
<1>. QED  BY <1>1, <1>2, <1>3, <1>4

\* An exception leaves the generator, with all due or but the last.
LEMMA StreamFails ==
  ASSUME StreamInv, pc # "closed", NEW code \in {401, 403, 500}, Fail(code),
         Typed', Urls', UNCHANGED payload, Due(taken)' \/ Due(taken - 1)'
  PROVE  StreamInv'
<1>. USE DEF payload, Fail
<1>1. Lines'
  BY DEF Lines
<1>2. Statuses'
  BY DEF Statuses, StreamInv
<1>. QED  BY <1>1, <1>2 DEF StreamInv

\* A message is taken: where it goes is where a name in the URL may send it.
LEMMA Taken ==
  ASSUME StreamInv, UNCHANGED payload, NEW destination, Take(destination),
         \/ destination \in {Admin, "unresolved"}
         \/ /\ destination = resolve_upstream(Message) /\ destination # "unresolved"
  PROVE  /\ taken + 1 \in 1 .. Len(body) /\ taken' = taken + 1 /\ Due(taken)
         /\ went' \in Seq(Upstreams \cup {Admin, "unresolved"}) /\ Urls'
<1>. DEFINE Places == Upstreams \cup {Admin, "unresolved"}
<1>1. /\ taken \in Nat /\ taken + 1 \in 1 .. Len(body) /\ taken' = taken + 1
      /\ Due(taken) /\ went \in Seq(Places)
  BY LenProperties DEF StreamInv, Typed, TypeOK, Take, At, Lines
<1>2. destination \in Places /\ (path # None => destination \in {path, Admin, "unresolved"})
  <2>1. CASE destination \in {Admin, "unresolved"}
    BY <2>1
  <2>2. CASE destination = resolve_upstream(Message) /\ destination # "unresolved"
    <3>1. destination = Named(Message) /\ destination \in known
      BY <2>2 DEF resolve_upstream
    <3>2. path # None => Named(Message) = path
      BY DEF Named
    <3>. QED  BY <3>1, <3>2 DEF StreamInv, Typed, TypeOK
  <2>. QED  BY <2>1, <2>2
<1>3. went' \in Seq(Places) /\ ToSet(went') = ToSet(went) \cup {destination}
  BY <1>1, <1>2, Enqueue DEF Take
<1>4. Urls'
  BY <1>2, <1>3 DEF Urls, ToSet, StreamInv, payload
<1>. QED  BY <1>1, <1>3, <1>4

\* Every step keeps it.
LEMMA StreamStep == StreamInv /\ [Next]_vars => StreamInv'
<1>. SUFFICES ASSUME StreamInv, [Next]_vars PROVE StreamInv'
  OBVIOUS
<1>0. /\ DOMAIN body = 1 .. Len(body) /\ Len(body) \in Nat /\ taken \in 0 .. Len(body)
      /\ TypeOK /\ Lines /\ Statuses /\ Urls
  BY LenProperties DEF StreamInv, Typed, TypeOK
<1>1. CASE Reconfigure
  BY <1>1, StreamKept DEF Reconfigure
<1>2. CASE Arrive
  <2>0. /\ pc = "arrived" /\ timer # "fired"
        /\ UNCHANGED <<payload, config, taken, timer, went, sent>>
        /\ (pc' = "reading" /\ UNCHANGED <<status, ending>>) \/ Fail(401)
    BY <1>2 DEF Arrive, At, Fail
  <2>1. Typed'
    BY <1>0, <2>0 DEF Typed, TypeOK, Fail, payload, config
  <2>2. Due(taken) /\ (Due(taken)' <=> Due(taken)) /\ Urls'
    BY <1>0, <2>0 DEF Lines, Due, Urls, payload
  <2>3. CASE Fail(401)
    BY <2>0, <2>1, <2>2, <2>3, StreamFails
  <2>4. CASE pc' = "reading" /\ UNCHANGED <<status, ending>>
    <3>1. Lines' /\ Statuses'
      BY <1>0, <2>0, <2>2, <2>4 DEF Lines, Statuses, payload
    <3>. QED  BY <2>1, <2>2, <3>1 DEF StreamInv
  <2>. QED  BY <2>0, <2>3, <2>4
<1>3. CASE BadPayload \/ Raised
  <2>0. /\ pc \in {"reading", "admin", "forwarding"} /\ Fail(500)
        /\ UNCHANGED <<payload, config, taken, timer, went, sent>>
    BY <1>3 DEF BadPayload, Raised, At, Fail
  <2>1. Typed'
    BY <1>0, <2>0 DEF Typed, TypeOK, Fail, payload, config
  <2>2. (Due(taken)' \/ Due(taken - 1)') /\ Urls'
    BY <1>0, <2>0 DEF Lines, Due, Urls, payload
  <2>. QED  BY <2>0, <2>1, <2>2, StreamFails
<1>4. CASE Handle
  <2>0. UNCHANGED <<payload, config, timer>> /\ pc = "reading" /\ timer # "fired"
    BY <1>4 DEF Handle, ToAdmin, Unresolved, Forward, Take, At
  <2>1. /\ taken + 1 \in 1 .. Len(body) /\ taken' = taken + 1 /\ Due(taken)
        /\ went' \in Seq(Upstreams \cup {Admin, "unresolved"}) /\ Urls'
    <3>1. CASE ToAdmin
      BY <2>0, <3>1, Taken DEF ToAdmin
    <3>2. CASE Unresolved
      BY <2>0, <3>2, Taken DEF Unresolved
    <3>3. CASE Forward
      BY <2>0, <3>3, Taken DEF Forward
    <3>. QED  BY <1>4, <3>1, <3>2, <3>3 DEF Handle
  <2>2. taken' \in 0 .. Len(body') /\ taken' - 1 = taken /\ taken' # 0
    BY <1>0, <2>0, <2>1 DEF payload
  <2>3. ASSUME UNCHANGED sent PROVE Due(taken - 1)'
    BY <2>0, <2>1, <2>2, <2>3 DEF Due, payload
  <2>4. CASE pc' \in {"admin", "forwarding"} /\ UNCHANGED <<sent, status, ending>>
    <3>1. Typed'
      BY <1>0, <2>0, <2>1, <2>2, <2>4 DEF Typed, TypeOK, payload, config
    <3>2. Lines' /\ Statuses'
      BY <1>0, <2>0, <2>2, <2>3, <2>4 DEF Lines, Statuses
    <3>. QED  BY <2>1, <3>1, <3>2 DEF StreamInv
  <2>5. CASE \E code \in {401, 403, 500} : Fail(code)
    <3>1. PICK code \in {401, 403, 500} : Fail(code)
      BY <2>5
    <3>2. Typed'
      BY <1>0, <2>0, <2>1, <2>2, <3>1 DEF Typed, TypeOK, Fail, payload, config
    <3>. QED  BY <2>0, <2>1, <2>3, <3>1, <3>2, StreamFails DEF Fail
  <2>6. CASE Line(Message) /\ UNCHANGED ending
    <3>1. UNCHANGED body
      BY <2>0 DEF payload
    <3>2. PICK n \in 1 .. Len(body) : n = taken + 1
      BY <2>1
    <3>3. /\ sent' \in Seq(DOMAIN body) /\ Due(n)'
          /\ pc' \in {"reading", "yielded"}
          /\ status' \in {0, 200} /\ (status' = 0 => sent' = <<>>)
          /\ ending' = "open"
      <4>1. Due(n - 1) /\ taken' = n
        BY <1>0, <2>1, <3>2 DEF Due
      <4>2. Line(body[n])
        BY <2>6, <3>2 DEF Message, Line, Answer
      <4>. QED  BY <1>0, <2>0, <2>6, <3>1, <4>1, <4>2, LineSent
    <3>4. Due(taken)'
      BY <2>1, <3>2, <3>3 DEF Due
    <3>5. Typed'
      BY <1>0, <2>0, <2>1, <2>2, <3>1, <3>3 DEF Typed, TypeOK, payload, config
    <3>6. Lines' /\ Statuses'
      BY <2>0, <2>2, <3>3, <3>4 DEF Lines, Statuses
    <3>. QED  BY <2>1, <3>5, <3>6 DEF StreamInv
  <2>. QED  BY <1>4, <2>4, <2>5, <2>6 DEF Handle, ToAdmin, Unresolved, Forward
<1>5. CASE Answered
  <2>0. /\ pc \in {"admin", "forwarding"} /\ Line(body[taken]) /\ timer # "fired"
        /\ UNCHANGED <<payload, config, taken, timer, ending, went, body>>
    BY <1>5 DEF Answered, At, payload
  <2>1. taken \in 1 .. Len(body) /\ Due(taken - 1)
    <3>1. taken # 0 /\ Due(taken - 1)
      BY <1>0, <2>0 DEF Lines, Statuses
    <3>. QED  BY <1>0, <3>1
  <2>2. PICK n \in 1 .. Len(body) : n = taken /\ Due(n - 1) /\ Line(body[n]) /\ taken' = n
    <3>1. \E n \in 1 .. Len(body) : n = taken
      BY <2>1
    <3>2. ASSUME NEW n \in 1 .. Len(body), n = taken PROVE Due(n - 1) /\ Line(body[n]) /\ taken' = n
      BY <2>0, <2>1, <3>2 DEF Due, Line, Answer
    <3>. QED  BY <3>1, <3>2
  <2>3. /\ sent' \in Seq(DOMAIN body) /\ Due(n)'
        /\ pc' \in {"reading", "yielded"}
        /\ status' \in {0, 200} /\ (status' = 0 => sent' = <<>>)
        /\ ending' = "open"
    BY <1>0, <2>0, <2>1, <2>2, LineSent
  <2>4. Due(taken)'
    BY <2>0, <2>2, <2>3 DEF Due
  <2>5. Typed'
    BY <1>0, <2>0, <2>3 DEF Typed, TypeOK, payload, config
  <2>6. Lines' /\ Statuses' /\ Urls'
    BY <1>0, <2>0, <2>1, <2>3, <2>4 DEF Lines, Statuses, Urls, payload
  <2>. QED  BY <2>5, <2>6 DEF StreamInv
<1>6. CASE Resume
  <2>0. /\ pc = "yielded" /\ pc' = "reading"
        /\ UNCHANGED <<payload, config, taken, sent, status, timer, ending, went>>
    BY <1>6 DEF Resume
  <2>1. Due(taken)'
    BY <1>0, <2>0 DEF Lines, Due, payload
  <2>2. Typed' /\ Lines' /\ Statuses' /\ Urls'
    BY <1>0, <2>0, <2>1 DEF Typed, TypeOK, Lines, Statuses, Urls, payload, config
  <2>. QED  BY <2>2 DEF StreamInv
<1>7. CASE End
  <2>0. /\ pc = "reading" /\ taken = Len(body) /\ pc' = "closed"
        /\ status' = (IF status = 0 THEN 202 ELSE status) /\ ending' = "complete"
        /\ UNCHANGED <<payload, config, taken, sent, timer, went>>
    BY <1>7 DEF End, PayloadOver, At
  <2>1. Due(taken)'
    BY <1>0, <2>0 DEF Lines, Due, payload
  <2>2. Typed' /\ Lines' /\ Statuses' /\ Urls'
    BY <1>0, <2>0, <2>1 DEF Typed, TypeOK, Lines, Statuses, Urls, payload, config
  <2>. QED  BY <2>2 DEF StreamInv
<1>8. CASE Timeout \/ Disconnect
  <2>0. /\ pc # "closed" /\ pc' = "closed"
        /\ \/ status = 0 /\ status' = 504 /\ ending' = "complete"
           \/ status = 200 /\ ending' = "gone" /\ UNCHANGED status
        /\ UNCHANGED <<payload, config, taken, sent, timer, went>>
    BY <1>0, <1>8 DEF Timeout, Disconnect, Statuses
  <2>1. Due(taken)' \/ Due(taken - 1)'
    BY <1>0, <2>0 DEF Lines, Due, payload
  <2>2. Typed'
    BY <1>0, <2>0 DEF Typed, TypeOK, payload, config
  <2>3. Lines' /\ Urls'
    BY <1>0, <2>0, <2>1 DEF Lines, Urls, payload
  <2>4. Statuses'
    <3>1. CASE status = 0 /\ status' = 504 /\ ending' = "complete"
      BY <2>0, <3>1 DEF Statuses
    <3>2. CASE status = 200 /\ ending' = "gone" /\ UNCHANGED status
      BY <2>0, <3>2 DEF Statuses
    <3>. QED  BY <2>0, <3>1, <3>2
  <2>. QED  BY <2>2, <2>3, <2>4 DEF StreamInv
<1>9. CASE Expire \/ Kept
  <2>0. /\ pc \in {"reading", "admin", "forwarding"} /\ status = 0
        /\ timer' \in {"fired", "kept"}
        /\ UNCHANGED <<payload, config, pc, taken, sent, status, ending, went>>
    BY <1>0, <1>9 DEF Expire, Late, Kept, Statuses
  <2>1. \A n : Due(n)' <=> Due(n)
    BY <2>0 DEF Due, payload
  <2>2. Typed'
    BY <1>0, <2>0 DEF Typed, TypeOK, payload, config
  <2>3. Lines' /\ Statuses' /\ Urls'
    BY <1>0, <2>0, <2>1 DEF Lines, Statuses, Urls, payload
  <2>. QED  BY <2>2, <2>3 DEF StreamInv
<1>10. CASE UNCHANGED vars
  BY <1>10, StreamKept DEF vars
<1>. QED
  BY <1>1, <1>2, <1>3, <1>4, <1>5, <1>6, <1>7, <1>8, <1>9, <1>10 DEF Next

\* So it always holds.
LEMMA StreamAlways == Spec => []StreamInv
  BY StreamInit, StreamStep, PTL DEF Spec

------------------------------------------------------------------------------
\* Whatever the messages, the configuration that changes between them and the
\* ways an upstream may fail, a request that was dealt with has one line, in
\* its turn, and a notification none (server.py:216-245).
THEOREM LinesInOrder == Spec => []OneLineEach
<1>1. StreamInv => OneLineEach
  BY DEF StreamInv, Lines, Statuses, OneLineEach
<1>. QED  BY <1>1, StreamAlways, PTL

\* 202 is never sent before the whole payload was dealt with, and a name in the
\* URL decides for every message of it (server.py:247-251, routing.py:30-33).
THEOREM StreamConsistent == Spec => []Consistent
<1>1. ASSUME StreamInv PROVE AcceptedMeansDone
  <2>. SUFFICES ASSUME status = 202 PROVE taken = Len(body) /\ \A i \in DOMAIN body : ~body[i].request
    BY DEF AcceptedMeansDone
  <2>1. sent = <<>> /\ taken = Len(body) /\ Due(Len(body)) /\ DOMAIN body = 1 .. Len(body)
    BY <1>1, LenProperties DEF StreamInv, Statuses, Typed, TypeOK
  <2>2. {i \in 1 .. Len(body) : body[i].request} = {}
    BY <2>1, EmptyQueue DEF Due
  <2>. QED  BY <2>1, <2>2
<1>2. StreamInv => UrlDecides
  BY DEF StreamInv, Urls, UrlDecides
<1>3. StreamInv => Consistent
  BY <1>1, <1>2 DEF StreamInv, Typed, Consistent
<1>. QED  BY <1>3, StreamAlways, PTL
==============================================================================
