---------------------------- MODULE RequestStream ----------------------------
(***************************************************************************)
(* One POST to /mcp or /mcp/{name} (handle_proxy in src/mcp_proxy/         *)
(* server.py, with routing.py): its messages are parsed, routed and        *)
(* answered one by one, and the answers are streamed as they come.         *)
(*                                                                         *)
(* The configuration may be replaced between two messages, as AtomicConfig *)
(* says.  ProxyBridge says how forward() may end; parsing is no more here  *)
(* than the messages it finds, or an error.  An action is the code between *)
(* two awaits; a yield is one.                                             *)
(***************************************************************************)
EXTENDS Naturals, Sequences, SequencesExt

CONSTANTS Upstreams,  \* names that may be configured
          Unknown,    \* a name that never is
          Admin,      \* admin.mount_name
          None,       \* no name given
          MaxBody     \* bound: messages in a body

Targets == Upstreams \cup {Unknown, Admin, None}
Messages == [request : BOOLEAN, inBand : Targets]

ASSUME StreamAssumption ==
    /\ MaxBody \in Nat
    /\ Unknown \notin Upstreams /\ None \notin Upstreams \cup {Unknown, Admin}

VARIABLES body,     \* the messages of the payload; a request has an id
          path,     \* path_name
          header,   \* x_mcp_upstream
          known,    \* config.upstreams
          default,  \* config.default_upstream
          enabled,  \* config.admin.enabled
          pc,       \* where iter_response_lines() stands
          taken,    \* messages parsed so far
          sent,     \* lines yielded, by the message they answer
          status,   \* HTTP status, 0 while none is sent
          timer,    \* of wait_for(): once "fired" it cancels the handler
          ending,   \* how the response ended
          went      \* history: where each message went

payload == <<body, path, header>>
config == <<known, default, enabled>>
vars == <<payload, config, pc, taken, sent, status, timer, ending, went>>

TypeOK ==
    /\ body \in Seq(Messages)
    /\ {path, header} \subseteq Targets
    /\ known \subseteq Upstreams /\ default \in Upstreams \cup {None}
    /\ enabled \in BOOLEAN
    /\ pc \in {"arrived", "reading", "admin", "forwarding", "yielded", "closed"}
    /\ taken \in 0 .. Len(body)
    /\ sent \in Seq(DOMAIN body)
    /\ status \in {0, 200, 202, 401, 403, 500, 504}
    /\ timer \in {"running", "fired", "kept"}
    /\ ending \in {"open", "complete", "broken", "gone"}
    /\ went \in Seq(Upstreams \cup {Admin, "unresolved"})

Configuration ==
    /\ known \in SUBSET Upstreams
    /\ default \in known \cup {None}
    /\ enabled \in BOOLEAN

Init ==
    /\ body \in BoundedSeq(Messages, MaxBody)
    /\ path \in Targets /\ header \in Targets
    /\ Configuration
    /\ pc = "arrived"
    /\ taken = 0 /\ status = 0 /\ timer = "running"
    /\ sent = <<>> /\ went = <<>>
    /\ ending = "open"

\* RuntimeConfigManager.apply replaces the configuration.
Reconfigure ==
    /\ pc # "closed"
    /\ known' \in SUBSET Upstreams
    /\ default' \in known' \cup {None}
    /\ enabled' \in BOOLEAN
    /\ UNCHANGED <<payload, pc, taken, sent, status, timer, ending, went>>

------------------------------------------------------------------------------
(* Routing *)

Message == body[taken + 1]

\* path_name or header_name or in_band or config.default_upstream
Named(m) ==
    CASE path # None -> path
      [] path = None /\ header # None -> header
      [] path = None /\ header = None /\ m.inBand # None -> m.inBand
      [] OTHER -> default

resolve_upstream(m) == IF Named(m) \in known THEN Named(m) ELSE "unresolved"

\* Any of the three may name the admin mount.
IsAdminTarget(m) == enabled /\ Admin \in {path, header, m.inBand}

------------------------------------------------------------------------------
(* iter_response_lines *)

\* The handler runs on until wait_for() cancels it.
At(places) == pc \in places /\ timer # "fired"

Take(destination) ==
    /\ At({"reading"})
    /\ taken < Len(body)
    /\ taken' = taken + 1
    /\ went' = Append(went, destination)

\* Mutant: a notification that fails is answered.
AnswerAll(m) == sent' = Append(sent, taken') /\ pc' = "yielded"

\* A line for a request, nothing for a notification.
Answer(m) ==
    IF m.request THEN sent' = Append(sent, taken') /\ pc' = "yielded"
                 ELSE pc' = "reading" /\ UNCHANGED sent

\* The first line sends the status.  forward() has no None for a request, and
\* nothing else for a notification: see ProxyBridge.
Line(m) ==
    /\ Answer(m)
    /\ status' = IF sent' # <<>> /\ status = 0 THEN 200 ELSE status

\* An exception leaves the generator: an HTTP error, or a response cut short.
Fail(code) ==
    /\ pc' = "closed"
    /\ IF status = 0 THEN status' = code /\ ending' = "complete"
                     ELSE ending' = "broken" /\ UNCHANGED status
    /\ UNCHANGED sent

Arrive ==
    /\ At({"arrived"})
    /\ \/ pc' = "reading" /\ UNCHANGED <<status, ending, sent>>
       \/ Fail(401)
    /\ UNCHANGED <<payload, config, taken, timer, went>>

\* What is left of the payload is no JSON, or no object.
BadPayload ==
    /\ At({"reading"})
    /\ Fail(500)
    /\ UNCHANGED <<payload, config, taken, timer, went>>

ToAdmin ==
    /\ IsAdminTarget(Message)
    /\ Take(Admin)
    /\ \/ pc' = "admin" /\ UNCHANGED <<sent, status, ending>>
       \/ \E code \in {401, 403, 500} : Fail(code)
    /\ UNCHANGED <<payload, config, timer>>

Unresolved ==
    /\ ~IsAdminTarget(Message) /\ resolve_upstream(Message) = "unresolved"
    /\ Take("unresolved")
    /\ Line(Message)
    /\ UNCHANGED <<payload, config, timer, ending>>

Forward ==
    /\ ~IsAdminTarget(Message) /\ resolve_upstream(Message) # "unresolved"
    /\ Take(resolve_upstream(Message))
    /\ pc' = "forwarding"
    /\ UNCHANGED <<payload, config, sent, status, timer, ending>>

\* The admin service answers, or the bridge returns or raises JsonRpcError.
Answered ==
    /\ At({"admin", "forwarding"})
    /\ UNCHANGED taken
    /\ Line(body[taken])
    /\ UNCHANGED <<payload, config, timer, ending, went>>

\* Any other exception: of a transport, or a CancelledError.
Raised ==
    /\ At({"admin", "forwarding"})
    /\ Fail(500)
    /\ UNCHANGED <<payload, config, taken, timer, went>>

\* The line has been sent: the generator is resumed.
Resume ==
    /\ pc = "yielded"
    /\ pc' = "reading"
    /\ UNCHANGED <<payload, config, taken, sent, status, timer, ending, went>>

\* Mutant: without a first line the response is "accepted" at once.
Early == pc = "reading"

PayloadOver == At({"reading"}) /\ taken = Len(body)

End ==
    /\ PayloadOver
    /\ pc' = "closed"
    /\ status' = IF status = 0 THEN 202 ELSE status
    /\ ending' = "complete"
    /\ UNCHANGED <<payload, config, taken, sent, timer, went>>

\* Mutant: wait_for has no timeout.
NeverLate == FALSE

\* wait_for() covers the way to the first line.
Late == timer = "running" /\ status = 0 /\ pc \in {"reading", "admin", "forwarding"}

\* The time is over: the handler is cancelled, and waited for.
Expire ==
    /\ Late
    /\ timer' = "fired"
    /\ UNCHANGED <<payload, config, pc, taken, sent, status, ending, went>>

\* CancelledError comes out of the handler.
Timeout ==
    /\ timer = "fired" /\ pc # "closed"
    /\ pc' = "closed"
    /\ status' = 504
    /\ ending' = "complete"
    /\ UNCHANGED <<payload, config, taken, sent, timer, went>>

\* An upstream's stop(), under a call of the admin, or forward() takes the
\* CancelledError for that of a task of its own: the handler goes on without a
\* timer, and wait_for() returns what it returns in the end.
Kept ==
    /\ timer = "fired" /\ pc \in {"admin", "forwarding"}
    /\ timer' = "kept"
    /\ UNCHANGED <<payload, config, pc, taken, sent, status, ending, went>>

\* The client goes while the response is streamed.
Disconnect ==
    /\ status = 200 /\ pc # "closed"
    /\ pc' = "closed"
    /\ ending' = "gone"
    /\ UNCHANGED <<payload, config, taken, sent, status, timer, went>>

Handle == ToAdmin \/ Unresolved \/ Forward

Next ==
    \/ Reconfigure \/ Arrive \/ BadPayload \/ Answered \/ Raised \/ Resume
    \/ End \/ Expire \/ Timeout \/ Kept \/ Disconnect
    \/ taken < Len(body) /\ Handle

Spec == Init /\ [][Next]_vars

\* The server calls the handler, its timer runs and a cancellation is delivered.
\* Nothing is asked of the client, who may never send its payload, or of the
\* upstreams.
Fairness == WF_vars(Arrive) /\ WF_vars(Expire) /\ WF_vars(Timeout \/ Kept)

FairSpec == Spec /\ Fairness

------------------------------------------------------------------------------
\* The lines yielded are one for each request among the first n messages, in the
\* order of arrival, and nothing else.
Due(n) ==
    /\ ToSet(sent) = {i \in 1 .. n : body[i].request}
    /\ \A i, j \in DOMAIN sent : i < j => sent[i] < sent[j]

\* Every request that has been dealt with has exactly one line, in the order of
\* arrival, and a notification none (README.md:16-20; server.py:216-245).
OneLineEach ==
    /\ Due(taken) \/ Due(taken - 1)
    /\ pc \in {"reading", "yielded"} => Due(taken)
    /\ ending = "complete" /\ status \in {200, 202} => Due(Len(body))

\* 202 is sent only when the whole payload has been dealt with and none of it
\* called for an answer (server.py:247-251).
AcceptedMeansDone ==
    status = 202 => taken = Len(body) /\ \A i \in DOMAIN body : ~body[i].request

\* A name in the URL decides for every message, whatever the messages and the
\* configuration say, as long as nobody names the admin mount (routing.py:30-33).
UrlDecides ==
    path # None /\ (\A i \in DOMAIN went : went[i] # Admin) =>
        \A i \in DOMAIN went : went[i] \in {path, "unresolved"}

\* What has been sent, where to and under which status agree with how far the
\* payload has been taken (server.py:216-251).
Consistent == TypeOK /\ AcceptedMeansDone /\ UrlDecides

\* The client has an HTTP status in the end, whatever the upstreams and the rest
\* of its own payload do, unless the handler keeps the cancellation that ends it in
\* time: then nothing limits what it does next (server.py:307-312, stdio.py:44-53,
\* bridge.py:70-79).
StatusComes == pc = "arrived" ~> status # 0 \/ timer = "kept"
==============================================================================
