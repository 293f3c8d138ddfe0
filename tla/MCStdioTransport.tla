--------------------------- MODULE MCStdioTransport ---------------------------
\* Two requests and a notification, or one request, and one caller of stop() and
\* restart(), which calls them again and again.
EXTENDS StdioTransport

CONSTANTS r1, r2, n1, boot, c1

MCNotifications == {n1}
MCThreeCalls == {r1, r2, n1}
MCOneRequest == {r1}
MCNone == {}
MCBothRequests == {r1, r2}

DistinctIds == [r \in Requests |-> r]

\* Requests with distinct ids are interchangeable (safety run only).
MCSymmetry == Permutations(MCBothRequests)

MCOneController == {c1}
AnyMisbehaviour == {"garbage", "deaf", "no_spawn", "mute"}
WellBehaved == {}

\* Where two states differ only in what no later step and no invariant looks at, the
\* safety run takes them for one: what a reader awaited before its last await, where a
\* call wrote that waits for no drain(), what a controller at rest awaited, which call
\* raised, and what nobody is left to read.
Awaited(k) == IF reader[k] = "reading" THEN source[k] ELSE 0
Draining(r) == IF req[r] = "draining" THEN sentTo[r] ELSE 0
AwaitedBy(c) == IF ctl[c] \in AtRest \cup {"spawning"} THEN 0 ELSE target[c]
OpOf(c) == IF ctl[c] = "raised" THEN "start" ELSE op[c]
ToBeRead(k) ==
    IF k = proc \/ \E j \in Children : reader[j] = "reading" /\ source[j] = k
      THEN outbox[k] ELSE <<>>

MCView ==
    <<self, child, stdin, full, inbox, [k \in Children |-> ToBeRead(k)],
      reader, [k \in Children |-> Awaited(k)], futures,
      lock, req, [r \in Requests |-> Draining(r)],
      ctl, [c \in Callers |-> OpOf(c)], [c \in Callers |-> AwaitedBy(c)], last>>
==============================================================================
