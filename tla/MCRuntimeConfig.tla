--------------------------- MODULE MCRuntimeConfig ---------------------------
\* Two upstreams; the proxy starts with the first.
EXTENDS RuntimeConfig, TLC

CONSTANTS u1, u2, a1, a2, w1, r1

MCNames == {u1, u2}

Config(first, second, sink) ==
    [upstreams |-> (u1 :> first @@ u2 :> second), telemetry |-> sink]

MCInitial == Config("x", Absent, "noop")

\* One upstream changed and one added, one replaced by the other, nothing left,
\* another sink, and one of everything.
MCGood == {MCInitial, Config("y", "x", "noop"), Config(Absent, "x", "noop"),
           Config(Absent, Absent, "noop"), Config("x", "y", "http")}

MCMalformed == {Config("bad", Absent, "noop")}
MCUnexpanded == {Config("env", Absent, "noop")}
MCCandidates == MCGood \cup MCMalformed \cup MCUnexpanded

MCCalls == {a1, w1}
MCWatched == {w1}
MCTwoCalls == {a1, a2}
MCRestarts == {r1}
MCNone == {}
==============================================================================
