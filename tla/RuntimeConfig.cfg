SPECIFICATION FairSpec
CONSTANTS
    u1 = u1
    u2 = u2
    a1 = a1
    a2 = a2
    w1 = w1
    r1 = r1
    Names <- MCNames
    Initial <- MCInitial
    Candidates <- MCCandidates
    Malformed <- MCMalformed
    Unexpanded <- MCUnexpanded
    Calls <- MCCalls
    Watched <- MCWatched
    Restarts <- MCRestarts
    Faults = {"start", "stop", "restore", "cancel", "flush", "swallow"}
INVARIANTS
    Consistent
    LiveRuns
    NothingLeaks
    NoGap
    SinkAsConfigured
PROPERTIES
    AtomicSpec
    ApplyEnds
    StopsWatching
\* Once the proxy is down, or every call is made, nothing more happens.
CHECK_DEADLOCK FALSE
