SPECIFICATION FairSpec
CONSTANTS
    s1 = s1
    s2 = s2
    QueueMax = 2
    BatchSize = 2
    Policies <- MCPolicies
    Sinks <- MCSinks
    Stoppers <- MCStoppers
    MaxEvents = 3
    MaxSignals = 1
INVARIANTS
    Consistent
PROPERTIES
    FifoSpec
    SilentAfterStop
    QueueMoves
    StopEnds
\* The producers run out of events and the pipeline may have been stopped.
CHECK_DEADLOCK FALSE
