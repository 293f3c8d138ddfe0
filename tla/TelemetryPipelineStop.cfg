SPECIFICATION Spec
CONSTANTS
    s1 = s1
    s2 = s2
    QueueMax = 2
    BatchSize = 2
    Policies <- MCPolicies
    Sinks <- MCHttp
    Stoppers <- MCStoppers
    MaxEvents = 3
    MaxSignals = 0
INVARIANTS
    StopReturns
\* The producers run out of events and the pipeline may have been stopped.
CHECK_DEADLOCK FALSE
