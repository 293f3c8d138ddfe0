SPECIFICATION FairSpec
CONSTANTS
    r1 = r1
    r2 = r2
    n1 = n1
    boot = boot
    c1 = c1
    Requests <- MCOneRequest
    Notifications <- MCNone
    IdOf <- DistinctIds
    Boot = boot
    Controllers <- MCOneController
    Misbehaviour <- WellBehaved
    OverflowAt = 1024
    MaxCrashes = 2
    MaxChildren = 4
PROPERTIES
    ReceivedEnds
    StopEnds
    RestartsAfterExit
\* The calls and the callers of stop() may all be done.
CHECK_DEADLOCK FALSE
