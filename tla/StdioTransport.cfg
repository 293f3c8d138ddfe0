SPECIFICATION Spec
CONSTANTS
    r1 = r1
    r2 = r2
    n1 = n1
    boot = boot
    c1 = c1
    Requests <- MCThreeCalls
    Notifications <- MCNotifications
    IdOf <- DistinctIds
    Boot = boot
    Controllers <- MCOneController
    Misbehaviour <- AnyMisbehaviour
    OverflowAt = 1024
    MaxCrashes = 1
    MaxChildren = 3
INVARIANTS
    Consistent
    OwnAnswer
    NoOrphan
    StopStops
VIEW MCView
SYMMETRY MCSymmetry
\* The calls and the callers of stop() may all be done.
CHECK_DEADLOCK FALSE
