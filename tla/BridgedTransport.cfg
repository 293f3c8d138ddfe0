SPECIFICATION System
CONSTANTS
    r1 = r1
    r2 = r2
    boot = boot
    Requests <- MCRequests
    Notifications <- MCNone
    IdOf <- DistinctIds
    Boot = boot
    Controllers <- MCNone
    Misbehaviour <- MCDeaf
    OverflowAt = 1024
    MaxCrashes = 1
    MaxChildren = 2
    QueueSize = 2
INVARIANTS
    NoLateWork
PROPERTIES
    BridgeSpec
    DrainsThrough
    SlotComesBack
\* Every call may be made and over.
CHECK_DEADLOCK FALSE
