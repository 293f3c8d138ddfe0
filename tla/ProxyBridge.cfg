SPECIFICATION Spec
CONSTANTS
    r1 = r1
    r2 = r2
    r3 = r3
    n1 = n1
    Calls <- MCCalls
    Notifications <- MCNotifications
    QueueSize = 2
INVARIANTS
    TypeOK
    SlotsMatchHolders
PROPERTIES
    NothingStartsAfterShutdown
    ContractSpec
\* Every call may have ended.
CHECK_DEADLOCK FALSE
