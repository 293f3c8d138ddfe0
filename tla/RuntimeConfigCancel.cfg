SPECIFICATION Spec
CONSTANTS
    u1 = u1
    u2 = u2
    a1 = a1
    a2 = a2
    w1 = w1
    r1 = r1
    Names <- MCNames
    Initial <- MCInitial
    Candidates <- MCGood
    Malformed <- MCNone
    Unexpanded <- MCNone
    Calls <- MCTwoCalls
    Watched <- MCNone
    Restarts <- MCNone
    Faults = {"cancel"}
INVARIANTS
    AppliedOrRolledBack
\* Once the proxy is down, or every call is made, nothing more happens.
CHECK_DEADLOCK FALSE
