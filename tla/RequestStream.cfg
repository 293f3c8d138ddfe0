SPECIFICATION FairSpec
CONSTANTS
    u1 = u1
    Upstreams <- MCOneUpstream
    Unknown = unknown
    Admin = admin
    None = none
    MaxBody = 2
INVARIANTS
    Consistent
    OneLineEach
PROPERTIES
    StatusComes
\* The response ends.
CHECK_DEADLOCK FALSE
