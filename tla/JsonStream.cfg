SPECIFICATION FairSpec
CONSTANTS
    ContentTypes = {"json", "ndjson"}
    Pieces <- MCPieces
    MaxText = 5
INVARIANTS
    Consistent
    AsSoonAsComplete
    RightVerdict
PROPERTIES
    ComesBack
\* A payload that is over stays so.
CHECK_DEADLOCK FALSE
