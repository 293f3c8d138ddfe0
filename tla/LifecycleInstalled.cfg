SPECIFICATION Spec
CONSTANTS
    Contents <- MCContents
    Installed <- MCOwn
    MaxVersions = 3
INVARIANTS
    BuiltInsOverridden
\* The proxy may be down for good.
CHECK_DEADLOCK FALSE
