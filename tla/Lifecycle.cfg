SPECIFICATION FairSpec
CONSTANTS
    Contents <- MCContents
    Installed <- MCInstalled
    MaxVersions = 3
INVARIANTS
    Consistent
    ServingMeansUp
    NothingMissed
PROPERTIES
    
    EndsWhenTold
\* The proxy may be down for good.
CHECK_DEADLOCK FALSE
