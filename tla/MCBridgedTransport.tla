------------------------- MODULE MCBridgedTransport -------------------------
\* Two requests for two slots, one process that exits and the one that replaces it.
EXTENDS BridgedTransport

CONSTANTS r1, r2, boot

MCRequests == {r1, r2}
DistinctIds == [r \in Requests |-> r]
MCNone == {}
MCDeaf == {"deaf"}

ASSUME Composed
==============================================================================
