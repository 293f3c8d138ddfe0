------------------------- MODULE MCTelemetryPipeline -------------------------
\* A queue of two, batches of two, every policy and sink, two callers of stop().
EXTENDS TelemetryPipeline

CONSTANTS s1, s2

MCPolicies == {"drop_newest", "drop_oldest"}
MCSinks == {"http", "noop", "plugin"}
MCStoppers == {s1, s2}
MCHttp == {"http"}
==============================================================================
