----------------------------- MODULE MCJsonStream -----------------------------
\* Every text of up to MaxText pieces, cut everywhere.
EXTENDS JsonStream

MCPieces == [json |-> {"m", "<", ">", "x", "[", "]", "comma", "space"},
             ndjson |-> {"m", "<", ">", "x", "space", "nl"}]
==============================================================================
