--------------------------- MODULE MCRequestStream ---------------------------
\* One upstream, an unknown name and the admin mount, up to two messages.
EXTENDS RequestStream

CONSTANT u1

MCOneUpstream == {u1}
==============================================================================
