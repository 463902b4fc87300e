--------------------------- MODULE MCClientStreams ---------------------------
\* The tunnel client on small instances.
EXTENDS ClientStreams, TLC
=============================================================================
