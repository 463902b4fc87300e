----------------------------- MODULE MCFrameConn -----------------------------
\* A framed connection on a small instance.
EXTENDS FrameConn, TLC
=============================================================================
