-------------------------- MODULE MCClientIdentity --------------------------
\* Two clients of one key and their server on a small instance: one asks for
\* a label, the other writes its file in place.
EXTENDS ClientIdentity

CONSTANTS c1, c2, k1, l1, i0
MCKeyOf == [c \in Clients |-> k1]
MCWish  == [c \in Clients |-> IF c = c1 THEN l1 ELSE None]
=============================================================================
