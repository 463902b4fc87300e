-------------------------- MODULE MCSessionStreams --------------------------
\* The in-flight requests of one session on small instances.
EXTENDS SessionStreams, TLC

CONSTANTS c1, c2, r1, r2

\* A symmetry set is not sound for liveness, and TLC pays for one in time.
\* Instead the connections attach in one order and the requests start in one,
InOrder ==
    /\ conn' = c2 /\ conn # c2 => upgrade[c1].pc # "none"
    /\ st'[r2].id # 0 => st'[r1].id # 0

\* and of the two requests only the first has bodies: its own where there are
\* Uploads, and that of its answer.  One body is enough to block a read loop
\* with; whether it does so to the other request of its own connection or of
\* another is still open.
OneHasBodies == \A c \in Conns : ~RecvBody(c, r2)

OrderedNext == Next /\ InOrder /\ OneHasBodies

OrderedSpec == Init /\ [][OrderedNext]_vars

\* Two steps are left to the safety run: a Delete, which detaches as everybody
\* else does, and a head that is not JSON, which ends a stream as an Abort
\* does.  No fairness is asked of any action that OrderedNext and SmallNext
\* restrict.
SmallNext ==
    /\ OrderedNext
    /\ \A c \in Conns : ~Deleted(c) /\ \A r \in Reqs : ~RecvBadHead(c, r)

SmallFairSpec == Init /\ [][SmallNext]_vars /\ ServerFairness
=============================================================================
