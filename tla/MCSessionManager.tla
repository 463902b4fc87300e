-------------------------- MODULE MCSessionManager --------------------------
\* The session registry on small instances.
EXTENDS SessionManager, TLC

\* Sound for the safety runs: no definition tells the members apart, and
\* IndexOf's CHOOSE has one candidate because labels on disk are distinct.
Symmetry == Permutations(Keys) \cup Permutations(Ids) \cup Permutations(Conns)
=============================================================================
