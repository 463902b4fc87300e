----------------------------- MODULE MCFileCache -----------------------------
\* A served directory of a few small files.
EXTENDS FileCache, TLC

\* Paths and requests are interchangeable.
Symmetry == Permutations(Paths) \cup Permutations(Requests)
=============================================================================
