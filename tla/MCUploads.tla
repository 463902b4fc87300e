------------------------------ MODULE MCUploads ------------------------------
\* The upload example on a small instance: an upload of up to two files and
\* one of a single file at once, next to a download, a listing and deletions.
EXTENDS Uploads, TLC

CONSTANT u1

MCMaxParts == [u \in Uploaders |-> IF u = u1 THEN 2 ELSE 1]
Symmetry   == Permutations(Names)
=============================================================================
