----------------------------- MODULE MCFileStore -----------------------------
(* Instances of FileStore for TLC.                                         *)
EXTENDS FileStore, TLC

CONSTANTS s1, s2, s3, g1, g2

\* Requests are interchangeable, and so are ingestions.
SameActors == Permutations(Streams) \cup Permutations(Ingests)
=============================================================================
