---------------------------- MODULE MCClientPool ----------------------------
(* Three requests and an ingestion, for TLC.                               *)
EXTENDS ClientPool

CONSTANTS r1, r2, r3, g1
=============================================================================
