----------------------------- MODULE MCRateLimit -----------------------------
(* Instances of RateLimit for TLC.                                         *)
EXTENDS RateLimit, TLC

CONSTANTS u1, u2

SameUsers == Permutations(Users)
=============================================================================
