------------------------------ MODULE MCRanges ------------------------------
(* Instances of Ranges for TLC.                                            *)
EXTENDS Ranges
=============================================================================
