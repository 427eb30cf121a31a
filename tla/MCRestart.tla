------------------------------ MODULE MCRestart ------------------------------
(* Two commands of the owner, for TLC.                                      *)
EXTENDS Restart

CONSTANTS c1, c2
=============================================================================
