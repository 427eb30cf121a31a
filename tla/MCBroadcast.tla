---------------------------- MODULE MCBroadcast ----------------------------
(* Instances of Broadcast for TLC.                                         *)
EXTENDS Broadcast, TLC

CONSTANTS u1, u2, u3, u4, w1, w2

Two   == <<u1, u2>>
Four  == <<u1, u2, u3, u4>>
=============================================================================
