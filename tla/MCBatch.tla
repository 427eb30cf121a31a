------------------------------ MODULE MCBatch ------------------------------
(* Instances of Batch for TLC.                                             *)
EXTENDS Batch, TLC

CONSTANTS f1, f2, w1, w2

\* The first and the third message have the same file.
SameFileTwice == <<f1, f1, f1, f2>>

\* Each worker shortens the two links of a file at once.
LinkCallers == Workers \X Links
LinkUrls    == Files \X Links
=============================================================================
