---------------------------- MODULE FileRegistry ----------------------------
(***************************************************************************)
(* What ingestion promises about one file, with no goroutine, cache or     *)
(* lock in sight: the vault channel holds copies, at most one of which is  *)
(* on record, and a record whose copy is there is neither replaced nor     *)
(* dropped.  A link handed out for the file therefore keeps working for as *)
(* long as nobody removes the copy from the channel.                       *)
(***************************************************************************)
EXTENDS Naturals

VARIABLES canon, \* the copy on record, 0 if none
          live   \* the copies in the vault

Init == canon \in {0, 1} /\ live = {canon} \ {0}

\* A copy is forwarded to the vault.
Copy == /\ live \subseteq live'
        /\ \E m \in live' \ live : m # 0 /\ live' = live \cup {m}
        /\ UNCHANGED canon

\* A copy disappears from the vault.
Remove == /\ \E m \in live : live' = live \ {m}
          /\ UNCHANGED canon

\* A record is made, or replaced: none was there, or its copy is gone.
Register == /\ canon \notin live
            /\ canon' \in Nat \ {0, canon}
            /\ UNCHANGED live

\* A record whose copy is gone is dropped.
Forget == /\ canon \notin live
          /\ canon' = 0
          /\ UNCHANGED live

Next == Copy \/ Remove \/ Register \/ Forget

Spec == Init /\ [][Next]_<<canon, live>>
=============================================================================
