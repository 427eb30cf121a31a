----------------------------- MODULE TokenBucket -----------------------------
(***************************************************************************)
(* What internal/ratelimit/ratelimit.go promises each user: a bucket that  *)
(* each admitted request fills by Period, that leaks one unit of time per  *)
(* unit of time, and that never holds more than Size.                      *)
(***************************************************************************)
EXTENDS Naturals

CONSTANTS
    Users,
    Size,    \* what a bucket holds: the limiter's window
    Period   \* what a request puts into it

VARIABLE level  \* level[u]: what has yet to leak from u's bucket

Init == level = [u \in Users |-> 0]

Admit(u) ==
    /\ level[u] + Period <= Size
    /\ level' = [level EXCEPT ![u] = @ + Period]

Leak == level' = [u \in Users |-> IF level[u] > 0 THEN level[u] - 1 ELSE 0]

\* The user is given a fresh allowance.
Forgive(u) == level' = [level EXCEPT ![u] = 0]

Next == Leak \/ \E u \in Users : Admit(u) \/ Forgive(u)

Spec == Init /\ [][Next]_level
=============================================================================
