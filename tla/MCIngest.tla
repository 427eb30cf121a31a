------------------------------ MODULE MCIngest ------------------------------
(* Instances of Ingest for TLC: a1 and a2 are goroutines of process p1, b1 *)
(* and b2 of process p2.                                                   *)
EXTENDS Ingest, TLC

CONSTANTS a1, a2, b1, p1, p2

\* Two processes, two goroutines in the first.
TwoProcs == (a1 :> p1) @@ (a2 :> p1) @@ (b1 :> p2)

\* One process with two goroutines.
OneProc == (a1 :> p1) @@ (a2 :> p1)

EventBudget(events) == [k \in Kinds |-> IF k \in events THEN 1 ELSE 0]

AnyEvent       == EventBudget(Kinds)
Deadlines      == [EventBudget(Kinds \ {"expiry"}) EXCEPT !["timeout"] = 2]
AllButTimeouts == Kinds \ {"timeout"}
TakeoverBudget == EventBudget({"expiry", "crash"})
LossBudget     == EventBudget({"loss"})
DeadlineBudget == EventBudget({"timeout"})

\* Goroutines of one process are interchangeable.
SameProc == Permutations({a1, a2})
=============================================================================
