------------------------------ MODULE MCAccess ------------------------------
(* Instances of Access for TLC.                                            *)
EXTENDS Access, TLC

CONSTANTS u, o, g, t1, w1, w2

SameWorkers == Permutations(Workers)

Lifetimes == [c \in Checks |-> 1]

From(kind, who, to) == [kind |-> kind, from |-> who, chat |-> None, to |-> to]

\* A user's request, the use of the user's token, commands about the user, and
\* one of them from somebody in a group who is not an owner.
Mixed == {From("file", u, None)}
         \cup {From("activate", u, t) : t \in Tokens}
         \cup {From(k, o, u) : k \in {"ban", "authorize", "deauthorize"}}
         \cup {[From("ban", u, u) EXCEPT !.chat = g]}

\* The user has been activated before.
Activated == {[c \in Checks |-> IF c = "activated" THEN {u} ELSE {}]}
=============================================================================
