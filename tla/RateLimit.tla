------------------------------ MODULE RateLimit ------------------------------
(***************************************************************************)
(* internal/ratelimit/ratelimit.go, the per-user limiter, as the bot calls *)
(* it: one AllowN of one slot per file request (bot.go, preflight), Reset  *)
(* by /authorize and the periodic Sweep, all concurrent.                   *)
(*                                                                         *)
(* AllowN holds the user's shard for all it does, so it is one step; Sweep *)
(* takes the shards one after the other.  An absent entry of tats is 0, as *)
(* the code makes it when it looks the entry up.  Time is the wall clock,  *)
(* which is taken not to go back.                                          *)
(***************************************************************************)
EXTENDS Naturals

CONSTANTS
    Users,
    Cap,       \* TG_RATE_LIMIT, positive: 0 turns the limiter off
    Window,    \* the window, a minute
    MaxTime    \* bound on the clock

ASSUME LimitAssumption ==
    /\ Cap \in Nat \ {0}
    /\ Window \in Nat
    /\ MaxTime \in Nat \ {0}

VARIABLES
    now,      \* the clock
    tats,     \* tats[u]: the theoretical arrival time of u's next request
    sweep,    \* the running Sweep: its cutoff and the shards it has yet to visit
    promise,  \* promise[u]: when the last rejection told u to come back, or NoPromise
    since,    \* history: since[u], the moment from which u is watched,
    granted   \* ... and the requests of u that passed since then

limitVars == <<now, tats, sweep, promise, since, granted>>

Period == Window \div Cap

NoPromise == 0

\* Everything but the clock and the history of watched users.
LimitTypeOK ==
    /\ now \in 1 .. MaxTime
    /\ tats \in [Users -> 0 .. MaxTime + Window]
    /\ sweep \in [cutoff: 0 .. MaxTime, left: SUBSET Users]
    /\ promise \in [Users -> 0 .. MaxTime + Window]
    /\ since \in [Users -> 1 .. MaxTime]
    /\ granted \in [Users -> Nat]

LimitInit ==
    /\ now = 1
    /\ tats = [u \in Users |-> 0]
    /\ sweep = [cutoff |-> 0, left |-> {}]
    /\ promise = [u \in Users |-> NoPromise]
    /\ since = [u \in Users |-> now]
    /\ granted = [u \in Users |-> 0]

-----------------------------------------------------------------------------

Later(s, t) == IF s < t THEN t ELSE s

\* Mutant: the new arrival time forgets the requests that were admitted before.
NewTATFromNow(u) == now + Period

\* The arrival time a request of u that comes now would leave behind.
NewTAT(u) == Later(tats[u], now) + Period

Fits(u) == NewTAT(u) - now <= Window

\* Mutant: the wait without the request itself.
RetryOfOthers(u) == Later(tats[u], now) - Window

\* When AllowN tells a rejected u to come back: now + retryAfter.
Retry(u) == NewTAT(u) - Window

\* A request passes.  Preflight charges one slot for it, be it a message with a
\* file or a /link for as many as TG_BATCH_CAP.
Request(u) ==
    /\ Fits(u)
    /\ tats' = [tats EXCEPT ![u] = NewTAT(u)]
    /\ promise' = [promise EXCEPT ![u] = NoPromise]
    /\ granted' = [granted EXCEPT ![u] = @ + 1]
    /\ UNCHANGED <<now, sweep, since>>

\* A request is turned away, with the time to wait.
Reject(u) ==
    /\ ~Fits(u)
    /\ promise' = [promise EXCEPT ![u] = Retry(u)]
    /\ UNCHANGED <<now, tats, sweep, since, granted>>

\* /authorize gives the user a fresh window; the watch starts afresh as well.
Reset(u) ==
    /\ tats' = [tats EXCEPT ![u] = 0]
    /\ promise' = [promise EXCEPT ![u] = NoPromise]
    /\ since' = [since EXCEPT ![u] = now]
    /\ granted' = [granted EXCEPT ![u] = 0]
    /\ UNCHANGED <<now, sweep>>

\* The ticker starts a Sweep: entries more than a window old are to go ...
StartSweep ==
    /\ sweep.left = {}
    /\ now > Window
    /\ sweep' = [cutoff |-> now - Window, left |-> Users]
    /\ UNCHANGED <<now, tats, promise, since, granted>>

\* ... when their shard is visited.
SweepShard(u) ==
    /\ u \in sweep.left
    /\ tats' = [tats EXCEPT ![u] = IF @ < sweep.cutoff THEN 0 ELSE @]
    /\ sweep' = [sweep EXCEPT !.left = @ \ {u}]
    /\ UNCHANGED <<now, promise, since, granted>>

Tick ==
    /\ now < MaxTime
    /\ now' = now + 1
    /\ UNCHANGED <<tats, sweep, promise, since, granted>>

\* History: u is watched from now on.
Watch(u) ==
    /\ since[u] < now
    /\ since' = [since EXCEPT ![u] = now]
    /\ granted' = [granted EXCEPT ![u] = 0]
    /\ UNCHANGED <<now, tats, sweep, promise>>

-----------------------------------------------------------------------------

LimitNext == \/ Tick
        \/ StartSweep
        \/ \E u \in Users : \/ Request(u)
                            \/ Reject(u) \/ Reset(u) \/ SweepShard(u) \/ Watch(u)

LimitSpec == LimitInit /\ [][LimitNext]_limitVars

-----------------------------------------------------------------------------
(* Properties.                                                             *)

\* ratelimit.go:56-57: whatever moment one starts to count at, a user gets no
\* more requests through than a full window and the time elapsed are worth.
RateBounded == \A u \in Users : granted[u] * Period <= Window + (now - since[u])

\* ratelimit.go:53-54: retryAfter is exact.  Before the time it names is up,
\* the user is turned away again, and from then on let through.
RetryIsExact ==
    \A u \in Users : promise[u] # NoPromise => (Fits(u) <=> now >= promise[u])

Level == [u \in Users |-> IF tats[u] > now THEN tats[u] - now ELSE 0]

Bucket == INSTANCE TokenBucket WITH Size <- Window, level <- Level

\* Each user has a leaky bucket of their own: a request that passes fills it by
\* exactly a period, it never holds more than the window, time empties it at
\* its own pace, and nothing that is done for one user is felt by another.
ImplementsBucket == Bucket!Spec
=============================================================================
