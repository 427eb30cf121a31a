----------------------------- MODULE Shortener -----------------------------
(***************************************************************************)
(* internal/shortener: Shorten looks in an LRU cache, joins or starts the   *)
(* one call of the outside service that singleflight allows per URL, and    *)
(* caches what it brought.  Each caller is a goroutine; the steps between   *)
(* which others may run are the lookup, the join and the insertion.         *)
(*                                                                         *)
(* A short URL is known by the long one it stands for.                      *)
(***************************************************************************)
EXTENDS Naturals, Sequences, SequencesExt, FiniteSets

CONSTANTS
    Callers,
    Urls,
    CacheCap,  \* newLRUCache's capacity
    NoUrl

ASSUME ShortenerAssumption == CacheCap \in Nat \ {0} /\ NoUrl \notin Urls

VARIABLES
    cache,   \* the cached URLs, the most recently used first
    flight,  \* flight[u]: the callers that share the call for u under way
    step,    \* step[c]: where caller c is; "short" and "long" are its results
    asked    \* asked[c]: the URL it is to shorten

\* For u, the calls that brought a short URL, the evictions of it, and the calls
\* begun though u was cached, or about to be, after their caller had missed it.
VARIABLES fetched, evicted, overtaken

shortenerHistory == <<fetched, evicted, overtaken>>
shortenerVars    == <<cache, flight, step, asked, shortenerHistory>>

Cached(u) == \E i \in DOMAIN cache : cache[i] = u

MoveToFront(u) ==
    IF Cached(u)
    THEN <<u>> \o RemoveAt(cache, CHOOSE i \in DOMAIN cache : cache[i] = u)
    ELSE <<u>> \o cache

ShortenerInit ==
    /\ cache = <<>>
    /\ flight = [u \in Urls |-> {}]
    /\ step = [c \in Callers |-> "idle"]
    /\ asked = [c \in Callers |-> NoUrl]
    /\ fetched = [u \in Urls |-> 0]
    /\ evicted = [u \in Urls |-> 0]
    /\ overtaken = [u \in Urls |-> 0]

Lookup(c) ==
    /\ step[c] = "lookup"
    /\ IF Cached(asked[c])
       THEN step' = [step EXCEPT ![c] = "short"] /\ cache' = MoveToFront(asked[c])
       ELSE step' = [step EXCEPT ![c] = "join"] /\ UNCHANGED cache
    /\ UNCHANGED <<flight, asked, shortenerHistory>>

\* singleflight: the first caller starts the call, the others wait for it.
Join(c) ==
    LET u == asked[c] IN
    /\ step[c] = "join"
    /\ step' = [step EXCEPT ![c] = "wait"]
    /\ flight' = [flight EXCEPT ![u] = @ \cup {c}]
    /\ overtaken' =
          IF flight[u] = {} /\ (Cached(u) \/ \E d \in Callers : step[d] = "put" /\ asked[d] = u)
          THEN [overtaken EXCEPT ![u] = @ + 1]
          ELSE overtaken
    /\ UNCHANGED <<cache, asked, fetched, evicted>>

\* (The short URL is returned, and never cached.)
AnswerUncached(u) ==
    /\ flight[u] # {}
    /\ flight' = [flight EXCEPT ![u] = {}]
    /\ \E result \in {"short", "long"} :
          /\ step' = [c \in Callers |-> IF c \in flight[u] THEN result ELSE step[c]]
          /\ fetched' = IF result = "long" THEN fetched ELSE [fetched EXCEPT ![u] = @ + 1]
    /\ UNCHANGED <<cache, asked, evicted, overtaken>>

\* callAPI's answer goes to every caller that waits: a short URL of the configured
\* host to be cached, or, after any failure, the long URL.
Answer(u) ==
    /\ flight[u] # {}
    /\ flight' = [flight EXCEPT ![u] = {}]
    /\ \E result \in {"put", "long"} :
          /\ step' = [c \in Callers |-> IF c \in flight[u] THEN result ELSE step[c]]
          /\ fetched' = IF result = "long" THEN fetched ELSE [fetched EXCEPT ![u] = @ + 1]
    /\ UNCHANGED <<cache, asked, evicted, overtaken>>

\* put, which evicts the URL used least recently when the cache is over its cap.
Put(c) ==
    LET front == MoveToFront(asked[c]) IN
    /\ step[c] = "put"
    /\ step' = [step EXCEPT ![c] = "short"]
    /\ IF Len(front) <= CacheCap
       THEN cache' = front /\ UNCHANGED evicted
       ELSE /\ cache' = SubSeq(front, 1, CacheCap)
            /\ evicted' = [evicted EXCEPT ![front[Len(front)]] = @ + 1]
    /\ UNCHANGED <<flight, asked, fetched, overtaken>>

Shorten(c) == Lookup(c) \/ Join(c) \/ Put(c)

ShortenerTypeOK ==
    /\ cache \in Seq(Urls) /\ Len(cache) <= CacheCap
    /\ flight \in [Urls -> SUBSET Callers]
    /\ step \in [Callers -> {"idle", "lookup", "join", "wait", "put", "short", "long"}]
    /\ asked \in [Callers -> Urls \cup {NoUrl}]
    /\ fetched \in [Urls -> Nat] /\ evicted \in [Urls -> Nat] /\ overtaken \in [Urls -> Nat]

\* shortener.go:151: "repeated calls for the same URL don't hit the API": once a
\* short URL is known the service is asked again only if the cache has evicted it,
\* or by a caller that had missed it before it was cached.
AskedOnce == \A u \in Urls : fetched[u] <= 1 + evicted[u] + overtaken[u]
=============================================================================
