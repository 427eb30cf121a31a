----------------------------- MODULE ClientPool -----------------------------
(***************************************************************************)
(* The pool of Telegram clients and the file requests it serves:           *)
(* internal/pool/pool.go, and ServeHTTP and resolveVaultMedia of           *)
(* internal/stream/handler.go.                                             *)
(*                                                                         *)
(* A request scans the clients under the pool's mutex for the least loaded *)
(* one, takes a ticket on it, looks the vault message up with it (bounded  *)
(* by the client's lookup permits, which outlive an abandoned request) and *)
(* streams the body.  The load counters are atomics: they are read one by  *)
(* one during the scan and lowered at any time, without the mutex.         *)
(*                                                                         *)
(* Ingestion looks vault messages up with the primary client, from the     *)
(* same permits but without a ticket (validateCanonicalRecord).            *)
(***************************************************************************)
EXTENDS Integers, FiniteSets

CONSTANTS
    NClients,       \* clients of the pool; the first is the primary
    MaxConcurrent,  \* MAX_CONCURRENT_PER_CLIENT: tickets, and permits, of each
    Requests,       \* HTTP requests
    Ingests,        \* ingestions that validate a record
    NoRequest,      \* nobody
    MaxLookups      \* bound on the lookups of one caller

ASSUME PoolAssumption ==
    /\ NClients \in Nat \ {0}
    /\ MaxConcurrent \in Nat \ {0}
    /\ IsFiniteSet(Requests)
    /\ NoRequest \notin Requests
    /\ Requests \cap Ingests = {}
    /\ MaxLookups \in Nat

Clients == 1 .. NClients
Primary == 1
NoClient == 0
Callers == Requests \cup Ingests

VARIABLES
    inflight,    \* Client.Inflight of each client
    acquireMu,   \* who is in AcquireBest
    scan,        \* its locals: the next client to look at, best, bestCount
    loadAtStart, \* history: the counters when AcquireBest was entered
    pc,          \* the next step of each caller
    ticket,      \* the client a request has reserved
    lookupSem,   \* the permits taken of each client
    calls,       \* the GetMessages calls Telegram has not answered: <<caller, number>>
    lookups,     \* the lookups each caller has made so far
    refetching   \* the lookup renews a file reference in mid body

poolVars == <<inflight, acquireMu, scan, loadAtStart>>
lookupVars == <<lookupSem, calls, lookups, refetching>>
vars == <<inflight, acquireMu, scan, loadAtStart, pc, ticket, lookupSem, calls,
          lookups, refetching>>

PCs == {"idle", "acquire", "scan", "full", "serve", "permit", "await", "evict",
        "body", "release", "done"}

Scans == [next : 1 .. NClients + 1, best : Clients \cup {NoClient}, count : Int]
NoScan == [next |-> 1, best |-> NoClient, count |-> 0]

\* The client a caller looks vault messages up with.
ClientOf(x) == IF x \in Ingests THEN Primary ELSE ticket[x]

Holders(c) == {r \in Requests : ticket[r] = c}

Goto(x, l) == pc' = [pc EXCEPT ![x] = l]

TypeOK ==
    /\ inflight \in [Clients -> Int]
    /\ acquireMu \in Requests \cup {NoRequest}
    /\ scan \in [Requests -> Scans]
    /\ loadAtStart \in [Clients -> Int]
    /\ pc \in [Callers -> PCs]
    /\ ticket \in [Requests -> Clients \cup {NoClient}]
    /\ lookupSem \in [Clients -> 0 .. MaxConcurrent]
    /\ calls \subseteq Callers \X (1 .. MaxLookups) \X Clients
    /\ lookups \in [Callers -> 0 .. MaxLookups]
    /\ refetching \in [Callers -> BOOLEAN]

Init ==
    /\ inflight = [c \in Clients |-> 0]
    /\ acquireMu = NoRequest
    /\ scan = [r \in Requests |-> NoScan]
    /\ loadAtStart = inflight
    /\ pc = [x \in Callers |-> "idle"]
    /\ ticket = [r \in Requests |-> NoClient]
    /\ lookupSem = [c \in Clients |-> 0]
    /\ calls = {}
    /\ lookups = [x \in Callers |-> 0]
    /\ refetching = [x \in Callers |-> FALSE]

-----------------------------------------------------------------------------
(* Admission.                                                              *)

\* FindFileByHash: no token, wrong method, an error and no record end the
\* request before it takes a ticket.
FindRecord(r) ==
    /\ pc[r] = "idle"
    /\ Goto(r, "acquire") \/ Goto(r, "done")
    /\ UNCHANGED <<poolVars, ticket, lookupVars>>

\* Mutant: AcquireBest without its mutex.
AcquireUnlocked(r) ==
    /\ pc[r] = "acquire"
    /\ acquireMu' = r
    /\ loadAtStart' = inflight
    /\ Goto(r, "scan")
    /\ UNCHANGED <<inflight, scan, ticket, lookupVars>>

\* AcquireBest, from p.acquireMu.Lock() on.
AcquireBest(r) ==
    /\ pc[r] = "acquire"
    /\ acquireMu = NoRequest
    /\ acquireMu' = r
    /\ loadAtStart' = inflight
    /\ Goto(r, "scan")
    /\ UNCHANGED <<inflight, scan, ticket, lookupVars>>

\* Mutant: a client one below its cap counts as full.
LooksAtBelow(r, c) == /\ inflight[c] < MaxConcurrent - 1
                      /\ scan[r].best = NoClient \/ inflight[c] < scan[r].count

\* The client is under its cap and less loaded than the best so far.
Better(r, c) == /\ inflight[c] < MaxConcurrent
                /\ scan[r].best = NoClient \/ inflight[c] < scan[r].count

\* One turn of the loop: Inflight.Load() of the next client.
Scan(r) ==
    LET c == scan[r].next
    IN  /\ pc[r] = "scan"
        /\ c <= NClients
        /\ scan' = [scan EXCEPT ![r] =
                      IF Better(r, c) THEN [next |-> c + 1, best |-> c, count |-> inflight[c]]
                                      ELSE [@ EXCEPT !.next = c + 1]]
        /\ UNCHANGED <<inflight, acquireMu, loadAtStart, pc, ticket, lookupVars>>

ScanEnds(r) == /\ pc[r] = "scan"
               /\ scan[r].next = NClients + 1
               /\ acquireMu' = NoRequest
               /\ scan' = [scan EXCEPT ![r] = NoScan]

\* best.Inflight.Add(1), and the mutex is unlocked.
Reserve(r) ==
    LET c == scan[r].best
    IN  /\ ScanEnds(r)
        /\ c # NoClient
        /\ inflight' = [inflight EXCEPT ![c] = @ + 1]
        /\ ticket' = [ticket EXCEPT ![r] = c]
        /\ Goto(r, "serve")
        /\ UNCHANGED <<loadAtStart, lookupVars>>

\* No client under its cap: 503 with Retry-After.
Reject(r) ==
    /\ ScanEnds(r)
    /\ scan[r].best = NoClient
    /\ Goto(r, "full")
    /\ UNCHANGED <<inflight, loadAtStart, ticket, lookupVars>>

\* Mutant: the ticket is not returned to the counter.
ReleaseTicketOnly(r) ==
    /\ pc[r] = "release"
    /\ ticket' = [ticket EXCEPT ![r] = NoClient]
    /\ Goto(r, "done")
    /\ UNCHANGED <<poolVars, lookupVars>>

\* The deferred release: Inflight.Add(-1), without the mutex.
Release(r) ==
    LET c == ticket[r]
    IN  /\ pc[r] = "release"
        /\ inflight' = [inflight EXCEPT ![c] = @ - 1]
        /\ ticket' = [ticket EXCEPT ![r] = NoClient]
        /\ Goto(r, "done")
        /\ UNCHANGED <<acquireMu, scan, loadAtStart, lookupVars>>

-----------------------------------------------------------------------------
(* Serving an admitted request.                                            *)

\* A malformed or unsatisfiable Range and a HEAD end here, with the ticket
\* held; a GET goes on to the vault.
Serve(r) ==
    /\ pc[r] = "serve"
    /\ Goto(r, "release") \/ Goto(r, "permit")
    /\ UNCHANGED <<poolVars, ticket, lookupVars>>

\* A record whose vault message is gone, without media or another file's is
\* deleted, with a context of its own, while the ticket is held.
Evict(r) ==
    /\ pc[r] = "evict"
    /\ Goto(r, "release")
    /\ UNCHANGED <<poolVars, ticket, lookupVars>>

\* The download is over, or the reader is gone.
EndBody(r) ==
    /\ pc[r] = "body"
    /\ Goto(r, "release")
    /\ UNCHANGED <<poolVars, ticket, lookupVars>>

\* The file reference has expired: the media is resolved anew.
Refetch(r) ==
    /\ pc[r] = "body"
    /\ lookups[r] < MaxLookups
    /\ refetching' = [refetching EXCEPT ![r] = TRUE]
    /\ Goto(r, "permit")
    /\ UNCHANGED <<poolVars, ticket, lookupSem, calls, lookups>>

-----------------------------------------------------------------------------
(* Vault lookups: resolveVaultMedia, and validateCanonicalRecord.          *)

\* An ingestion comes to validate a record.
Validate(x) ==
    /\ x \in Ingests
    /\ pc[x] = "idle"
    /\ Goto(x, "permit")
    /\ UNCHANGED <<poolVars, ticket, lookupVars>>

\* AcquireLookup got a permit: GetMessages is called in a goroutine of its own.
StartLookup(x) ==
    LET c == ClientOf(x)
    IN  /\ pc[x] = "permit"
        /\ lookups[x] < MaxLookups
        /\ lookupSem[c] < MaxConcurrent
        /\ lookupSem' = [lookupSem EXCEPT ![c] = @ + 1]
        /\ lookups' = [lookups EXCEPT ![x] = @ + 1]
        /\ calls' = calls \cup {<<x, lookups[x] + 1, c>>}
        /\ Goto(x, "await")
        /\ UNCHANGED <<poolVars, ticket, refetching>>

\* What becomes of a caller whose lookup gave nothing: 503 before the headers,
\* the end of the transfer (or another attempt of gogram's) after them, an
\* error of Ingest.
LookupLost(x) == CASE x \in Ingests -> Goto(x, "done")
                   [] x \notin Ingests /\ refetching[x] -> Goto(x, "release") \/ Goto(x, "body")
                   [] x \notin Ingests /\ ~refetching[x] -> Goto(x, "release")

\* Mutant: a caller waits for its permit without a deadline.
WaitsForever(x) ==
    /\ pc[x] = "await"
    /\ LookupLost(x)
    /\ UNCHANGED <<poolVars, ticket, lookupVars>>

\* Mutant: an abandoned call gives its permit back at once.
TimeOutReturnsPermit(x) ==
    /\ pc[x] \in {"permit", "await"}
    /\ LookupLost(x)
    /\ lookupSem' = [lookupSem EXCEPT ![ClientOf(x)] = IF pc[x] = "await" THEN @ - 1 ELSE @]
    /\ UNCHANGED <<poolVars, ticket, calls, lookups, refetching>>

\* The 30 s of a lookup are over, or the request's context is done: a call
\* that was made stays with Telegram.
LookupTimesOut(x) ==
    /\ pc[x] \in {"permit", "await"}
    /\ LookupLost(x)
    /\ UNCHANGED <<poolVars, ticket, lookupVars>>

\* What a caller does with the answer: an error, the media, or nothing there.
Answered(x) == \/ LookupLost(x)
               \/ Goto(x, IF x \in Ingests THEN "done" ELSE "body")
               \/ x \notin Ingests /\ ~refetching[x] /\ Goto(x, "evict")
               \/ x \notin Ingests /\ refetching[x] /\ Goto(x, "release")

\* Telegram answers a call: the goroutine posts the result, in a buffered
\* channel, and gives the permit back, whether or not anybody still waits.
Answer(k) ==
    LET x == k[1]
        c == k[3]
    IN  /\ k \in calls
        /\ calls' = calls \ {k}
        /\ lookupSem' = [lookupSem EXCEPT ![c] = @ - 1]
        /\ IF pc[x] = "await" /\ lookups[x] = k[2] THEN Answered(x) ELSE UNCHANGED pc
        /\ UNCHANGED <<poolVars, ticket, lookups, refetching>>

-----------------------------------------------------------------------------

\* The steps of a caller that do not depend on Telegram's answer.
Step(x) ==
    \/ /\ x \in Requests
       /\ \/ FindRecord(x) \/ AcquireBest(x) \/ Scan(x) \/ Reserve(x) \/ Reject(x)
          \/ Serve(x) \/ Evict(x) \/ Release(x)
    \/ StartLookup(x) \/ LookupTimesOut(x)

Body(r) == EndBody(r) \/ Refetch(r)

Finished == (\A x \in Callers : pc[x] \in {"full", "done"}) /\ calls = {} /\ UNCHANGED vars

Next ==
    \/ \E x \in Callers : Step(x) \/ Validate(x)
    \/ \E r \in Requests : Body(r)
    \/ \E k \in calls : Answer(k)
    \/ Finished

Spec == Init /\ [][Next]_vars

\* Goroutines run, timers fire and the store answers.  Neither that Telegram
\* answers a lookup nor that a transfer ends is assumed.
Fairness == \A x \in Callers : WF_vars(Step(x))

FairSpec == Spec /\ Fairness

-----------------------------------------------------------------------------
(* Properties.                                                             *)

\* handler.go:53-55: a ticket "is released exactly once on every path": each
\* counter is the number of requests that hold a ticket of its client.
TicketsAccounted == \A c \in Clients : inflight[c] = Cardinality(Holders(c))

\* pool.go:51: "maxConcurrent is a hard simultaneous-stream cap per client".
CapRespected == \A c \in Clients : inflight[c] <= MaxConcurrent

\* pool.go:51-52: requests are rejected "when every client is at this cap":
\* though the counters are read at different instants, and lowered meanwhile,
\* all of them were at the cap together when AcquireBest was entered.
RejectedOnlyWhenFull ==
    [][\A r \in Requests : pc[r] = "scan" /\ pc'[r] = "full"
           => \A c \in Clients : loadAtStart[c] >= MaxConcurrent]_vars

\* pool.go:208: AcquireBest "finds the least-loaded client": no client was
\* less loaded when it was entered than the reserved one is at its end.
LeastLoaded ==
    [][\A r \in Requests : ticket[r] = NoClient /\ ticket'[r] # NoClient
           => \A c \in Clients : inflight[ticket'[r]] <= loadAtStart[c]]_vars

\* pool.go:26-28: the permit is "held until the detached call actually returns
\* instead of allowing unbounded goroutines": the calls Telegram has not
\* answered are bounded per client, those nobody waits for any more included.
LookupsBounded ==
    \A c \in Clients : Cardinality({k \in calls : k[3] = c}) <= MaxConcurrent

\* A request with a ticket streams or gives it back, whether or not Telegram
\* ever answers a lookup.
EveryTicketMoves ==
    \A r \in Requests : ticket[r] # NoClient ~> pc[r] \in {"body", "done"}
=============================================================================
