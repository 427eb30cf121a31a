-------------------------- MODULE ClientPoolProofs --------------------------
(* Theorems about ClientPool, for any number of clients, requests and      *)
(* ingestions, and any cap.                                                *)
EXTENDS ClientPool, FiniteSetTheorems, TLAPS

-----------------------------------------------------------------------------
(* Admission.  The load counters are lowered without the mutex and raised  *)
(* only under it, so while a request scans they can only have fallen since *)
(* it took the mutex; what it saw of a client is an upper bound.           *)

\* The steps at which a request holds a ticket.
Held == {"serve", "permit", "await", "evict", "body", "release"}

PoolTypeOK ==
    /\ inflight \in [Clients -> Int]
    /\ acquireMu \in Requests \cup {NoRequest}
    /\ scan \in [Requests -> Scans]
    /\ loadAtStart \in [Clients -> Int]
    /\ pc \in [Callers -> PCs]
    /\ ticket \in [Requests -> Clients \cup {NoClient}]

MutexHeld == \A r \in Requests : pc[r] = "scan" <=> acquireMu = r

TicketHeld == \A r \in Requests : pc[r] \in Held <=> ticket[r] # NoClient

\* What the scan has established of the clients before its next one.
Scanned(r) ==
    LET s == scan[r]
    IN  /\ \A c \in Clients : inflight[c] <= loadAtStart[c]
        /\ s.best = NoClient =>
              \A c \in Clients : c < s.next => loadAtStart[c] >= MaxConcurrent
        /\ s.best # NoClient =>
              /\ inflight[s.best] <= s.count
              /\ s.count < MaxConcurrent
              /\ \A c \in Clients : c < s.next => s.count <= loadAtStart[c]

ScanSound == \A r \in Requests : IF pc[r] = "scan" THEN Scanned(r) ELSE scan[r] = NoScan

PoolInv == /\ PoolTypeOK /\ MutexHeld /\ TicketHeld /\ ScanSound
           /\ TicketsAccounted /\ CapRespected

LEMMA PoolInit == Init => PoolInv
<1> SUFFICES ASSUME Init PROVE PoolInv
  OBVIOUS
<1> USE PoolAssumption DEF Init
<1>1. PoolTypeOK
  BY DEF PoolTypeOK, Scans, NoScan, Clients, PCs, Callers
<1>2. MutexHeld /\ TicketHeld /\ ScanSound
  BY DEF MutexHeld, TicketHeld, ScanSound, Held, Callers
<1>3. TicketsAccounted
  <2>1. \A c \in Clients : Holders(c) = {}
    BY DEF Holders, Clients, NoClient
  <2> QED BY <2>1, FS_EmptySet DEF TicketsAccounted
<1>4. CapRespected
  BY DEF CapRespected
<1> QED BY <1>1, <1>2, <1>3, <1>4 DEF PoolInv

\* A step that leaves the pool and the tickets alone, and whose callers hold
\* the mutex, and a ticket, after it just when they did before.
LEMMA PoolKeptOutside ==
    ASSUME PoolInv, UNCHANGED <<poolVars, ticket>>, pc' \in [Callers -> PCs],
           \A r \in Requests : /\ pc'[r] = "scan" <=> pc[r] = "scan"
                               /\ pc'[r] \in Held <=> pc[r] \in Held
    PROVE  PoolInv'
<1>1. PoolTypeOK'
  BY DEF PoolInv, PoolTypeOK, poolVars
<1>2. MutexHeld' /\ TicketHeld' /\ ScanSound'
  BY DEF PoolInv, MutexHeld, TicketHeld, ScanSound, Scanned, poolVars
<1>3. TicketsAccounted' /\ CapRespected'
  BY DEF PoolInv, TicketsAccounted, CapRespected, Holders, poolVars
<1> QED BY <1>1, <1>2, <1>3 DEF PoolInv

LEMMA PoolKeptByLookups ==
    ASSUME PoolInv,
           \/ \E r \in Requests : FindRecord(r) \/ Serve(r) \/ Evict(r) \/ Body(r)
           \/ \E x \in Callers : Validate(x) \/ StartLookup(x) \/ LookupTimesOut(x)
           \/ \E k \in calls : Answer(k) /\ k[1] \in Callers
    PROVE  PoolInv'
<1> DEFINE Side == /\ UNCHANGED <<poolVars, ticket>>
                   /\ pc' \in [Callers -> PCs]
                   /\ \A r \in Requests : /\ pc'[r] = "scan" <=> pc[r] = "scan"
                                          /\ pc'[r] \in Held <=> pc[r] \in Held
<1> USE PoolAssumption DEF PoolInv, PoolTypeOK, PCs, Held, Callers, Goto
<1>1. ASSUME NEW r \in Requests, FindRecord(r) \/ Serve(r) \/ Evict(r) \/ Body(r) PROVE Side
  BY <1>1 DEF FindRecord, Serve, Evict, Body, EndBody, Refetch, poolVars, lookupVars
<1>2. ASSUME NEW x \in Callers, Validate(x) \/ StartLookup(x) PROVE Side
  BY <1>2 DEF Validate, StartLookup, lookupVars
<1>3. ASSUME NEW x \in Callers, LookupTimesOut(x) PROVE Side
  BY <1>3 DEF LookupTimesOut, LookupLost
<1>4. ASSUME NEW k \in calls, k[1] \in Callers, Answer(k) PROVE Side
  <2> DEFINE x == k[1]
  <2>1. UNCHANGED <<poolVars, ticket>>
    BY <1>4 DEF Answer
  <2>2. CASE pc[x] = "await" /\ lookups[x] = k[2]
    <3>1. Answered(x)
      BY <1>4, <2>2 DEF Answer
    <3>2. x \in Callers
      BY <1>4
    <3> HIDE DEF x
    <3>3. \E l \in {"release", "body", "done", "evict"} :
             Goto(x, l) /\ (l = "done" => x \in Ingests)
      BY <3>1, <3>2 DEF Answered, LookupLost
    <3>4. pc[x] = "await"
      BY <2>2
    <3> QED BY <2>1, <3>2, <3>3, <3>4
  <2>3. CASE UNCHANGED pc
    BY <2>1, <2>3
  <2> QED BY <1>4, <2>2, <2>3 DEF Answer
<1> QED BY <1>1, <1>2, <1>3, <1>4, PoolKeptOutside

LEMMA PoolKeptByLock ==
    ASSUME NEW r \in Requests, PoolInv, AcquireBest(r)
    PROVE  PoolInv'
<1> USE PoolAssumption DEF AcquireBest, Goto, Callers
<1>1. PoolTypeOK'
  BY DEF PoolInv, PoolTypeOK, PCs
<1>2. MutexHeld' /\ TicketHeld'
  BY DEF PoolInv, PoolTypeOK, MutexHeld, TicketHeld, Held
<1>3. ScanSound'
  <2>1. scan[r] = NoScan
    BY DEF PoolInv, ScanSound
  <2>2. Scanned(r)'
    BY <2>1 DEF Scanned, NoScan, PoolInv, PoolTypeOK, NoClient, Clients
  <2>3. \A q \in Requests \ {r} : pc'[q] = pc[q] /\ pc[q] # "scan"
    BY DEF PoolInv, PoolTypeOK, MutexHeld
  <2>4. pc'[r] = "scan"
    BY DEF PoolInv, PoolTypeOK
  <2> QED BY <2>2, <2>3, <2>4 DEF PoolInv, ScanSound
<1>4. TicketsAccounted' /\ CapRespected'
  BY DEF PoolInv, TicketsAccounted, CapRespected, Holders
<1> QED BY <1>1, <1>2, <1>3, <1>4 DEF PoolInv

LEMMA PoolKeptByScan ==
    ASSUME NEW r \in Requests, PoolInv, Scan(r)
    PROVE  PoolInv'
<1> USE PoolAssumption
<1> DEFINE c == scan[r].next
           s == IF Better(r, c) THEN [next |-> c + 1, best |-> c, count |-> inflight[c]]
                                ELSE [scan[r] EXCEPT !.next = c + 1]
<1>1. /\ scan[r] \in Scans /\ c \in Clients /\ pc[r] = "scan"
      /\ scan' = [scan EXCEPT ![r] = s]
      /\ UNCHANGED <<inflight, acquireMu, loadAtStart, pc, ticket>>
  BY DEF Scan, PoolInv, PoolTypeOK, Scans, Clients
<1>2. s \in Scans
  BY <1>1 DEF PoolInv, PoolTypeOK, Scans, Clients
<1>3. PoolTypeOK'
  BY <1>1, <1>2 DEF PoolInv, PoolTypeOK
<1>4. MutexHeld' /\ TicketHeld'
  BY <1>1 DEF PoolInv, MutexHeld, TicketHeld
<1>5. ScanSound'
  <2>1. scan'[r] = s
    BY <1>1 DEF PoolInv, PoolTypeOK
  <2>2. /\ Scanned(r)
        /\ inflight \in [Clients -> Int] /\ loadAtStart \in [Clients -> Int]
    BY <1>1 DEF PoolInv, PoolTypeOK, ScanSound
  <2>3. Scanned(r)'
    <3>1. /\ c \in Nat /\ inflight[c] \in Int /\ loadAtStart[c] \in Int
          /\ inflight[c] <= loadAtStart[c]
      BY <1>1, <2>2 DEF Clients, Scanned
    <3>2. \A d \in Clients : d < c + 1 => d < c \/ d = c
      BY <3>1 DEF Clients
    <3>3. scan[r].count \in Int
      BY <1>1 DEF Scans
    <3>4. CASE Better(r, c)
      <4>1. s.next = c + 1 /\ s.best = c /\ s.count = inflight[c] /\ c # NoClient
        BY <1>1, <3>4 DEF Clients, NoClient
      <4>2. inflight[c] < MaxConcurrent
        BY <3>4 DEF Better
      <4>3. \A d \in Clients : d < c => inflight[c] <= loadAtStart[d]
        <5>1. CASE scan[r].best = NoClient
          BY <2>2, <3>1, <4>2, <5>1 DEF Scanned, Clients
        <5>2. CASE scan[r].best # NoClient /\ inflight[c] < scan[r].count
          BY <2>2, <3>1, <3>3, <5>2 DEF Scanned, Clients
        <5> QED BY <3>4, <5>1, <5>2 DEF Better
      <4> HIDE DEF s
      <4> QED BY <1>1, <2>1, <2>2, <3>1, <3>2, <4>1, <4>2, <4>3 DEF Scanned
    <3>5. CASE ~Better(r, c)
      <4>1. s.next = c + 1 /\ s.best = scan[r].best /\ s.count = scan[r].count
        BY <1>1, <3>5 DEF Scans
      <4>2. scan[r].best = NoClient => loadAtStart[c] >= MaxConcurrent
        BY <3>1, <3>5 DEF Better
      <4>3. scan[r].best # NoClient => scan[r].count <= loadAtStart[c]
        BY <2>2, <3>1, <3>3, <3>5 DEF Better, Scanned
      <4> HIDE DEF s
      <4> QED BY <1>1, <2>1, <2>2, <3>1, <3>2, <4>1, <4>2, <4>3 DEF Scanned
    <3> QED BY <3>4, <3>5
  <2>4. \A q \in Requests \ {r} : scan'[q] = scan[q]
    BY <1>1 DEF PoolInv, PoolTypeOK
  <2>5. \A q \in Requests \ {r} : pc[q] # "scan"
    BY <1>1 DEF PoolInv, MutexHeld
  <2> QED BY <1>1, <2>3, <2>4, <2>5 DEF PoolInv, ScanSound
<1>6. TicketsAccounted' /\ CapRespected'
  BY <1>1 DEF PoolInv, TicketsAccounted, CapRespected, Holders
<1> QED BY <1>3, <1>4, <1>5, <1>6 DEF PoolInv

\* What is known of the client a scan ends with.
LEMMA ScanEndsSound ==
    ASSUME NEW r \in Requests, PoolInv, ScanEnds(r)
    PROVE  /\ scan[r].best \in Clients \cup {NoClient}
           /\ scan[r].best = NoClient => \A c \in Clients : loadAtStart[c] >= MaxConcurrent
           /\ scan[r].best # NoClient =>
                 /\ inflight[scan[r].best] < MaxConcurrent
                 /\ \A c \in Clients : inflight[scan[r].best] <= loadAtStart[c]
<1>1. scan[r] \in Scans /\ Scanned(r) /\ inflight \in [Clients -> Int] /\ loadAtStart \in [Clients -> Int]
  BY DEF ScanEnds, PoolInv, PoolTypeOK, ScanSound
<1>2. \A c \in Clients : c < scan[r].next
  BY PoolAssumption DEF ScanEnds, Clients
<1>3. ASSUME scan[r].best # NoClient
      PROVE  /\ inflight[scan[r].best] < MaxConcurrent
             /\ \A c \in Clients : inflight[scan[r].best] <= loadAtStart[c]
  <2> DEFINE b == scan[r].best
             n == scan[r].count
  <2>1. b \in Clients /\ n \in Int /\ inflight[b] \in Int
    BY <1>1, <1>3 DEF Scans
  <2>2. inflight[b] <= n /\ n < MaxConcurrent /\ \A c \in Clients : n <= loadAtStart[c]
    BY <1>1, <1>2, <1>3 DEF Scanned
  <2>3. \A c \in Clients : loadAtStart[c] \in Int
    BY <1>1
  <2> HIDE DEF b, n
  <2>4. inflight[b] < MaxConcurrent /\ \A c \in Clients : inflight[b] <= loadAtStart[c]
    BY <2>1, <2>2, <2>3, PoolAssumption
  <2> QED BY <2>4 DEF b
<1> QED BY <1>1, <1>2, <1>3 DEF Scanned, Scans

LEMMA PoolKeptByReject ==
    ASSUME NEW r \in Requests, PoolInv, Reject(r)
    PROVE  PoolInv'
<1> USE PoolAssumption DEF Reject, ScanEnds, Goto, Callers
<1>1. PoolTypeOK'
  BY DEF PoolInv, PoolTypeOK, PCs, Scans, NoScan, Clients
<1>2. MutexHeld' /\ TicketHeld'
  BY DEF PoolInv, PoolTypeOK, MutexHeld, TicketHeld, Held
<1>3. ScanSound'
  BY DEF PoolInv, PoolTypeOK, MutexHeld, ScanSound
<1>4. TicketsAccounted' /\ CapRespected'
  BY DEF PoolInv, TicketsAccounted, CapRespected, Holders
<1> QED BY <1>1, <1>2, <1>3, <1>4 DEF PoolInv

LEMMA PoolKeptByReserve ==
    ASSUME NEW r \in Requests, PoolInv, Reserve(r)
    PROVE  PoolInv'
<1> USE PoolAssumption
<1>1. PICK b \in Clients : b = scan[r].best /\ inflight[b] < MaxConcurrent
  BY ScanEndsSound DEF Reserve
<1>2. /\ pc[r] = "scan" /\ ticket[r] = NoClient /\ acquireMu = r
      /\ inflight' = [inflight EXCEPT ![b] = inflight[b] + 1]
      /\ ticket' = [ticket EXCEPT ![r] = b]
      /\ pc' = [pc EXCEPT ![r] = "serve"]
      /\ scan' = [scan EXCEPT ![r] = NoScan]
      /\ acquireMu' = NoRequest
      /\ UNCHANGED loadAtStart
  BY <1>1 DEF Reserve, ScanEnds, Goto, PoolInv, TicketHeld, MutexHeld, Held
<1>3. /\ pc \in [Callers -> PCs] /\ ticket \in [Requests -> Clients \cup {NoClient}]
      /\ inflight \in [Clients -> Int] /\ scan \in [Requests -> Scans] /\ r \in Callers
  BY DEF PoolInv, PoolTypeOK, Callers
<1>4. PoolTypeOK'
  <2>1. NoScan \in Scans
    BY DEF Scans, NoScan, Clients
  <2> QED BY <1>1, <1>2, <1>3, <2>1 DEF PoolInv, PoolTypeOK, PCs
<1>5. MutexHeld' /\ TicketHeld'
  BY <1>1, <1>2, <1>3 DEF PoolInv, MutexHeld, TicketHeld, Held, Clients, NoClient, Callers
<1>6. ScanSound'
  BY <1>2, <1>3 DEF PoolInv, MutexHeld, ScanSound, Callers
<1>7. TicketsAccounted'
  <2>1. ASSUME NEW c \in Clients, c # b PROVE Holders(c)' = Holders(c) /\ inflight'[c] = inflight[c]
    BY <1>1, <1>2, <1>3, <2>1 DEF Holders, Clients, NoClient
  <2>2. Holders(b)' = Holders(b) \cup {r} /\ r \notin Holders(b)
    BY <1>1, <1>2, <1>3 DEF Holders, Clients, NoClient
  <2>3. IsFiniteSet(Holders(b))
    BY FS_Subset DEF Holders
  <2>4. Cardinality(Holders(b)') = Cardinality(Holders(b)) + 1
    BY <2>2, <2>3, FS_AddElement
  <2>5. inflight'[b] = Cardinality(Holders(b)')
    BY <1>1, <1>2, <1>3, <2>4 DEF PoolInv, TicketsAccounted
  <2> QED BY <2>1, <2>5 DEF PoolInv, TicketsAccounted
<1>8. CapRespected'
  BY <1>1, <1>2, <1>3 DEF PoolInv, CapRespected
<1> QED BY <1>4, <1>5, <1>6, <1>7, <1>8 DEF PoolInv

LEMMA PoolKeptByRelease ==
    ASSUME NEW r \in Requests, PoolInv, Release(r)
    PROVE  PoolInv'
<1> USE PoolAssumption
<1>0. PICK b \in Clients : b = ticket[r]
  BY DEF Release, PoolInv, PoolTypeOK, TicketHeld, Held
<1>1. /\ pc \in [Callers -> PCs] /\ ticket \in [Requests -> Clients \cup {NoClient}]
      /\ inflight \in [Clients -> Int] /\ r \in Callers /\ loadAtStart \in [Clients -> Int]
      /\ scan \in [Requests -> Scans]
  BY DEF PoolInv, PoolTypeOK, Callers
<1>2. /\ pc[r] = "release"
      /\ inflight' = [inflight EXCEPT ![b] = inflight[b] - 1]
      /\ ticket' = [ticket EXCEPT ![r] = NoClient]
      /\ pc' = [pc EXCEPT ![r] = "done"]
      /\ UNCHANGED <<acquireMu, scan, loadAtStart>>
  BY <1>0 DEF Release, Goto
<1>3. PoolTypeOK'
  BY <1>0, <1>1, <1>2 DEF PoolInv, PoolTypeOK, PCs
<1>4. MutexHeld' /\ TicketHeld'
  BY <1>0, <1>1, <1>2 DEF PoolInv, MutexHeld, TicketHeld, Held, Callers
<1>5. \A c \in Clients : inflight'[c] \in Int /\ inflight[c] \in Int /\ inflight'[c] <= inflight[c]
  BY <1>0, <1>1, <1>2
<1>6. ScanSound'
  <2>1. ASSUME NEW q \in Requests, pc'[q] = "scan" PROVE Scanned(q)'
    <3>1. pc[q] = "scan" /\ Scanned(q) /\ scan[q] \in Scans
      BY <1>1, <1>2, <2>1 DEF PoolInv, ScanSound, Callers
    <3>2. scan[q].best # NoClient => scan[q].best \in Clients /\ scan[q].count \in Int
      BY <3>1 DEF Scans
    <3>3. \A c \in Clients : loadAtStart[c] \in Int
      BY <1>1
    <3> QED BY <1>2, <1>5, <3>1, <3>2, <3>3 DEF Scanned
  <2>2. ASSUME NEW q \in Requests, pc'[q] # "scan" PROVE scan'[q] = NoScan
    BY <1>1, <1>2, <2>2 DEF PoolInv, ScanSound, Callers
  <2> QED BY <2>1, <2>2 DEF ScanSound
<1>7. TicketsAccounted'
  <2>1. ASSUME NEW c \in Clients, c # b PROVE Holders(c)' = Holders(c) /\ inflight'[c] = inflight[c]
    BY <1>0, <1>1, <1>2, <2>1 DEF Holders, Clients, NoClient
  <2>2. Holders(b)' = Holders(b) \ {r} /\ r \in Holders(b)
    BY <1>0, <1>1, <1>2 DEF Holders, Clients, NoClient
  <2>3. IsFiniteSet(Holders(b))
    BY FS_Subset DEF Holders
  <2>4. Cardinality(Holders(b)') = Cardinality(Holders(b)) - 1
    BY <2>2, <2>3, FS_RemoveElement
  <2>5. inflight'[b] = Cardinality(Holders(b)')
    BY <1>0, <1>1, <1>2, <2>4 DEF PoolInv, TicketsAccounted
  <2> QED BY <2>1, <2>5 DEF PoolInv, TicketsAccounted
<1>8. CapRespected'
  BY <1>5 DEF PoolInv, CapRespected
<1> QED BY <1>3, <1>4, <1>6, <1>7, <1>8 DEF PoolInv

-----------------------------------------------------------------------------
(* Lookups.  A permit is taken and given back together with the call it    *)
(* stands for, so the permits of a client count its unanswered calls.      *)

CallsOf(c) == {k \in calls : k[3] = c}

LookupTypeOK ==
    /\ lookupSem \in [Clients -> 0 .. MaxConcurrent]
    /\ calls \subseteq Callers \X (1 .. MaxLookups) \X Clients
    /\ lookups \in [Callers -> 0 .. MaxLookups]
    /\ refetching \in [Callers -> BOOLEAN]

\* A call bears one of the numbers its caller has used.
CallsNumbered == \A k \in calls : k[2] <= lookups[k[1]]

PermitsAreCalls == /\ IsFiniteSet(calls)
                   /\ \A c \in Clients : lookupSem[c] = Cardinality(CallsOf(c))

LookupInv == LookupTypeOK /\ CallsNumbered /\ PermitsAreCalls

LEMMA LookupInit == Init => LookupInv
<1> SUFFICES ASSUME Init PROVE LookupInv
  OBVIOUS
<1>1. LookupTypeOK /\ CallsNumbered
  BY PoolAssumption DEF Init, LookupTypeOK, CallsNumbered
<1>2. \A c \in Clients : CallsOf(c) = {}
  BY DEF Init, CallsOf
<1>3. PermitsAreCalls
  BY <1>2, FS_EmptySet DEF Init, PermitsAreCalls
<1> QED BY <1>1, <1>3 DEF LookupInv

LEMMA CallsFinite ==
    ASSUME LookupInv, NEW c
    PROVE  IsFiniteSet(CallsOf(c))
BY FS_Subset DEF LookupInv, PermitsAreCalls, CallsOf

LEMMA LookupKeptByStart ==
    ASSUME NEW x \in Callers, LookupInv, PoolInv, StartLookup(x)
    PROVE  LookupInv'
<1> USE PoolAssumption
<1>1. PICK b \in Clients : b = ClientOf(x)
  BY DEF StartLookup, ClientOf, PoolInv, PoolTypeOK, TicketHeld, Held, Callers, Clients, Primary
<1>2. PICK k : k = <<x, lookups[x] + 1, b>>
  OBVIOUS
<1>3. /\ lookups[x] < MaxLookups /\ lookupSem[b] < MaxConcurrent
      /\ lookupSem' = [lookupSem EXCEPT ![b] = lookupSem[b] + 1]
      /\ lookups' = [lookups EXCEPT ![x] = lookups[x] + 1]
      /\ calls' = calls \cup {k}
      /\ UNCHANGED refetching
  BY <1>1, <1>2 DEF StartLookup
<1>4. /\ lookupSem \in [Clients -> 0 .. MaxConcurrent] /\ lookups \in [Callers -> 0 .. MaxLookups]
      /\ calls \subseteq Callers \X (1 .. MaxLookups) \X Clients
      /\ \A j \in calls : j[2] <= lookups[j[1]]
  BY DEF LookupInv, LookupTypeOK, CallsNumbered
<1>5. LookupTypeOK'
  <2>1. k \in Callers \X (1 .. MaxLookups) \X Clients
    BY <1>2, <1>3, <1>4
  <2>2. lookupSem' \in [Clients -> 0 .. MaxConcurrent]
    BY <1>3, <1>4
  <2>3. lookups' \in [Callers -> 0 .. MaxLookups]
    BY <1>3, <1>4
  <2> QED BY <1>3, <1>4, <2>1, <2>2, <2>3 DEF LookupInv, LookupTypeOK
<1>6. CallsNumbered'
  <2>1. \A y \in Callers : lookups[y] \in Int /\ lookups'[y] \in Int /\ lookups[y] <= lookups'[y]
    BY <1>3, <1>4
  <2>2. \A j \in calls : j[1] \in Callers /\ j[2] \in Int
    BY <1>4
  <2>3. k[1] = x /\ k[2] = lookups[x] + 1 /\ lookups'[x] = lookups[x] + 1
    BY <1>2, <1>3, <1>4
  <2>4. k[2] <= lookups'[k[1]]
    BY <2>1, <2>3
  <2>5. \A j \in calls : j[2] <= lookups'[j[1]]
    BY <1>4, <2>1, <2>2
  <2> QED BY <1>3, <2>4, <2>5 DEF CallsNumbered
<1>7. PermitsAreCalls'
  <2>1. k \notin calls
    BY <1>2, <1>4
  <2>2. k[3] = b
    BY <1>2
  <2>3. ASSUME NEW c \in Clients, c # b PROVE CallsOf(c)' = CallsOf(c) /\ lookupSem'[c] = lookupSem[c]
    BY <1>3, <1>4, <2>2, <2>3 DEF CallsOf
  <2>4. CallsOf(b)' = CallsOf(b) \cup {k} /\ k \notin CallsOf(b)
    BY <1>3, <2>1, <2>2 DEF CallsOf
  <2>5. Cardinality(CallsOf(b)') = Cardinality(CallsOf(b)) + 1
    BY <2>4, CallsFinite, FS_AddElement
  <2>6. lookupSem'[b] = Cardinality(CallsOf(b)')
    BY <1>3, <1>4, <2>5 DEF LookupInv, PermitsAreCalls
  <2>7. IsFiniteSet(calls')
    BY <1>3, FS_AddElement DEF LookupInv, PermitsAreCalls
  <2> QED BY <2>3, <2>6, <2>7 DEF LookupInv, PermitsAreCalls
<1> QED BY <1>5, <1>6, <1>7 DEF LookupInv

LEMMA LookupKeptByAnswer ==
    ASSUME NEW k \in calls, LookupInv, Answer(k)
    PROVE  LookupInv'
<1> USE PoolAssumption
<1>1. /\ lookupSem \in [Clients -> 0 .. MaxConcurrent]
      /\ calls \subseteq Callers \X (1 .. MaxLookups) \X Clients
  BY DEF LookupInv, LookupTypeOK
<1>2. PICK b \in Clients : b = k[3]
  BY <1>1
<1>3. /\ lookupSem' = [lookupSem EXCEPT ![b] = lookupSem[b] - 1]
      /\ calls' = calls \ {k}
      /\ UNCHANGED <<lookups, refetching>>
  BY <1>2 DEF Answer
<1>4. CallsOf(b)' = CallsOf(b) \ {k} /\ k \in CallsOf(b)
  BY <1>2, <1>3 DEF CallsOf
<1>5. Cardinality(CallsOf(b)') = Cardinality(CallsOf(b)) - 1 /\ CallsOf(b) # {}
  BY <1>4, CallsFinite, FS_RemoveElement
<1>6. lookupSem[b] = Cardinality(CallsOf(b)) /\ lookupSem[b] # 0
  BY <1>5, CallsFinite, FS_EmptySet DEF LookupInv, PermitsAreCalls
<1>7. LookupTypeOK'
  BY <1>1, <1>3, <1>6 DEF LookupInv, LookupTypeOK
<1>8. CallsNumbered'
  BY <1>3 DEF LookupInv, CallsNumbered
<1>9. PermitsAreCalls'
  <2>1. ASSUME NEW c \in Clients, c # b PROVE CallsOf(c)' = CallsOf(c) /\ lookupSem'[c] = lookupSem[c]
    BY <1>1, <1>2, <1>3, <2>1 DEF CallsOf
  <2>2. lookupSem'[b] = Cardinality(CallsOf(b)')
    BY <1>1, <1>3, <1>5, <1>6
  <2>3. IsFiniteSet(calls')
    BY <1>3, FS_RemoveElement DEF LookupInv, PermitsAreCalls
  <2> QED BY <2>1, <2>2, <2>3 DEF LookupInv, PermitsAreCalls
<1> QED BY <1>7, <1>8, <1>9 DEF LookupInv

LEMMA LookupKeptOutside ==
    ASSUME LookupInv, UNCHANGED <<lookupSem, calls, lookups>>, refetching' \in [Callers -> BOOLEAN]
    PROVE  LookupInv'
BY DEF LookupInv, LookupTypeOK, CallsNumbered, PermitsAreCalls, CallsOf

-----------------------------------------------------------------------------
(* The theorems.                                                           *)

Inv == PoolInv /\ LookupInv

LEMMA InvInit == Init => Inv
BY PoolInit, LookupInit DEF Inv

LEMMA InvStep == Inv /\ [Next]_vars => Inv'
<1> SUFFICES ASSUME Inv, [Next]_vars PROVE Inv'
  OBVIOUS
<1> USE DEF Inv
<1>1. ASSUME NEW r \in Requests,
             AcquireBest(r) \/ Scan(r) \/ Reserve(r) \/ Reject(r) \/ Release(r)
      PROVE  Inv'
  <2>1. PoolInv'
    BY <1>1, PoolKeptByLock, PoolKeptByScan, PoolKeptByReserve, PoolKeptByReject, PoolKeptByRelease
  <2>2. UNCHANGED lookupVars
    BY <1>1 DEF AcquireBest, Scan, Reserve, Reject, Release
  <2> QED BY <2>1, <2>2, LookupKeptOutside DEF lookupVars, LookupInv, LookupTypeOK
<1>2. ASSUME NEW r \in Requests, FindRecord(r) \/ Serve(r) \/ Evict(r) \/ Body(r) PROVE Inv'
  <2>1. UNCHANGED <<lookupSem, calls, lookups>> /\ refetching' \in [Callers -> BOOLEAN]
    BY <1>2 DEF FindRecord, Serve, Evict, Body, EndBody, Refetch, lookupVars, LookupInv, LookupTypeOK
  <2> QED BY <1>2, <2>1, PoolKeptByLookups, LookupKeptOutside
<1>3. ASSUME NEW x \in Callers, Validate(x) \/ LookupTimesOut(x) PROVE Inv'
  <2>1. UNCHANGED lookupVars
    BY <1>3 DEF Validate, LookupTimesOut
  <2> QED BY <1>3, <2>1, PoolKeptByLookups, LookupKeptOutside DEF lookupVars, LookupInv, LookupTypeOK
<1>4. ASSUME NEW x \in Callers, StartLookup(x) PROVE Inv'
  BY <1>4, PoolKeptByLookups, LookupKeptByStart
<1>5. ASSUME NEW k \in calls, Answer(k) PROVE Inv'
  <2>1. k[1] \in Callers
    BY DEF LookupInv, LookupTypeOK
  <2> QED BY <1>5, <2>1, PoolKeptByLookups, LookupKeptByAnswer
<1>6. CASE UNCHANGED vars
  <2>1. UNCHANGED <<poolVars, ticket>> /\ UNCHANGED <<pc, lookupSem, calls, lookups, refetching>>
    BY <1>6 DEF vars, poolVars
  <2>2. pc \in [Callers -> PCs] /\ refetching \in [Callers -> BOOLEAN]
    BY DEF PoolInv, PoolTypeOK, LookupInv, LookupTypeOK
  <2> QED BY <2>1, <2>2, PoolKeptOutside, LookupKeptOutside
<1> QED BY <1>1, <1>2, <1>3, <1>4, <1>5, <1>6 DEF Next, Step, Finished

\* Every variable of the pool keeps its type: no semaphore is overdrawn.
THEOREM PoolTypeCorrect == Spec => []TypeOK
<1>1. Inv => TypeOK
  BY DEF Inv, PoolInv, PoolTypeOK, LookupInv, LookupTypeOK, TypeOK
<1> QED BY <1>1, InvInit, InvStep, PTL DEF Spec

\* handler.go:53-55: whatever path a request takes, the load counters are the
\* tickets held.
THEOREM TicketsAreAccounted == Spec => []TicketsAccounted
<1>1. Inv => TicketsAccounted
  BY DEF Inv, PoolInv
<1> QED BY <1>1, InvInit, InvStep, PTL DEF Spec

\* pool.go:51: the cap of simultaneous streams of a client is hard.
THEOREM CapIsHard == Spec => []CapRespected
<1>1. Inv => CapRespected
  BY DEF Inv, PoolInv
<1> QED BY <1>1, InvInit, InvStep, PTL DEF Spec

\* pool.go:26-28: the calls Telegram has not answered are bounded, however
\* many requests have given up on theirs.
THEOREM LookupsAreBounded == Spec => []LookupsBounded
<1>1. Inv => LookupsBounded
  BY PoolAssumption DEF Inv, LookupInv, LookupTypeOK, PermitsAreCalls, CallsOf, LookupsBounded
<1> QED BY <1>1, InvInit, InvStep, PTL DEF Spec

\* A request changes to "full", or gets its ticket, by the end of its scan only.
LEMMA ScanDecides ==
    ASSUME Inv, Next, NEW r \in Requests,
           \/ pc[r] = "scan" /\ pc'[r] = "full"
           \/ ticket[r] = NoClient /\ ticket'[r] # NoClient
    PROVE  Reject(r) \/ Reserve(r)
<1> DEFINE Decided(q) == \/ pc[q] = "scan" /\ pc'[q] = "full"
                         \/ ticket[q] = NoClient /\ ticket'[q] # NoClient
<1> USE PoolAssumption DEF Goto, Callers
<1>0. /\ pc \in [Callers -> PCs] /\ ticket \in [Requests -> Clients \cup {NoClient}]
      /\ calls \subseteq Callers \X (1 .. MaxLookups) \X Clients
  BY DEF Inv, PoolInv, PoolTypeOK, LookupInv, LookupTypeOK
<1>1. ASSUME NEW q \in Requests,
             FindRecord(q) \/ AcquireBest(q) \/ Scan(q) \/ Release(q) \/ Serve(q) \/ Evict(q) \/ Body(q)
      PROVE  ~Decided(r)
  BY <1>0, <1>1 DEF FindRecord, AcquireBest, Scan, Release, Serve, Evict, Body, EndBody, Refetch
<1>2. ASSUME NEW q \in Requests, Reserve(q) \/ Reject(q), q # r
      PROVE  ~Decided(r)
  BY <1>0, <1>2 DEF Reserve, Reject
<1>3. ASSUME NEW x \in Callers, Validate(x) \/ StartLookup(x) \/ LookupTimesOut(x)
      PROVE  ~Decided(r)
  BY <1>0, <1>3 DEF Validate, StartLookup, LookupTimesOut, LookupLost
<1>4. ASSUME NEW k \in calls, Answer(k)
      PROVE  ~Decided(r)
  <2>1. UNCHANGED ticket /\ (UNCHANGED pc \/ pc[k[1]] = "await")
    BY <1>4 DEF Answer
  <2>2. PICK x \in Callers : x = k[1]
    BY <1>0
  <2>3. UNCHANGED pc \/ (pc[x] = "await" /\ \E l \in PCs : Goto(x, l))
    BY <1>4, <2>1, <2>2 DEF Answer, Answered, LookupLost, PCs
  <2> QED BY <1>0, <2>1, <2>2, <2>3
<1>5. ~(UNCHANGED vars /\ Decided(r))
  BY DEF vars
<1> QED BY <1>1, <1>2, <1>3, <1>4, <1>5 DEF Next, Step, Finished

\* pool.go:51-52: a request is turned away only if every client was at its cap
\* when AcquireBest was entered.
THEOREM RejectsOnlyWhenFull == Spec => RejectedOnlyWhenFull
<1>1. Inv /\ [Next]_vars =>
         [\A r \in Requests : pc[r] = "scan" /\ pc'[r] = "full"
             => \A c \in Clients : loadAtStart[c] >= MaxConcurrent]_vars
  <2> SUFFICES ASSUME Inv, Next, NEW r \in Requests, pc[r] = "scan", pc'[r] = "full"
               PROVE  \A c \in Clients : loadAtStart[c] >= MaxConcurrent
    OBVIOUS
  <2>1. pc \in [Callers -> PCs] /\ r \in Callers
    BY DEF Inv, PoolInv, PoolTypeOK, Callers
  <2>2. Reject(r)
    BY <2>1, ScanDecides DEF Reserve, Goto
  <2> QED BY <2>2, ScanEndsSound DEF Inv, Reject
<1> QED BY <1>1, InvInit, InvStep, PTL DEF Spec, RejectedOnlyWhenFull

\* pool.go:208: the reserved client is as little loaded as any client was when
\* AcquireBest was entered.
THEOREM ReservesLeastLoaded == Spec => LeastLoaded
<1>1. Inv /\ [Next]_vars =>
         [\A r \in Requests : ticket[r] = NoClient /\ ticket'[r] # NoClient
             => \A c \in Clients : inflight[ticket'[r]] <= loadAtStart[c]]_vars
  <2> SUFFICES ASSUME Inv, Next, NEW r \in Requests, ticket[r] = NoClient, ticket'[r] # NoClient
               PROVE  \A c \in Clients : inflight[ticket'[r]] <= loadAtStart[c]
    OBVIOUS
  <2>1. ticket \in [Requests -> Clients \cup {NoClient}]
    BY DEF Inv, PoolInv, PoolTypeOK
  <2>2. Reserve(r)
    BY ScanDecides DEF Reject
  <2>3. ticket'[r] = scan[r].best /\ scan[r].best # NoClient
    BY <2>1, <2>2 DEF Reserve
  <2> QED BY <2>2, <2>3, ScanEndsSound DEF Inv, Reserve
<1> QED BY <1>1, InvInit, InvStep, PTL DEF Spec, LeastLoaded
=============================================================================
