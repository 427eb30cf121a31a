----------------------------- MODULE LinkProofs -----------------------------
(* What a /link goes through in this process: theorems about RateLimit, for *)
(* any cap, window and number of users, and about Batch with Shortener, for *)
(* any messages, workers, callers and URLs and any sizes.                   *)
EXTENDS RateLimit, Batch, Integers, SequenceTheorems, FiniteSetTheorems, WellFoundedInduction,
        TLAPS

-----------------------------------------------------------------------------
(* The limiter.                                                             *)

LEMMA PeriodInWindow == Period \in Nat /\ Period <= Window
  BY LimitAssumption DEF Period

\* No arrival time is more than a window ahead, and a sweep only looks at those
\* more than a window old.
LimitTypes ==
    /\ now \in 1 .. MaxTime
    /\ tats \in [Users -> Nat]
    /\ \A u \in Users : tats[u] <= now + Window
    /\ sweep \in [cutoff: Nat, left: SUBSET Users]
    /\ sweep.cutoff = 0 \/ sweep.cutoff + Window <= now
    /\ promise \in [Users -> Nat]
    /\ \A u \in Users : promise[u] <= now + Window
    /\ since \in [Users -> 1 .. MaxTime]
    /\ \A u \in Users : since[u] <= now
    /\ granted \in [Users -> Nat]

\* Each request that passed has pushed the arrival time by one period.
GrantsArePaid ==
    \A u \in Users : granted[u] * Period <= Later(tats[u], now) - since[u]

\* What u was told follows from the arrival time, until that is past.
PromisesAreDue ==
    \A u \in Users : promise[u] # NoPromise =>
        IF tats[u] >= now THEN promise[u] = tats[u] + Period - Window
                          ELSE promise[u] <= now

Inv == LimitTypes /\ GrantsArePaid /\ PromisesAreDue

LEMMA InvInit == LimitInit => Inv
  BY LimitAssumption, PeriodInWindow
  DEF LimitInit, Inv, LimitTypes, GrantsArePaid, PromisesAreDue, Later, NoPromise

\* What a step does to one user suffices: it leaves the others as they were.
LEMMA RequestKeepsInv ==
    ASSUME NEW u \in Users, Inv, Request(u)
    PROVE  Inv'
<1> USE LimitAssumption, PeriodInWindow
<1> DEFINE t == NewTAT(u)
<1>1. /\ now \in Nat /\ tats \in [Users -> Nat] /\ granted \in [Users -> Nat]
      /\ since \in [Users -> 1 .. MaxTime] /\ since[u] <= now
      /\ UNCHANGED <<now, sweep, since>>
  BY DEF Inv, LimitTypes, Request
<1>2. t \in Nat /\ t <= now + Window /\ t >= now /\ t = Later(tats[u], now) + Period
  BY <1>1 DEF Request, Fits, NewTAT, Later
<1>3. /\ tats' = [tats EXCEPT ![u] = t]
      /\ granted' = [granted EXCEPT ![u] = granted[u] + 1]
      /\ promise' = [promise EXCEPT ![u] = NoPromise]
  BY <1>1 DEF Request, Inv, LimitTypes
<1> HIDE DEF t
<1>4. LimitTypes'
  BY <1>1, <1>2, <1>3 DEF Inv, LimitTypes, NoPromise
<1>5. GrantsArePaid'
  <2> SUFFICES ASSUME NEW v \in Users
               PROVE  granted'[v] * Period <= Later(tats'[v], now) - since[v]
    BY <1>1 DEF GrantsArePaid, Later
  <2>1. granted[v] * Period <= Later(tats[v], now) - since[v]
    BY DEF Inv, GrantsArePaid
  <2>2. CASE v # u
    BY <1>1, <1>3, <2>1, <2>2
  <2>3. CASE v = u
    <3>1. (granted[u] + 1) * Period = granted[u] * Period + Period
      BY <1>1
    <3>2. Later(t, now) = t
      BY <1>1, <1>2 DEF Later
    <3> QED BY <1>1, <1>2, <1>3, <2>1, <2>3, <3>1, <3>2 DEF Later
  <2> QED BY <2>2, <2>3
<1>6. PromisesAreDue'
  BY <1>1, <1>3 DEF Inv, LimitTypes, PromisesAreDue
<1> QED BY <1>4, <1>5, <1>6 DEF Inv

LEMMA RejectKeepsInv ==
    ASSUME NEW u \in Users, Inv, Reject(u)
    PROVE  Inv'
<1> USE LimitAssumption, PeriodInWindow
<1>1. /\ now \in Nat /\ now >= 1 /\ tats \in [Users -> Nat] /\ promise \in [Users -> Nat]
      /\ tats[u] <= now + Window
      /\ UNCHANGED <<now, tats, sweep, since, granted>>
  BY DEF Inv, LimitTypes, Reject
<1>2. /\ tats[u] > now /\ Retry(u) = tats[u] + Period - Window
      /\ Retry(u) \in Nat /\ Retry(u) <= now + Window
  BY <1>1 DEF Reject, Fits, Retry, NewTAT, Later
<1>3. promise' = [promise EXCEPT ![u] = Retry(u)]
  BY DEF Reject
<1>4. LimitTypes'
  BY <1>1, <1>2, <1>3 DEF Inv, LimitTypes
<1>5. GrantsArePaid'
  BY <1>1 DEF Inv, GrantsArePaid, Later
<1>6. PromisesAreDue'
  BY <1>1, <1>2, <1>3 DEF Inv, PromisesAreDue
<1> QED BY <1>4, <1>5, <1>6 DEF Inv

LEMMA OthersKeepInv ==
    ASSUME Inv,
           \/ Tick \/ StartSweep \/ UNCHANGED limitVars
           \/ \E u \in Users : Reset(u) \/ SweepShard(u) \/ Watch(u)
    PROVE  Inv'
<1> USE LimitAssumption, PeriodInWindow DEF Later, NoPromise
<1>1. CASE Tick
  BY <1>1 DEF Tick, Inv, LimitTypes, GrantsArePaid, PromisesAreDue
<1>2. CASE StartSweep
  BY <1>2 DEF StartSweep, Inv, LimitTypes, GrantsArePaid, PromisesAreDue
<1>3. CASE UNCHANGED limitVars
  BY <1>3 DEF limitVars, Inv, LimitTypes, GrantsArePaid, PromisesAreDue
<1>4. ASSUME NEW u \in Users, Reset(u) PROVE Inv'
  BY <1>4 DEF Reset, Inv, LimitTypes, GrantsArePaid, PromisesAreDue
<1>5. ASSUME NEW u \in Users, SweepShard(u) PROVE Inv'
  BY <1>5 DEF SweepShard, Inv, LimitTypes, GrantsArePaid, PromisesAreDue
<1>6. ASSUME NEW u \in Users, Watch(u) PROVE Inv'
  BY <1>6 DEF Watch, Inv, LimitTypes, GrantsArePaid, PromisesAreDue
<1> QED BY <1>1, <1>2, <1>3, <1>4, <1>5, <1>6

LEMMA InvStep == Inv /\ [LimitNext]_limitVars => Inv'
  BY RequestKeepsInv, RejectKeepsInv, OthersKeepInv DEF LimitNext

\* The types of the limiter's state: no arrival time is more than a window ahead.
THEOREM LimitTypeCorrect == LimitSpec => []LimitTypeOK
<1>1. Inv => LimitTypeOK
  BY LimitAssumption DEF Inv, LimitTypes, LimitTypeOK
<1> QED BY <1>1, InvInit, InvStep, PTL DEF LimitSpec

\* ratelimit.go:56-57: from any moment on, a user gets no more requests through
\* than a full window and the time elapsed are worth.
THEOREM RateIsBounded == LimitSpec => []RateBounded
<1>1. Inv => RateBounded
  <2> SUFFICES ASSUME Inv, NEW u \in Users
               PROVE  granted[u] * Period <= Window + (now - since[u])
    BY DEF RateBounded
  <2>1. /\ now \in Nat /\ tats[u] \in Nat /\ since[u] \in Nat /\ granted[u] * Period \in Int
        /\ tats[u] <= now + Window
    BY PeriodInWindow DEF Inv, LimitTypes
  <2>2. granted[u] * Period <= Later(tats[u], now) - since[u]
    BY DEF Inv, GrantsArePaid
  <2> QED BY <2>1, <2>2, LimitAssumption DEF Later
<1> QED BY <1>1, InvInit, InvStep, PTL DEF LimitSpec

\* ratelimit.go:53-54: a rejected user is turned away again before the time they
\* were told is up, and let through from then on.
THEOREM RetriesAreExact == LimitSpec => []RetryIsExact
<1>1. Inv => RetryIsExact
  <2> SUFFICES ASSUME Inv, NEW u \in Users, promise[u] # NoPromise
               PROVE  Fits(u) <=> now >= promise[u]
    BY DEF RetryIsExact
  <2>1. now \in Nat /\ tats[u] \in Nat /\ promise[u] \in Nat
    BY DEF Inv, LimitTypes
  <2> QED BY <2>1, PeriodInWindow, LimitAssumption
          DEF Inv, PromisesAreDue, Fits, NewTAT, Later
<1> QED BY <1>1, InvInit, InvStep, PTL DEF LimitSpec

\* The limiter is a leaky bucket per user, whose leaking the sweep does not disturb.
THEOREM LimiterIsABucket == LimitSpec => ImplementsBucket
<1> USE LimitAssumption, PeriodInWindow
<1>1. LimitInit => Bucket!Init
  BY DEF LimitInit, Bucket!Init, Level
<1>2. Inv /\ [LimitNext]_limitVars => [Bucket!Next]_Level
  <2> SUFFICES ASSUME Inv, [LimitNext]_limitVars PROVE Bucket!Next \/ UNCHANGED Level
    BY DEF Inv
  <2>1. now \in Nat /\ tats \in [Users -> Nat]
    BY DEF Inv, LimitTypes
  <2>2. ASSUME NEW u \in Users, Request(u) PROVE Bucket!Admit(u)
    <3>1. Level[u] + Period = NewTAT(u) - now /\ NewTAT(u) \in Nat /\ NewTAT(u) >= now
      BY <2>1 DEF Level, NewTAT, Later
    <3>2. tats' = [tats EXCEPT ![u] = NewTAT(u)] /\ now' = now
      BY <2>2 DEF Request
    <3>3. \A v \in Users : Level'[v] = IF v = u THEN NewTAT(u) - now ELSE Level[v]
      BY <2>1, <3>1, <3>2 DEF Level
    <3>4. Level' = [Level EXCEPT ![u] = NewTAT(u) - now]
      BY <3>3 DEF Level
    <3> QED BY <2>2, <3>1, <3>4 DEF Bucket!Admit, Request, Fits, Level
  <2>3. ASSUME NEW u \in Users, Reset(u) PROVE Bucket!Forgive(u)
    <3>1. tats' = [tats EXCEPT ![u] = 0] /\ now' = now
      BY <2>3 DEF Reset
    <3>2. \A v \in Users : Level'[v] = IF v = u THEN 0 ELSE Level[v]
      BY <2>1, <3>1 DEF Level
    <3>3. Level' = [Level EXCEPT ![u] = 0]
      BY <3>2 DEF Level
    <3> QED BY <3>3 DEF Bucket!Forgive
  <2>4. CASE Tick
    BY <2>1, <2>4 DEF Tick, Bucket!Leak, Bucket!Next, Level
  <2>5. ASSUME NEW u \in Users, SweepShard(u) PROVE UNCHANGED Level
    BY <2>1, <2>5 DEF SweepShard, Level, Inv, LimitTypes
  <2>6. CASE StartSweep \/ UNCHANGED limitVars \/ \E u \in Users : Reject(u) \/ Watch(u)
    BY <2>6 DEF StartSweep, limitVars, Reject, Watch, Level
  <2> QED BY <2>2, <2>3, <2>4, <2>5, <2>6 DEF LimitNext, Bucket!Next
<1> QED BY <1>1, <1>2, InvInit, InvStep, PTL DEF LimitSpec, ImplementsBucket, Bucket!Spec

-----------------------------------------------------------------------------
(* Sequences without repetitions, as the channel of a batch and the cache   *)
(* of the shortener are.                                                    *)

Elems(s) == {s[i] : i \in 1..Len(s)}

NoRepeat(s) == \A i, j \in 1..Len(s) : s[i] = s[j] => i = j

LEMMA ElemsTyped ==
    ASSUME NEW S, NEW s \in Seq(S)
    PROVE  Elems(s) \subseteq S
  BY DEF Elems

LEMMA TakenFromFront ==
    ASSUME NEW S, NEW s \in Seq(S), s # <<>>, NoRepeat(s)
    PROVE  /\ Head(s) \in S /\ Tail(s) \in Seq(S)
           /\ Len(Tail(s)) = Len(s) - 1 /\ Len(s) \in Nat
           /\ Elems(s) = {Head(s)} \cup Elems(Tail(s))
           /\ Head(s) \notin Elems(Tail(s))
           /\ NoRepeat(Tail(s))
<1>1. Len(s) \in Nat /\ Len(s) >= 1 /\ Head(s) = s[1] /\ s[1] \in S
  OBVIOUS
<1>2. Tail(s) \in Seq(S) /\ Len(Tail(s)) = Len(s) - 1
  OBVIOUS
<1>3. \A i \in 1..Len(Tail(s)) : Tail(s)[i] = s[i + 1] /\ i + 1 \in 1..Len(s)
  BY <1>1
<1>4. Elems(s) = {Head(s)} \cup Elems(Tail(s))
  <2>1. ASSUME NEW i \in 1..Len(s) PROVE s[i] \in {Head(s)} \cup Elems(Tail(s))
    <3>1. CASE i = 1
      BY <3>1, <1>1
    <3>2. CASE i # 1
      <4>1. i - 1 \in 1..Len(Tail(s)) /\ (i - 1) + 1 = i
        BY <3>2, <1>1, <1>2
      <4> QED BY <4>1, <1>3 DEF Elems
    <3> QED BY <3>1, <3>2
  <2>2. ASSUME NEW i \in 1..Len(Tail(s)) PROVE Tail(s)[i] \in Elems(s)
    BY <1>3 DEF Elems
  <2>3. Head(s) \in Elems(s)
    BY <1>1 DEF Elems
  <2> QED BY <2>1, <2>2, <2>3 DEF Elems
<1>5. Head(s) \notin Elems(Tail(s))
  <2>1. ASSUME NEW i \in 1..Len(Tail(s)) PROVE Tail(s)[i] # Head(s)
    <3>1. i + 1 # 1 /\ 1 \in 1..Len(s)
      BY <1>1
    <3> QED BY <3>1, <1>1, <1>3 DEF NoRepeat
  <2> QED BY <2>1 DEF Elems
<1>6. NoRepeat(Tail(s))
  <2>1. ASSUME NEW i \in 1..Len(Tail(s)), NEW j \in 1..Len(Tail(s)), Tail(s)[i] = Tail(s)[j]
        PROVE  i = j
    <3>1. i + 1 = j + 1
      BY <2>1, <1>3 DEF NoRepeat
    <3> QED BY <3>1
  <2> QED BY <2>1 DEF NoRepeat
<1> QED BY <1>1, <1>2, <1>4, <1>5, <1>6

LEMMA PutAtEnd ==
    ASSUME NEW S, NEW s \in Seq(S), NEW x \in S, NoRepeat(s), x \notin Elems(s)
    PROVE  /\ Append(s, x) \in Seq(S)
           /\ Len(Append(s, x)) = Len(s) + 1 /\ Len(s) \in Nat
           /\ Elems(Append(s, x)) = Elems(s) \cup {x}
           /\ NoRepeat(Append(s, x))
<1> DEFINE t == Append(s, x)
<1>1. t \in Seq(S) /\ Len(t) = Len(s) + 1 /\ Len(s) \in Nat
  OBVIOUS
<1>2. t[Len(t)] = x /\ \A i \in 1..Len(s) : t[i] = s[i] /\ i \in 1..Len(t)
  BY <1>1
<1>3. \A i \in 1..Len(t) : i \in 1..Len(s) \/ i = Len(t)
  BY <1>1
<1>4. Len(t) \in 1..Len(t)
  BY <1>1
<1> HIDE DEF t
<1>5. Elems(t) = Elems(s) \cup {x}
  BY <1>2, <1>3, <1>4 DEF Elems
<1>6. NoRepeat(t)
  <2>1. \A i \in 1..Len(s) : t[i] # x
    BY <1>2 DEF Elems
  <2> QED BY <2>1, <1>2, <1>3, <1>4 DEF NoRepeat
<1> QED BY <1>1, <1>5, <1>6 DEF t

-----------------------------------------------------------------------------
(* A batch.                                                                 *)

\* The places of a worker without an index.
Free == {"receive", "progress", "edit", "done"}

\* The types, but for the bounds on what is counted.
IndexTypes ==
    /\ privileged \in Senders /\ ctx \in {"live", "expired", "cancelled"}
    /\ handed \in 0..Messages /\ producing \in BOOLEAN
    /\ indices \in Seq(Indices) /\ Len(indices) <= IndexBuffer

HandTypes ==
    /\ at \in [Workers -> {"receive", "ingest", "shorten", "progress", "edit", "done"}
                                \cup Outcomes]
    /\ job \in [Workers -> 0..Messages] /\ shown \in [Workers -> 0..Messages]
    /\ panics \in 0..MaxPanics

ResultTypes ==
    /\ results \in [Indices -> (Outcomes \X Indices) \cup {None}]
    /\ lastShown \in 0..Messages
    /\ status \in {"processing", "processed", "summary"} \X (0..Messages)

GatherTypes ==
    /\ main \in {"wait", "gather", "summary", "done"} /\ read \in 0..Messages
    /\ chunk \in Seq(Indices) /\ posted \in Seq(Seq(Indices))
    /\ counts \in [Outcomes -> Nat] /\ dmFailed \in Nat

BatchTypes == IndexTypes /\ HandTypes /\ ResultTypes /\ GatherTypes

Written == {i \in Indices : results[i] # None}

\* processed counts the results that are there.
Filed == processed = Cardinality(Written)

\* An index is in the channel or with one worker until its result is there, which is
\* its own and says what its message comes to.
HandsFull ==
    /\ NoRepeat(indices)
    /\ \A i \in Elems(indices) : i <= handed /\ results[i] = None
    /\ \A i \in Indices :
          \/ results[i] = None
          \/ /\ i <= handed
             /\ results[i] \in IF i \in Media THEN {<<"ok", i>>, <<"failed", i>>}
                               ELSE {<<"skipped", i>>}
    /\ \A w \in Workers :
          /\ at[w] \in Free => job[w] = 0
          /\ at[w] \notin Free =>
                /\ job[w] \in 1..handed /\ job[w] \notin Elems(indices)
                /\ results[job[w]] = None
                /\ job[w] \in Media <=> at[w] # "skipped"
    /\ \A w, x \in Workers : job[w] = job[x] /\ job[w] # 0 => w = x

InTime == ctx # "expired" /\ panics = 0

\* No index is dropped but after the deadline, or by a panic.
NoneMissing ==
    InTime => \A i \in 1..handed :
                 i \in Elems(indices) \/ results[i] # None \/ \E w \in Workers : job[w] = i

\* A worker that has returned has seen the end of the channel, and the handler goes
\* on when all of them have.
Wound ==
    /\ ctx = "cancelled" => main = "done"
    /\ main # "wait" => WorkersDone
    /\ ~producing /\ ctx = "live" => handed = Messages
    /\ InTime /\ (\E w \in Workers : at[w] = "done") =>
          ~producing /\ indices = <<>> /\ handed = Messages

\* The handler has gone through the first read results, and counted those of each
\* outcome.
Counted(o) == {i \in 1..read : results[i] = <<o, i>>}

Gathering ==
    /\ main = "wait" => read = 0
    /\ main \in {"summary", "done"} => read = Messages
    /\ \A o \in Outcomes : counts[o] = Cardinality(Counted(o))
    /\ Len(posted) + Len(chunk) <= read /\ dmFailed <= Len(posted)
    /\ SummaryStays

LEMMA BatchSizes ==
    /\ Messages \in Nat /\ Indices = 1..Messages /\ Media \subseteq Indices
    /\ Workers # {} /\ IndexBuffer \in Nat /\ ChunkSize \in Nat /\ MaxPanics \in Nat
    /\ Callers = Workers \X Links /\ CacheCap \in Nat \ {0} /\ NoUrl \notin Urls
    /\ FileOf \in [Indices -> Files] /\ Urls = Files \X Links
  BY BatchAssumption, ShortenerAssumption DEF Indices

\* A step of w alone.
LEMMA Gone ==
    ASSUME HandTypes, NEW w \in Workers, NEW p, NEW i, Go(w, p, i)
    PROVE  /\ at'[w] = p /\ job'[w] = i
           /\ \A x \in Workers \ {w} : at'[x] = at[x] /\ job'[x] = job[x]
  BY DEF HandTypes, Go

LEMMA GoneTypes ==
    ASSUME HandTypes, NEW w \in Workers, NEW i \in 0..Messages,
           NEW p \in {"receive", "ingest", "shorten", "progress", "edit", "done"} \cup Outcomes,
           Go(w, p, i)
    PROVE  /\ at' \in [Workers -> {"receive", "ingest", "shorten", "progress", "edit", "done"}
                                        \cup Outcomes]
           /\ job' \in [Workers -> 0..Messages]
  BY DEF HandTypes, Go

\* What is counted stays within the messages.
LEMMA FiledBound ==
    ASSUME Filed
    PROVE  processed \in 0..Messages /\ IsFiniteSet(Written)
<1>1. Messages \in Nat /\ Written \subseteq 1..Messages
  BY BatchSizes DEF Written
<1>2. IsFiniteSet(1..Messages) /\ Cardinality(1..Messages) = Messages
  BY <1>1, FS_Interval
<1>3. IsFiniteSet(Written) /\ Cardinality(Written) <= Messages
  BY <1>1, <1>2, FS_Subset
<1>4. Cardinality(Written) \in Nat
  BY <1>3, FS_CardinalityType
<1> QED BY <1>1, <1>3, <1>4 DEF Filed

LEMMA BatchTypesKept ==
    ASSUME BatchTypes, Filed, HandsFull, [Next]_vars
    PROVE  BatchTypes'
<1> USE DEF request, batchVars, handlerVars, workerVars, producerVars
<1>0. IndexTypes /\ HandTypes /\ ResultTypes /\ GatherTypes
  BY DEF BatchTypes
<1>1. /\ Messages \in Nat /\ Indices = 1..Messages /\ IndexBuffer \in Nat
      /\ MaxPanics \in Nat /\ processed \in 0..Messages
  BY BatchSizes, FiledBound
<1>2. UNCHANGED <<privileged, ctx, handed, producing, indices>> => IndexTypes'
  BY <1>0 DEF IndexTypes
<1>3. UNCHANGED <<at, job, shown, panics>> => HandTypes'
  BY <1>0 DEF HandTypes
<1>4. UNCHANGED <<results, lastShown, status>> => ResultTypes'
  BY <1>0 DEF ResultTypes
<1>5. UNCHANGED <<main, read, chunk, posted, counts, dmFailed>> => GatherTypes'
  BY <1>0 DEF GatherTypes
<1>6. CASE HandOut
  <2>1. IndexTypes'
    <3>1. CASE UNCHANGED <<indices, handed>>
      BY <1>0, <1>6, <3>1 DEF HandOut, IndexTypes
    <3>2. CASE handed < Messages /\ Len(indices) < IndexBuffer
               /\ indices' = Append(indices, handed + 1) /\ handed' = handed + 1
      <4>1. handed + 1 \in Indices /\ handed + 1 \in 0..Messages
        BY <1>0, <1>1, <3>2 DEF IndexTypes
      <4>2. indices' \in Seq(Indices) /\ Len(indices') = Len(indices) + 1
            /\ Len(indices) \in Nat
        BY <1>0, <3>2, <4>1 DEF IndexTypes
      <4>3. Len(indices') <= IndexBuffer
        BY <1>1, <3>2, <4>2
      <4> QED BY <1>0, <1>6, <3>2, <4>1, <4>2, <4>3 DEF HandOut, IndexTypes
    <3> QED BY <1>6, <3>1, <3>2 DEF HandOut
  <2> QED BY <1>3, <1>4, <1>5, <1>6, <2>1 DEF HandOut, BatchTypes
<1>7. ASSUME NEW w \in Workers, Receive(w) PROVE BatchTypes'
  <2>1. /\ indices' \in Seq(Indices) /\ Len(indices') <= IndexBuffer
        /\ indices # <<>> => Head(indices) \in 0..Messages
    <3>1. CASE UNCHANGED indices /\ indices = <<>>
      BY <1>0, <3>1 DEF IndexTypes
    <3>2. CASE indices # <<>> /\ indices' = Tail(indices)
      BY <1>0, <1>1, <3>2, TakenFromFront DEF IndexTypes, HandsFull
    <3> QED BY <1>7, <3>1, <3>2 DEF Receive
  <2>2. HandTypes'
    <3>1. \/ Go(w, "done", 0)
          \/ /\ indices # <<>>
             /\ Go(w, IF Head(indices) \in Media THEN "ingest" ELSE "skipped", Head(indices))
      BY <1>7 DEF Receive
    <3>2. at' \in [Workers -> {"receive", "ingest", "shorten", "progress", "edit", "done"}
                                    \cup Outcomes]
          /\ job' \in [Workers -> 0..Messages]
      BY <1>0, <1>1, <2>1, <3>1, GoneTypes DEF Outcomes
    <3> QED BY <1>0, <1>7, <3>2 DEF Receive, HandTypes
  <2>3. IndexTypes'
    BY <1>0, <1>7, <2>1 DEF Receive, IndexTypes
  <2> QED BY <1>4, <1>5, <1>7, <2>2, <2>3 DEF Receive, BatchTypes
<1>8. ASSUME NEW w \in Workers, NEW p, NEW i \in 0..Messages, Go(w, p, i),
             p \in {"receive", "ingest", "shorten", "progress", "edit", "done"} \cup Outcomes,
             shown' \in [Workers -> 0..Messages], panics' \in 0..MaxPanics
      PROVE  HandTypes'
  BY <1>0, <1>8, GoneTypes DEF HandTypes
<1>9. /\ \A w \in Workers : job[w] \in 0..Messages
      /\ shown \in [Workers -> 0..Messages] /\ panics \in 0..MaxPanics /\ 0 \in 0..Messages
  BY <1>0, <1>1 DEF HandTypes
<1>10. ASSUME NEW w \in Workers, Ingest(w) PROVE BatchTypes'
  <2>1. HandTypes'
    BY <1>8, <1>9, <1>10 DEF Ingest, Outcomes
  <2> QED BY <1>2, <1>4, <1>5, <1>10, <2>1 DEF Ingest, BatchTypes
<1>11. ASSUME NEW w \in Workers, Shortened(w) PROVE BatchTypes'
  <2>1. HandTypes'
    BY <1>8, <1>9, <1>11 DEF Shortened, Outcomes
  <2> QED BY <1>2, <1>4, <1>5, <1>11, <2>1 DEF Shortened, BatchTypes
<1>12. ASSUME NEW w \in Workers, Panic(w) PROVE BatchTypes'
  <2>1. panics' \in 0..MaxPanics
    BY <1>0, <1>1, <1>12 DEF Panic, HandTypes
  <2>2. HandTypes'
    BY <1>8, <1>9, <1>12, <2>1 DEF Panic
  <2> QED BY <1>2, <1>4, <1>5, <1>12, <2>2 DEF Panic, BatchTypes
<1>13. ASSUME NEW w \in Workers, Finish(w) PROVE BatchTypes'
  <2>1. HandTypes'
    BY <1>8, <1>9, <1>13 DEF Finish, Then
  <2>2. at[w] \in Outcomes /\ job[w] \in Indices
    <3>1. at[w] \in Outcomes /\ at[w] \notin Free
      BY <1>13 DEF Finish, Outcomes, Free
    <3>2. job[w] \in 1..handed /\ handed \in 0..Messages
      BY <1>0, <3>1 DEF HandsFull, IndexTypes
    <3> QED BY <1>1, <3>1, <3>2
  <2>3. ResultTypes'
    BY <1>0, <1>13, <2>2 DEF Finish, Stored, ResultTypes
  <2> QED BY <1>2, <1>5, <1>13, <2>1, <2>3 DEF Finish, BatchTypes
<1>14. ASSUME NEW w \in Workers, Progress(w) PROVE BatchTypes'
  <2>1. shown' \in [Workers -> 0..Messages] /\ lastShown' \in 0..Messages
    BY <1>0, <1>1, <1>9, <1>14 DEF Progress, ResultTypes
  <2>2. HandTypes'
    <3>1. Go(w, "receive", 0) \/ Go(w, "edit", 0)
      BY <1>14 DEF Progress
    <3>2. panics' = panics
      BY <1>14 DEF Progress
    <3> QED BY <1>8, <1>9, <2>1, <3>1, <3>2
  <2>3. ResultTypes'
    BY <1>0, <1>14, <2>1 DEF Progress, ResultTypes
  <2> QED BY <1>2, <1>5, <1>14, <2>2, <2>3 DEF Progress, BatchTypes
<1>15. ASSUME NEW w \in Workers, Edit(w) PROVE BatchTypes'
  <2>1. shown' \in [Workers -> 0..Messages] /\ shown[w] \in 0..Messages
    BY <1>9, <1>15 DEF Edit
  <2>2. HandTypes'
    BY <1>8, <1>9, <1>15, <2>1 DEF Edit
  <2>3. ResultTypes'
    BY <1>0, <1>15, <2>1 DEF Edit, ResultTypes
  <2> QED BY <1>2, <1>5, <1>15, <2>2, <2>3 DEF Edit, BatchTypes
<1>16. CASE Waited
  BY <1>0, <1>2, <1>3, <1>4, <1>16 DEF Waited, GatherTypes, BatchTypes
<1>17. ASSUME NEW links \in Seq(Indices), Flush(links)
       PROVE  /\ posted' \in Seq(Seq(Indices)) /\ chunk' \in Seq(Indices)
              /\ dmFailed' \in Nat
  BY <1>0, <1>17 DEF Flush, GatherTypes
<1>18. CASE Gather
  <2> DEFINE result == results[read + 1]
  <2>1. read + 1 \in Indices /\ read + 1 \in 0..Messages
    BY <1>0, <1>1, <1>18 DEF Gather, GatherTypes
  <2>2. result \in (Outcomes \X Indices) \cup {None}
    BY <1>0, <2>1 DEF ResultTypes
  <2>3. counts' \in [Outcomes -> Nat]
    <3>1. CASE result = None
      BY <1>0, <1>18, <3>1 DEF Gather, GatherTypes
    <3>2. CASE result # None
      <4>1. result[1] \in Outcomes
        BY <2>2, <3>2
      <4>2. counts' = [counts EXCEPT ![result[1]] = @ + 1]
        BY <1>18, <3>2 DEF Gather
      <4> QED BY <1>0, <4>1, <4>2 DEF GatherTypes
    <3> QED BY <3>1, <3>2
  <2>4. /\ posted' \in Seq(Seq(Indices)) /\ chunk' \in Seq(Indices)
        /\ dmFailed' \in Nat
    <3>1. CASE result[1] # "ok"
      BY <1>0, <1>18, <3>1 DEF Gather, GatherTypes
    <3>2. CASE result[1] = "ok"
      <4>1. result # None
        BY <3>2 DEF None
      <4>2. result[2] \in Indices
        BY <2>2, <4>1
      <4>3. Append(chunk, result[2]) \in Seq(Indices)
        BY <1>0, <4>2 DEF GatherTypes
      <4>4. \/ Flush(Append(chunk, result[2]))
            \/ chunk' = Append(chunk, result[2]) /\ UNCHANGED <<posted, dmFailed>>
        BY <1>18, <3>2 DEF Gather
      <4> QED BY <1>0, <1>17, <4>3, <4>4 DEF GatherTypes
    <3> QED BY <3>1, <3>2
  <2>5. read' = read + 1 /\ main' = main
    BY <1>18 DEF Gather
  <2>6. GatherTypes'
    BY <1>0, <2>1, <2>3, <2>4, <2>5 DEF GatherTypes
  <2> QED BY <1>2, <1>3, <1>4, <1>18, <2>6 DEF Gather, BatchTypes
<1>19. CASE Gathered
  <2>1. /\ posted' \in Seq(Seq(Indices)) /\ chunk' \in Seq(Indices)
        /\ dmFailed' \in Nat
    BY <1>0, <1>17, <1>19 DEF Gathered, LastFlush, GatherTypes
  <2>2. GatherTypes'
    BY <1>0, <1>19, <2>1 DEF Gathered, GatherTypes
  <2> QED BY <1>2, <1>3, <1>4, <1>19, <2>2 DEF Gathered, BatchTypes
<1>20. CASE Summarise
  <2>1. IndexTypes' /\ ResultTypes' /\ GatherTypes'
    BY <1>0, <1>1, <1>20 DEF Summarise, IndexTypes, ResultTypes, GatherTypes
  <2> QED BY <1>3, <1>20, <2>1 DEF Summarise, BatchTypes
<1>21. CASE Expire
  <2>1. IndexTypes'
    BY <1>0, <1>21 DEF Expire, IndexTypes
  <2> QED BY <1>3, <1>4, <1>5, <1>21, <2>1 DEF Expire, BatchTypes
<1>22. ASSUME UNCHANGED batchVars PROVE BatchTypes'
  BY <1>2, <1>3, <1>4, <1>5, <1>22 DEF BatchTypes
<1>23. ASSUME NEW w \in Workers, ShortenLink(w) PROVE BatchTypes'
  BY <1>22, <1>23 DEF ShortenLink
<1>24. ASSUME NEW u \in Urls, ServiceAnswers(u) PROVE BatchTypes'
  BY <1>22, <1>24 DEF ServiceAnswers
<1>25. CASE UNCHANGED vars
  BY <1>22, <1>25 DEF vars
<1> QED BY <1>6, <1>7, <1>10, <1>11, <1>12, <1>13, <1>14, <1>15, <1>16, <1>18, <1>19, <1>20, <1>21,
           <1>23, <1>24, <1>25 DEF Next, Work, Handle, Over

-----------------------------------------------------------------------------
(* What a step of a worker comes to, for its place and its index.           *)

\* It takes an index; it drops one as the batch has ended; it sees the channel's end.
Takes(w) ==
    /\ at[w] = "receive" /\ indices # <<>> /\ ctx = "live"
    /\ indices' = Tail(indices) /\ job'[w] = Head(indices)
    /\ at'[w] = IF Head(indices) \in Media THEN "ingest" ELSE "skipped"
    /\ UNCHANGED <<results, processed, panics>>

Drops(w) ==
    /\ at[w] = "receive" /\ indices # <<>> /\ ctx # "live"
    /\ indices' = Tail(indices) /\ job'[w] = 0 /\ at'[w] = "done"
    /\ UNCHANGED <<results, processed, panics>>

Leaves(w) ==
    /\ at[w] = "receive" /\ indices = <<>> /\ ~producing
    /\ job'[w] = 0 /\ at'[w] = "done"
    /\ UNCHANGED <<indices, results, processed, panics>>

\* It goes on with its index; it crashes; its result is there; it goes on without one.
GoesOn(w) ==
    /\ at[w] \in {"ingest", "shorten"} /\ at'[w] \in {"shorten", "ok", "failed"}
    /\ job'[w] = job[w]
    /\ UNCHANGED <<indices, results, processed, panics>>

Crashes(w) ==
    /\ at[w] = "ingest" /\ at'[w] = "done" /\ job'[w] = 0 /\ panics' > 0
    /\ UNCHANGED <<indices, results, processed>>

Writes(w) ==
    /\ at[w] \in Outcomes /\ job[w] \in Indices
    /\ at'[w] = "progress" /\ job'[w] = 0
    /\ results' = [results EXCEPT ![job[w]] = <<at[w], job[w]>>]
    /\ processed' = processed + 1
    /\ UNCHANGED <<indices, panics>>

Returns(w) ==
    /\ at[w] \in {"progress", "edit"} /\ at'[w] \in {"receive", "edit"} /\ job'[w] = 0
    /\ UNCHANGED <<indices, results, processed, panics>>

LEMMA HandStep ==
    ASSUME BatchTypes, HandsFull, NEW w \in Workers,
           Work(w) \/ Panic(w)
    PROVE  /\ UNCHANGED <<privileged, ctx, handed, producing, main, read, chunk, posted, counts,
                          dmFailed>>
           /\ status' = status \/ at[w] = "edit"
           /\ \A x \in Workers \ {w} : at'[x] = at[x] /\ job'[x] = job[x]
           /\ \/ UNCHANGED batchVars
              \/ Takes(w) \/ Drops(w) \/ Leaves(w) \/ GoesOn(w) \/ Crashes(w) \/ Writes(w)
              \/ Returns(w)
<1> USE DEF request, batchVars, handlerVars, workerVars, producerVars
<1>0. HandTypes
  BY DEF BatchTypes
<1>1. CASE Receive(w)
  <2>1. CASE indices # <<>> /\ indices' = Tail(indices) /\ ctx # "live" /\ Go(w, "done", 0)
    BY <1>0, <1>1, <2>1, Gone DEF Receive, Drops
  <2>2. CASE /\ indices # <<>> /\ indices' = Tail(indices) /\ ctx = "live"
             /\ Go(w, IF Head(indices) \in Media THEN "ingest" ELSE "skipped", Head(indices))
    BY <1>0, <1>1, <2>2, Gone DEF Receive, Takes
  <2>3. CASE indices = <<>> /\ ~producing /\ Go(w, "done", 0) /\ UNCHANGED indices
    BY <1>0, <1>1, <2>3, Gone DEF Receive, Leaves
  <2> QED BY <1>1, <2>1, <2>2, <2>3 DEF Receive
<1>2. CASE Ingest(w)
  BY <1>0, <1>2, Gone DEF Ingest, GoesOn
<1>3. CASE Shortened(w)
  BY <1>0, <1>3, Gone DEF Shortened, GoesOn
<1>4. CASE Panic(w)
  <2>1. panics' > 0
    BY <1>0, <1>4, BatchSizes DEF Panic, HandTypes
  <2> QED BY <1>0, <1>4, <2>1, Gone DEF Panic, Crashes
<1>5. CASE Finish(w)
  <2>1. job[w] \in Indices
    <3>1. at[w] \notin Free
      BY <1>5 DEF Finish, Outcomes, Free
    <3>2. job[w] \in 1..handed /\ handed \in 0..Messages
      BY <3>1 DEF HandsFull, BatchTypes, IndexTypes
    <3> QED BY <3>2, BatchSizes
  <2> QED BY <1>0, <1>5, <2>1, Gone DEF Finish, Stored, Then, Writes
<1>6. CASE Progress(w)
  BY <1>0, <1>6, Gone DEF Progress, Returns
<1>7. CASE Edit(w)
  BY <1>0, <1>7, Gone DEF Edit, Returns
<1>8. CASE ShortenLink(w)
  BY <1>8 DEF ShortenLink
<1> QED BY <1>1, <1>2, <1>3, <1>4, <1>5, <1>6, <1>7, <1>8 DEF Work

LEMMA HandsKept ==
    ASSUME BatchTypes, HandsFull, [Next]_vars
    PROVE  HandsFull'
<1> USE DEF request, batchVars, handlerVars, workerVars, producerVars
<1>0. /\ Messages \in Nat /\ Indices = 1..Messages /\ handed \in 0..Messages
      /\ indices \in Seq(Indices) /\ Elems(indices) \subseteq Indices
      /\ results \in [Indices -> (Outcomes \X Indices) \cup {None}]
  BY BatchSizes, ElemsTyped DEF BatchTypes, IndexTypes, ResultTypes
<1>1. ASSUME UNCHANGED <<handed, indices, at, job, results>> PROVE HandsFull'
  BY <1>1 DEF HandsFull
<1>2. CASE HandOut
  <2>1. CASE UNCHANGED <<indices, handed>>
    BY <1>1, <1>2, <2>1 DEF HandOut
  <2>2. CASE handed < Messages /\ indices' = Append(indices, handed + 1) /\ handed' = handed + 1
    <3>1. /\ handed + 1 \in Indices /\ handed + 1 \notin Elems(indices)
          /\ results[handed + 1] = None
          /\ \A w \in Workers : job[w] # handed + 1
          /\ UNCHANGED <<at, job, results>>
      <4>1. handed + 1 \in Indices /\ ~(handed + 1 <= handed) /\ handed + 1 \notin 1..handed
        BY <1>0, <2>2
      <4>2. \A w \in Workers : job[w] \in {0} \cup 1..handed
        BY DEF HandsFull
      <4>3. handed + 1 # 0
        BY <1>0
      <4>4. handed + 1 \notin Elems(indices) /\ results[handed + 1] = None
        BY <4>1 DEF HandsFull
      <4> QED BY <1>2, <4>1, <4>2, <4>3, <4>4 DEF HandOut
    <3>2. NoRepeat(indices') /\ Elems(indices') = Elems(indices) \cup {handed + 1}
      BY <1>0, <2>2, <3>1, PutAtEnd DEF HandsFull
    <3>3. \A i \in 0..Messages : i <= handed => i <= handed'
      BY <1>0, <2>2
    <3> QED BY <1>0, <2>2, <3>1, <3>2, <3>3 DEF HandsFull
  <2> QED BY <1>2, <2>1, <2>2 DEF HandOut
<1>3. ASSUME NEW w \in Workers, Work(w) \/ Panic(w) PROVE HandsFull'
  <2>1. handed' = handed /\ \A x \in Workers \ {w} : at'[x] = at[x] /\ job'[x] = job[x]
    BY <1>3, HandStep
  <2>2. CASE UNCHANGED batchVars
    BY <1>1, <2>2
  \* The first of the channel is gone from it.
  <2>3. ASSUME indices # <<>>, indices' = Tail(indices)
        PROVE  /\ Head(indices) \in Indices /\ Head(indices) \in Elems(indices)
               /\ Head(indices) \notin Elems(indices') /\ Elems(indices') \subseteq Elems(indices)
               /\ NoRepeat(indices')
    BY <1>0, <2>3, TakenFromFront DEF HandsFull
  \* A worker that lets go of its index, or goes on with it.
  <2>4. ASSUME UNCHANGED results, NoRepeat(indices'), Elems(indices') \subseteq Elems(indices),
               \/ at'[w] \in Free /\ job'[w] = 0
               \/ /\ at[w] \notin Free \cup {"skipped"} /\ at'[w] \notin Free \cup {"skipped"}
                  /\ job'[w] = job[w]
        PROVE  HandsFull'
    BY <2>1, <2>4 DEF HandsFull
  <2>5. CASE Takes(w)
    <3>1. /\ job'[w] \in 1..handed' /\ results'[job'[w]] = None
          /\ job'[w] \notin Elems(indices')
          /\ at'[w] \in {"ingest", "skipped"} /\ at'[w] \notin Free
          /\ job'[w] \in Media <=> at'[w] # "skipped"
      BY <1>0, <2>1, <2>3, <2>5 DEF Takes, HandsFull, Free
    <3>2. \A x \in Workers \ {w} : job[x] # job'[w]
      <4>1. job'[w] \in Elems(indices) /\ job'[w] # 0
        BY <1>0, <2>3, <2>5 DEF Takes
      <4> QED BY <4>1 DEF HandsFull
    <3>3. NoRepeat(indices') /\ Elems(indices') \subseteq Elems(indices) /\ results' = results
      BY <2>3, <2>5 DEF Takes
    <3> QED BY <2>1, <3>1, <3>2, <3>3 DEF HandsFull
  <2>6. CASE Drops(w)
    BY <2>3, <2>4, <2>6 DEF Drops, Free
  <2>7. CASE Leaves(w) \/ Crashes(w) \/ Returns(w)
    <3>1. at'[w] \in Free /\ job'[w] = 0 /\ UNCHANGED <<indices, results>>
      BY <2>7 DEF Leaves, Crashes, Returns, Free
    <3> QED BY <2>4, <3>1 DEF HandsFull
  <2>8. CASE GoesOn(w)
    <3>1. /\ at[w] \notin Free \cup {"skipped"} /\ at'[w] \notin Free \cup {"skipped"}
          /\ job'[w] = job[w] /\ UNCHANGED <<indices, results>>
      BY <2>8 DEF GoesOn, Free
    <3> QED BY <2>4, <3>1 DEF HandsFull
  <2>9. CASE Writes(w)
    <3> DEFINE m == job[w]
    <3>1. /\ at[w] \in Outcomes /\ at[w] \notin Free /\ m \in Indices
          /\ at'[w] \in Free /\ job'[w] = 0 /\ indices' = indices
      BY <2>9 DEF Writes, Outcomes, Free
    <3>2. m <= handed /\ m \notin Elems(indices) /\ m # 0
      BY <1>0, <3>1 DEF HandsFull
    <3>3. results'[m] \in IF m \in Media THEN {<<"ok", m>>, <<"failed", m>>} ELSE {<<"skipped", m>>}
      <4>1. m \in Media <=> at[w] # "skipped"
        BY <3>1 DEF HandsFull
      <4>2. results'[m] = <<at[w], m>>
        BY <1>0, <2>9, <3>1 DEF Writes
      <4> QED BY <3>1, <4>1, <4>2 DEF Outcomes
    <3>4. \A i \in Indices \ {m} : results'[i] = results[i]
      BY <1>0, <2>9, <3>1 DEF Writes
    <3>5. \A x \in Workers \ {w} : job[x] # m
      BY <3>2 DEF HandsFull
    <3>6. \A x \in Workers : at'[x] \notin Free =>
             x # w /\ at[x] \notin Free /\ job'[x] \in Indices \ {m}
      BY <1>0, <2>1, <3>1, <3>5 DEF HandsFull
    <3> HIDE DEF m
    <3>7. \A i \in Indices :
             \/ results'[i] = None
             \/ /\ i <= handed
                /\ results'[i] \in IF i \in Media THEN {<<"ok", i>>, <<"failed", i>>}
                                  ELSE {<<"skipped", i>>}
      BY <3>2, <3>3, <3>4 DEF HandsFull
    <3>8. \A i \in Elems(indices') : i <= handed /\ results'[i] = None
      BY <1>0, <3>1, <3>2, <3>4 DEF HandsFull
    <3>9. \A x \in Workers :
             /\ at'[x] \in Free => job'[x] = 0
             /\ at'[x] \notin Free =>
                   /\ job'[x] \in 1..handed /\ job'[x] \notin Elems(indices)
                   /\ results'[job'[x]] = None
                   /\ job'[x] \in Media <=> at'[x] # "skipped"
      BY <2>1, <3>1, <3>4, <3>6 DEF HandsFull
    <3>10. \A x, y \in Workers : job'[x] = job'[y] /\ job'[x] # 0 => x = y
      BY <2>1, <3>1 DEF HandsFull
    <3> QED BY <2>1, <3>1, <3>7, <3>8, <3>9, <3>10 DEF HandsFull
  <2> QED BY <1>3, <2>2, <2>5, <2>6, <2>7, <2>8, <2>9, HandStep
<1>4. CASE Handle
  BY <1>1, <1>4 DEF Handle, Waited, Gather, Gathered, Summarise
<1>5. CASE Expire
  BY <1>1, <1>5 DEF Expire
<1>6. ASSUME NEW u \in Urls, ServiceAnswers(u) PROVE HandsFull'
  BY <1>1, <1>6 DEF ServiceAnswers
<1>7. CASE UNCHANGED vars
  BY <1>1, <1>7 DEF vars
<1> QED BY <1>2, <1>3, <1>4, <1>5, <1>6, <1>7 DEF Next, Over

LEMMA FiledKept ==
    ASSUME BatchTypes, HandsFull, Filed, [Next]_vars
    PROVE  Filed'
<1> USE DEF request, batchVars, handlerVars, workerVars, producerVars
<1>1. ASSUME UNCHANGED <<results, processed>> PROVE Filed'
  BY <1>1 DEF Filed, Written
<1>2. ASSUME NEW w \in Workers, Work(w) \/ Panic(w) PROVE Filed'
  <2>1. CASE Writes(w)
    <3> DEFINE m == job[w]
    <3>1. m \in Indices /\ at[w] \in Outcomes /\ at[w] \notin Free
      BY <2>1 DEF Writes, Outcomes, Free
    <3>2. results[m] = None
      BY <3>1 DEF HandsFull
    <3>3. /\ results' = [results EXCEPT ![m] = <<at[w], m>>]
          /\ results \in [Indices -> (Outcomes \X Indices) \cup {None}]
      BY <2>1 DEF Writes, BatchTypes, ResultTypes
    <3>4. <<at[w], m>> # None
      BY <3>1 DEF None, Outcomes
    <3> HIDE DEF m
    <3>5. Written' = Written \cup {m} /\ m \notin Written
      BY <3>1, <3>2, <3>3, <3>4 DEF Written
    <3>6. Cardinality(Written') = Cardinality(Written) + 1
      BY <3>5, FiledBound, FS_AddElement
    <3> QED BY <2>1, <3>6 DEF Writes, Filed
  <2>2. CASE UNCHANGED batchVars
    BY <1>1, <2>2
  <2>3. CASE Takes(w) \/ Drops(w) \/ Leaves(w) \/ GoesOn(w) \/ Crashes(w) \/ Returns(w)
    BY <1>1, <2>3 DEF Takes, Drops, Leaves, GoesOn, Crashes, Returns
  <2> QED BY <1>2, <2>1, <2>2, <2>3, HandStep
<1>3. CASE HandOut \/ Handle \/ Expire
  BY <1>1, <1>3 DEF HandOut, Handle, Waited, Gather, Gathered,
                    Summarise, Expire
<1>4. ASSUME NEW u \in Urls, ServiceAnswers(u) PROVE Filed'
  BY <1>1, <1>4 DEF ServiceAnswers
<1>5. CASE UNCHANGED vars
  BY <1>1, <1>5 DEF vars
<1> QED BY <1>2, <1>3, <1>4, <1>5 DEF Next, Over

LEMMA WoundKept ==
    ASSUME BatchTypes, HandsFull, Wound, [Next]_vars
    PROVE  Wound'
<1> USE DEF request, batchVars, handlerVars, workerVars, producerVars
<1>0. panics \in 0..MaxPanics /\ MaxPanics \in Nat /\ Workers # {}
  BY BatchSizes DEF BatchTypes, HandTypes
<1>1. ASSUME UNCHANGED <<ctx, main, at, panics, producing, indices, handed>> PROVE Wound'
  BY <1>1 DEF Wound, InTime, WorkersDone
<1>2. CASE HandOut
  <2>1. UNCHANGED <<ctx, main, at, panics>> /\ producing
        /\ \/ producing' /\ handed < Messages
           \/ ~producing' /\ (handed = Messages \/ ctx # "live") /\ UNCHANGED <<indices, handed>>
    BY <1>2 DEF HandOut
  <2> QED BY <2>1 DEF Wound, InTime, WorkersDone
<1>3. ASSUME NEW w \in Workers, Work(w) \/ Panic(w) PROVE Wound'
  <2>1. /\ UNCHANGED <<ctx, main, producing, handed>>
        /\ \A x \in Workers \ {w} : at'[x] = at[x]
    BY <1>3, HandStep
  <2>2. CASE UNCHANGED batchVars
    BY <1>1, <2>2
  \* While a worker is at work the handler waits.
  <2>3. ASSUME at[w] # "done" PROVE main = "wait" /\ ctx # "cancelled"
    BY <2>3 DEF Wound, WorkersDone
  <2>4. CASE Takes(w)
    BY <1>0, <2>1, <2>3, <2>4 DEF Takes, Wound, InTime, Free
  <2>5. CASE Drops(w)
    BY <1>0, <2>1, <2>3, <2>5 DEF Drops, Wound, InTime, BatchTypes, IndexTypes
  <2>6. CASE Leaves(w)
    BY <1>0, <2>1, <2>3, <2>6 DEF Leaves, Wound, InTime, BatchTypes, IndexTypes
  <2>7. CASE Crashes(w)
    BY <1>0, <2>1, <2>3, <2>7 DEF Crashes, Wound, InTime
  <2>8. CASE GoesOn(w) \/ Writes(w) \/ Returns(w)
    <3>1. at[w] # "done" /\ at'[w] # "done" /\ UNCHANGED <<indices, panics>>
      BY <2>8 DEF GoesOn, Writes, Returns, Outcomes
    <3> QED BY <2>1, <2>3, <3>1 DEF Wound, InTime
  <2> QED BY <1>3, <2>2, <2>4, <2>5, <2>6, <2>7, <2>8, HandStep
<1>4. CASE Waited
  BY <1>4 DEF Waited, Wound, InTime, WorkersDone
<1>5. CASE Gather
  BY <1>1, <1>5 DEF Gather
<1>6. CASE Gathered
  BY <1>6 DEF Gathered, Wound, InTime, WorkersDone
<1>7. CASE Summarise
  BY <1>7 DEF Summarise, Wound, InTime, WorkersDone
<1>8. CASE Expire
  BY <1>8 DEF Expire, Wound, InTime, WorkersDone
<1>9. ASSUME NEW u \in Urls, ServiceAnswers(u) PROVE Wound'
  BY <1>1, <1>9 DEF ServiceAnswers
<1>10. CASE UNCHANGED vars
  BY <1>1, <1>10 DEF vars
<1> QED BY <1>2, <1>3, <1>4, <1>5, <1>6, <1>7, <1>8, <1>9, <1>10
        DEF Next, Handle, Over

LEMMA NoneMissingKept ==
    ASSUME BatchTypes, HandsFull, Wound, NoneMissing, [Next]_vars
    PROVE  NoneMissing'
<1> USE DEF request, batchVars, handlerVars, workerVars, producerVars
<1>0. /\ Messages \in Nat /\ Indices = 1..Messages /\ handed \in 0..Messages
      /\ panics \in Nat /\ indices \in Seq(Indices)
      /\ results \in [Indices -> (Outcomes \X Indices) \cup {None}]
  BY BatchSizes DEF BatchTypes, IndexTypes, HandTypes, ResultTypes
<1>1. ASSUME UNCHANGED <<handed, indices, job, results>>, InTime' => InTime PROVE NoneMissing'
  BY <1>1 DEF NoneMissing
<1>2. CASE HandOut
  <2>1. UNCHANGED <<job, results>> /\ (InTime' => InTime)
    BY <1>2 DEF HandOut, InTime
  <2>2. CASE UNCHANGED <<indices, handed>>
    BY <1>1, <2>1, <2>2
  <2>3. CASE handed < Messages /\ indices' = Append(indices, handed + 1) /\ handed' = handed + 1
    <3>1. handed + 1 \in Indices /\ handed + 1 \notin Elems(indices)
      BY <1>0, <2>3 DEF HandsFull
    <3>2. Elems(indices') = Elems(indices) \cup {handed + 1}
      BY <1>0, <2>3, <3>1, PutAtEnd DEF HandsFull
    <3>3. \A i \in 1..handed' : i \in 1..handed \/ i = handed + 1
      BY <1>0, <2>3
    <3> QED BY <2>1, <3>2, <3>3 DEF NoneMissing
  <2> QED BY <1>2, <2>2, <2>3 DEF HandOut
<1>3. ASSUME NEW w \in Workers, Work(w) \/ Panic(w) PROVE NoneMissing'
  <2>1. UNCHANGED <<ctx, handed>> /\ \A x \in Workers \ {w} : job'[x] = job[x]
    BY <1>3, HandStep
  <2>2. CASE UNCHANGED batchVars
    BY <1>1, <2>2 DEF InTime
  <2>3. job[w] = 0 \/ at[w] \notin Free
    BY DEF HandsFull
  <2>4. CASE Takes(w)
    <3>1. Elems(indices) = {Head(indices)} \cup Elems(indices') /\ job'[w] = Head(indices)
      BY <1>0, <2>4, TakenFromFront DEF HandsFull, Takes
    <3>2. job[w] = 0 /\ results' = results /\ (InTime' => InTime)
      BY <2>1, <2>3, <2>4 DEF Takes, Free, InTime
    <3> QED BY <2>1, <3>1, <3>2 DEF NoneMissing
  <2>5. CASE Drops(w)
    <3>1. ctx = "expired"
      BY <2>5 DEF Drops, Wound, WorkersDone, BatchTypes, IndexTypes
    <3> QED BY <2>1, <3>1 DEF NoneMissing, InTime
  <2>6. CASE Crashes(w)
    <3>1. ~InTime'
      BY <1>0, <2>6 DEF Crashes, InTime
    <3> QED BY <3>1 DEF NoneMissing
  <2>7. CASE Writes(w)
    <3>1. /\ InTime' => InTime
          /\ indices' = indices /\ job[w] \in Indices
          /\ results' = [results EXCEPT ![job[w]] = <<at[w], job[w]>>]
          /\ <<at[w], job[w]>> # None
      BY <2>1, <2>7 DEF Writes, InTime, Outcomes, None
    <3>2. \A i \in Indices : results'[i] # None <=> results[i] # None \/ i = job[w]
      BY <1>0, <3>1
    <3>3. \A i \in 1..handed : i \in Indices
      BY <1>0
    <3> QED BY <2>1, <3>1, <3>2, <3>3 DEF NoneMissing
  <2>8. CASE Leaves(w) \/ GoesOn(w) \/ Returns(w)
    <3>1. UNCHANGED <<indices, results>> /\ job'[w] \in {job[w], 0} /\ (InTime' => InTime)
      BY <2>1, <2>8 DEF Leaves, GoesOn, Returns, InTime
    <3>2. job'[w] = job[w]
      BY <2>3, <2>8, <3>1 DEF Leaves, GoesOn, Returns, Free
    <3> QED BY <2>1, <3>1, <3>2 DEF NoneMissing
  <2> QED BY <1>3, <2>2, <2>4, <2>5, <2>6, <2>7, <2>8, HandStep
<1>4. CASE Handle \/ Expire
  BY <1>1, <1>4 DEF Handle, Waited, Gather, Gathered, Summarise,
                    Expire, InTime
<1>5. ASSUME NEW u \in Urls, ServiceAnswers(u) PROVE NoneMissing'
  BY <1>1, <1>5 DEF ServiceAnswers, InTime
<1>6. CASE UNCHANGED vars
  BY <1>1, <1>6 DEF vars, InTime
<1> QED BY <1>2, <1>3, <1>4, <1>5, <1>6 DEF Next, Over

LEMMA GatheringKept ==
    ASSUME BatchTypes, HandsFull, Wound, Gathering, [Next]_vars
    PROVE  Gathering'
<1> USE DEF request, batchVars, handlerVars, workerVars, producerVars
<1>0. /\ Messages \in Nat /\ Indices = 1..Messages /\ read \in 0..Messages
      /\ chunk \in Seq(Indices) /\ posted \in Seq(Seq(Indices)) /\ dmFailed \in Nat
      /\ counts \in [Outcomes -> Nat]
  BY BatchSizes DEF BatchTypes, GatherTypes
<1>1. ASSUME UNCHANGED <<main, read, chunk, posted, counts, dmFailed, results>>,
             status' = status \/ main # "done"
      PROVE  Gathering'
  BY <1>1 DEF Gathering, Counted, SummaryStays
<1>2. ASSUME NEW w \in Workers, Work(w) \/ Panic(w) PROVE Gathering'
  <2>1. /\ UNCHANGED <<main, read, chunk, posted, counts, dmFailed>>
        /\ status' = status \/ at[w] = "edit"
    BY <1>2, HandStep
  <2>2. at[w] # "done" => main = "wait"
    BY DEF Wound, WorkersDone
  <2>3. CASE Writes(w)
    <3>1. main = "wait" /\ read = 0 /\ 1..0 = {}
      BY <2>2, <2>3 DEF Writes, Outcomes, Gathering
    <3>2. \A o : Counted(o) = {} /\ Counted(o)' = {}
      BY <2>1, <3>1 DEF Counted
    <3> QED BY <2>1, <3>1, <3>2 DEF Gathering, SummaryStays
  <2>4. CASE UNCHANGED batchVars
    BY <1>1, <2>4
  <2>5. CASE Takes(w) \/ Drops(w) \/ Leaves(w) \/ GoesOn(w) \/ Crashes(w) \/ Returns(w)
    <3>1. results' = results
      BY <2>5 DEF Takes, Drops, Leaves, GoesOn, Crashes, Returns
    <3> QED BY <1>1, <2>1, <2>2, <3>1
  <2> QED BY <1>2, <2>3, <2>4, <2>5, HandStep
<1>3. CASE Gather
  <2> DEFINE i == read + 1
             result == results[i]
  <2>1. /\ i \in Indices /\ read' = i /\ 1..i = (1..read) \cup {i} /\ i \notin 1..read
        /\ main = "gather" /\ UNCHANGED <<main, status, results>>
    BY <1>0, <1>3 DEF Gather
  <2>2. result = None \/ \E o \in Outcomes : result = <<o, i>>
    BY <2>1 DEF HandsFull, Outcomes
  <2>3. Len(chunk) \in Nat /\ Len(posted) \in Nat /\ read \in Nat
    BY <1>0
  <2>4. ASSUME NEW o \in Outcomes PROVE counts'[o] = Cardinality(Counted(o)')
    <3>1. IsFiniteSet(Counted(o)) /\ counts[o] = Cardinality(Counted(o)) /\ i \notin Counted(o)
      <4>1. IsFiniteSet(1..read)
        BY <1>0, FS_Interval
      <4> QED BY <2>1, <4>1, FS_Subset DEF Counted, Gathering
    <3>2. CASE result = <<o, i>>
      <4>1. Counted(o)' = Counted(o) \cup {i}
        BY <2>1, <3>2 DEF Counted
      <4>2. counts'[o] = counts[o] + 1
        BY <1>0, <1>3, <3>2 DEF Gather, None
      <4> QED BY <3>1, <4>1, <4>2, FS_AddElement
    <3>3. CASE result # <<o, i>>
      <4>1. Counted(o)' = Counted(o)
        BY <2>1, <3>3 DEF Counted
      <4>2. counts'[o] = counts[o]
        <5>1. CASE result = None
          BY <1>3, <5>1 DEF Gather
        <5>2. ASSUME NEW p \in Outcomes, result = <<p, i>> PROVE counts'[o] = counts[o]
          <6>1. p # o /\ counts' = [counts EXCEPT ![p] = @ + 1]
            BY <1>3, <3>3, <5>2 DEF Gather, None, Outcomes
          <6> QED BY <1>0, <6>1
        <5> QED BY <2>2, <5>1, <5>2
      <4> QED BY <3>1, <4>1, <4>2
    <3> QED BY <3>2, <3>3
  <2>5. Len(posted') + Len(chunk') <= read' /\ dmFailed' <= Len(posted')
    <3>1. CASE UNCHANGED <<chunk, posted, dmFailed>>
      BY <2>1, <2>3, <3>1 DEF Gathering
    <3>2. CASE Flush(Append(chunk, result[2]))
      <4>1. Len(posted') = Len(posted) + 1 /\ Len(chunk') = 0
            /\ dmFailed' \in {dmFailed, dmFailed + 1}
        BY <1>0, <3>2 DEF Flush
      <4> QED BY <1>0, <2>1, <2>3, <4>1 DEF Gathering
    <3>3. CASE chunk' = Append(chunk, result[2]) /\ UNCHANGED <<posted, dmFailed>>
      <4>1. Len(chunk') = Len(chunk) + 1
        BY <1>0, <3>3
      <4> QED BY <2>1, <2>3, <3>3, <4>1 DEF Gathering
    <3> QED BY <1>3, <3>1, <3>2, <3>3 DEF Gather
  <2> HIDE DEF i, result
  <2> QED BY <2>1, <2>4, <2>5 DEF Gathering, SummaryStays
<1>4. CASE Gathered
  <2>1. UNCHANGED <<read, counts, results>> /\ read = Messages /\ main' = "summary"
    BY <1>4 DEF Gathered
  <2>2. Len(posted') + Len(chunk') <= read /\ dmFailed' <= Len(posted')
    <3>1. Len(chunk) \in Nat /\ Len(posted) \in Nat /\ read \in Nat
      BY <1>0
    <3>2. CASE UNCHANGED <<chunk, posted, dmFailed>>
      BY <3>2 DEF Gathering
    <3>3. CASE chunk # <<>> /\ Flush(chunk)
      <4>1. Len(posted') = Len(posted) + 1 /\ Len(chunk') = 0 /\ Len(chunk) >= 1
            /\ dmFailed' \in {dmFailed, dmFailed + 1}
        BY <1>0, <3>1, <3>3 DEF Flush
      <4> QED BY <1>0, <3>1, <4>1 DEF Gathering
    <3> QED BY <1>4, <3>2, <3>3 DEF Gathered, LastFlush
  <2> QED BY <2>1, <2>2 DEF Gathering, Counted, SummaryStays
<1>5. CASE Waited
  BY <1>5 DEF Waited, Gathering, Counted, SummaryStays
<1>6. CASE Summarise
  BY <1>6 DEF Summarise, Gathering, Counted, SummaryStays
<1>7. CASE HandOut \/ Expire
  BY <1>1, <1>7 DEF HandOut, Expire
<1>8. ASSUME NEW u \in Urls, ServiceAnswers(u) PROVE Gathering'
  BY <1>1, <1>8 DEF ServiceAnswers
<1>9. CASE UNCHANGED vars
  BY <1>1, <1>9 DEF vars
<1> QED BY <1>2, <1>3, <1>4, <1>5, <1>6, <1>7, <1>8, <1>9
        DEF Next, Handle, Over

BatchInv ==
    BatchTypes /\ HandsFull /\ Filed /\ NoneMissing /\ Wound /\ Gathering

\* The instance has its own names for the operators of the modules it extends.
LEMMA SameCardinality == ASSUME NEW S PROVE Cardinality(S) = Cardinality(S)
  BY DEF Cardinality, Cardinality

LEMMA BatchInit == Init => BatchInv
<1> SUFFICES ASSUME Init PROVE BatchInv
  OBVIOUS
<1> USE BatchSizes DEF Init
<1>1. BatchTypes
  <2>1. IndexTypes
    BY DEF IndexTypes
  <2>2. HandTypes
    BY DEF HandTypes
  <2>3. ResultTypes
    BY DEF ResultTypes
  <2>4. GatherTypes
    BY DEF GatherTypes
  <2> QED BY <2>1, <2>2, <2>3, <2>4 DEF BatchTypes
<1>2. NoRepeat(indices) /\ Elems(indices) = {}
  BY DEF NoRepeat, Elems
<1>3. \A i \in Indices : results[i] = None
  OBVIOUS
<1>4. HandsFull
  BY <1>2, <1>3 DEF HandsFull, Free
<1>5. Filed
  <2>1. Written = {}
    BY <1>3 DEF Written
  <2> QED BY <2>1, FS_EmptySet DEF Filed
<1>6. NoneMissing
  BY DEF NoneMissing
<1>7. Wound
  BY DEF Wound
<1>8. Gathering
  <2>1. \A o : Counted(o) = {}
    BY DEF Counted
  <2>2. Len(posted) = 0 /\ Len(chunk) = 0
    OBVIOUS
  <2>3. \A o \in Outcomes : counts[o] = Cardinality(Counted(o))
    BY <2>1, FS_EmptySet
  <2> QED BY <2>2, <2>3 DEF Gathering, SummaryStays
<1> QED BY <1>1, <1>4, <1>5, <1>6, <1>7, <1>8 DEF BatchInv

\* What the handler has counted in the end is what came out.
LEMMA CameOutCounted ==
    ASSUME BatchInv, read = Messages, NEW o \in Outcomes
    PROVE  CameOut(o) = Counted(o)
<1>1. ASSUME NEW i \in Indices, NEW m \in Indices, results[i] = <<o, m>>
      PROVE  i = m
  <2>1. results[i] # None
    BY <1>1 DEF None, Outcomes
  <2>2. results[i] \in {<<"ok", i>>, <<"failed", i>>, <<"skipped", i>>}
    BY <2>1 DEF BatchInv, HandsFull
  <2> QED BY <1>1, <2>2
<1> QED BY <1>1, BatchSizes DEF CameOut, Counted

\* Every index handed out is in the channel, with one worker or in its result, and the
\* handler counts results it will not see again (linkBatch, its producer and its
\* workers).
THEOREM BatchInvariant == Spec => []BatchInv
<1>1. BatchInv /\ [Next]_vars => BatchInv'
  BY BatchTypesKept, HandsKept, FiledKept, NoneMissingKept, WoundKept, GatheringKept DEF BatchInv
<1> QED BY <1>1, BatchInit, PTL DEF Spec

\* The summary is the last thing the status message shows: the handler writes it once
\* no worker is left to edit the progress (linkBatch, wg.Wait).
THEOREM SummaryIsLast == Spec => []SummaryStays
<1>1. BatchInv => SummaryStays
  BY DEF BatchInv, Gathering
<1> QED BY <1>1, BatchInvariant, PTL

\* The summary's counts are those of the messages that came out so, and come to all the
\* messages unless the time ran out or a worker panicked (linkBatch).
THEOREM CountsAreTrue == Spec => []EveryMessageCounts
<1>1. BatchInv => EveryMessageCounts
  <2> SUFFICES ASSUME BatchInv, main = "done" PROVE EveryMessageCounts
    BY DEF EveryMessageCounts
  <2>1. /\ Messages \in Nat /\ Indices = 1..Messages /\ Media \subseteq Indices
        /\ read = Messages /\ WorkersDone /\ Workers # {}
    BY BatchSizes DEF BatchInv, Gathering, Wound
  <2>2. \A o \in Outcomes : CameOut(o) = Counted(o)
    BY <2>1, CameOutCounted
  <2>3. \A o \in Outcomes : counts[o] = Cardinality(Counted(o))
    BY DEF BatchInv, Gathering
  <2>4. ASSUME ctx # "expired", panics = 0
        PROVE  /\ counts["ok"] + counts["failed"] = Cardinality(Media)
               /\ counts["skipped"] = Messages - Cardinality(Media)
    <3>1. handed = Messages /\ indices = <<>>
      BY <2>1, <2>4 DEF BatchInv, Wound, InTime, WorkersDone
    <3>2. Elems(indices) = {} /\ \A w \in Workers : job[w] = 0
      BY <2>1, <3>1 DEF BatchInv, HandsFull, Free, WorkersDone, Elems
    <3>3. \A i \in Indices : results[i] # None
      BY <2>1, <2>4, <3>1, <3>2 DEF BatchInv, NoneMissing, InTime
    <3>4. \A i \in Indices :
             results[i] \in IF i \in Media THEN {<<"ok", i>>, <<"failed", i>>} ELSE {<<"skipped", i>>}
      BY <3>3 DEF BatchInv, HandsFull
    <3>5. /\ Counted("ok") \cup Counted("failed") = Media
          /\ Counted("ok") \cap Counted("failed") = {}
          /\ Counted("skipped") = Indices \ Media
      <4>1. \A i \in Media : results[i] \in {<<"ok", i>>, <<"failed", i>>}
        BY <2>1, <3>4
      <4>2. \A i \in Indices \ Media : results[i] = <<"skipped", i>>
        BY <3>4
      <4>3. \A o : Counted(o) = {i \in Indices : results[i] = <<o, i>>}
        BY <2>1 DEF Counted
      <4>4. \A i \in Indices :
              /\ i \in Counted("ok") \/ i \in Counted("failed") <=> i \in Media
              /\ ~(i \in Counted("ok") /\ i \in Counted("failed"))
              /\ i \in Counted("skipped") <=> i \notin Media
        BY <4>1, <4>2, <4>3
      <4>5. \A o : Counted(o) \subseteq Indices
        BY <4>3
      <4> QED BY <2>1, <4>4, <4>5
    <3>6. /\ IsFiniteSet(Indices) /\ Cardinality(Indices) = Messages
          /\ IsFiniteSet(Counted("ok")) /\ IsFiniteSet(Counted("failed"))
          /\ IsFiniteSet(Media) /\ Indices \cap Media = Media
      <4>1. IsFiniteSet(1..Messages) /\ Cardinality(1..Messages) = Messages
        BY <2>1, FS_Interval
      <4> QED BY <2>1, <3>5, <4>1, FS_Subset
    <3>7. /\ Cardinality(Counted("ok")) \in Nat /\ Cardinality(Counted("failed")) \in Nat
          /\ Cardinality({}) = 0
      BY <3>6, FS_CardinalityType, FS_EmptySet
    <3>8. Cardinality(Media) = Cardinality(Counted("ok")) + Cardinality(Counted("failed"))
      <4>1. Cardinality(Media) =
               Cardinality(Counted("ok")) + Cardinality(Counted("failed")) - Cardinality({})
        BY <3>5, <3>6, FS_Union
      <4> QED BY <3>7, <4>1
    <3>9. Cardinality(Counted("skipped")) = Messages - Cardinality(Media)
      BY <3>5, <3>6, FS_Difference
    <3> QED BY <2>3, <3>8, <3>9 DEF Outcomes
  <2> QED BY <2>2, <2>3, <2>4, SameCardinality DEF EveryMessageCounts
<1> QED BY <1>1, BatchInvariant, PTL

-----------------------------------------------------------------------------
(* The links of a batch: Shortener, for any callers and URLs and a cache of  *)
(* any capacity.                                                            *)

ShortenerTypes ==
    /\ cache \in Seq(Urls) /\ Len(cache) <= CacheCap
    /\ flight \in [Urls -> SUBSET Callers]
    /\ step \in [Callers -> {"idle", "lookup", "join", "wait", "put", "short", "long"}]
    /\ asked \in [Callers -> Urls \cup {NoUrl}]
    /\ fetched \in [Urls -> Nat] /\ evicted \in [Urls -> Nat] /\ overtaken \in [Urls -> Nat]

\* A flight carries callers that wait for its URL; a worker's calls are under way only
\* while it is shortening.
Flights ==
    /\ NoRepeat(cache)
    /\ \A u \in Urls : \A c \in flight[u] : step[c] = "wait" /\ asked[c] = u
    /\ \A c \in Callers : step[c] # "idle" => at[c[1]] = "shorten" /\ asked[c] \in Urls

\* A short URL that is cached, or is about to be.
Known(u) == u \in Elems(cache) \/ \E c \in Callers : step[c] = "put" /\ asked[c] = u

\* Only a call on the way to the cache is not yet excused by an eviction, or by a call
\* that had missed it.
Spent ==
    \A u \in Urls :
       /\ fetched[u] <= evicted[u] + overtaken[u] + 1
       /\ flight[u] # {} \/ ~Known(u) => fetched[u] <= evicted[u] + overtaken[u]

LEMMA MovedToFront ==
    ASSUME cache \in Seq(Urls), NoRepeat(cache), NEW u \in Urls
    PROVE  LET front == MoveToFront(u) IN
           /\ front \in Seq(Urls) /\ NoRepeat(front) /\ Elems(front) = Elems(cache) \cup {u}
           /\ Len(front) = IF u \in Elems(cache) THEN Len(cache) ELSE Len(cache) + 1
           /\ Len(front) >= 1 /\ front[1] = u
<1> DEFINE n == Len(cache)
           front == MoveToFront(u)
<1>1. n \in Nat /\ DOMAIN cache = 1..n /\ \A i \in 1..n : cache[i] \in Urls
  OBVIOUS
<1>2. Cached(u) <=> u \in Elems(cache)
  BY <1>1 DEF Cached, Elems
<1>3. CASE ~Cached(u)
  <2>1. front = <<u>> \o cache
    BY <1>3 DEF MoveToFront
  <2>2. /\ front \in Seq(Urls) /\ Len(front) = n + 1 /\ front[1] = u
        /\ \A k \in 2..(n + 1) : front[k] = cache[k - 1] /\ k - 1 \in 1..n
        /\ \A k \in 1..n : cache[k] = front[k + 1] /\ k + 1 \in 2..(n + 1)
    BY <1>1, <2>1
  <2> HIDE DEF front, n
  <2>3. 1..Len(front) = {1} \cup 2..(n + 1)
    BY <1>1, <2>2
  <2>4. \A k \in 2..(n + 1) : front[k] # u
    BY <1>2, <1>3, <2>2 DEF Elems, n
  <2>5. NoRepeat(front)
    <3>1. ASSUME NEW i \in 2..(n + 1), NEW j \in 2..(n + 1), front[i] = front[j] PROVE i = j
      <4>1. cache[i - 1] = cache[j - 1] /\ i - 1 \in 1..n /\ j - 1 \in 1..n
        BY <2>2, <3>1
      <4>2. i - 1 = j - 1
        BY <4>1 DEF NoRepeat, n
      <4> QED BY <1>1, <4>2
    <3> QED BY <2>2, <2>3, <2>4, <3>1 DEF NoRepeat
  <2>6. Elems(front) = Elems(cache) \cup {u}
    <3>1. \A k \in 1..Len(front) : front[k] \in Elems(cache) \cup {u}
      BY <2>2, <2>3 DEF Elems, n
    <3>2. \A k \in 1..n : cache[k] \in Elems(front)
      BY <2>2, <2>3 DEF Elems
    <3>3. u \in Elems(front)
      BY <2>2, <2>3 DEF Elems
    <3> QED BY <3>1, <3>2, <3>3 DEF Elems, n
  <2> QED BY <1>1, <1>2, <1>3, <2>2, <2>5, <2>6 DEF front, n
<1>4. CASE Cached(u)
  <2> DEFINE p == CHOOSE i \in DOMAIN cache : cache[i] = u
  <2>1. p \in 1..n /\ cache[p] = u
    BY <1>1, <1>4 DEF Cached
  <2>2. front = <<u>> \o (SubSeq(cache, 1, p - 1) \o SubSeq(cache, p + 1, n))
    BY <1>4 DEF MoveToFront, RemoveAt
  <2> HIDE DEF front, n, p
  <2> DEFINE a == SubSeq(cache, 1, p - 1)
             b == SubSeq(cache, p + 1, n)
  <2>3. a \in Seq(Urls) /\ Len(a) = p - 1 /\ \A k \in 1..(p - 1) : a[k] = cache[k]
    BY <1>1, <2>1 DEF n
  <2>4. b \in Seq(Urls) /\ Len(b) = n - p /\ \A k \in 1..(n - p) : b[k] = cache[p + k]
    <3>1. /\ n \in Nat /\ p \in Nat /\ p + 1 \in 1..(n + 1) /\ n - (p + 1) + 1 = n - p
          /\ p + 1 <= n \/ n - p = 0
      BY <1>1, <2>1
    <3>2. /\ b \in Seq(Urls) /\ Len(b) = IF p + 1 <= n THEN n - (p + 1) + 1 ELSE 0
          /\ \A k \in 1..(n - (p + 1) + 1) : b[k] = cache[(p + 1) + k - 1]
      <4>1. ASSUME NEW i \in (p + 1)..n PROVE cache[i] \in Urls
        <5>1. i \in 1..n
          BY <3>1
        <5> QED BY <1>1, <5>1 DEF n
      <4>2. p + 1 \in Int /\ n \in Int
        BY <3>1
      <4> QED BY <4>1, <4>2, SubSeqProperties
    <3>3. \A k \in 1..(n - p) : (p + 1) + k - 1 = p + k
      BY <3>1
    <3> QED BY <3>1, <3>2, <3>3
  <2> HIDE DEF a, b
  <2>5. /\ a \o b \in Seq(Urls) /\ Len(a \o b) = n - 1
        /\ \A k \in 1..(n - 1) : (a \o b)[k] = IF k < p THEN cache[k] ELSE cache[k + 1]
    <3>1. a \o b \in Seq(Urls) /\ Len(a \o b) = (p - 1) + (n - p)
      <4>1. a \o b \in Seq(Urls) /\ Len(a \o b) = Len(a) + Len(b)
        BY <2>3, <2>4, ConcatProperties
      <4> QED BY <2>3, <2>4, <4>1
    <3>2. ASSUME NEW k \in 1..(n - 1)
          PROVE (a \o b)[k] = IF k < p THEN cache[k] ELSE cache[k + 1]
      <4>1. CASE k < p
        BY <1>1, <2>1, <2>3, <2>4, <4>1
      <4>2. CASE k >= p
        <5>1. (a \o b)[k] = b[k - (p - 1)] /\ k - (p - 1) \in 1..(n - p)
          BY <1>1, <2>1, <2>3, <2>4, <4>2
        <5>2. p + (k - (p - 1)) = k + 1
          BY <1>1, <2>1
        <5> QED BY <1>1, <2>1, <2>4, <4>2, <5>1, <5>2
      <4>3. k < p \/ k >= p
        BY <2>1
      <4> QED BY <4>1, <4>2, <4>3
    <3> QED BY <1>1, <2>1, <3>1, <3>2
  <2>6. /\ front \in Seq(Urls) /\ Len(front) = n /\ front[1] = u
        /\ \A k \in 2..n : front[k] = IF k <= p THEN cache[k - 1] ELSE cache[k]
    <3> DEFINE r == a \o b
    <3>1. front = <<u>> \o r
      BY <2>2 DEF a, b
    <3> HIDE DEF r
    <3>2. r \in Seq(Urls) /\ Len(r) = n - 1
      BY <2>5 DEF r
    <3>3. front \in Seq(Urls) /\ Len(front) = n /\ front[1] = u
      BY <1>1, <2>1, <3>1, <3>2
    <3>4. ASSUME NEW k \in 2..n PROVE front[k] = IF k <= p THEN cache[k - 1] ELSE cache[k]
      <4>1. front[k] = r[k - 1] /\ k - 1 \in 1..(n - 1) /\ (k - 1) + 1 = k
        BY <1>1, <2>1, <3>1, <3>2
      <4>2. k - 1 < p <=> k <= p
        BY <1>1, <2>1
      <4> QED BY <2>5, <4>1, <4>2 DEF r
    <3> QED BY <3>3, <3>4
  \* Where the element at k has come from.
  <2> DEFINE from(k) == IF k = 1 THEN p ELSE IF k <= p THEN k - 1 ELSE k
             to(k) == IF k = p THEN 1 ELSE IF k < p THEN k + 1 ELSE k
  <2>7. \A k \in 1..n : from(k) \in 1..n /\ front[k] = cache[from(k)] /\ to(from(k)) = k
    BY <1>1, <2>1, <2>6
  <2>8. \A k \in 1..n : to(k) \in 1..n /\ front[to(k)] = cache[k]
    <3> SUFFICES ASSUME NEW k \in 1..n PROVE to(k) \in 1..n /\ from(to(k)) = k
      BY <2>7
    <3> QED BY <1>1, <2>1
  <2> HIDE DEF from, to
  <2>9. NoRepeat(front)
    <3>1. ASSUME NEW i \in 1..n, NEW j \in 1..n, front[i] = front[j] PROVE i = j
      <4>1. from(i) = from(j)
        BY <2>7, <3>1 DEF NoRepeat, n
      <4> QED BY <2>7, <4>1
    <3> QED BY <2>6, <3>1 DEF NoRepeat
  <2>10. Elems(front) = Elems(cache) /\ u \in Elems(cache)
    <3>1. Elems(front) = {front[k] : k \in 1..n} /\ Elems(cache) = {cache[k] : k \in 1..n}
      BY <2>6 DEF Elems, n
    <3>2. Elems(front) \subseteq Elems(cache)
      BY <2>7, <3>1
    <3>3. Elems(cache) \subseteq Elems(front)
      <4> SUFFICES ASSUME NEW k \in 1..n PROVE cache[k] \in Elems(front)
        BY <3>1
      <4> QED BY <2>8, <3>1
    <3> QED BY <2>1, <3>1, <3>2, <3>3
  <2> QED BY <1>1, <1>2, <1>4, <2>1, <2>6, <2>9, <2>10 DEF front, n
<1> QED BY <1>3, <1>4

LinksInv == ShortenerTypes /\ Flights /\ Spent

\* Nothing becomes unknown, or is fetched.
LEMMA StaysSpent ==
    ASSUME Spent, UNCHANGED <<flight, fetched, evicted, overtaken>>,
           \A u \in Urls : Known(u) => Known(u)'
    PROVE  Spent'
  BY DEF Spent

LEMMA LookupKept ==
    ASSUME LinksInv, NEW c \in Callers, Lookup(c), UNCHANGED at
    PROVE  LinksInv'
<1> USE DEF shortenerHistory
<1>1. /\ asked[c] \in Urls /\ cache \in Seq(Urls) /\ NoRepeat(cache) /\ CacheCap \in Nat
      /\ Len(cache) <= CacheCap /\ step[c] = "lookup"
      /\ UNCHANGED <<flight, asked, fetched, evicted, overtaken>>
  BY BatchSizes DEF LinksInv, ShortenerTypes, Flights, Lookup
<1>2. DOMAIN cache = 1..Len(cache)
  BY <1>1
<1>3. Cached(asked[c]) <=> asked[c] \in Elems(cache)
  BY <1>2 DEF Cached, Elems
<1>4. /\ cache' \in Seq(Urls) /\ Len(cache') <= CacheCap
      /\ NoRepeat(cache') /\ Elems(cache') = Elems(cache)
  <2>1. CASE Cached(asked[c])
    <3>1. cache' = MoveToFront(asked[c])
      BY <2>1 DEF Lookup
    <3>2. Elems(cache) \cup {asked[c]} = Elems(cache)
      BY <1>3, <2>1
    <3> QED BY <1>1, <1>3, <2>1, <3>1, <3>2, MovedToFront
  <2>2. CASE ~Cached(asked[c])
    BY <1>1, <2>2 DEF Lookup
  <2> QED BY <2>1, <2>2
<1>5. /\ step' \in [Callers -> {"idle", "lookup", "join", "wait", "put", "short", "long"}]
      /\ \A d \in Callers \ {c} : step'[d] = step[d]
      /\ step'[c] \in {"short", "join"}
  BY DEF Lookup, LinksInv, ShortenerTypes
<1>6. ShortenerTypes'
  BY <1>1, <1>4, <1>5 DEF LinksInv, ShortenerTypes
<1>7. Flights'
  <2>1. \A u \in Urls : c \notin flight[u]
    BY <1>1 DEF LinksInv, Flights
  <2>2. \A u \in Urls : flight[u] \subseteq Callers
    BY DEF LinksInv, ShortenerTypes
  <2> QED BY <1>1, <1>4, <1>5, <2>1, <2>2 DEF LinksInv, Flights
<1>8. \A u \in Urls : Known(u) => Known(u)'
  BY <1>1, <1>4, <1>5 DEF Known
<1> QED BY <1>1, <1>6, <1>7, <1>8, StaysSpent DEF LinksInv

LEMMA JoinKept ==
    ASSUME LinksInv, NEW c \in Callers, Join(c), UNCHANGED at
    PROVE  LinksInv'
<1> DEFINE u == asked[c]
<1>1. /\ u \in Urls /\ step[c] = "join" /\ cache \in Seq(Urls)
      /\ UNCHANGED <<cache, asked, fetched, evicted>>
      /\ step' = [step EXCEPT ![c] = "wait"]
      /\ flight' = [flight EXCEPT ![u] = @ \cup {c}]
      /\ overtaken' = IF flight[u] = {}
                         /\ (Cached(u) \/ \E d \in Callers : step[d] = "put" /\ asked[d] = u)
                      THEN [overtaken EXCEPT ![u] = @ + 1]
                      ELSE overtaken
  BY DEF LinksInv, ShortenerTypes, Flights, Join
<1>2. /\ DOMAIN cache = 1..Len(cache)
      /\ flight \in [Urls -> SUBSET Callers] /\ asked \in [Callers -> Urls \cup {NoUrl}]
      /\ step \in [Callers -> {"idle", "lookup", "join", "wait", "put", "short", "long"}]
      /\ fetched \in [Urls -> Nat] /\ evicted \in [Urls -> Nat] /\ overtaken \in [Urls -> Nat]
  BY <1>1 DEF LinksInv, ShortenerTypes
<1>3. Cached(u) <=> u \in Elems(cache)
  BY <1>2 DEF Cached, Elems
<1>4. ShortenerTypes'
  BY <1>1, <1>2 DEF LinksInv, ShortenerTypes
<1>5. Flights'
  BY <1>1, <1>2 DEF LinksInv, Flights
<1>6. \A v \in Urls : Known(v)' <=> Known(v)
  BY <1>1, <1>2 DEF Known
<1>7. /\ \A v \in Urls \ {u} : flight'[v] = flight[v] /\ overtaken'[v] = overtaken[v]
      /\ overtaken'[u] = IF flight[u] = {} /\ Known(u) THEN overtaken[u] + 1 ELSE overtaken[u]
  BY <1>1, <1>2, <1>3 DEF Known
<1> HIDE DEF u
<1>8. Spent'
  <2>1. /\ fetched[u] \in Nat /\ evicted[u] \in Nat /\ overtaken[u] \in Nat
        /\ fetched[u] <= evicted[u] + overtaken[u] + 1
        /\ flight[u] # {} \/ ~Known(u) => fetched[u] <= evicted[u] + overtaken[u]
    BY <1>1, <1>2 DEF LinksInv, Spent
  <2>2. fetched[u] <= evicted[u] + overtaken'[u] /\ overtaken'[u] \in Nat
    BY <1>7, <2>1
  <2>3. fetched[u] <= evicted[u] + overtaken'[u] + 1
    BY <2>1, <2>2
  <2> QED BY <1>1, <1>6, <1>7, <2>2, <2>3 DEF LinksInv, Spent
<1> QED BY <1>4, <1>5, <1>8 DEF LinksInv

LEMMA PutKept ==
    ASSUME LinksInv, NEW c \in Callers, Put(c), UNCHANGED at
    PROVE  LinksInv'
<1> DEFINE a == asked[c]
           front == MoveToFront(a)
           last == front[Len(front)]
<1>1. /\ a \in Urls /\ step[c] = "put" /\ cache \in Seq(Urls) /\ NoRepeat(cache)
      /\ CacheCap \in Nat \ {0} /\ Len(cache) <= CacheCap /\ Len(cache) \in Nat
      /\ UNCHANGED <<flight, asked, fetched, overtaken>>
      /\ step' = [step EXCEPT ![c] = "short"]
  BY BatchSizes DEF LinksInv, ShortenerTypes, Flights, Put
<1>2. IF Len(front) <= CacheCap
      THEN cache' = front /\ UNCHANGED evicted
      ELSE /\ cache' = SubSeq(front, 1, CacheCap)
           /\ evicted' = [evicted EXCEPT ![last] = @ + 1]
  BY DEF Put
<1>3. /\ front \in Seq(Urls) /\ NoRepeat(front) /\ Elems(front) = Elems(cache) \cup {a}
      /\ Len(front) \in {Len(cache), Len(cache) + 1}
      /\ Len(front) >= 1 /\ front[1] = a
  BY <1>1, MovedToFront
<1>4. /\ flight \in [Urls -> SUBSET Callers] /\ asked \in [Callers -> Urls \cup {NoUrl}]
      /\ step \in [Callers -> {"idle", "lookup", "join", "wait", "put", "short", "long"}]
      /\ fetched \in [Urls -> Nat] /\ evicted \in [Urls -> Nat] /\ overtaken \in [Urls -> Nat]
  BY DEF LinksInv, ShortenerTypes
<1> HIDE DEF a, front
\* Only the last of a cache over its cap is gone from it.
<1>5. /\ cache' \in Seq(Urls) /\ Len(cache') <= CacheCap /\ NoRepeat(cache')
      /\ a \in Elems(cache') /\ evicted' \in [Urls -> Nat]
      /\ \A v \in Urls :
            /\ evicted'[v] >= evicted[v]
            /\ v \in Elems(cache) => v \in Elems(cache') \/ evicted'[v] = evicted[v] + 1
  <2>1. CASE Len(front) <= CacheCap
    BY <1>2, <1>3, <1>4, <2>1
  <2>2. CASE ~(Len(front) <= CacheCap)
    <3>1. Len(front) = CacheCap + 1 /\ CacheCap \in Nat /\ CacheCap >= 1
      BY <1>1, <1>3, <2>2
    <3>2. /\ cache' \in Seq(Urls) /\ Len(cache') = CacheCap
          /\ \A i \in 1..CacheCap : cache'[i] = front[i] /\ i \in 1..Len(front)
      <4>1. cache' = SubSeq(front, 1, CacheCap) /\ CacheCap \in 1..Len(front)
        BY <1>2, <2>2, <3>1
      <4> QED BY <1>3, <3>1, <4>1
    <3>3. last \in Urls /\ Len(front) \in 1..Len(front)
      BY <1>3, <3>1
    <3>4. evicted' = [evicted EXCEPT ![last] = @ + 1]
      BY <1>2, <2>2
    <3> HIDE DEF last
    <3>5. NoRepeat(cache')
      BY <1>3, <3>2 DEF NoRepeat
    <3>6. a \in Elems(cache')
      BY <1>3, <3>1, <3>2 DEF Elems
    <3>7. \A v \in Elems(front) : v = last \/ v \in Elems(cache')
      <4>1. \A i \in 1..Len(front) : i \in 1..CacheCap \/ i = Len(front)
        BY <3>1
      <4> QED BY <3>2, <4>1 DEF Elems, last
    <3>8. /\ evicted' \in [Urls -> Nat] /\ evicted'[last] = evicted[last] + 1
          /\ \A v \in Urls : evicted'[v] >= evicted[v]
      BY <1>4, <3>3, <3>4
    <3> QED BY <1>3, <3>1, <3>2, <3>5, <3>6, <3>7, <3>8
  <2> QED BY <2>1, <2>2
<1>6. ShortenerTypes'
  BY <1>1, <1>4, <1>5 DEF LinksInv, ShortenerTypes
<1>7. Flights'
  <2>1. \A u \in Urls : c \notin flight[u]
    BY <1>1 DEF LinksInv, Flights
  <2> QED BY <1>1, <1>4, <1>5, <2>1 DEF LinksInv, Flights
<1>8. \A v \in Urls : Known(v) => Known(v)' \/ evicted'[v] = evicted[v] + 1
  <2> SUFFICES ASSUME NEW v \in Urls, Known(v) PROVE Known(v)' \/ evicted'[v] = evicted[v] + 1
    OBVIOUS
  <2>1. CASE v \in Elems(cache)
    BY <1>5, <2>1 DEF Known
  <2>2. ASSUME NEW d \in Callers, step[d] = "put", asked[d] = v PROVE Known(v)'
    <3>1. CASE d = c
      BY <1>5, <2>2, <3>1 DEF Known, a
    <3>2. CASE d # c
      BY <1>1, <1>4, <2>2, <3>2 DEF Known
    <3> QED BY <3>1, <3>2
  <2> QED BY <2>1, <2>2 DEF Known
<1>9. Spent'
  <2> SUFFICES ASSUME NEW v \in Urls
               PROVE  /\ fetched[v] <= evicted'[v] + overtaken[v] + 1
                      /\ flight[v] # {} \/ ~Known(v)' => fetched[v] <= evicted'[v] + overtaken[v]
    BY <1>1 DEF Spent
  <2>1. /\ fetched[v] \in Nat /\ evicted[v] \in Nat /\ evicted'[v] \in Nat /\ overtaken[v] \in Nat
        /\ evicted'[v] >= evicted[v]
    BY <1>4, <1>5
  <2>2. /\ fetched[v] <= evicted[v] + overtaken[v] + 1
        /\ flight[v] # {} \/ ~Known(v) => fetched[v] <= evicted[v] + overtaken[v]
    BY DEF LinksInv, Spent
  <2>3. fetched[v] <= evicted'[v] + overtaken[v] + 1
    BY <2>1, <2>2
  <2>4. ASSUME flight[v] # {} \/ ~Known(v)' PROVE fetched[v] <= evicted'[v] + overtaken[v]
    <3>1. CASE flight[v] # {} \/ ~Known(v)
      BY <2>1, <2>2, <3>1
    <3>2. CASE Known(v) /\ flight[v] = {}
      <4>1. evicted'[v] = evicted[v] + 1
        BY <1>8, <2>4, <3>2
      <4> QED BY <2>1, <2>2, <4>1
    <3> QED BY <3>1, <3>2
  <2> QED BY <2>3, <2>4
<1> QED BY <1>6, <1>7, <1>9 DEF LinksInv

LEMMA AnswerKept ==
    ASSUME LinksInv, NEW u \in Urls, Answer(u), UNCHANGED at
    PROVE  LinksInv'
<1>1. /\ flight \in [Urls -> SUBSET Callers] /\ asked \in [Callers -> Urls \cup {NoUrl}]
      /\ step \in [Callers -> {"idle", "lookup", "join", "wait", "put", "short", "long"}]
      /\ fetched \in [Urls -> Nat] /\ evicted \in [Urls -> Nat] /\ overtaken \in [Urls -> Nat]
  BY DEF LinksInv, ShortenerTypes
<1>2. PICK result \in {"put", "long"} :
        /\ step' = [c \in Callers |-> IF c \in flight[u] THEN result ELSE step[c]]
        /\ fetched' = IF result = "long" THEN fetched ELSE [fetched EXCEPT ![u] = @ + 1]
  BY DEF Answer
<1>3. /\ flight' = [flight EXCEPT ![u] = {}] /\ flight[u] # {}
      /\ UNCHANGED <<cache, asked, evicted, overtaken>>
  BY DEF Answer
<1>4. \A c \in flight[u] : c \in Callers /\ step[c] = "wait" /\ asked[c] = u
  BY <1>1 DEF LinksInv, Flights
<1>5. \A c \in Callers : step'[c] = IF c \in flight[u] THEN result ELSE step[c]
  BY <1>2
<1>6. ShortenerTypes'
  BY <1>1, <1>2, <1>3 DEF LinksInv, ShortenerTypes
<1>7. Flights'
  <2>1. \A v \in Urls : \A c \in flight'[v] : c \in Callers /\ step'[c] = "wait" /\ asked[c] = v
    <3> SUFFICES ASSUME NEW v \in Urls, NEW c \in flight'[v]
                 PROVE  c \in Callers /\ step'[c] = "wait" /\ asked[c] = v
      OBVIOUS
    <3>1. v # u /\ c \in flight[v]
      BY <1>1, <1>3
    <3>2. c \in Callers /\ step[c] = "wait" /\ asked[c] = v
      BY <1>1, <3>1 DEF LinksInv, Flights
    <3>3. c \notin flight[u]
      BY <1>4, <3>1, <3>2
    <3> QED BY <1>5, <3>2, <3>3
  <2>2. \A c \in Callers : step'[c] # "idle" => at[c[1]] = "shorten" /\ asked[c] \in Urls
    BY <1>4, <1>5 DEF LinksInv, Flights
  <2> QED BY <1>3, <2>1, <2>2 DEF LinksInv, Flights
<1>8. \A v \in Urls : Known(v) => Known(v)'
  <2>1. \A c \in Callers : step[c] = "put" => step'[c] = "put"
    BY <1>4, <1>5
  <2> QED BY <1>3, <2>1 DEF Known
<1>9. Spent'
  <2>1. \A v \in Urls : flight'[v] # {} => flight[v] # {} /\ v # u
    BY <1>1, <1>3
  <2>2. CASE result = "long"
    BY <1>2, <1>3, <1>8, <2>1, <2>2 DEF LinksInv, Spent
  <2>3. CASE result = "put"
    <3>1. Known(u)'
      BY <1>3, <1>4, <1>5, <2>3 DEF Known
    <3>2. /\ fetched'[u] = fetched[u] + 1
          /\ \A v \in Urls \ {u} : fetched'[v] = fetched[v]
      BY <1>1, <1>2, <2>3
    <3>3. fetched[u] <= evicted[u] + overtaken[u]
      BY <1>3 DEF LinksInv, Spent
    <3>4. fetched'[u] <= evicted[u] + overtaken[u] + 1
      BY <1>1, <3>2, <3>3
    <3> QED BY <1>3, <1>8, <2>1, <3>1, <3>2, <3>4 DEF LinksInv, Spent
  <2> QED BY <2>2, <2>3
<1> QED BY <1>6, <1>7, <1>9 DEF LinksInv

\* Steps of the batch that leave the shortener alone, and no worker amid its links.
LEMMA LinksKept ==
    ASSUME BatchTypes, HandsFull, LinksInv, [Next]_vars
    PROVE  LinksInv'
<1> USE DEF request, batchVars, handlerVars, workerVars,
            producerVars, shortenerVars, shortenerHistory
<1>0. /\ Callers = Workers \X Links /\ Urls = Files \X Links
      /\ FileOf \in [Indices -> Files] /\ Indices = 1..Messages /\ Messages \in Nat
  BY BatchSizes
<1>1. /\ flight \in [Urls -> SUBSET Callers] /\ asked \in [Callers -> Urls \cup {NoUrl}]
      /\ step \in [Callers -> {"idle", "lookup", "join", "wait", "put", "short", "long"}]
  BY DEF LinksInv, ShortenerTypes
<1>2. ASSUME UNCHANGED shortenerVars,
             \A w \in Workers : at[w] = "shorten" => at'[w] = "shorten"
      PROVE  LinksInv'
  <2>1. ShortenerTypes'
    BY <1>2 DEF LinksInv, ShortenerTypes
  <2>2. \A c \in Callers : c[1] \in Workers
    BY <1>0
  <2>3. Flights'
    BY <1>2, <2>2 DEF LinksInv, Flights
  <2>4. \A u \in Urls : Known(u) => Known(u)'
    BY <1>2 DEF Known
  <2> QED BY <1>2, <2>1, <2>3, <2>4, StaysSpent DEF LinksInv
\* The callers of w begin together, or are done together.
<1>3. ASSUME NEW w \in Workers, NEW s \in {"idle", "lookup"},
             UNCHANGED <<cache, flight, fetched, evicted, overtaken>>,
             step' = [c \in Callers |-> IF c[1] = w THEN s ELSE step[c]],
             asked' \in [Callers -> Urls \cup {NoUrl}],
             \A c \in Callers : c[1] # w => asked'[c] = asked[c],
             s # "idle" => at'[w] = "shorten" /\ \A c \in Callers : c[1] = w => asked'[c] \in Urls,
             \A x \in Workers \ {w} : at'[x] = at[x],
             \A c \in Callers : c[1] = w => step[c] \in {"idle", "short", "long"}
      PROVE  LinksInv'
  <2>1. \A c \in Callers : c[1] \in Workers /\ step'[c] = IF c[1] = w THEN s ELSE step[c]
    BY <1>0, <1>3
  <2>2. ShortenerTypes'
    BY <1>1, <1>3 DEF LinksInv, ShortenerTypes
  <2>3. \A u \in Urls : \A c \in flight[u] :
           c \in Callers /\ c[1] # w /\ step[c] = "wait" /\ asked[c] = u
    BY <1>1, <1>3 DEF LinksInv, Flights
  <2>4. Flights'
    <3>1. \A c \in Callers : step'[c] # "idle" => at'[c[1]] = "shorten" /\ asked'[c] \in Urls
      BY <1>3, <2>1 DEF LinksInv, Flights
    <3> QED BY <1>3, <2>1, <2>3, <3>1 DEF LinksInv, Flights
  <2>5. \A u \in Urls : Known(u) => Known(u)'
    BY <1>3, <2>1 DEF Known
  <2> QED BY <1>3, <2>2, <2>4, <2>5, StaysSpent DEF LinksInv
<1>4. ASSUME NEW w \in Workers, Ingest(w) PROVE LinksInv'
  <2>1. /\ at[w] = "ingest" /\ \A x \in Workers \ {w} : at'[x] = at[x]
    BY <1>4, Gone DEF Ingest, BatchTypes
  <2>2. CASE UNCHANGED shortenerVars
    BY <1>2, <2>1, <2>2
  <2>3. CASE /\ Go(w, "shorten", job[w])
             /\ step' = [c \in Callers |-> IF c[1] = w THEN "lookup" ELSE step[c]]
             /\ asked' = [c \in Callers |->
                             IF c[1] = w THEN <<FileOf[job[w]], c[2]>> ELSE asked[c]]
             /\ UNCHANGED <<cache, flight, fetched, evicted, overtaken>>
    <3>1. job[w] \in Indices
      <4>1. job[w] \in 1..handed /\ handed \in 0..Messages
        BY <2>1 DEF HandsFull, Free, BatchTypes, IndexTypes
      <4> QED BY <1>0, <4>1
    <3>2. \A c \in Callers : <<FileOf[job[w]], c[2]>> \in Urls
      BY <1>0, <3>1
    <3>3. /\ asked' \in [Callers -> Urls \cup {NoUrl}]
          /\ \A c \in Callers : asked'[c] = IF c[1] = w THEN <<FileOf[job[w]], c[2]>> ELSE asked[c]
      BY <1>1, <2>3, <3>2
    <3>4. at'[w] = "shorten"
      BY <2>3, Gone DEF BatchTypes
    <3>5. \A c \in Callers : c[1] = w => step[c] = "idle"
      BY <2>1 DEF LinksInv, Flights
    <3> QED BY <1>3, <2>1, <2>3, <3>2, <3>3, <3>4, <3>5
  <2> QED BY <1>4, <2>2, <2>3 DEF Ingest
<1>5. ASSUME NEW w \in Workers, Shortened(w) PROVE LinksInv'
  <2>1. \A x \in Workers \ {w} : at'[x] = at[x]
    BY <1>5, Gone DEF Shortened, BatchTypes
  <2>2. \A c \in Callers : c[1] = w => step[c] \in {"short", "long"}
    <3>1. \A c \in Callers : c[1] = w => \E l \in Links : c = <<w, l>>
      BY <1>0
    <3> QED BY <1>5, <3>1 DEF Shortened
  <2>3. /\ step' = [c \in Callers |-> IF c[1] = w THEN "idle" ELSE step[c]]
        /\ asked' = [c \in Callers |-> IF c[1] = w THEN NoUrl ELSE asked[c]]
        /\ UNCHANGED <<cache, flight, fetched, evicted, overtaken>>
    BY <1>5 DEF Shortened
  <2>4. /\ asked' \in [Callers -> Urls \cup {NoUrl}]
        /\ \A c \in Callers : c[1] # w => asked'[c] = asked[c]
    BY <1>1, <2>3
  <2> QED BY <1>3, <2>1, <2>2, <2>3, <2>4
<1>6. ASSUME NEW w \in Workers, ShortenLink(w) PROVE LinksInv'
  <2>1. PICK l \in Links : Shorten(<<w, l>>)
    BY <1>6 DEF ShortenLink
  <2>2. <<w, l>> \in Callers /\ UNCHANGED at
    BY <1>0, <1>6 DEF ShortenLink
  <2> QED BY <2>1, <2>2, LookupKept, JoinKept, PutKept DEF Shorten
<1>7. ASSUME NEW u \in Urls, ServiceAnswers(u) PROVE LinksInv'
  BY <1>7, AnswerKept DEF ServiceAnswers
<1>8. ASSUME NEW w \in Workers,
             \/ Receive(w) \/ Finish(w) \/ Progress(w) \/ Edit(w)
             \/ Panic(w)
      PROVE  LinksInv'
  <2>1. UNCHANGED shortenerVars /\ at[w] # "shorten"
    BY <1>8 DEF Receive, Finish, Progress, Edit, Panic, Outcomes
  <2>2. \A x \in Workers \ {w} : at'[x] = at[x]
    BY <1>8, HandStep DEF Work
  <2> QED BY <1>2, <2>1, <2>2
<1>9. CASE HandOut \/ Handle \/ Expire
  BY <1>2, <1>9 DEF HandOut, Handle, Waited, Gather, Gathered,
                    Summarise, Expire
<1>10. CASE UNCHANGED vars
  BY <1>2, <1>10 DEF vars
<1> QED BY <1>4, <1>5, <1>6, <1>7, <1>8, <1>9, <1>10 DEF Next, Work, Over

LEMMA LinksInit == Init => LinksInv
<1> SUFFICES ASSUME Init PROVE LinksInv
  OBVIOUS
<1> USE BatchSizes DEF Init, ShortenerInit
<1>1. ShortenerTypes
  <2>1. cache \in Seq(Urls) /\ Len(cache) <= CacheCap
    OBVIOUS
  <2> QED BY <2>1 DEF ShortenerTypes
<1>2. NoRepeat(cache)
  BY DEF NoRepeat
<1>3. Flights
  BY <1>2 DEF Flights
<1>4. Spent
  BY DEF Spent, Known, Elems
<1> QED BY <1>1, <1>3, <1>4 DEF LinksInv

\* The cache holds no URL twice, a flight only callers that wait for it, and a call of
\* the service leaves its short URL on the way to the cache (Shorten).
THEOREM LinksInvariant == Spec => []LinksInv
<1>1. BatchInv /\ LinksInv /\ [Next]_vars => LinksInv'
  BY LinksKept DEF BatchInv
<1> QED BY <1>1, LinksInit, BatchInvariant, PTL DEF Spec

\* While a short URL is known its long one is not sent to the service again, but by a
\* call that had missed it: shortener.go's "repeated calls for the same URL don't hit
\* the API" (Shorten, singleflight and the LRU cache).
THEOREM NotAskedAgain == Spec => []AskedOnce
<1>1. LinksInv => AskedOnce
  <2> SUFFICES ASSUME LinksInv, NEW u \in Urls PROVE fetched[u] <= 1 + evicted[u] + overtaken[u]
    BY DEF AskedOnce
  <2>1. fetched[u] \in Nat /\ evicted[u] \in Nat /\ overtaken[u] \in Nat
    BY DEF LinksInv, ShortenerTypes
  <2>2. fetched[u] <= evicted[u] + overtaken[u] + 1
    BY DEF LinksInv, Spent
  <2> QED BY <2>1, <2>2
<1> QED BY <1>1, LinksInvariant, PTL

\* The types of linkBatch and of the shortener, with the bounds on what is counted.
THEOREM BatchTypeCorrect == Spec => []TypeOK
<1>1. BatchInv /\ LinksInv => TypeOK
  <2> SUFFICES ASSUME BatchInv, LinksInv PROVE TypeOK
    OBVIOUS
  <2>0. IndexTypes /\ HandTypes /\ ResultTypes /\ GatherTypes
    BY DEF BatchInv, BatchTypes
  <2>1. Messages \in Nat /\ processed \in 0..Messages
    BY BatchSizes, FiledBound DEF BatchInv
  <2>2. counts \in [Outcomes -> 0..Messages]
    <3> SUFFICES ASSUME NEW o \in Outcomes PROVE counts[o] \in 0..Messages
      BY <2>0 DEF GatherTypes
    <3>1. read \in 0..Messages /\ counts[o] \in Nat /\ counts[o] = Cardinality(Counted(o))
      BY <2>0 DEF GatherTypes, BatchInv, Gathering
    <3>2. Counted(o) \subseteq 1..Messages
      BY <2>1, <3>1 DEF Counted
    <3>3. IsFiniteSet(1..Messages) /\ Cardinality(1..Messages) = Messages
      BY <2>1, FS_Interval
    <3>4. Cardinality(Counted(o)) <= Messages
      BY <3>2, <3>3, FS_Subset
    <3> QED BY <2>1, <3>1, <3>4
  <2>3. dmFailed \in 0..Messages
    <3>1. /\ dmFailed \in Nat /\ dmFailed <= Len(posted) /\ Len(posted) + Len(chunk) <= read
          /\ Len(posted) \in Nat /\ Len(chunk) \in Nat /\ read \in 0..Messages
      BY <2>0 DEF GatherTypes, BatchInv, Gathering
    <3> QED BY <2>1, <3>1
  <2>4. ShortenerTypeOK
    BY DEF LinksInv, ShortenerTypes, ShortenerTypeOK
  <2> QED BY <2>0, <2>1, <2>2, <2>3, <2>4
          DEF TypeOK, IndexTypes, HandTypes, ResultTypes, GatherTypes
<1> QED BY <1>1, LinksInvariant, BatchInvariant, PTL

-----------------------------------------------------------------------------
(* FlattenSeq, which puts the posts of a batch one behind the other.        *)

LEMMA Least ==
    ASSUME NEW S \in SUBSET Nat, S # {}
    PROVE  \E m \in S : \A k \in S : m <= k
<1>1. PICK m \in S : \A k \in S : <<k, m>> \notin OpToRel(<, Nat)
  BY NatLessThanWellFounded, WFMin
<1>2. \A k \in S : ~(k < m)
  BY <1>1 DEF OpToRel
<1> QED BY <1>2

\* f[i] is what the first i sequences of s come to.
Flattens(f, s, n) == \A i \in 1..n : f[i] = IF i = 1 THEN s[i] ELSE f[i - 1] \o s[i]

LEMMA FlattenedSo ==
    ASSUME NEW S, NEW s \in Seq(Seq(S)), NEW n \in 0..Len(s)
    PROVE  \E f \in [1..n -> Seq(S)] : Flattens(f, s, n)
<1> DEFINE Done(k) == \E f \in [1..k -> Seq(S)] : Flattens(f, s, k)
           Bad == {k \in 0..n : ~Done(k)}
<1>1. Len(s) \in Nat /\ n \in Nat /\ \A i \in 1..Len(s) : s[i] \in Seq(S)
  OBVIOUS
<1>2. SUFFICES ASSUME Bad # {} PROVE FALSE
  BY <1>1
<1>3. PICK m \in Bad : \A k \in Bad : m <= k
  <2>1. Bad \in SUBSET Nat
    BY <1>1
  <2> HIDE DEF Bad
  <2> QED BY <1>2, <2>1, Least
<1>4. m \in 0..n /\ ~Done(m)
  BY <1>3
<1>5. CASE m = 0
  <2> DEFINE f == [i \in 1..0 |-> <<>>]
  <2>1. 1..0 = {}
    OBVIOUS
  <2>2. f \in [1..0 -> Seq(S)] /\ Flattens(f, s, 0)
    BY <2>1 DEF Flattens
  <2> QED BY <1>4, <1>5, <2>2
<1>6. CASE m > 0
  <2>1. m - 1 \in 0..n /\ ~(m <= m - 1) /\ m \in 1..Len(s) /\ m \in Nat
    BY <1>1, <1>4, <1>6
  <2>2. PICK f \in [1..(m - 1) -> Seq(S)] : Flattens(f, s, m - 1)
    <3>1. m - 1 \notin Bad
      <4> HIDE DEF Bad
      <4> QED BY <1>3, <2>1
    <3> QED BY <2>1, <3>1
  <2> DEFINE last == IF m = 1 THEN s[m] ELSE f[m - 1] \o s[m]
             g == [i \in 1..m |-> IF i = m THEN last ELSE f[i]]
  <2>3. last \in Seq(S)
    <3>1. CASE m = 1
      BY <1>1, <2>1, <3>1
    <3>2. CASE m # 1
      <4>1. f[m - 1] \in Seq(S) /\ s[m] \in Seq(S)
        BY <1>1, <2>1, <2>2, <3>2
      <4> QED BY <3>2, <4>1
    <3> QED BY <3>1, <3>2
  <2>4. g \in [1..m -> Seq(S)] /\ g[m] = last /\ \A i \in 1..(m - 1) : g[i] = f[i]
    <3> HIDE DEF last
    <3>1. \A i \in 1..m : i = m \/ i \in 1..(m - 1)
      BY <2>1
    <3>2. \A i \in 1..(m - 1) : f[i] \in Seq(S) /\ i \in 1..m /\ i # m
      BY <2>1, <2>2
    <3>3. \A i \in 1..m : g[i] \in Seq(S)
      BY <2>3, <3>1, <3>2
    <3>4. m \in 1..m
      BY <2>1
    <3> QED BY <3>2, <3>3, <3>4
  <2>5. \A i \in 1..(m - 1) : f[i] = IF i = 1 THEN s[i] ELSE f[i - 1] \o s[i]
    BY <2>2 DEF Flattens
  <2>6. ASSUME NEW i \in 1..m PROVE g[i] = IF i = 1 THEN s[i] ELSE g[i - 1] \o s[i]
    <3>1. CASE i = m
      BY <2>1, <2>4, <3>1
    <3>2. CASE i # m
      <4>1. i \in 1..(m - 1) /\ (i = 1 \/ i - 1 \in 1..(m - 1))
        BY <2>1, <3>2
      <4>2. g[i] = f[i] /\ (i = 1 \/ g[i - 1] = f[i - 1])
        BY <2>4, <4>1
      <4> QED BY <2>5, <4>1, <4>2
    <3> QED BY <3>1, <3>2
  <2> HIDE DEF g, last
  <2>7. Flattens(g, s, m)
    BY <2>4, <2>6 DEF Flattens
  <2> QED BY <1>4, <2>4, <2>7
<1> QED BY <1>1, <1>4, <1>5, <1>6

LEMMA FlattenedAlike ==
    ASSUME NEW s, NEW n \in Nat, NEW f, NEW g, Flattens(f, s, n), Flattens(g, s, n)
    PROVE  \A i \in 1..n : f[i] = g[i]
<1> DEFINE Bad == {i \in 1..n : f[i] # g[i]}
<1>1. SUFFICES ASSUME Bad # {} PROVE FALSE
  OBVIOUS
<1>2. PICK k \in Bad : \A i \in Bad : k <= i
  <2>1. Bad \in SUBSET Nat
    OBVIOUS
  <2> HIDE DEF Bad
  <2> QED BY <1>1, <2>1, Least
<1>3. k \in 1..n /\ f[k] # g[k]
  BY <1>2
<1>4. /\ f[k] = IF k = 1 THEN s[k] ELSE f[k - 1] \o s[k]
      /\ g[k] = IF k = 1 THEN s[k] ELSE g[k - 1] \o s[k]
  BY <1>3 DEF Flattens
<1>5. k = 1 \/ f[k - 1] = g[k - 1]
  BY <1>2, <1>3
<1> QED BY <1>3, <1>4, <1>5

LEMMA Flattened ==
    ASSUME NEW S, NEW s \in Seq(Seq(S)), s # <<>>
    PROVE  \E f \in [1..Len(s) -> Seq(S)] :
              Flattens(f, s, Len(s)) /\ FlattenSeq(s) = f[Len(s)]
<1> DEFINE n == Len(s)
           f == CHOOSE g : g = [i \in 1..n |-> IF i = 1 THEN s[i] ELSE g[i - 1] \o s[i]]
<1>1. n \in Nat /\ n # 0
  OBVIOUS
<1>2. PICK h \in [1..n -> Seq(S)] : Flattens(h, s, n)
  BY <1>1, FlattenedSo
<1>3. f = [i \in 1..n |-> IF i = 1 THEN s[i] ELSE f[i - 1] \o s[i]]
  <2>1. h = [i \in 1..n |-> IF i = 1 THEN s[i] ELSE h[i - 1] \o s[i]]
    BY <1>2 DEF Flattens
  <2> QED BY <2>1
<1>4. FlattenSeq(s) = f[n]
  BY <1>1 DEF FlattenSeq
<1> HIDE DEF f
<1>5. Flattens(f, s, n)
  BY <1>3 DEF Flattens
<1>6. \A i \in 1..n : f[i] = h[i]
  BY <1>1, <1>2, <1>5, FlattenedAlike
<1>7. f \in [1..n -> Seq(S)]
  BY <1>2, <1>3, <1>6
<1> QED BY <1>4, <1>5, <1>7

LEMMA FlattenAppend ==
    ASSUME NEW S, NEW s \in Seq(Seq(S)), NEW t \in Seq(S)
    PROVE  /\ FlattenSeq(s) \in Seq(S)
           /\ FlattenSeq(Append(s, t)) = FlattenSeq(s) \o t
<1> DEFINE n == Len(s)
           r == Append(s, t)
<1>1. /\ n \in Nat /\ r \in Seq(Seq(S)) /\ Len(r) = n + 1 /\ r # <<>>
      /\ r[n + 1] = t /\ \A i \in 1..n : r[i] = s[i]
  <2>1. n \in Nat /\ r \in Seq(Seq(S)) /\ Len(r) = n + 1
    OBVIOUS
  <2>2. n + 1 \in 1..(n + 1) /\ \A i \in 1..n : i \in 1..(n + 1) /\ i # n + 1
    BY <2>1
  <2>3. \A i \in 1..(n + 1) : r[i] = IF i = n + 1 THEN t ELSE s[i]
    BY AppendProperties
  <2>4. r # <<>>
    <3> HIDE DEF r, n
    <3> QED BY <2>1
  <2> QED BY <2>1, <2>2, <2>3, <2>4
<1>2. PICK g \in [1..(n + 1) -> Seq(S)] :
         Flattens(g, r, n + 1) /\ FlattenSeq(r) = g[n + 1]
  BY <1>1, Flattened
<1>3. g[n + 1] = IF n + 1 = 1 THEN t ELSE g[n] \o t
  <2>1. n + 1 \in 1..(n + 1) /\ (n + 1) - 1 = n
    BY <1>1
  <2>2. g[n + 1] = IF n + 1 = 1 THEN r[n + 1] ELSE g[(n + 1) - 1] \o r[n + 1]
    BY <1>2, <2>1 DEF Flattens
  <2> QED BY <1>1, <2>1, <2>2
<1>4. CASE s = <<>>
  <2>1. FlattenSeq(s) = <<>>
    BY <1>4 DEF FlattenSeq
  <2>2. n = 0 /\ <<>> \o t = t
    BY <1>4
  <2> HIDE DEF r, n
  <2>3. FlattenSeq(r) = t
    BY <1>2, <1>3, <2>2
  <2> QED BY <2>1, <2>2, <2>3 DEF r
<1>5. CASE s # <<>>
  <2>1. n > 0 /\ n \in 1..n
    BY <1>1, <1>5
  <2>2. PICK f \in [1..n -> Seq(S)] : Flattens(f, s, n) /\ FlattenSeq(s) = f[n]
    BY <1>5, Flattened
  <2> HIDE DEF r, n
  <2>3. \A i \in 1..n : f[i] = g[i]
    <3>1. Flattens(f, s, n)
      BY <2>2 DEF n
    <3>2. Flattens(g, s, n)
      <4>1. \A i \in 1..n : i \in 1..(n + 1)
        BY <1>1
      <4> QED BY <1>1, <1>2, <4>1 DEF Flattens
    <3>3. n \in Nat
      BY <1>1
    <3> QED BY <3>1, <3>2, <3>3, FlattenedAlike
  <2>4. FlattenSeq(r) = g[n] \o t
    BY <1>1, <1>2, <1>3, <2>1
  <2>5. f[n] \in Seq(S)
    BY <2>1, <2>2
  <2> QED BY <2>1, <2>2, <2>3, <2>4, <2>5 DEF r
<1> QED BY <1>4, <1>5

-----------------------------------------------------------------------------
(* The posts of a batch.                                                    *)

Ascending(s) == \A i, j \in 1..Len(s) : i < j => s[i] < s[j]

LEMMA AscendingOn ==
    ASSUME NEW s \in Seq(Nat), NEW x \in Nat, Ascending(s), \A y \in Elems(s) : y < x
    PROVE  /\ Append(s, x) \in Seq(Nat) /\ Ascending(Append(s, x))
           /\ Elems(Append(s, x)) = Elems(s) \cup {x}
<1> DEFINE t == Append(s, x)
           n == Len(s)
<1>1. /\ n \in Nat /\ t \in Seq(Nat) /\ Len(t) = n + 1 /\ t[n + 1] = x
      /\ \A i \in 1..n : t[i] = s[i] /\ s[i] < x
  BY AppendProperties DEF Elems
<1>2. \A i \in 1..Len(t) : i \in 1..n \/ i = n + 1
  BY <1>1
<1>3. \A i \in 1..n : i \in 1..Len(t) /\ ~(n + 1 < i) /\ i < n + 1
  BY <1>1
<1>4. n + 1 \in 1..Len(t) /\ ~(n + 1 < n + 1)
  BY <1>1
<1>5. \A i, j \in 1..n : i < j => s[i] < s[j]
  BY DEF Ascending
<1> HIDE DEF t, n
<1>6. Ascending(t)
  BY <1>1, <1>2, <1>3, <1>4, <1>5 DEF Ascending
<1>7. Elems(t) = Elems(s) \cup {x}
  <2>1. Elems(s) = {s[i] : i \in 1..n}
    BY DEF Elems, n
  <2>2. \A i \in 1..Len(t) : t[i] \in Elems(s) \cup {x}
    BY <1>1, <1>2, <2>1
  <2>3. \A i \in 1..n : s[i] \in Elems(t)
    BY <1>1, <1>3 DEF Elems
  <2>4. x \in Elems(t)
    BY <1>1, <1>4 DEF Elems
  <2> QED BY <2>1, <2>2, <2>3, <2>4 DEF Elems
<1> QED BY <1>1, <1>6, <1>7 DEF t

LEMMA AppendedLast ==
    ASSUME NEW S, NEW s \in Seq(S), NEW t \in Seq(S), NEW x \in S
    PROVE  s \o Append(t, x) = Append(s \o t, x) /\ s \o t \in Seq(S) /\ s \o <<>> = s
<1>1. s \o t \in Seq(S) /\ s \o <<>> = s
  OBVIOUS
<1>2. s \o Append(t, x) = Append(s \o t, x)
  <2>1. Append(t, x) = t \o <<x>> /\ Append(s \o t, x) = (s \o t) \o <<x>>
    BY <1>1, AppendIsConcat
  <2>2. <<x>> \in Seq(S)
    OBVIOUS
  <2> QED BY <2>1, <2>2, ConcatAssociative
<1> QED BY <1>1, <1>2

\* The links so far, posted or not.
LinksSoFar == FlattenSeq(posted) \o chunk

\* They are those of the results gone through, in their order; only the last post is
\* short.
Listed ==
    /\ Ascending(LinksSoFar) /\ Elems(LinksSoFar) = Counted("ok")
    /\ \A k \in 1..Len(posted) :
          /\ Len(posted[k]) <= ChunkSize
          /\ k < Len(posted) \/ main \in {"wait", "gather"} => Len(posted[k]) = ChunkSize
    /\ Len(chunk) < ChunkSize
    /\ main \in {"summary", "done"} => chunk = <<>>

\* A chunk with x at its end, posted or not.
LEMMA LinkAdded ==
    ASSUME BatchTypes, NEW x \in Indices,
           \/ chunk' = Append(chunk, x) /\ UNCHANGED posted
           \/ Flush(Append(chunk, x))
    PROVE  /\ LinksSoFar' = Append(LinksSoFar, x)
           /\ LinksSoFar \in Seq(Indices)
<1> DEFINE F == FlattenSeq(posted)
           c == Append(chunk, x)
<1>1. chunk \in Seq(Indices) /\ posted \in Seq(Seq(Indices)) /\ c \in Seq(Indices)
  BY DEF BatchTypes, GatherTypes
<1>2. F \in Seq(Indices) /\ FlattenSeq(Append(posted, c)) = F \o c
  BY <1>1, FlattenAppend
<1>3. F \o c = Append(F \o chunk, x) /\ F \o chunk \in Seq(Indices)
  BY <1>1, <1>2, AppendedLast
<1>4. CASE chunk' = c /\ UNCHANGED posted
  BY <1>3, <1>4 DEF LinksSoFar
<1>5. CASE Flush(c)
  <2>1. posted' = Append(posted, c) /\ chunk' = <<>>
    BY <1>5 DEF Flush
  <2>2. LinksSoFar' = (F \o c) \o <<>>
    BY <1>2, <2>1 DEF LinksSoFar
  <2>3. (F \o c) \o <<>> = F \o c
    BY <1>1, <1>2, ConcatEmptySeq, ConcatProperties
  <2> QED BY <1>3, <2>2, <2>3 DEF LinksSoFar
<1> QED BY <1>3, <1>4, <1>5 DEF LinksSoFar

LEMMA ListedKept ==
    ASSUME BatchInv, Listed, [Next]_vars
    PROVE  Listed'
<1> USE DEF request, batchVars, handlerVars, workerVars, producerVars
<1>0. /\ Messages \in Nat /\ Indices = 1..Messages /\ read \in 0..Messages
      /\ chunk \in Seq(Indices) /\ posted \in Seq(Seq(Indices))
      /\ ChunkSize \in Nat \ {0} /\ Len(chunk) \in Nat /\ Len(posted) \in Nat
      /\ BatchTypes
  BY BatchAssumption DEF BatchInv, BatchTypes, GatherTypes, Indices
<1>1. ASSUME UNCHANGED <<main, read, chunk, posted, results>> PROVE Listed'
  BY <1>1 DEF Listed, LinksSoFar, Counted
\* What a post adds to the posts.
<1>2. ASSUME NEW links \in Seq(Indices), Flush(links),
             main = "gather", Len(links) <= ChunkSize,
             Len(links) = ChunkSize \/ main' = "summary"
      PROVE  /\ \A k \in 1..Len(posted') :
                   /\ Len(posted'[k]) <= ChunkSize
                   /\ k < Len(posted') \/ main' \in {"wait", "gather"} => Len(posted'[k]) = ChunkSize
             /\ Len(chunk') < ChunkSize /\ chunk' = <<>>
  <2>1. /\ Len(posted') = Len(posted) + 1 /\ posted'[Len(posted) + 1] = links
        /\ \A k \in 1..Len(posted) : posted'[k] = posted[k] /\ Len(posted[k]) = ChunkSize
        /\ chunk' = <<>>
    BY <1>0, <1>2, AppendProperties DEF Flush, Listed
  <2> SUFFICES ASSUME NEW k \in 1..Len(posted')
               PROVE  /\ Len(posted'[k]) <= ChunkSize
                      /\ k < Len(posted') \/ main' \in {"wait", "gather"} =>
                            Len(posted'[k]) = ChunkSize
    BY <1>0, <2>1
  <2>2. k \in 1..Len(posted) \/ (k = Len(posted) + 1 /\ ~(k < Len(posted')))
    BY <1>0, <2>1
  <2>3. CASE k \in 1..Len(posted)
    <3>1. posted'[k] = posted[k] /\ Len(posted[k]) = ChunkSize
      BY <2>1, <2>3
    <3>2. ChunkSize <= ChunkSize
      BY <1>0
    <3> QED BY <3>1, <3>2
  <2>4. CASE k = Len(posted) + 1 /\ ~(k < Len(posted'))
    <3>1. posted'[k] = links
      BY <2>1, <2>4
    <3>2. main' = "summary" => main' \notin {"wait", "gather"}
      OBVIOUS
    <3> QED BY <1>2, <2>4, <3>1, <3>2
  <2> QED BY <2>2, <2>3, <2>4
<1>3. CASE Gather
  <2> DEFINE i == read + 1
             result == results[i]
  <2>1. /\ i \in Indices /\ read' = i /\ 1..i = (1..read) \cup {i} /\ i \notin 1..read
        /\ main = "gather" /\ UNCHANGED <<main, results>>
    BY <1>0, <1>3 DEF Gather
  <2>2. result = None \/ \E o \in Outcomes : result = <<o, i>>
    BY <2>1 DEF BatchInv, HandsFull, Outcomes
  <2>3. CASE result[1] # "ok"
    <3>1. UNCHANGED <<chunk, posted>>
      BY <1>3, <2>3 DEF Gather
    <3>2. Counted("ok")' = Counted("ok")
      BY <2>1, <2>3 DEF Counted
    <3> QED BY <2>1, <3>1, <3>2 DEF Listed, LinksSoFar
  <2>4. CASE result[1] = "ok"
    <3>1. result = <<"ok", i>>
      BY <2>2, <2>4 DEF None
    <3>2. Counted("ok")' = Counted("ok") \cup {i}
      BY <2>1, <3>1 DEF Counted
    <3> DEFINE c == Append(chunk, i)
    <3>3. c \in Seq(Indices) /\ Len(c) = Len(chunk) + 1
      BY <1>0, <2>1
    <3>4. \/ chunk' = c /\ Len(c) < ChunkSize /\ UNCHANGED posted
          \/ Flush(c) /\ Len(c) >= ChunkSize
      BY <1>0, <1>3, <2>4, <3>1, <3>3 DEF Gather, Full
    <3>5. /\ LinksSoFar' = Append(LinksSoFar, i) /\ LinksSoFar \in Seq(Indices)
      BY <1>0, <2>1, <3>4, LinkAdded
    <3>6. Ascending(LinksSoFar') /\ Elems(LinksSoFar') = Elems(LinksSoFar) \cup {i}
      <4>1. LinksSoFar \in Seq(Nat) /\ i \in Nat
        BY <1>0, <3>5
      <4>2. \A y \in Elems(LinksSoFar) : y < i
        <5>1. Elems(LinksSoFar) \subseteq 1..read
          BY DEF Listed, Counted
        <5> QED BY <1>0, <5>1
      <4> HIDE DEF i
      <4> QED BY <3>5, <4>1, <4>2, AscendingOn DEF Listed
    <3>7. Elems(LinksSoFar') = Counted("ok")'
      BY <3>2, <3>6 DEF Listed
    <3> HIDE DEF i, result, c
    <3>8. CASE chunk' = c /\ Len(c) < ChunkSize /\ UNCHANGED posted
      BY <2>1, <3>6, <3>7, <3>8 DEF Listed
    <3>9. CASE Flush(c) /\ Len(c) >= ChunkSize
      <4>1. Len(c) = ChunkSize /\ Len(c) <= ChunkSize
        BY <1>0, <3>3, <3>9 DEF Listed
      <4> QED BY <1>2, <2>1, <3>3, <3>6, <3>7, <3>9, <4>1 DEF Listed
    <3> QED BY <3>4, <3>8, <3>9
  <2> QED BY <2>3, <2>4
<1>4. CASE Gathered
  <2>1. UNCHANGED <<read, results>> /\ main = "gather" /\ main' = "summary"
    BY <1>4 DEF Gathered
  <2>2. Counted("ok")' = Counted("ok")
    BY <2>1 DEF Counted
  <2>3. CASE chunk = <<>> /\ UNCHANGED <<chunk, posted>>
    BY <2>1, <2>2, <2>3 DEF Listed, LinksSoFar
  <2>4. CASE Flush(chunk)
    <3>1. posted' = Append(posted, chunk) /\ chunk' = <<>>
      BY <2>4 DEF Flush
    <3>2. LinksSoFar' = LinksSoFar
      <4> DEFINE F == FlattenSeq(posted)
      <4>1. F \in Seq(Indices) /\ FlattenSeq(Append(posted, chunk)) = F \o chunk
        BY <1>0, FlattenAppend
      <4>2. (F \o chunk) \o <<>> = F \o chunk
        BY <1>0, <4>1, ConcatEmptySeq, ConcatProperties
      <4> QED BY <3>1, <4>1, <4>2 DEF LinksSoFar
    <3>3. Len(chunk) <= ChunkSize
      BY <1>0 DEF Listed
    <3> QED BY <1>0, <1>2, <2>1, <2>2, <2>4, <3>2, <3>3 DEF Listed
  <2> QED BY <1>4, <2>3, <2>4 DEF Gathered, LastFlush
<1>5. CASE Waited \/ Summarise
  <2>1. UNCHANGED <<read, chunk, posted, results>>
    BY <1>5 DEF Waited, Summarise
  <2>2. LinksSoFar' = LinksSoFar /\ Counted("ok")' = Counted("ok")
    BY <2>1 DEF LinksSoFar, Counted
  <2>3. \/ main = "wait" /\ main' = "gather"
        \/ main = "summary" /\ main' = "done"
    BY <1>5 DEF Waited, Summarise
  <2> QED BY <2>1, <2>2, <2>3 DEF Listed
<1>6. ASSUME NEW w \in Workers, Work(w) \/ Panic(w) PROVE Listed'
  <2>1. UNCHANGED <<main, read, chunk, posted>>
    BY <1>6, HandStep DEF BatchInv
  <2>2. results' = results \/ at[w] # "done"
    <3>1. CASE UNCHANGED batchVars
      BY <3>1
    <3>2. CASE ~UNCHANGED batchVars
      BY <1>6, <3>2, HandStep DEF BatchInv, Takes, Drops, Leaves, GoesOn, Crashes, Writes, Returns,
                                  Outcomes
    <3> QED BY <3>1, <3>2
  <2>3. CASE at[w] # "done"
    <3>1. main = "wait" /\ read = 0 /\ 1..0 = {}
      BY <2>3 DEF BatchInv, Wound, Gathering, WorkersDone
    <3>2. Counted("ok")' = Counted("ok")
      BY <2>1, <3>1 DEF Counted
    <3> QED BY <2>1, <3>2 DEF Listed, LinksSoFar
  <2>4. CASE results' = results
    BY <1>1, <2>1, <2>4
  <2> QED BY <2>2, <2>3, <2>4
<1>7. CASE HandOut \/ Expire
  BY <1>1, <1>7 DEF HandOut, Expire
<1>8. ASSUME NEW u \in Urls, ServiceAnswers(u) PROVE Listed'
  BY <1>1, <1>8 DEF ServiceAnswers
<1>9. CASE UNCHANGED vars
  BY <1>1, <1>9 DEF vars
<1> QED BY <1>3, <1>4, <1>5, <1>6, <1>7, <1>8, <1>9
        DEF Next, Handle, Over

LEMMA ListedInit == Init => Listed
<1> SUFFICES ASSUME Init PROVE Listed
  OBVIOUS
<1>1. posted = <<>> /\ chunk = <<>> /\ main = "wait" /\ read = 0
  BY DEF Init
<1>2. ChunkSize \in Nat \ {0}
  BY BatchAssumption
<1>3. LinksSoFar = <<>>
  BY <1>1 DEF LinksSoFar, FlattenSeq
<1>4. Counted("ok") = {}
  BY <1>1 DEF Counted
<1>5. Ascending(<<>>) /\ Elems(<<>>) = {} /\ Len(<<>>) = 0
  BY DEF Ascending, Elems
<1>6. Len(chunk) < ChunkSize /\ 1..Len(posted) = {}
  BY <1>1, <1>2
<1> QED BY <1>1, <1>3, <1>4, <1>5, <1>6 DEF Listed

\* Whatever the order in which the workers finish, the links are posted in the order of
\* the messages, each that is ready once and none that is not, in posts of ChunkSize and
\* a shorter last one (linkBatch's loop over the results, flushChunk).
THEOREM LinksInOrder == Spec => []PostedInOrder
<1>1. BatchInv /\ Listed /\ [Next]_vars => Listed'
  BY ListedKept
<1>2. BatchInv /\ Listed => PostedInOrder
  <2> SUFFICES ASSUME BatchInv, Listed, main \in {"summary", "done"}
               PROVE  PostedInOrder
    BY DEF PostedInOrder
  <2> DEFINE F == FlattenSeq(posted)
  <2>1. chunk = <<>> /\ posted \in Seq(Seq(Indices)) /\ read = Messages
    BY DEF Listed, BatchInv, BatchTypes, GatherTypes, Gathering
  <2>2. F \in Seq(Indices)
    BY <2>1, FlattenAppend, EmptySeq
  <2>3. LinksSoFar = F
    BY <2>1, <2>2 DEF LinksSoFar
  <2>4. CameOut("ok") = Counted("ok")
    BY <2>1, CameOutCounted DEF Outcomes
  <2>5. DOMAIN F = 1..Len(F)
    BY <2>2
  <2>6. ToSet(F) = Elems(F)
    BY <2>5 DEF ToSet, Elems
  <2>7. DOMAIN posted = 1..Len(posted)
    BY <2>1
  <2> HIDE DEF F
  <2>8. Ascending(F) /\ Elems(F) = CameOut("ok")
    BY <2>3, <2>4 DEF Listed
  <2> QED BY <2>5, <2>6, <2>7, <2>8 DEF PostedInOrder, F, Ascending, Listed
<1> QED BY <1>1, <1>2, ListedInit, BatchInvariant, PTL DEF Spec
=============================================================================
