-------------------------- MODULE BroadcastProofs --------------------------
(* Theorems about Broadcast, for any number of users and of workers, any    *)
(* capacity of the channels and any bound on the attempts.                  *)
EXTENDS Broadcast, SequenceTheorems, FiniteSetTheorems, TLAPS

-----------------------------------------------------------------------------
(* Sequences without repetitions.                                           *)

Elems(s) == {s[i] : i \in 1..Len(s)}

NoRepeat(s) == \A i, j \in 1..Len(s) : s[i] = s[j] => i = j

LEMMA ElemsTyped ==
    ASSUME NEW S, NEW s \in Seq(S)
    PROVE  Elems(s) \subseteq S
  BY DEF Elems

LEMMA TakenFromFront ==
    ASSUME NEW S, NEW s \in Seq(S), s # <<>>, NoRepeat(s)
    PROVE  /\ Head(s) \in S /\ Tail(s) \in Seq(S)
           /\ Len(Tail(s)) = Len(s) - 1 /\ Len(s) \in Nat
           /\ Elems(s) = {Head(s)} \cup Elems(Tail(s))
           /\ Head(s) \notin Elems(Tail(s))
           /\ NoRepeat(Tail(s))
<1>1. Len(s) \in Nat /\ Len(s) >= 1 /\ Head(s) = s[1] /\ s[1] \in S
  OBVIOUS
<1>2. Tail(s) \in Seq(S) /\ Len(Tail(s)) = Len(s) - 1
  OBVIOUS
<1>3. \A i \in 1..Len(Tail(s)) : Tail(s)[i] = s[i + 1] /\ i + 1 \in 1..Len(s)
  BY <1>1
<1>4. Elems(s) = {Head(s)} \cup Elems(Tail(s))
  <2>1. ASSUME NEW i \in 1..Len(s) PROVE s[i] \in {Head(s)} \cup Elems(Tail(s))
    <3>1. CASE i = 1
      BY <3>1, <1>1
    <3>2. CASE i # 1
      <4>1. i - 1 \in 1..Len(Tail(s)) /\ (i - 1) + 1 = i
        BY <3>2, <1>1, <1>2
      <4> QED BY <4>1, <1>3 DEF Elems
    <3> QED BY <3>1, <3>2
  <2>2. ASSUME NEW i \in 1..Len(Tail(s)) PROVE Tail(s)[i] \in Elems(s)
    BY <1>3 DEF Elems
  <2>3. Head(s) \in Elems(s)
    BY <1>1 DEF Elems
  <2> QED BY <2>1, <2>2, <2>3 DEF Elems
<1>5. Head(s) \notin Elems(Tail(s))
  <2>1. ASSUME NEW i \in 1..Len(Tail(s)) PROVE Tail(s)[i] # Head(s)
    <3>1. i + 1 # 1 /\ 1 \in 1..Len(s)
      BY <1>1
    <3> QED BY <3>1, <1>1, <1>3 DEF NoRepeat
  <2> QED BY <2>1 DEF Elems
<1>6. NoRepeat(Tail(s))
  <2>1. ASSUME NEW i \in 1..Len(Tail(s)), NEW j \in 1..Len(Tail(s)), Tail(s)[i] = Tail(s)[j]
        PROVE  i = j
    <3>1. i + 1 = j + 1
      BY <2>1, <1>3 DEF NoRepeat
    <3> QED BY <3>1
  <2> QED BY <2>1 DEF NoRepeat
<1> QED BY <1>1, <1>2, <1>4, <1>5, <1>6

LEMMA PutAtEnd ==
    ASSUME NEW S, NEW s \in Seq(S), NEW x \in S, NoRepeat(s), x \notin Elems(s)
    PROVE  /\ Append(s, x) \in Seq(S)
           /\ Len(Append(s, x)) = Len(s) + 1 /\ Len(s) \in Nat
           /\ Elems(Append(s, x)) = Elems(s) \cup {x}
           /\ NoRepeat(Append(s, x))
<1> DEFINE t == Append(s, x)
<1>1. t \in Seq(S) /\ Len(t) = Len(s) + 1 /\ Len(s) \in Nat
  OBVIOUS
<1>2. t[Len(t)] = x /\ \A i \in 1..Len(s) : t[i] = s[i] /\ i \in 1..Len(t)
  BY <1>1
<1>3. \A i \in 1..Len(t) : i \in 1..Len(s) \/ i = Len(t)
  BY <1>1
<1>4. Len(t) \in 1..Len(t)
  BY <1>1
<1> HIDE DEF t
<1>5. Elems(t) = Elems(s) \cup {x}
  BY <1>2, <1>3, <1>4 DEF Elems
<1>6. NoRepeat(t)
  <2>1. \A i \in 1..Len(s) : t[i] # x
    BY <1>2 DEF Elems
  <2> QED BY <2>1, <1>2, <1>3, <1>4 DEF NoRepeat
<1> QED BY <1>1, <1>5, <1>6 DEF t

-----------------------------------------------------------------------------
(* The invariant.                                                           *)

\* What the producer and the workers hold where they are.
Stations ==
    /\ producer = "send" <=> next # NoUser
    /\ \A w \in Workers :
          /\ at[w] \in {"receive", "delay", "done"} => job[w] = NoUser /\ attempt[w] = 0
          /\ at[w] \notin {"receive", "delay", "done"} => job[w] \in Users
          /\ at[w] = "forward" => attempt[w] < MaxAttempts
          /\ at[w] = "backoff" => 0 < attempt[w] /\ attempt[w] < MaxAttempts

\* A user is in one place at most: ahead of the cursor, with the producer, in the
\* channel or with one worker.
Apart ==
    /\ NoRepeat(unseen) /\ NoRepeat(userCh)
    /\ \A u \in Elems(unseen) : u \notin Elems(userCh) /\ u # next
    /\ \A u \in Elems(userCh) : u # next
    /\ \A w \in Workers :
          /\ job[w] \notin Elems(unseen) \cup Elems(userCh)
          /\ job[w] = next => job[w] = NoUser
    /\ \A w, x \in Workers : job[w] = job[x] /\ job[w] # NoUser => w = x

\* Nobody has had a copy before a worker took them in hand, and none but a lost
\* one while the worker goes on trying.
Fresh ==
    /\ \A u \in Elems(unseen) \cup Elems(userCh) \cup ({next} \cap Users) :
          copies[u] = 0 /\ u \notin lost
    /\ \A w \in Workers : at[w] \in {"forward", "backoff"} =>
          copies[job[w]] = IF job[w] \in lost THEN 1 ELSE 0
    /\ OneCopyEach

\* Before the cancellation no user is late; after it none is taken in hand.
Punctual ==
    /\ ~cancelled => \A w \in Workers : late[w] = 0
    /\ pressed => cancelled
    /\ \A w \in Workers : at[w] = "forward" /\ attempt[w] = 0 => late[w] = 0
    /\ CancelStopsWorkers

\* "unreachable" is said of none but those who were.
Justified ==
    LET gone == away \cup came IN
    /\ \A w \in Workers : at[w] = "unreachable" => job[w] \in gone
    /\ \A r \in resCh : r.verdict = "unreachable" => r.user \in gone
    /\ tally["unreachable"] \subseteq gone
    /\ prune \subseteq gone
    /\ OnlyAwayArePruned

Inv == TypeOK /\ Stations /\ Apart /\ Fresh /\ Punctual /\ Justified

LEMMA BroadcastInit == Init => Inv
<1> SUFFICES ASSUME Init PROVE Inv
  OBVIOUS
<1> USE BroadcastAssumption DEF Init
<1>1. TypeOK
  <2>1. tally \in [Verdicts -> SUBSET Users] /\ at \in [Workers -> Places]
    BY DEF Places, Verdicts
  <2>2. unseen \in Seq(Users) /\ userCh \in Seq(Users) /\ Len(userCh) <= Buffer
    OBVIOUS
  <2>3. attempt \in [Workers -> 0..MaxAttempts] /\ job \in [Workers -> Users \cup {NoUser}]
    OBVIOUS
  <2>4. copies \in [Users -> Nat] /\ late \in [Workers -> Nat] /\ panics \in 0..MaxPanics
    OBVIOUS
  <2>5. resCh \subseteq [user : Users, verdict : Verdicts] /\ mode \in Modes
    OBVIOUS
  <2>6. cancelled \in BOOLEAN /\ pressed \in BOOLEAN /\ misjudged \in BOOLEAN
    OBVIOUS
  <2>7. users \subseteq Users /\ away \subseteq Fickle /\ counted \subseteq Users
        /\ prune \subseteq Users /\ lost \subseteq Users /\ came \subseteq Fickle
    OBVIOUS
  <2>8. /\ producer \in {"fetch", "send", "done"} /\ next \in Users \cup {NoUser}
        /\ main \in {"collect", "summary", "reply", "done"}
        /\ summary \in {"none", "complete", "cancelled"}
    OBVIOUS
  <2> HIDE DEF Init
  <2> QED BY <2>1, <2>2, <2>3, <2>4, <2>5, <2>6, <2>7, <2>8 DEF TypeOK
<1>2. Stations
  BY DEF Stations
<1>3. NoRepeat(unseen) /\ NoRepeat(userCh) /\ Elems(userCh) = {} /\ Elems(unseen) \subseteq Users
  <2>1. DOMAIN Documents = 1..Len(Documents)
    OBVIOUS
  <2>2. NoRepeat(unseen)
    BY <2>1 DEF NoRepeat
  <2>3. NoRepeat(userCh) /\ Elems(userCh) = {}
    BY DEF NoRepeat, Elems
  <2>4. Elems(unseen) \subseteq Users
    BY DEF Elems
  <2> QED BY <2>2, <2>3, <2>4
<1>4. Apart
  BY <1>3 DEF Apart
<1>5. Fresh
  BY <1>3 DEF Fresh, OneCopyEach
<1>6. Punctual
  BY DEF Punctual, CancelStopsWorkers
<1>7. Justified
  BY DEF Justified, OnlyAwayArePruned, Verdicts
<1> QED BY <1>1, <1>2, <1>4, <1>5, <1>6, <1>7 DEF Inv

-----------------------------------------------------------------------------
(* The steps.                                                               *)

\* TypeOK in parts, one for each group of variables that steps leave alone together.
WorldTypes == mode \in Modes /\ users \subseteq Users /\ away \subseteq Fickle

ProducerTypes ==
    /\ unseen \in Seq(Users) /\ counted \subseteq Users
    /\ producer \in {"fetch", "send", "done"} /\ next \in Users \cup {NoUser}

QueueTypes == userCh \in Seq(Users) /\ Len(userCh) <= Buffer

WorkerTypes ==
    /\ at \in [Workers -> Places]
    /\ job \in [Workers -> Users \cup {NoUser}]
    /\ attempt \in [Workers -> 0..MaxAttempts]

ReportTypes == resCh \subseteq [user : Users, verdict : Verdicts]

MainTypes ==
    /\ tally \in [Verdicts -> SUBSET Users] /\ prune \subseteq Users
    /\ main \in {"collect", "summary", "reply", "done"}
    /\ summary \in {"none", "complete", "cancelled"}

HistoryTypes ==
    /\ copies \in [Users -> Nat] /\ lost \subseteq Users
    /\ pressed \in BOOLEAN /\ misjudged \in BOOLEAN
    /\ panics \in 0..MaxPanics /\ came \subseteq Fickle
    /\ late \in [Workers -> Nat]

AllTypes ==
    /\ WorldTypes /\ ProducerTypes /\ QueueTypes /\ WorkerTypes /\ ReportTypes /\ MainTypes
    /\ HistoryTypes /\ cancelled \in BOOLEAN

LEMMA TypeParts == TypeOK <=> AllTypes
  BY Zenon DEF TypeOK, AllTypes, WorldTypes, ProducerTypes, QueueTypes, WorkerTypes, ReportTypes,
               MainTypes, HistoryTypes

\* A group nothing of which changes keeps its types.
LEMMA Untouched ==
    ASSUME AllTypes
    PROVE  /\ UNCHANGED worldVars => WorldTypes'
           /\ UNCHANGED producerVars => ProducerTypes'
           /\ UNCHANGED userCh => QueueTypes'
           /\ UNCHANGED <<at, job, attempt>> => WorkerTypes'
           /\ UNCHANGED resCh => ReportTypes'
           /\ UNCHANGED mainVars => MainTypes'
           /\ UNCHANGED history => HistoryTypes'
           /\ UNCHANGED cancelled => (cancelled \in BOOLEAN)'
<1> USE DEF AllTypes
<1>1. UNCHANGED worldVars => WorldTypes'
  BY DEF WorldTypes, worldVars
<1>2. UNCHANGED producerVars => ProducerTypes'
  BY DEF ProducerTypes, producerVars
<1>3. UNCHANGED userCh => QueueTypes'
  BY DEF QueueTypes
<1>4. UNCHANGED <<at, job, attempt>> => WorkerTypes'
  BY DEF WorkerTypes
<1>5. UNCHANGED resCh => ReportTypes'
  BY DEF ReportTypes
<1>6. UNCHANGED mainVars => MainTypes'
  BY DEF MainTypes, mainVars
<1>7. UNCHANGED history => HistoryTypes'
  BY DEF HistoryTypes, history
<1> QED BY <1>1, <1>2, <1>3, <1>4, <1>5, <1>6, <1>7

LEMMA GoneOn ==
    ASSUME WorkerTypes, NEW w \in Workers, NEW p \in {"receive", "delay", "done"}, GoOn(w, p)
    PROVE  /\ WorkerTypes'
           /\ at'[w] = p /\ job'[w] = NoUser /\ attempt'[w] = 0
           /\ \A x \in Workers \ {w} :
                 at'[x] = at[x] /\ job'[x] = job[x] /\ attempt'[x] = attempt[x]
<1>1. at' \in [Workers -> Places]
  BY DEF WorkerTypes, GoOn, Places
<1>2. job' \in [Workers -> Users \cup {NoUser}]
  BY DEF WorkerTypes, GoOn
<1>3. attempt' \in [Workers -> 0..MaxAttempts]
  BY BroadcastAssumption DEF WorkerTypes, GoOn
<1>4. at'[w] = p /\ job'[w] = NoUser /\ attempt'[w] = 0
  BY DEF WorkerTypes, GoOn
<1>5. \A x \in Workers \ {w} : at'[x] = at[x] /\ job'[x] = job[x] /\ attempt'[x] = attempt[x]
  BY DEF WorkerTypes, GoOn
<1> QED BY <1>1, <1>2, <1>3, <1>4, <1>5 DEF WorkerTypes

\* A worker's part of Stations.
Stationed(w) ==
    /\ at[w] \in {"receive", "delay", "done"} => job[w] = NoUser /\ attempt[w] = 0
    /\ at[w] \notin {"receive", "delay", "done"} => job[w] \in Users
    /\ at[w] = "forward" => attempt[w] < MaxAttempts
    /\ at[w] = "backoff" => 0 < attempt[w] /\ attempt[w] < MaxAttempts

Holding == producer = "send" <=> next # NoUser

LEMMA StationParts == Stations <=> Holding /\ \A w \in Workers : Stationed(w)
  BY DEF Stations, Stationed, Holding

\* The other workers stay where they are.
LEMMA OthersStationed ==
    ASSUME NEW w \in Workers, \A x \in Workers : Stationed(x), Stationed(w)',
           \A x \in Workers \ {w} :
              at'[x] = at[x] /\ job'[x] = job[x] /\ attempt'[x] = attempt[x]
    PROVE  (\A x \in Workers : Stationed(x))'
<1> SUFFICES ASSUME NEW x \in Workers PROVE Stationed(x)'
  OBVIOUS
<1>1. CASE x = w
  BY <1>1
<1>2. CASE x # w
  BY <1>2 DEF Stationed
<1> QED BY <1>1, <1>2

LEMMA GoneOnStation ==
    ASSUME WorkerTypes, \A x \in Workers : Stationed(x), NEW w \in Workers,
           NEW p \in {"receive", "delay", "done"}, GoOn(w, p)
    PROVE  (\A x \in Workers : Stationed(x))'
<1>1. Stationed(w)'
  BY GoneOn DEF Stationed
<1> QED BY <1>1, GoneOn, OthersStationed

\* The types of a step that moves nothing but w, and perhaps the channel or the reports.
LEMMA WorkerStep ==
    ASSUME AllTypes, Stations, NEW w \in Workers, NEW p \in {"receive", "delay", "done"},
           GoOn(w, p), QueueTypes', ReportTypes', HistoryTypes',
           UNCHANGED <<producerVars, mainVars, worldVars, cancelled>>
    PROVE  AllTypes' /\ Stations'
<1>1. WorkerTypes' /\ (\A x \in Workers : Stationed(x))'
  BY GoneOn, GoneOnStation, StationParts DEF AllTypes
<1>2. Holding'
  BY StationParts DEF Holding, producerVars
<1>3. WorldTypes' /\ ProducerTypes' /\ MainTypes' /\ (cancelled \in BOOLEAN)'
  BY Untouched
<1>4. AllTypes'
  BY <1>1, <1>3 DEF AllTypes
<1>5. Stations'
  BY <1>1, <1>2 DEF Stations, Stationed, Holding
<1> QED BY <1>4, <1>5

LEMMA TypesKept ==
    ASSUME AllTypes, Stations, NoRepeat(unseen), [Next]_vars
    PROVE  AllTypes' /\ Stations'
<1> USE BroadcastAssumption
\* Steps of the producer, the handler and the world leave the workers where they are.
<1>0. ASSUME UNCHANGED <<at, job, attempt>>, Holding' PROVE Stations'
  BY <1>0 DEF Stations, Holding
<1>1. CASE Fetch
  <2>1. Head(unseen) \in Users /\ unseen' \in Seq(Users)
    BY <1>1, TakenFromFront DEF Fetch, AllTypes, ProducerTypes
  <2>2. \/ producer' = "send" /\ next' = Head(unseen)
        \/ producer' \in {"fetch", "done"} /\ next' = NoUser
    <3>1. PICK authorised \in {(Head(unseen) \in Authorised), FALSE} :
            IF ~Addressed(Head(unseen), authorised)
            THEN UNCHANGED <<producer, next, counted>>
            ELSE /\ counted' = counted \cup {Head(unseen)}
                 /\ IF cancelled THEN Close ELSE producer' = "send" /\ next' = Head(unseen)
      BY <1>1 DEF Fetch
    <3>2. producer = "fetch" /\ next = NoUser
      BY <1>1 DEF Fetch, Stations
    <3>3. CASE UNCHANGED <<producer, next, counted>>
      BY <3>2, <3>3
    <3>4. CASE Close
      BY <3>4 DEF Close
    <3>5. \/ UNCHANGED <<producer, next, counted>>
          \/ Close
          \/ producer' = "send" /\ next' = Head(unseen)
      BY <3>1, Zenon
    <3> QED BY <3>3, <3>4, <3>5
  <2>3. counted' \subseteq Users
    BY <1>1, <2>1 DEF Fetch, AllTypes, ProducerTypes
  <2>4. misjudged' \in BOOLEAN
    BY <1>1 DEF Fetch, AllTypes, HistoryTypes
  <2>5. UNCHANGED <<at, job, attempt, resCh, mainVars, worldVars, userCh, cancelled,
                    copies, lost, pressed, panics, came, late>>
    BY <1>1 DEF Fetch, workerVars
  <2>6. ProducerTypes'
    BY <2>1, <2>2, <2>3 DEF ProducerTypes
  <2>7. HistoryTypes'
    BY <2>4, <2>5 DEF HistoryTypes, AllTypes
  <2>8. AllTypes'
    BY <2>5, <2>6, <2>7, Untouched DEF AllTypes
  <2>9. Holding'
    BY <2>1, <2>2 DEF Holding
  <2> QED BY <1>0, <2>5, <2>8, <2>9
<1>2. CASE CursorEnds
  <2>1. UNCHANGED <<at, job, attempt, resCh, mainVars, worldVars, userCh, cancelled, history>>
    BY <1>2 DEF CursorEnds, workerVars
  <2>2. ProducerTypes' /\ Holding'
    BY <1>2 DEF CursorEnds, Close, ProducerTypes, AllTypes, Holding
  <2>3. AllTypes'
    BY <2>1, <2>2, Untouched DEF AllTypes
  <2> QED BY <1>0, <2>1, <2>2, <2>3
<1>3. CASE Send
  <2>1. UNCHANGED <<at, job, attempt, resCh, mainVars, worldVars, cancelled, history>>
    BY <1>3 DEF Send, workerVars
  <2>2. ProducerTypes' /\ Holding'
    BY <1>3 DEF Send, Close, ProducerTypes, AllTypes, Holding
  <2>3. QueueTypes'
    <3>1. CASE Len(userCh) < Buffer /\ userCh' = Append(userCh, next)
      <4>1. next \in Users
        BY <1>3 DEF Send, Stations, AllTypes, ProducerTypes
      <4>2. userCh \in Seq(Users) /\ Buffer \in Nat
        BY DEF AllTypes, QueueTypes
      <4>3. userCh' \in Seq(Users)
        BY <3>1, <4>1, <4>2
      <4>4. Len(userCh') = Len(userCh) + 1 /\ Len(userCh) \in Nat
        BY <3>1, <4>1, <4>2
      <4> QED BY <3>1, <4>2, <4>3, <4>4 DEF QueueTypes
    <3>2. CASE UNCHANGED userCh
      BY <3>2, Untouched
    <3> QED BY <1>3, <3>1, <3>2 DEF Send
  <2>4. AllTypes'
    BY <2>1, <2>2, <2>3, Untouched DEF AllTypes
  <2> QED BY <1>0, <2>1, <2>2, <2>4
<1>4. ASSUME NEW w \in Workers, Receive(w) PROVE AllTypes' /\ Stations'
  <2>1. UNCHANGED <<producerVars, mainVars, worldVars, resCh, cancelled, history>>
    BY <1>4 DEF Receive
  <2>2. ReportTypes' /\ HistoryTypes'
    BY <2>1, Untouched
  <2>3. CASE userCh # <<>> /\ userCh' = Tail(userCh) /\ Take(w)
    <3>1. QueueTypes' /\ Head(userCh) \in Users
      <4>1. userCh \in Seq(Users) /\ Len(userCh) <= Buffer /\ Buffer \in Nat
        BY DEF AllTypes, QueueTypes
      <4>2. Tail(userCh) \in Seq(Users) /\ Head(userCh) \in Users
        BY <2>3, <4>1
      <4>3. Len(Tail(userCh)) <= Len(userCh) /\ Len(userCh) \in Nat /\ Len(Tail(userCh)) \in Nat
        BY <2>3, <4>1
      <4> QED BY <2>3, <4>1, <4>2, <4>3 DEF QueueTypes
    <3>2. CASE cancelled
      <4>1. GoOn(w, "done")
        BY <2>3, <3>2 DEF Take, Retire
      <4> QED BY <2>1, <2>2, <3>1, <4>1, WorkerStep
    <3>3. CASE ~cancelled
      <4>1. /\ at' = [at EXCEPT ![w] = "forward"] /\ job' = [job EXCEPT ![w] = Head(userCh)]
            /\ attempt' = attempt
        BY <2>3, <3>3 DEF Take
      <4>2. WorkerTypes'
        <5>1. at' \in [Workers -> Places]
          BY <4>1 DEF Places, AllTypes, WorkerTypes
        <5>2. job' \in [Workers -> Users \cup {NoUser}]
          BY <3>1, <4>1 DEF AllTypes, WorkerTypes
        <5> QED BY <4>1, <5>1, <5>2 DEF AllTypes, WorkerTypes
      <4>3. attempt[w] = 0
        BY <1>4 DEF Receive, Stations
      <4>4. /\ at'[w] = "forward" /\ job'[w] = Head(userCh)
            /\ \A x \in Workers \ {w} :
                  at'[x] = at[x] /\ job'[x] = job[x] /\ attempt'[x] = attempt[x]
        BY <4>1 DEF AllTypes, WorkerTypes
      <4>5. Stationed(w)'
        BY <3>1, <4>1, <4>3, <4>4 DEF Stationed
      <4>6. (\A x \in Workers : Stationed(x))'
        BY <4>4, <4>5, OthersStationed, StationParts
      <4>7. Holding'
        BY <2>1, StationParts DEF Holding, producerVars
      <4>8. AllTypes'
        BY <2>1, <2>2, <3>1, <4>2, Untouched DEF AllTypes
      <4>9. Stations'
        BY <4>6, <4>7 DEF Stations, Stationed, Holding
      <4> QED BY <4>8, <4>9
    <3> QED BY <3>2, <3>3
  <2>4. CASE Retire(w) /\ UNCHANGED userCh
    <3>1. GoOn(w, "done")
      BY <2>4 DEF Retire
    <3>2. QueueTypes'
      BY <2>4, Untouched
    <3> QED BY <2>1, <2>2, <3>1, <3>2, WorkerStep
  <2> QED BY <1>4, <2>3, <2>4 DEF Receive
<1>5. ASSUME NEW w \in Workers, Forward(w) PROVE AllTypes' /\ Stations'
  <2>1. PICK answer \in Answers(job[w]) :
          /\ at' = [at EXCEPT ![w] = After(w, answer)]
          /\ copies' = [copies EXCEPT ![job[w]] = IF answer \in {"ok", "lost"} THEN @ + 1 ELSE @]
          /\ lost' = IF answer = "lost" THEN lost \cup {job[w]} ELSE lost
    BY <1>5 DEF Forward
  <2>2. job[w] \in Users /\ attempt[w] < MaxAttempts /\ attempt[w] \in Nat
    <3>1. at[w] = "forward"
      BY <1>5 DEF Forward
    <3>2. job[w] \in Users
      BY <3>1 DEF Stations
    <3>3. attempt[w] < MaxAttempts
      BY <3>1 DEF Stations
    <3>4. attempt[w] \in 0..MaxAttempts
      BY DEF AllTypes, WorkerTypes
    <3> QED BY <3>2, <3>3, <3>4
  <2>3. /\ After(w, answer) \in Verdicts \cup {"backoff"}
        /\ After(w, answer) = "backoff" => attempt[w] + 1 < MaxAttempts
    BY <2>1, <2>2 DEF Answers, After, Verdicts
  <2>4. /\ attempt' = [attempt EXCEPT ![w] = @ + 1]
        /\ late' = [late EXCEPT ![w] = IF cancelled /\ attempt[w] = 0 THEN @ + 1 ELSE @]
        /\ UNCHANGED <<producerVars, mainVars, worldVars, userCh, job, resCh, cancelled,
                       pressed, misjudged, panics, came>>
    BY <1>5 DEF Forward
  <2>5. WorkerTypes'
    <3>1. at' \in [Workers -> Places]
      BY <2>1, <2>3 DEF Places, AllTypes, WorkerTypes
    <3>2. attempt[w] + 1 \in 0..MaxAttempts
      BY <2>2
    <3>3. attempt' \in [Workers -> 0..MaxAttempts]
      BY <2>4, <3>2 DEF AllTypes, WorkerTypes
    <3> QED BY <2>4, <3>1, <3>3 DEF AllTypes, WorkerTypes
  <2>6. HistoryTypes'
    <3>1. copies' \in [Users -> Nat]
      BY <2>1, <2>2 DEF AllTypes, HistoryTypes
    <3>2. lost' \subseteq Users
      BY <2>1, <2>2 DEF AllTypes, HistoryTypes
    <3>3. late' \in [Workers -> Nat]
      BY <2>4 DEF AllTypes, HistoryTypes
    <3> QED BY <2>4, <3>1, <3>2, <3>3 DEF AllTypes, HistoryTypes
  <2>7. AllTypes'
    BY <2>4, <2>5, <2>6, Untouched DEF AllTypes
  <2>8. /\ at'[w] = After(w, answer) /\ attempt'[w] = attempt[w] + 1 /\ job' = job
        /\ \A x \in Workers \ {w} :
              at'[x] = at[x] /\ job'[x] = job[x] /\ attempt'[x] = attempt[x]
    BY <2>1, <2>4 DEF AllTypes, WorkerTypes
  <2>9. Stationed(w)'
    BY <2>2, <2>3, <2>8 DEF Stationed, Verdicts
  <2>10. (\A x \in Workers : Stationed(x))'
    BY <2>8, <2>9, OthersStationed, StationParts
  <2>11. Holding'
    BY <2>4, StationParts DEF Holding, producerVars
  <2>12. Stations'
    BY <2>10, <2>11 DEF Stations, Stationed, Holding
  <2> QED BY <2>7, <2>12
<1>6. ASSUME NEW w \in Workers, Panic(w) PROVE AllTypes' /\ Stations'
  <2>1. GoOn(w, "done")
    BY <1>6 DEF Panic, Retire
  <2>2. HistoryTypes'
    BY <1>6 DEF Panic, AllTypes, HistoryTypes
  <2>3. UNCHANGED <<producerVars, mainVars, worldVars, userCh, resCh, cancelled>>
    BY <1>6 DEF Panic
  <2>4. QueueTypes' /\ ReportTypes'
    BY <2>3, Untouched
  <2> QED BY <2>1, <2>2, <2>3, <2>4, WorkerStep
<1>7. ASSUME NEW w \in Workers, Backoff(w) PROVE AllTypes' /\ Stations'
  <2>1. UNCHANGED <<producerVars, mainVars, worldVars, userCh, resCh, cancelled, history>>
    BY <1>7 DEF Backoff
  <2>2. QueueTypes' /\ ReportTypes' /\ HistoryTypes'
    BY <2>1, Untouched
  <2>3. CASE at' = [at EXCEPT ![w] = "forward"] /\ UNCHANGED <<job, attempt>>
    <3>1. WorkerTypes'
      BY <2>3 DEF AllTypes, WorkerTypes, Places
    <3>2. AllTypes'
      BY <2>1, <3>1, Untouched DEF AllTypes
    <3>3. /\ at'[w] = "forward" /\ job' = job /\ attempt' = attempt
          /\ \A x \in Workers \ {w} :
                at'[x] = at[x] /\ job'[x] = job[x] /\ attempt'[x] = attempt[x]
      BY <2>3 DEF AllTypes, WorkerTypes
    <3>4. Stationed(w)'
      BY <1>7, <3>3, StationParts DEF Backoff, Stationed
    <3>5. (\A x \in Workers : Stationed(x))'
      BY <3>3, <3>4, OthersStationed, StationParts
    <3>6. Holding'
      BY <2>1, StationParts DEF Holding, producerVars
    <3>7. Stations'
      BY <3>5, <3>6 DEF Stations, Stationed, Holding
    <3> QED BY <3>2, <3>7
  <2>4. CASE Retire(w)
    <3>1. GoOn(w, "done")
      BY <2>4 DEF Retire
    <3> QED BY <2>1, <2>2, <3>1, WorkerStep
  <2> QED BY <1>7, <2>3, <2>4 DEF Backoff
<1>8. ASSUME NEW w \in Workers, Report(w) PROVE AllTypes' /\ Stations'
  <2>1. ReportTypes'
    <3>1. job[w] \in Users /\ at[w] \in Verdicts
      BY <1>8 DEF Report, Verdicts, Stations
    <3> QED BY <1>8, <3>1 DEF Report, AllTypes, ReportTypes
  <2>2. GoOn(w, "delay")
    BY <1>8 DEF Report
  <2>3. UNCHANGED <<producerVars, mainVars, worldVars, userCh, cancelled, history>>
    BY <1>8 DEF Report
  <2>4. QueueTypes' /\ HistoryTypes'
    BY <2>3, Untouched
  <2> QED BY <2>1, <2>2, <2>3, <2>4, WorkerStep
<1>9. ASSUME NEW w \in Workers, Delay(w) PROVE AllTypes' /\ Stations'
  <2>1. PICK p \in {"receive", "delay", "done"} : GoOn(w, p)
    BY <1>9 DEF Delay, Retire
  <2>2. UNCHANGED <<producerVars, mainVars, worldVars, userCh, resCh, cancelled, history>>
    BY <1>9 DEF Delay
  <2>3. QueueTypes' /\ ReportTypes' /\ HistoryTypes'
    BY <2>2, Untouched
  <2> QED BY <2>1, <2>2, <2>3, WorkerStep
\* The rest leaves producer and workers alone.
<1>10. ASSUME MainTypes', ReportTypes', WorldTypes', HistoryTypes', cancelled' \in BOOLEAN,
              UNCHANGED <<producerVars, userCh, at, job, attempt>>
       PROVE  AllTypes' /\ Stations'
  <2>1. Holding'
    BY <1>10, StationParts DEF Holding, producerVars
  <2>2. AllTypes'
    BY <1>10, Untouched DEF AllTypes
  <2> QED BY <1>0, <1>10, <2>1, <2>2
<1>11. CASE Collect
  <2>1. PICK r \in resCh :
          resCh' = resCh \ {r} /\ tally' = [tally EXCEPT ![r.verdict] = @ \cup {r.user}]
    BY <1>11 DEF Collect
  <2>2. r.user \in Users /\ r.verdict \in Verdicts
    BY <2>1 DEF AllTypes, ReportTypes
  <2>3. UNCHANGED <<producerVars, worldVars, userCh, at, job, attempt, main, summary, prune,
                    cancelled, history>>
    BY <1>11 DEF Collect
  <2>4. MainTypes'
    BY <2>1, <2>2, <2>3 DEF AllTypes, MainTypes
  <2>5. ReportTypes'
    BY <2>1 DEF AllTypes, ReportTypes
  <2>6. WorldTypes' /\ HistoryTypes' /\ cancelled' \in BOOLEAN
    BY <2>3, Untouched
  <2> QED BY <1>10, <2>3, <2>4, <2>5, <2>6
<1>12. CASE Drained \/ Summarise \/ Return
  <2>1. UNCHANGED <<producerVars, worldVars, userCh, at, job, attempt, resCh, history>>
    BY <1>12 DEF Drained, Summarise, Return, workerVars
  <2>2. MainTypes'
    BY <1>12 DEF Drained, Summarise, Return, Unreachable, Verdicts, AllTypes, MainTypes
  <2>3. cancelled' \in BOOLEAN
    BY <1>12 DEF Drained, Summarise, Return, AllTypes
  <2>4. ReportTypes' /\ WorldTypes' /\ HistoryTypes'
    BY <2>1, Untouched
  <2> QED BY <1>10, <2>1, <2>2, <2>3, <2>4
<1>13. CASE Prune
  <2>1. UNCHANGED <<producerVars, userCh, at, job, attempt, resCh, cancelled, history>>
    BY <1>13 DEF Prune, workerVars
  <2>2. MainTypes' /\ WorldTypes'
    BY <1>13 DEF Prune, AllTypes, MainTypes, WorldTypes
  <2>3. ReportTypes' /\ HistoryTypes' /\ cancelled' \in BOOLEAN
    BY <2>1, Untouched
  <2> QED BY <1>10, <2>1, <2>2, <2>3
<1>14. CASE PressCancel
  <2>1. UNCHANGED <<producerVars, userCh, at, job, attempt, resCh, worldVars, mainVars>>
    BY <1>14 DEF PressCancel, workerVars
  <2>2. HistoryTypes' /\ cancelled' \in BOOLEAN
    BY <1>14 DEF PressCancel, AllTypes, HistoryTypes
  <2>3. ReportTypes' /\ WorldTypes' /\ MainTypes'
    BY <2>1, Untouched
  <2> QED BY <1>10, <2>1, <2>2, <2>3
<1>15. ASSUME NEW u \in Fickle, ComeBack(u) PROVE AllTypes' /\ Stations'
  <2>1. UNCHANGED <<producerVars, userCh, at, job, attempt, resCh, mainVars, cancelled>>
    BY <1>15 DEF ComeBack, workerVars
  <2>2. WorldTypes'
    BY <1>15 DEF ComeBack, AllTypes, WorldTypes
  <2>3. HistoryTypes'
    BY <1>15 DEF ComeBack, AllTypes, HistoryTypes
  <2>4. ReportTypes' /\ MainTypes' /\ cancelled' \in BOOLEAN
    BY <2>1, Untouched
  <2> QED BY <1>10, <2>1, <2>2, <2>3, <2>4
<1>16. CASE UNCHANGED vars
  <2>1. /\ UNCHANGED <<producerVars, userCh, at, job, attempt, resCh, mainVars, worldVars>>
        /\ UNCHANGED <<cancelled, history>>
    BY <1>16 DEF vars, producerVars, mainVars, worldVars
  <2>2. ReportTypes' /\ WorldTypes' /\ MainTypes' /\ HistoryTypes' /\ cancelled' \in BOOLEAN
    BY <2>1, Untouched
  <2> QED BY <1>10, <2>1, <2>2
<1> QED BY <1>1, <1>2, <1>3, <1>4, <1>5, <1>6, <1>7, <1>8, <1>9, <1>11, <1>12, <1>13, <1>14,
           <1>15, <1>16 DEF Next, Work, Handle, Over

\* What a step that leaves the workers' users alone keeps of Apart and Fresh.
LEMMA ApartKept ==
    ASSUME TypeOK, Stations, Apart, [Next]_vars
    PROVE  Apart'
<1> USE BroadcastAssumption DEF Apart, Stations
<1> USE DEF workerVars, mainVars, worldVars, producerVars, history
<1>1. CASE Fetch
  <2>1. /\ Elems(unseen) = {Head(unseen)} \cup Elems(unseen') /\ Head(unseen) \notin Elems(unseen')
        /\ NoRepeat(unseen') /\ Head(unseen) \in Users
    BY <1>1, TakenFromFront DEF Fetch, TypeOK
  <2>2. next' = Head(unseen) \/ next' = NoUser
    <3>1. next = NoUser
      BY <1>1 DEF Fetch
    <3>2. UNCHANGED next \/ Close \/ next' = Head(unseen)
      <4>1. PICK authorised \in {(Head(unseen) \in Authorised), FALSE} :
              IF ~Addressed(Head(unseen), authorised)
              THEN UNCHANGED <<producer, next, counted>>
              ELSE IF cancelled THEN Close ELSE producer' = "send" /\ next' = Head(unseen)
        BY <1>1 DEF Fetch
      <4>2. CASE UNCHANGED <<producer, next, counted>>
        BY <4>2
      <4> QED BY <4>1, <4>2, Zenon
    <3> QED BY <3>1, <3>2 DEF Close
  <2>3. userCh' = userCh /\ job' = job
    BY <1>1 DEF Fetch
  <2>4. NoRepeat(userCh')
    BY <2>3
  <2>5. \A w \in Workers : job[w] # Head(unseen)
    BY <2>1
  <2>6. Head(unseen) \notin Elems(userCh)
    BY <2>1
  <2>7. ASSUME NEW w \in Workers PROVE job[w] = next' => job[w] = NoUser
    BY <2>2, <2>5
  <2>8. \A u \in Elems(unseen') : u \notin Elems(userCh) /\ u # Head(unseen) /\ u # NoUser
    <3>1. \A u \in Elems(unseen) : u \in Users
      BY ElemsTyped DEF TypeOK
    <3> QED BY <2>1, <3>1
  <2>9. \A u \in Elems(userCh) : u # Head(unseen) /\ u # NoUser
    <3>1. \A u \in Elems(userCh) : u \in Users
      BY ElemsTyped DEF TypeOK
    <3> QED BY <2>6, <3>1
  <2> QED BY <2>1, <2>2, <2>3, <2>4, <2>7, <2>8, <2>9
<1>2. ASSUME UNCHANGED <<unseen, userCh, job>>, next' = next \/ next' = NoUser PROVE Apart'
  <2>1. \A u \in Elems(unseen) \cup Elems(userCh) : u # NoUser
    BY ElemsTyped DEF TypeOK
  <2> QED BY <1>2, <2>1
<1>3. CASE CursorEnds
  BY <1>2, <1>3 DEF CursorEnds, Close
<1>4. CASE Send
  <2>1. CASE Len(userCh) < Buffer /\ userCh' = Append(userCh, next) /\ next' = NoUser
    <3>1. next \in Users /\ next \notin Elems(userCh)
      BY <1>4 DEF Send, TypeOK
    <3>2. NoRepeat(userCh') /\ Elems(userCh') = Elems(userCh) \cup {next}
      BY <2>1, <3>1, PutAtEnd DEF TypeOK
    <3>3. unseen' = unseen /\ job' = job
      BY <1>4 DEF Send
    <3>4. \A u \in Elems(unseen) \cup Elems(userCh) : u # NoUser
      BY ElemsTyped DEF TypeOK
    <3>5. \A w \in Workers : job[w] # next
      BY <3>1
    <3> QED BY <2>1, <3>1, <3>2, <3>3, <3>4, <3>5
  <2>2. CASE UNCHANGED userCh /\ Close
    BY <1>2, <1>4, <2>2 DEF Send, Close
  <2> QED BY <1>4, <2>1, <2>2 DEF Send
<1>5. ASSUME NEW w \in Workers, NEW p, GoOn(w, p), UNCHANGED <<unseen, userCh, next>> PROVE Apart'
  <2>1. job'[w] = NoUser /\ \A x \in Workers \ {w} : job'[x] = job[x]
    BY <1>5 DEF GoOn, TypeOK
  <2>2. \A u \in Elems(unseen) \cup Elems(userCh) : u # NoUser
    BY ElemsTyped DEF TypeOK
  <2> QED BY <1>5, <2>1, <2>2
<1>6. ASSUME NEW w \in Workers, Receive(w) PROVE Apart'
  <2>1. CASE userCh # <<>> /\ userCh' = Tail(userCh) /\ Take(w)
    <3>1. /\ Elems(userCh) = {Head(userCh)} \cup Elems(userCh')
          /\ Head(userCh) \notin Elems(userCh')
          /\ NoRepeat(userCh') /\ Head(userCh) \in Users
      BY <2>1, TakenFromFront DEF TypeOK
    <3>2. /\ job'[w] \in {Head(userCh), NoUser} /\ unseen' = unseen /\ next' = next
          /\ \A x \in Workers \ {w} : job'[x] = job[x]
      <4>1. unseen' = unseen /\ next' = next
        BY <1>6 DEF Receive
      <4>2. \/ job' = [job EXCEPT ![w] = NoUser]
            \/ job' = [job EXCEPT ![w] = Head(userCh)]
        BY <2>1 DEF Take, Retire, GoOn
      <4>3. job \in [Workers -> Users \cup {NoUser}]
        BY DEF TypeOK
      <4> QED BY <4>1, <4>2, <4>3
    <3>3. \A u \in Elems(unseen) \cup Elems(userCh) : u # NoUser
      BY ElemsTyped DEF TypeOK
    <3>4. \A x \in Workers : job[x] # Head(userCh)
      BY <3>1
    <3> QED BY <3>1, <3>2, <3>3, <3>4
  <2>2. CASE Retire(w) /\ UNCHANGED userCh
    BY <1>5, <1>6, <2>2 DEF Receive, Retire
  <2> QED BY <1>6, <2>1, <2>2 DEF Receive
<1>7. ASSUME NEW w \in Workers, Forward(w) PROVE Apart'
  BY <1>2, <1>7 DEF Forward
<1>8. ASSUME NEW w \in Workers, Panic(w) PROVE Apart'
  BY <1>5, <1>8 DEF Panic, Retire
<1>9. ASSUME NEW w \in Workers, Backoff(w) PROVE Apart'
  BY <1>2, <1>5, <1>9 DEF Backoff, Retire
<1>10. ASSUME NEW w \in Workers, Report(w) PROVE Apart'
  BY <1>5, <1>10 DEF Report
<1>11. ASSUME NEW w \in Workers, Delay(w) PROVE Apart'
  BY <1>5, <1>11 DEF Delay, Retire
<1>12. CASE Collect \/ Drained \/ Summarise \/ Return
  BY <1>2, <1>12 DEF Collect, Drained, Summarise, Return
<1>13. CASE Prune \/ PressCancel
  BY <1>2, <1>13 DEF Prune, PressCancel
<1>14. ASSUME NEW u \in Fickle, ComeBack(u) PROVE Apart'
  BY <1>2, <1>14 DEF ComeBack
<1>15. CASE UNCHANGED vars
  BY <1>2, <1>15 DEF vars
<1> QED BY <1>1, <1>3, <1>4, <1>6, <1>7, <1>8, <1>9, <1>10, <1>11, <1>12, <1>13, <1>14, <1>15
        DEF Next, Work, Handle, Over

LEMMA FreshKept ==
    ASSUME TypeOK, Stations, Apart, Fresh, [Next]_vars
    PROVE  Fresh'
<1> USE BroadcastAssumption DEF Fresh, OneCopyEach
<1> USE DEF workerVars, mainVars, worldVars, producerVars, history
<1>0. WorkerTypes
  BY TypeParts DEF AllTypes
\* Nothing is delivered, nobody is added to those who wait, and no worker begins.
<1>1. ASSUME UNCHANGED <<copies, lost>>,
             Elems(unseen') \cup Elems(userCh') \cup ({next'} \cap Users)
                \subseteq Elems(unseen) \cup Elems(userCh) \cup ({next} \cap Users),
             \A w \in Workers : at'[w] \in {"forward", "backoff"} =>
                at[w] \in {"forward", "backoff"} /\ job'[w] = job[w]
      PROVE  Fresh'
  BY <1>1
<1>2. CASE Fetch
  <2>1. /\ Elems(unseen) = {Head(unseen)} \cup Elems(unseen')
        /\ Head(unseen) \in Users
    BY <1>2, TakenFromFront DEF Fetch, TypeOK, Apart
  <2>2. next' \in {Head(unseen), next, NoUser}
    <3>1. PICK authorised \in {(Head(unseen) \in Authorised), FALSE} :
            IF ~Addressed(Head(unseen), authorised)
            THEN UNCHANGED <<producer, next, counted>>
            ELSE IF cancelled THEN Close ELSE producer' = "send" /\ next' = Head(unseen)
      BY <1>2 DEF Fetch
    <3>2. CASE UNCHANGED <<producer, next, counted>>
      BY <3>2
    <3>3. next' = next \/ Close \/ next' = Head(unseen)
      BY <3>1, <3>2, Zenon
    <3> QED BY <3>3 DEF Close
  <2>3. UNCHANGED <<userCh, at, job, copies, lost>>
    BY <1>2 DEF Fetch
  <2> QED BY <1>1, <2>1, <2>2, <2>3
<1>3. CASE CursorEnds
  BY <1>1, <1>3 DEF CursorEnds, Close
<1>4. CASE Send
  <2>1. CASE Len(userCh) < Buffer /\ userCh' = Append(userCh, next) /\ next' = NoUser
    <3>1. next \in Users /\ next \notin Elems(userCh)
      BY <1>4 DEF Send, TypeOK, Stations, Apart
    <3>2. Elems(userCh') = Elems(userCh) \cup {next}
      BY <2>1, <3>1, PutAtEnd DEF TypeOK, Apart
    <3>3. UNCHANGED <<unseen, at, job, copies, lost>>
      BY <1>4 DEF Send
    <3> QED BY <1>1, <2>1, <3>1, <3>2, <3>3
  <2>2. CASE UNCHANGED userCh /\ Close
    BY <1>1, <1>4, <2>2 DEF Send, Close
  <2> QED BY <1>4, <2>1, <2>2 DEF Send
<1>5. ASSUME NEW w \in Workers, NEW p \in {"receive", "delay", "done"}, GoOn(w, p),
             UNCHANGED <<unseen, userCh, next, copies, lost>>
      PROVE  Fresh'
  <2>1. /\ at'[w] = p
        /\ \A x \in Workers \ {w} : at'[x] = at[x] /\ job'[x] = job[x]
    BY <1>0, <1>5, GoneOn
  <2> QED BY <1>1, <1>5, <2>1
<1>6. ASSUME NEW w \in Workers, Receive(w) PROVE Fresh'
  <2>1. CASE userCh # <<>> /\ userCh' = Tail(userCh) /\ Take(w)
    <3>1. Elems(userCh) = {Head(userCh)} \cup Elems(userCh') /\ Head(userCh) \in Users
      BY <2>1, TakenFromFront DEF TypeOK, Apart
    <3>2. UNCHANGED <<unseen, next, copies, lost>>
      BY <1>6 DEF Receive
    <3>3. CASE cancelled
      <4>1. GoOn(w, "done")
        BY <2>1, <3>3 DEF Take, Retire
      <4>2. /\ at'[w] = "done"
            /\ \A x \in Workers \ {w} : at'[x] = at[x] /\ job'[x] = job[x]
        BY <1>0, <4>1, GoneOn
      <4> QED BY <1>1, <3>1, <3>2, <4>2
    <3>4. CASE ~cancelled
      <4>1. /\ job'[w] = Head(userCh)
            /\ \A x \in Workers \ {w} : at'[x] = at[x] /\ job'[x] = job[x]
        BY <2>1, <3>4 DEF Take, TypeOK
      <4>2. copies[Head(userCh)] = 0 /\ Head(userCh) \notin lost
        BY <3>1
      <4> QED BY <3>1, <3>2, <4>1, <4>2
    <3> QED BY <3>3, <3>4
  <2>2. CASE Retire(w) /\ UNCHANGED userCh
    BY <1>5, <1>6, <2>2 DEF Receive, Retire
  <2> QED BY <1>6, <2>1, <2>2 DEF Receive
<1>7. ASSUME NEW w \in Workers, Forward(w) PROVE Fresh'
  <2>1. PICK answer \in Answers(job[w]) :
          /\ at' = [at EXCEPT ![w] = After(w, answer)]
          /\ copies' = [copies EXCEPT ![job[w]] = IF answer \in {"ok", "lost"} THEN @ + 1 ELSE @]
          /\ lost' = IF answer = "lost" THEN lost \cup {job[w]} ELSE lost
    BY <1>7 DEF Forward
  <2>2. job[w] \in Users /\ job[w] # NoUser
    BY <1>7 DEF Forward, Stations
  <2>3. UNCHANGED <<unseen, userCh, next, job>>
    BY <1>7 DEF Forward
  <2>4. copies[job[w]] = IF job[w] \in lost THEN 1 ELSE 0
    BY <1>7 DEF Forward
  <2>5. /\ answer = "ok" => After(w, answer) = "ok"
        /\ answer = "lost" => job[w] \notin lost
    BY <2>1 DEF Answers, After
  <2>6. \A u \in Users \ {job[w]} : copies'[u] = copies[u] /\ (u \in lost' <=> u \in lost)
    BY <2>1, <2>2 DEF TypeOK
  <2>7. copies'[job[w]] = IF answer \in {"ok", "lost"} THEN copies[job[w]] + 1 ELSE copies[job[w]]
    BY <2>1, <2>2 DEF TypeOK
  <2>8. at'[w] \in {"forward", "backoff"} => copies'[job[w]] = IF job[w] \in lost' THEN 1 ELSE 0
    <3>1. at'[w] = After(w, answer)
      BY <2>1 DEF TypeOK
    <3>2. CASE answer = "ok"
      BY <2>5, <3>1, <3>2
    <3>3. CASE answer = "lost"
      BY <2>1, <2>4, <2>5, <2>7, <3>3
    <3>4. CASE answer \notin {"ok", "lost"}
      BY <2>1, <2>4, <2>7, <3>4
    <3> QED BY <3>2, <3>3, <3>4
  <2>9. copies'[job[w]] <= IF job[w] \in lost' THEN 2 ELSE 1
    BY <2>1, <2>4, <2>7
  <2>10. OneCopyEach'
    BY <2>6, <2>9
  <2>11. \A u \in Elems(unseen) \cup Elems(userCh) \cup ({next} \cap Users) :
            u \in Users /\ u # job[w]
    <3>1. Elems(unseen) \cup Elems(userCh) \subseteq Users
      BY ElemsTyped DEF TypeOK
    <3> QED BY <2>2, <3>1 DEF Apart
  <2>12. ASSUME NEW x \in Workers, at'[x] \in {"forward", "backoff"}
         PROVE  copies'[job[x]] = IF job[x] \in lost' THEN 1 ELSE 0
    <3>1. CASE x = w
      BY <2>8, <2>12, <3>1
    <3>2. CASE x # w
      <4>1. at[x] = at'[x] /\ job[x] # job[w]
        BY <2>1, <2>2, <3>2 DEF TypeOK, Apart
      <4>2. job[x] \in Users
        BY <2>12, <4>1 DEF Stations
      <4> QED BY <2>6, <2>12, <4>1, <4>2
    <3> QED BY <3>1, <3>2
  <2> QED BY <2>3, <2>6, <2>10, <2>11, <2>12
<1>8. ASSUME NEW w \in Workers, Panic(w) PROVE Fresh'
  BY <1>5, <1>8 DEF Panic, Retire
<1>9. ASSUME NEW w \in Workers, Backoff(w) PROVE Fresh'
  <2>1. CASE at' = [at EXCEPT ![w] = "forward"] /\ UNCHANGED <<job, attempt>>
    BY <1>1, <1>9, <2>1 DEF Backoff, TypeOK
  <2>2. CASE Retire(w)
    BY <1>5, <1>9, <2>2 DEF Backoff, Retire
  <2> QED BY <1>9, <2>1, <2>2 DEF Backoff
<1>10. ASSUME NEW w \in Workers, Report(w) PROVE Fresh'
  BY <1>5, <1>10 DEF Report
<1>11. ASSUME NEW w \in Workers, Delay(w) PROVE Fresh'
  BY <1>5, <1>11 DEF Delay, Retire
<1>12. CASE Collect \/ Drained \/ Summarise \/ Return
  BY <1>1, <1>12 DEF Collect, Drained, Summarise, Return
<1>13. CASE Prune \/ PressCancel
  BY <1>1, <1>13 DEF Prune, PressCancel
<1>14. ASSUME NEW u \in Fickle, ComeBack(u) PROVE Fresh'
  BY <1>1, <1>14 DEF ComeBack
<1>15. CASE UNCHANGED vars
  BY <1>1, <1>15 DEF vars
<1> QED BY <1>2, <1>3, <1>4, <1>6, <1>7, <1>8, <1>9, <1>10, <1>11, <1>12, <1>13, <1>14, <1>15
        DEF Next, Work, Handle, Over

LEMMA PunctualKept ==
    ASSUME TypeOK, Stations, Punctual, [Next]_vars
    PROVE  Punctual'
<1> USE DEF Punctual, CancelStopsWorkers
<1> USE DEF workerVars, mainVars, worldVars, producerVars, history
<1>0. WorkerTypes
  BY TypeParts DEF AllTypes
<1>1. ASSUME UNCHANGED late, cancelled => cancelled', pressed' => cancelled',
             \A w \in Workers : at'[w] = "forward" /\ attempt'[w] = 0 =>
                ~cancelled \/ (at[w] = "forward" /\ attempt[w] = 0)
      PROVE  Punctual'
  BY <1>1 DEF TypeOK
<1>2. CASE Fetch \/ CursorEnds \/ Send \/ Collect \/ Drained \/ Summarise \/ Prune
  BY <1>1, <1>2 DEF Fetch, CursorEnds, Send, Collect, Drained, Summarise, Prune
<1>3. CASE Return \/ PressCancel
  BY <1>1, <1>3 DEF Return, PressCancel
<1>4. ASSUME NEW w \in Workers, NEW p \in {"receive", "delay", "done"}, GoOn(w, p),
             UNCHANGED <<late, cancelled, pressed>>
      PROVE  Punctual'
  <2>1. /\ at'[w] = p
        /\ \A x \in Workers \ {w} : at'[x] = at[x] /\ attempt'[x] = attempt[x]
    BY <1>0, <1>4, GoneOn
  <2> QED BY <1>1, <1>4, <2>1
<1>5. ASSUME NEW w \in Workers, Receive(w) PROVE Punctual'
  <2>1. UNCHANGED <<late, cancelled, pressed>>
    BY <1>5 DEF Receive
  <2>2. CASE Retire(w)
    BY <1>4, <2>1, <2>2 DEF Retire
  <2>3. CASE ~cancelled
    BY <1>1, <2>1, <2>3
  <2> QED BY <1>5, <2>2, <2>3 DEF Receive, Take
<1>6. ASSUME NEW w \in Workers, Forward(w) PROVE Punctual'
  <2>1. UNCHANGED <<cancelled, pressed>> /\ attempt' = [attempt EXCEPT ![w] = @ + 1]
        /\ late' = [late EXCEPT ![w] = IF cancelled /\ attempt[w] = 0 THEN @ + 1 ELSE @]
        /\ at[w] = "forward"
    BY <1>6 DEF Forward
  <2>2. PICK answer \in Answers(job[w]) : at' = [at EXCEPT ![w] = After(w, answer)]
    BY <1>6 DEF Forward
  <2>3. /\ attempt'[w] = attempt[w] + 1 /\ attempt[w] \in Nat
        /\ \A x \in Workers \ {w} : attempt'[x] = attempt[x]
    BY <2>1 DEF TypeOK
  <2>4. \A x \in Workers \ {w} : late'[x] = late[x] /\ at'[x] = at[x]
    BY <2>1, <2>2 DEF TypeOK
  <2>5. late'[w] = IF cancelled /\ attempt[w] = 0 THEN late[w] + 1 ELSE late[w]
    BY <2>1 DEF TypeOK
  <2>6. late[w] \in Nat /\ (attempt[w] = 0 => late[w] = 0)
    BY <2>1 DEF TypeOK
  <2>7. late'[w] <= 1 /\ (~cancelled => late'[w] = 0)
    BY <2>5, <2>6
  <2> QED BY <2>1, <2>3, <2>4, <2>7
<1>7. ASSUME NEW w \in Workers, Panic(w) PROVE Punctual'
  BY <1>4, <1>7 DEF Panic, Retire
<1>8. ASSUME NEW w \in Workers, Backoff(w) PROVE Punctual'
  <2>1. CASE at' = [at EXCEPT ![w] = "forward"] /\ UNCHANGED <<job, attempt>>
    <3>1. attempt[w] # 0
      BY <1>8 DEF Backoff, Stations, TypeOK
    <3> QED BY <1>1, <1>8, <2>1, <3>1 DEF Backoff, TypeOK
  <2>2. CASE Retire(w)
    BY <1>4, <1>8, <2>2 DEF Backoff, Retire
  <2> QED BY <1>8, <2>1, <2>2 DEF Backoff
<1>9. ASSUME NEW w \in Workers, Report(w) PROVE Punctual'
  BY <1>4, <1>9 DEF Report
<1>10. ASSUME NEW w \in Workers, Delay(w) PROVE Punctual'
  BY <1>4, <1>10 DEF Delay, Retire
<1>11. ASSUME NEW u \in Fickle, ComeBack(u) PROVE Punctual'
  BY <1>1, <1>11 DEF ComeBack
<1>12. CASE UNCHANGED vars
  BY <1>1, <1>12 DEF vars
<1> QED BY <1>2, <1>3, <1>5, <1>6, <1>7, <1>8, <1>9, <1>10, <1>11, <1>12
        DEF Next, Work, Handle, Over

LEMMA JustifiedKept ==
    ASSUME TypeOK, Stations, Justified, [Next]_vars
    PROVE  Justified'
<1> USE DEF Justified, OnlyAwayArePruned
<1> USE DEF workerVars, mainVars, worldVars, producerVars, history
<1>0. WorkerTypes
  BY TypeParts DEF AllTypes
<1>1. ASSUME UNCHANGED <<users, away, came, tally, prune>>, resCh' \subseteq resCh,
             \A w \in Workers : at'[w] = "unreachable" => at[w] = "unreachable" /\ job'[w] = job[w]
      PROVE  Justified'
  BY <1>1
<1>2. CASE Fetch \/ CursorEnds \/ Send
  BY <1>1, <1>2 DEF Fetch, CursorEnds, Send
<1>3. ASSUME NEW w \in Workers, NEW p \in {"receive", "delay", "done"}, GoOn(w, p)
      PROVE  \A x \in Workers : at'[x] = "unreachable" => at[x] = "unreachable" /\ job'[x] = job[x]
  <2>1. /\ at'[w] = p
        /\ \A x \in Workers \ {w} : at'[x] = at[x] /\ job'[x] = job[x]
    BY <1>0, <1>3, GoneOn
  <2> QED BY <2>1
<1>4. ASSUME NEW w \in Workers, Receive(w) PROVE Justified'
  <2>1. UNCHANGED <<users, away, came, tally, prune, resCh>>
    BY <1>4 DEF Receive
  <2>2. CASE Retire(w)
    BY <1>1, <1>3, <2>1, <2>2 DEF Retire
  <2>3. CASE at' = [at EXCEPT ![w] = "forward"] /\ job' = [job EXCEPT ![w] = Head(userCh)]
    <3>1. \A x \in Workers : at'[x] = "unreachable" => at[x] = "unreachable" /\ job'[x] = job[x]
      BY <2>3 DEF TypeOK
    <3> QED BY <1>1, <2>1, <3>1
  <2> QED BY <1>4, <2>2, <2>3 DEF Receive, Take
<1>5. ASSUME NEW w \in Workers, Forward(w) PROVE Justified'
  <2>1. PICK answer \in Answers(job[w]) : at' = [at EXCEPT ![w] = After(w, answer)]
    BY <1>5 DEF Forward
  <2>2. UNCHANGED <<users, away, came, tally, prune, resCh, job>>
    BY <1>5 DEF Forward
  <2>3. After(w, answer) = "unreachable" => answer = "unreachable"
    BY <2>1 DEF After, Answers
  <2>4. answer = "unreachable" => job[w] \in away
    BY <2>1 DEF Answers
  <2>5. \A x \in Workers : at'[x] = IF x = w THEN After(w, answer) ELSE at[x]
    BY <2>1 DEF TypeOK
  <2> QED BY <2>2, <2>3, <2>4, <2>5
<1>6. ASSUME NEW w \in Workers, Panic(w) PROVE Justified'
  BY <1>1, <1>3, <1>6 DEF Panic, Retire
<1>7. ASSUME NEW w \in Workers, Backoff(w) PROVE Justified'
  <2>1. CASE at' = [at EXCEPT ![w] = "forward"] /\ UNCHANGED <<job, attempt>>
    BY <1>1, <1>7, <2>1 DEF Backoff, TypeOK
  <2>2. CASE Retire(w)
    BY <1>1, <1>3, <1>7, <2>2 DEF Backoff, Retire
  <2> QED BY <1>7, <2>1, <2>2 DEF Backoff
<1>8. ASSUME NEW w \in Workers, Report(w) PROVE Justified'
  <2>1. resCh' = resCh \cup {[user |-> job[w], verdict |-> at[w]]}
    BY <1>8 DEF Report
  <2>2. UNCHANGED <<users, away, came, tally, prune>>
    BY <1>8 DEF Report
  <2>3. \A r \in resCh' : r.verdict = "unreachable" => r.user \in away \cup came
    BY <2>1
  <2>4. \A x \in Workers : at'[x] = "unreachable" => at[x] = "unreachable" /\ job'[x] = job[x]
    BY <1>3, <1>8 DEF Report
  <2> QED BY <2>2, <2>3, <2>4
<1>9. ASSUME NEW w \in Workers, Delay(w) PROVE Justified'
  BY <1>1, <1>3, <1>9 DEF Delay, Retire
<1>10. CASE Collect
  <2>1. PICK r \in resCh :
          resCh' = resCh \ {r} /\ tally' = [tally EXCEPT ![r.verdict] = @ \cup {r.user}]
    BY <1>10 DEF Collect
  <2>2. r.verdict \in Verdicts
    BY <2>1 DEF TypeOK
  <2>3. tally'["unreachable"] \subseteq away \cup came
    BY <2>1, <2>2 DEF TypeOK, Verdicts
  <2>4. UNCHANGED <<users, away, came, prune, at, job>>
    BY <1>10 DEF Collect
  <2> QED BY <2>1, <2>3, <2>4
<1>11. CASE Drained
  BY <1>11 DEF Drained, Unreachable
<1>12. CASE Summarise \/ Return \/ PressCancel
  BY <1>1, <1>12 DEF Summarise, Return, PressCancel
<1>13. CASE Prune
  BY <1>13 DEF Prune
<1>14. ASSUME NEW u \in Fickle, ComeBack(u) PROVE Justified'
  <2>1. away' \cup came' = away \cup came /\ users' = users \cup {u}
    BY <1>14 DEF ComeBack
  <2>2. UNCHANGED <<tally, prune, resCh, at, job>>
    BY <1>14 DEF ComeBack
  <2> QED BY <2>1, <2>2
<1>15. CASE UNCHANGED vars
  BY <1>1, <1>15 DEF vars
<1> QED BY <1>2, <1>4, <1>5, <1>6, <1>7, <1>8, <1>9, <1>10, <1>11, <1>12, <1>13, <1>14, <1>15
        DEF Next, Work, Handle, Over

-----------------------------------------------------------------------------
(* The count.                                                               *)

\* The users who have been counted and are on their way, or have been decided on.
Held(u) ==
    \/ u = next
    \/ u \in Elems(userCh)
    \/ \E w \in Workers : job[w] = u
    \/ \E r \in resCh : r.user = u
    \/ u \in Decided

\* Nobody pressed Cancel and no worker panicked.
Gently == ~pressed /\ panics = 0

\* Whoever is held has been counted, and of those counted none is dropped but after
\* the press, or by a panic.
Accounted ==
    /\ \A u \in Users : Held(u) => u \in counted
    /\ Gently => \A u \in counted : Held(u)

\* Counted are the users whom the mode addresses, of those the cursor has returned.
Seen ==
    ~misjudged =>
       counted = {u \in Users : u \notin Elems(unseen) /\ Addressed(u, u \in Authorised)}

\* A worker that has returned has seen the end of the channel, and the handler goes
\* on to the summary when all of them have and their reports are read.
Ended ==
    /\ cancelled => pressed \/ main = "done"
    /\ Gently /\ (\E w \in Workers : at[w] = "done") => producer = "done" /\ userCh = <<>>
    /\ main # "collect" => ReportsEnd
    /\ summary # "none" => main # "collect"

\* "ok" is said of none but those who have the message.
Delivered ==
    /\ \A w \in Workers : at[w] = "ok" => copies[job[w]] > 0
    /\ \A r \in resCh : r.verdict = "ok" => copies[r.user] > 0
    /\ \A u \in tally["ok"] : copies[u] > 0

\* What "cancelled" admits.
Blamed == summary = "cancelled" => ~Gently

Count == Accounted /\ Seen /\ Ended /\ Delivered /\ Blamed

LEMMA CountInit == Init => Count
<1> SUFFICES ASSUME Init PROVE Count
  OBVIOUS
<1> USE BroadcastAssumption DEF Init
<1>1. Elems(userCh) = {} /\ Decided = {}
  BY DEF Elems, Decided, Verdicts
<1>2. Accounted
  BY <1>1 DEF Accounted, Held
<1>3. Elems(unseen) = Users
  BY DEF Elems
<1>4. Seen
  BY <1>3 DEF Seen
<1>5. Ended /\ Delivered /\ Blamed
  BY DEF Ended, Delivered, Blamed, Verdicts
<1> QED BY <1>2, <1>4, <1>5 DEF Count

\* Fetch, without the choice it makes.
LEMMA FetchStep ==
    ASSUME TypeOK, NoRepeat(unseen), Fetch
    PROVE  /\ producer = "fetch" /\ Head(unseen) \in Users
           /\ Elems(unseen) = {Head(unseen)} \cup Elems(unseen')
           /\ Head(unseen) \notin Elems(unseen')
           /\ misjudged => misjudged'
           /\ \/ UNCHANGED <<producer, next, counted>>
              \/ /\ counted' = counted \cup {Head(unseen)}
                 /\ cancelled => Close
                 /\ ~cancelled => producer' = "send" /\ next' = Head(unseen)
           /\ ~misjudged' =>
                 IF Addressed(Head(unseen), Head(unseen) \in Authorised)
                 THEN counted' = counted \cup {Head(unseen)}
                 ELSE counted' = counted
           /\ UNCHANGED <<at, job, attempt, resCh, mainVars, worldVars, userCh, cancelled,
                          copies, lost, pressed, panics, came, late>>
<1> DEFINE u == Head(unseen)
<1>1. PICK authorised \in {(u \in Authorised), FALSE} :
        /\ misjudged' = (misjudged \/ authorised # (u \in Authorised))
        /\ IF ~Addressed(u, authorised)
           THEN UNCHANGED <<producer, next, counted>>
           ELSE /\ counted' = counted \cup {u}
                /\ IF cancelled THEN Close ELSE producer' = "send" /\ next' = u
  BY DEF Fetch
<1>2. ~misjudged' => authorised = (u \in Authorised)
  BY <1>1, Zenon
<1>3. CASE Addressed(u, authorised)
  <2>1. /\ counted' = counted \cup {u}
        /\ cancelled => Close
        /\ ~cancelled => producer' = "send" /\ next' = u
    BY <1>1, <1>3, Zenon
  <2>2. ~misjudged' => Addressed(u, u \in Authorised)
    BY <1>2, <1>3, Zenon
  <2>3. ~misjudged' => IF Addressed(u, u \in Authorised) THEN counted' = counted \cup {u} ELSE counted' = counted
    BY <2>1, <2>2, Zenon
  <2> QED BY <1>1, <2>1, <2>3, TakenFromFront DEF Fetch, TypeOK, workerVars
<1>4. CASE ~Addressed(u, authorised)
  <2>1. UNCHANGED <<producer, next, counted>>
    BY <1>1, <1>4, Zenon
  <2>2. ~misjudged' => ~Addressed(u, u \in Authorised)
    BY <1>2, <1>4, Zenon
  <2>3. ~misjudged' => IF Addressed(u, u \in Authorised) THEN counted' = counted \cup {u} ELSE counted' = counted
    BY <2>1, <2>2, Zenon
  <2> QED BY <1>1, <2>1, <2>3, TakenFromFront DEF Fetch, TypeOK, workerVars
<1> QED BY <1>3, <1>4

\* A worker's steps, as far as the count goes: it comes by the first user of the
\* channel, keeps the one it has, or is through with it.
LEMMA WorkStep ==
    ASSUME TypeOK, Stations, NoRepeat(userCh), NEW w \in Workers, Work(w)
    PROVE  /\ UNCHANGED <<producerVars, mainVars, worldVars, cancelled, pressed, misjudged, came>>
           /\ \A x \in Workers \ {w} : at'[x] = at[x] /\ job'[x] = job[x]
           /\ at[w] # "done"
           /\ panics' \in {panics, panics + 1}
           /\ \A u \in Users : copies[u] > 0 => copies'[u] > 0
           /\ \/ /\ userCh # <<>> /\ Head(userCh) \in Users /\ job[w] = NoUser
                 /\ Elems(userCh) = {Head(userCh)} \cup Elems(userCh') /\ resCh' = resCh
                 /\ \/ at'[w] = "done" /\ job'[w] = NoUser /\ cancelled
                    \/ at'[w] = "forward" /\ job'[w] = Head(userCh)
              \/ /\ at'[w] = "done" /\ job'[w] = NoUser /\ job[w] = NoUser
                 /\ userCh = <<>> /\ producer = "done" /\ UNCHANGED <<userCh, resCh>>
              \/ /\ at'[w] \notin {"done", "ok"} /\ job'[w] = job[w] /\ UNCHANGED <<userCh, resCh>>
              \/ /\ at'[w] = "ok" /\ job'[w] = job[w] /\ UNCHANGED <<userCh, resCh>>
                 /\ job[w] \in Users /\ copies'[job[w]] > 0
              \/ /\ at'[w] = "done" /\ job'[w] = NoUser /\ UNCHANGED <<userCh, resCh>>
                 /\ cancelled \/ panics' > 0
              \/ /\ at'[w] \notin {"done", "ok"} /\ job'[w] = NoUser /\ UNCHANGED userCh
                 /\ job[w] \in Users /\ at[w] \in Verdicts
                 /\ resCh' = resCh \cup {[user |-> job[w], verdict |-> at[w]]}
<1> USE DEF workerVars, mainVars, worldVars, producerVars, history
<1>0. WorkerTypes
  BY TypeParts DEF AllTypes
<1>1. ASSUME NEW p \in {"receive", "delay", "done"}, GoOn(w, p)
      PROVE  /\ at'[w] = p /\ job'[w] = NoUser
             /\ \A x \in Workers \ {w} : at'[x] = at[x] /\ job'[x] = job[x]
  BY <1>0, <1>1, GoneOn
<1>2. CASE Receive(w)
  <2>1. /\ UNCHANGED <<producerVars, mainVars, worldVars, resCh, cancelled, history>>
        /\ at[w] = "receive"
    BY <1>2 DEF Receive
  <2>2. job[w] = NoUser
    BY <2>1 DEF Stations
  <2>3. CASE userCh # <<>> /\ userCh' = Tail(userCh) /\ Take(w)
    <3>1. Elems(userCh) = {Head(userCh)} \cup Elems(userCh') /\ Head(userCh) \in Users
      BY <2>3, TakenFromFront DEF TypeOK
    <3>2. CASE cancelled
      BY <1>1, <2>1, <2>2, <2>3, <3>1, <3>2 DEF Take, Retire
    <3>3. CASE ~cancelled
      <4>1. /\ at'[w] = "forward" /\ job'[w] = Head(userCh)
            /\ \A x \in Workers \ {w} : at'[x] = at[x] /\ job'[x] = job[x]
        BY <2>3, <3>3 DEF Take, TypeOK
      <4> QED BY <2>1, <2>2, <2>3, <3>1, <4>1
    <3> QED BY <3>2, <3>3
  <2>4. CASE userCh = <<>> /\ producer = "done" /\ Retire(w) /\ UNCHANGED userCh
    BY <1>1, <2>1, <2>2, <2>4 DEF Retire
  <2> QED BY <1>2, <2>3, <2>4 DEF Receive
<1>3. CASE Forward(w)
  <2>1. PICK answer \in Answers(job[w]) :
          /\ at' = [at EXCEPT ![w] = After(w, answer)]
          /\ copies' = [copies EXCEPT ![job[w]] = IF answer \in {"ok", "lost"} THEN @ + 1 ELSE @]
    BY <1>3 DEF Forward
  <2>2. job[w] \in Users /\ at[w] = "forward"
    BY <1>3 DEF Forward, Stations
  <2>3. UNCHANGED <<producerVars, mainVars, worldVars, userCh, job, resCh, cancelled,
                    pressed, misjudged, panics, came>>
    BY <1>3 DEF Forward
  <2>4. /\ answer = "ok" <=> After(w, answer) = "ok"
        /\ After(w, answer) # "done"
    BY <2>1 DEF After, Answers
  <2>5. /\ copies \in [Users -> Nat]
        /\ \A x \in Workers \ {w} : at'[x] = at[x]
        /\ at'[w] = After(w, answer)
    BY <2>1 DEF TypeOK
  <2>6. \A u \in Users : copies[u] > 0 => copies'[u] > 0
    BY <2>1, <2>5
  <2>7. answer = "ok" => copies'[job[w]] > 0
    BY <2>1, <2>2, <2>5
  <2>8. CASE answer = "ok"
    BY <2>2, <2>3, <2>4, <2>5, <2>6, <2>7, <2>8
  <2>9. CASE answer # "ok"
    BY <2>2, <2>3, <2>4, <2>5, <2>6, <2>9
  <2> QED BY <2>8, <2>9
<1>4. CASE Panic(w)
  <2>1. panics' > 0 /\ panics' = panics + 1
    BY <1>4 DEF Panic, TypeOK
  <2> QED BY <1>1, <1>4, <2>1 DEF Panic, Retire
<1>5. CASE Backoff(w)
  <2>1. CASE at' = [at EXCEPT ![w] = "forward"] /\ UNCHANGED <<job, attempt>>
    BY <1>5, <2>1 DEF Backoff, TypeOK
  <2>2. CASE cancelled /\ Retire(w)
    BY <1>1, <1>5, <2>2 DEF Backoff, Retire
  <2> QED BY <1>5, <2>1, <2>2 DEF Backoff
<1>6. CASE Report(w)
  <2>1. job[w] \in Users /\ at[w] # "done"
    BY <1>6 DEF Report, Verdicts, Stations
  <2> QED BY <1>1, <1>6, <2>1 DEF Report
<1>7. CASE Delay(w)
  <2>1. job[w] = NoUser /\ at[w] = "delay"
    BY <1>7 DEF Delay, Stations
  <2> QED BY <1>1, <1>7, <2>1 DEF Delay, Retire
<1> QED BY <1>2, <1>3, <1>4, <1>5, <1>6, <1>7 DEF Work

LEMMA AccountedKept ==
    ASSUME TypeOK, Stations, Apart, Ended, Accounted, [Next]_vars
    PROVE  Accounted'
<1> USE BroadcastAssumption DEF Accounted, Gently
<1> USE DEF workerVars, mainVars, worldVars, producerVars, history
\* Nothing is counted; none is held who was not, and none let go of but as excused.
<1>1. ASSUME counted' = counted, pressed => pressed', panics > 0 => panics' > 0,
             \A u \in Users : Held(u)' => Held(u),
             Gently' => \A u \in Users : Held(u) => Held(u)'
      PROVE  Accounted'
  BY <1>1 DEF TypeOK
<1>2. ASSUME UNCHANGED <<next, userCh, job, resCh, tally>> PROVE \A u : Held(u)' <=> Held(u)
  BY <1>2 DEF Held, Decided
\* The producer drops its user only after the cancellation.
<1>3. ASSUME cancelled, Gently PROVE producer = "done" /\ next = NoUser
  BY <1>3 DEF Ended, ReportsEnd, Stations
<1>4. CASE Fetch
  <2>1. /\ UNCHANGED <<userCh, job, resCh, tally, pressed, panics>>
        /\ producer = "fetch" /\ next = NoUser /\ Head(unseen) \in Users
        /\ \/ UNCHANGED <<producer, next, counted>>
           \/ /\ counted' = counted \cup {Head(unseen)}
              /\ cancelled => Close
              /\ ~cancelled => producer' = "send" /\ next' = Head(unseen)
    BY <1>4, FetchStep DEF Apart, Stations
  <2>2. CASE UNCHANGED <<producer, next, counted>>
    BY <1>1, <1>2, <2>1, <2>2
  <2>3. CASE counted' = counted \cup {Head(unseen)} /\ cancelled /\ Close
    <3>1. ~Gently
      BY <1>3, <2>1, <2>3
    <3>2. \A u \in Users : Held(u)' => Held(u)
      BY <2>1, <2>3 DEF Held, Decided, Close
    <3> QED BY <2>1, <2>3, <3>1, <3>2
  <2>4. CASE counted' = counted \cup {Head(unseen)} /\ next' = Head(unseen)
    <3>1. \A u \in Users : Held(u)' <=> Held(u) \/ u = Head(unseen)
      BY <2>1, <2>4 DEF Held, Decided
    <3> QED BY <2>1, <2>4, <3>1 DEF TypeOK
  <2> QED BY <2>1, <2>2, <2>3, <2>4
<1>5. ASSUME Close, UNCHANGED <<userCh, job, resCh, tally, counted, pressed, panics>>,
             producer # "done", next # NoUser => cancelled
      PROVE  Accounted'
  <2>1. \A u \in Users : Held(u)' => Held(u)
    BY <1>5 DEF Held, Decided, Close
  <2>2. Gently' => \A u \in Users : Held(u) => Held(u)'
    BY <1>3, <1>5 DEF Held, Decided, Close
  <2> QED BY <1>1, <1>5, <2>1, <2>2
<1>6. CASE CursorEnds
  BY <1>5, <1>6 DEF CursorEnds, Stations
<1>7. CASE Send
  <2>1. /\ UNCHANGED <<job, resCh, tally, counted, pressed, panics>>
        /\ producer = "send" /\ next \in Users
    BY <1>7 DEF Send, Stations, TypeOK
  <2>2. CASE userCh' = Append(userCh, next) /\ next' = NoUser
    <3>1. Elems(userCh') = Elems(userCh) \cup {next}
      BY <2>1, <2>2, PutAtEnd DEF TypeOK, Apart
    <3>2. \A u \in Users : Held(u)' <=> Held(u)
      BY <2>1, <2>2, <3>1 DEF Held, Decided
    <3> QED BY <1>1, <2>1, <3>2
  <2>3. CASE cancelled /\ Close /\ UNCHANGED userCh
    BY <1>5, <2>1, <2>3
  <2> QED BY <1>7, <2>2, <2>3 DEF Send
<1>8. ASSUME NEW w \in Workers, Work(w) PROVE Accounted'
  <2>1. /\ UNCHANGED <<counted, next, tally, pressed, cancelled>>
        /\ \A x \in Workers \ {w} : job'[x] = job[x]
        /\ panics' \in {panics, panics + 1} /\ at[w] # "done"
    BY <1>8, WorkStep DEF Apart
  <2>2. panics > 0 => panics' > 0
    BY <2>1 DEF TypeOK
  <2>3. CASE /\ Head(userCh) \in Users /\ job[w] = NoUser
             /\ Elems(userCh) = {Head(userCh)} \cup Elems(userCh') /\ resCh' = resCh
             /\ job'[w] = NoUser /\ cancelled
    <3>1. \A u \in Users : Held(u)' => Held(u)
      BY <2>1, <2>3 DEF Held, Decided
    <3>2. ~Gently'
      <4>1. ~Gently
        BY <2>1, <2>3 DEF Ended, ReportsEnd
      <4> QED BY <2>1, <2>2, <4>1 DEF TypeOK
    <3> QED BY <1>1, <2>1, <2>2, <3>1, <3>2
  <2>4. CASE /\ Head(userCh) \in Users /\ job[w] = NoUser
             /\ Elems(userCh) = {Head(userCh)} \cup Elems(userCh') /\ resCh' = resCh
             /\ job'[w] = Head(userCh)
    <3>1. \A u \in Users : Held(u)' <=> Held(u)
      BY <2>1, <2>4 DEF Held, Decided
    <3> QED BY <1>1, <2>1, <2>2, <3>1
  <2>5. CASE job'[w] = job[w] /\ UNCHANGED <<userCh, resCh>>
    <3>1. \A u \in Users : Held(u)' <=> Held(u)
      BY <2>1, <2>5 DEF Held, Decided
    <3> QED BY <1>1, <2>1, <2>2, <3>1
  <2>6. CASE job'[w] = NoUser /\ UNCHANGED <<userCh, resCh>> /\ (cancelled \/ panics' > 0)
    <3>1. \A u \in Users : Held(u)' => Held(u)
      BY <2>1, <2>6 DEF Held, Decided
    <3>2. ~Gently'
      <4>1. cancelled => ~Gently
        BY <2>1 DEF Ended, ReportsEnd
      <4> QED BY <2>1, <2>2, <2>6, <4>1 DEF TypeOK
    <3> QED BY <1>1, <2>1, <2>2, <3>1, <3>2
  <2>7. CASE /\ job'[w] = NoUser /\ UNCHANGED userCh /\ job[w] \in Users
             /\ resCh' = resCh \cup {[user |-> job[w], verdict |-> at[w]]}
    <3>1. ASSUME NEW u \in Users PROVE Held(u)' <=> Held(u)
      <4>1. (\E r \in resCh' : r.user = u) <=> (\E r \in resCh : r.user = u) \/ u = job[w]
        <5> DEFINE report == [user |-> job[w], verdict |-> at[w]]
        <5>1. resCh' = resCh \cup {report} /\ report.user = job[w]
          BY <2>7
        <5> HIDE DEF report
        <5> QED BY <5>1
      <4>2. (\E x \in Workers : job'[x] = u) \/ u = job[w] <=> \E x \in Workers : job[x] = u
        BY <2>1, <2>7, BroadcastAssumption
      <4> QED BY <2>1, <2>7, <4>1, <4>2 DEF Held, Decided
    <3> QED BY <1>1, <2>1, <2>2, <3>1
  <2> QED BY <1>8, <2>3, <2>4, <2>5, <2>6, <2>7, WorkStep DEF Apart
<1>9. CASE Collect
  <2>1. PICK r \in resCh :
          resCh' = resCh \ {r} /\ tally' = [tally EXCEPT ![r.verdict] = @ \cup {r.user}]
    BY <1>9 DEF Collect
  <2>2. r.verdict \in Verdicts
    BY <2>1 DEF TypeOK
  <2>3. Decided' = Decided \cup {r.user}
    BY <2>1, <2>2 DEF TypeOK, Verdicts, Decided
  <2>4. UNCHANGED <<next, userCh, job, counted, pressed, panics>>
    BY <1>9 DEF Collect
  <2>5. \A u \in Users : Held(u)' <=> Held(u)
    BY <2>1, <2>3, <2>4 DEF Held
  <2> QED BY <1>1, <2>4, <2>5
<1>10. CASE Drained \/ Summarise \/ Return \/ Prune
  BY <1>1, <1>2, <1>10 DEF Drained, Summarise, Return, Prune
<1>11. CASE PressCancel
  BY <1>1, <1>2, <1>11 DEF PressCancel
<1>12. ASSUME NEW u \in Fickle, ComeBack(u) PROVE Accounted'
  BY <1>1, <1>2, <1>12 DEF ComeBack
<1>13. CASE UNCHANGED vars
  BY <1>1, <1>2, <1>13 DEF vars
<1> QED BY <1>4, <1>6, <1>7, <1>8, <1>9, <1>10, <1>11, <1>12, <1>13 DEF Next, Handle, Over

LEMMA SeenKept ==
    ASSUME TypeOK, Stations, Apart, Seen, [Next]_vars
    PROVE  Seen'
<1> USE DEF Seen
<1> USE DEF workerVars, mainVars, worldVars, producerVars, history
<1>1. ASSUME UNCHANGED <<misjudged, counted, unseen, mode>> PROVE Seen'
  BY <1>1 DEF Addressed
<1>2. CASE Fetch
  <2>1. /\ Head(unseen) \in Users
        /\ Elems(unseen) = {Head(unseen)} \cup Elems(unseen')
        /\ Head(unseen) \notin Elems(unseen')
        /\ misjudged => misjudged'
        /\ ~misjudged' =>
              IF Addressed(Head(unseen), Head(unseen) \in Authorised)
              THEN counted' = counted \cup {Head(unseen)}
              ELSE counted' = counted
        /\ mode' = mode
    BY <1>2, FetchStep DEF Apart
  <2>2. \A u, a : Addressed(u, a)' <=> Addressed(u, a)
    BY <2>1 DEF Addressed
  <2> HIDE DEF Seen
  <2>3. SUFFICES ASSUME ~misjudged'
                 PROVE  counted' = {u \in Users : u \notin Elems(unseen') /\ Addressed(u, u \in Authorised)}
    BY <2>2 DEF Seen
  <2>4. counted = {u \in Users : u \notin Elems(unseen) /\ Addressed(u, u \in Authorised)}
    BY <2>1, <2>3 DEF Seen
  <2>5. CASE Addressed(Head(unseen), Head(unseen) \in Authorised)
    <3>1. counted' = counted \cup {Head(unseen)}
      BY <2>1, <2>3, <2>5
    <3> QED BY <2>1, <2>4, <2>5, <3>1
  <2>6. CASE ~Addressed(Head(unseen), Head(unseen) \in Authorised)
    <3>1. counted' = counted
      BY <2>1, <2>3, <2>6
    <3> QED BY <2>1, <2>4, <2>6, <3>1
  <2> QED BY <2>5, <2>6
<1>3. CASE CursorEnds \/ Send
  BY <1>1, <1>3 DEF CursorEnds, Send
<1>4. ASSUME NEW w \in Workers, Work(w) PROVE Seen'
  BY <1>1, <1>4, WorkStep DEF Apart
<1>5. CASE Handle \/ Prune
  BY <1>1, <1>5 DEF Handle, Collect, Drained, Summarise, Return, Prune
<1>6. CASE PressCancel
  BY <1>1, <1>6 DEF PressCancel
<1>7. ASSUME NEW u \in Fickle, ComeBack(u) PROVE Seen'
  BY <1>1, <1>7 DEF ComeBack
<1>8. CASE UNCHANGED vars
  BY <1>1, <1>8 DEF vars
<1> QED BY <1>2, <1>3, <1>4, <1>5, <1>6, <1>7, <1>8 DEF Next, Over

LEMMA EndedKept ==
    ASSUME TypeOK, Stations, Apart, Ended, [Next]_vars
    PROVE  Ended'
<1> USE BroadcastAssumption DEF Ended, Gently, ReportsEnd
<1> USE DEF workerVars, mainVars, worldVars, producerVars, history
<1>1. ASSUME UNCHANGED <<cancelled, pressed, panics, main, summary, at, resCh>>,
             producer = "done" => producer' = "done" /\ userCh' = userCh
      PROVE  Ended'
  BY <1>1
<1>2. CASE Fetch
  <2>1. /\ UNCHANGED <<cancelled, pressed, panics, main, summary, at, resCh>>
        /\ producer # "done"
    BY <1>2, FetchStep DEF Apart
  <2> QED BY <1>1, <2>1
<1>3. CASE CursorEnds \/ Send
  BY <1>1, <1>3 DEF CursorEnds, Send
<1>4. ASSUME NEW w \in Workers, Work(w) PROVE Ended'
  <2>1. /\ UNCHANGED <<producer, main, summary, pressed, cancelled>>
        /\ \A x \in Workers \ {w} : at'[x] = at[x]
        /\ at[w] # "done" /\ panics' \in {panics, panics + 1}
        /\ \/ userCh # <<>> /\ (at'[w] = "done" => cancelled)
           \/ at'[w] = "done" /\ userCh = <<>> /\ producer = "done" /\ UNCHANGED userCh
           \/ at'[w] # "done" /\ UNCHANGED userCh
           \/ at'[w] = "done" /\ UNCHANGED userCh /\ (cancelled \/ panics' > 0)
    <3> USE WorkStep DEF Apart
    <3> QED BY <1>4
  <2>2. main = "collect"
    BY <2>1
  <2>3. Gently' => Gently /\ ~cancelled /\ ~(panics' > 0)
    BY <2>1, <2>2 DEF TypeOK
  <2>4. ASSUME Gently', NEW x \in Workers, at'[x] = "done"
        PROVE  producer' = "done" /\ userCh' = <<>>
    <3>1. CASE x = w
      BY <2>1, <2>3, <2>4, <3>1
    <3>2. CASE x # w
      <4>1. at[x] = "done"
        BY <2>1, <2>4, <3>2
      <4>2. producer = "done" /\ userCh = <<>>
        BY <2>3, <2>4, <4>1
      <4> QED BY <2>1, <2>3, <2>4, <4>2
    <3> QED BY <3>1, <3>2
  <2> QED BY <2>1, <2>2, <2>4
<1>5. CASE Collect
  BY <1>5 DEF Collect
<1>6. CASE Drained \/ Summarise \/ Return \/ Prune \/ PressCancel
  BY <1>6 DEF Drained, Summarise, Return, Prune, PressCancel
<1>7. ASSUME NEW u \in Fickle, ComeBack(u) PROVE Ended'
  BY <1>1, <1>7 DEF ComeBack
<1>8. CASE UNCHANGED vars
  BY <1>1, <1>8 DEF vars
<1> QED BY <1>2, <1>3, <1>4, <1>5, <1>6, <1>7, <1>8 DEF Next, Handle, Over

LEMMA DeliveredKept ==
    ASSUME TypeOK, Stations, Apart, Delivered, [Next]_vars
    PROVE  Delivered'
<1> USE DEF Delivered
<1> USE DEF workerVars, mainVars, worldVars, producerVars, history
<1>1. ASSUME UNCHANGED <<copies, at, job, resCh, tally>> PROVE Delivered'
  BY <1>1
<1>2. CASE Fetch
  BY <1>1, <1>2, FetchStep DEF Apart
<1>3. CASE CursorEnds \/ Send
  BY <1>1, <1>3 DEF CursorEnds, Send
<1>4. ASSUME NEW w \in Workers, Work(w) PROVE Delivered'
  <2>1. /\ tally' = tally
        /\ \A x \in Workers \ {w} : at'[x] = at[x] /\ job'[x] = job[x]
        /\ \A u \in Users : copies[u] > 0 => copies'[u] > 0
        /\ \/ at'[w] # "ok" /\ resCh' = resCh
           \/ at'[w] = "ok" /\ job'[w] = job[w] /\ resCh' = resCh /\ copies'[job[w]] > 0
           \/ /\ at'[w] # "ok" /\ job[w] \in Users
              /\ resCh' = resCh \cup {[user |-> job[w], verdict |-> at[w]]}
    <3> USE WorkStep DEF Apart
    <3> QED BY <1>4
  <2>2. \A x \in Workers : at'[x] = "ok" => copies'[job'[x]] > 0
    <3>1. \A x \in Workers : at[x] = "ok" => job[x] \in Users
      BY DEF Stations
    <3> QED BY <2>1, <3>1
  <2>3. \A r \in resCh' : r.verdict = "ok" => copies'[r.user] > 0
    <3>1. \A r \in resCh : r.user \in Users
      BY DEF TypeOK
    <3>2. \A r \in resCh : r.verdict = "ok" => copies'[r.user] > 0
      BY <2>1, <3>1
    <3>3. CASE resCh' = resCh \cup {[user |-> job[w], verdict |-> at[w]]} /\ job[w] \in Users
      <4>1. at[w] = "ok" => copies'[job[w]] > 0
        BY <2>1, <3>3
      <4> QED BY <3>2, <3>3, <4>1
    <3> QED BY <2>1, <3>2, <3>3
  <2>4. \A u \in tally'["ok"] : copies'[u] > 0
    BY <2>1 DEF TypeOK, Verdicts
  <2> QED BY <2>2, <2>3, <2>4
<1>5. CASE Collect
  <2>1. PICK r \in resCh :
          resCh' = resCh \ {r} /\ tally' = [tally EXCEPT ![r.verdict] = @ \cup {r.user}]
    BY <1>5 DEF Collect
  <2>2. \A u \in tally'["ok"] : u \in tally["ok"] \/ (u = r.user /\ r.verdict = "ok")
    BY <2>1 DEF TypeOK, Verdicts
  <2>3. UNCHANGED <<copies, at, job>>
    BY <1>5 DEF Collect
  <2> QED BY <2>1, <2>2, <2>3
<1>6. CASE Drained \/ Summarise \/ Return \/ Prune \/ PressCancel
  BY <1>1, <1>6 DEF Drained, Summarise, Return, Prune, PressCancel
<1>7. ASSUME NEW u \in Fickle, ComeBack(u) PROVE Delivered'
  BY <1>1, <1>7 DEF ComeBack
<1>8. CASE UNCHANGED vars
  BY <1>1, <1>8 DEF vars
<1> QED BY <1>2, <1>3, <1>4, <1>5, <1>6, <1>7, <1>8 DEF Next, Handle, Over

\* Unless somebody pressed Cancel or a worker panicked, those counted are those decided on
\* by the time the handler works out its summary.
LEMMA AllDecided ==
    ASSUME TypeOK, Stations, Accounted, Ended, Gently, main # "collect"
    PROVE  Decided = counted
<1>1. PICK w \in Workers : TRUE
  BY BroadcastAssumption
<1>2. /\ \A x \in Workers : at[x] = "done" /\ job[x] = NoUser
      /\ resCh = {} /\ producer = "done" /\ userCh = <<>>
  BY <1>1 DEF Ended, ReportsEnd, Stations
<1>3. next = NoUser
  BY <1>2 DEF Stations
<1>4. \A u \in Users : Held(u) <=> u \in Decided
  BY <1>2, <1>3, BroadcastAssumption DEF Held, Elems
<1>5. Decided \subseteq Users /\ counted \subseteq Users
  BY DEF TypeOK, Decided, Verdicts
<1> QED BY <1>4, <1>5 DEF Accounted

LEMMA BlamedKept ==
    ASSUME TypeOK, Stations, Apart, Accounted, Ended, Blamed, [Next]_vars
    PROVE  Blamed'
<1> USE DEF Blamed, Gently
<1> USE DEF workerVars, mainVars, worldVars, producerVars, history
<1>1. ASSUME summary' = summary, pressed => pressed', panics' \in {panics, panics + 1}
      PROVE  Blamed'
  BY <1>1 DEF TypeOK
<1>2. CASE Fetch
  BY <1>1, <1>2, FetchStep DEF Apart
<1>3. CASE CursorEnds \/ Send
  BY <1>1, <1>3 DEF CursorEnds, Send
<1>4. ASSUME NEW w \in Workers, Work(w) PROVE Blamed'
  BY <1>1, <1>4, WorkStep DEF Apart
<1>5. CASE Summarise
  <2>1. /\ summary' = IF Cardinality(Decided) < Cardinality(counted) THEN "cancelled" ELSE "complete"
        /\ main # "collect" /\ UNCHANGED <<pressed, panics>>
    BY <1>5 DEF Summarise
  <2>2. Cardinality(counted) \in Nat
    BY BroadcastAssumption, FS_Subset, FS_CardinalityType DEF TypeOK
  <2>3. Gently => ~(Cardinality(Decided) < Cardinality(counted))
    BY <2>1, <2>2, AllDecided
  <2> QED BY <2>1, <2>3
<1>6. CASE Collect \/ Drained \/ Return \/ Prune \/ PressCancel
  BY <1>1, <1>6 DEF Collect, Drained, Return, Prune, PressCancel
<1>7. ASSUME NEW u \in Fickle, ComeBack(u) PROVE Blamed'
  BY <1>1, <1>7 DEF ComeBack
<1>8. CASE UNCHANGED vars
  BY <1>1, <1>8 DEF vars
<1> QED BY <1>2, <1>3, <1>4, <1>5, <1>6, <1>7, <1>8 DEF Next, Handle, Over

-----------------------------------------------------------------------------
(* The theorems.                                                            *)

\* The parts of the invariant hold together: the base of what follows.
THEOREM BroadcastInvariant == Spec => []Inv
<1>1. Inv /\ [Next]_vars => Inv'
  <2> SUFFICES ASSUME Inv, [Next]_vars PROVE Inv'
    OBVIOUS
  <2>1. TypeOK' /\ Stations'
    <3>1. AllTypes
      BY TypeParts DEF Inv
    <3>2. NoRepeat(unseen)
      BY DEF Inv, Apart
    <3>3. Stations
      BY DEF Inv
    <3>4. AllTypes' /\ Stations'
      BY <3>1, <3>2, <3>3, TypesKept
    <3>5. TypeOK'
      BY <3>4 DEF TypeOK, AllTypes, WorldTypes, ProducerTypes, QueueTypes, WorkerTypes, ReportTypes,
                  MainTypes, HistoryTypes
    <3> QED BY <3>4, <3>5
  <2>2. Apart' /\ Fresh'
    BY ApartKept, FreshKept DEF Inv
  <2>3. Punctual' /\ Justified'
    BY PunctualKept, JustifiedKept DEF Inv
  <2> QED BY <2>1, <2>2, <2>3 DEF Inv
<1> QED BY <1>1, BroadcastInit, PTL DEF Spec

\* Every variable of a broadcast has its type; the channel of users keeps to its
\* capacity and no user is tried more often than the retry allows.
THEOREM BroadcastTypeCorrect == Spec => []TypeOK
<1>1. Inv => TypeOK
  BY DEF Inv
<1> QED BY <1>1, BroadcastInvariant, PTL

\* No user gets the message twice but for a lost answer, with however many workers:
\* a user is with the cursor, the producer, the channel or one worker, and none has
\* had a copy before a worker takes them (the producer and the workers of
\* handleBroadcast).
THEOREM OneCopyForEach == Spec => []OneCopyEach
<1>1. Inv => OneCopyEach
  BY DEF Inv, Fresh
<1> QED BY <1>1, BroadcastInvariant, PTL

\* After the press of Cancel a worker begins no more than the user it had just
\* received (the checks of broadcastCtx around the retries).
THEOREM WorkersStopAtCancel == Spec => []CancelStopsWorkers
<1>1. Inv => CancelStopsWorkers
  BY DEF Inv, Punctual
<1> QED BY <1>1, BroadcastInvariant, PTL

\* Only users who were unreachable at some time during the broadcast are deleted
\* (the goroutine handleBroadcast leaves behind).
THEOREM PrunesOnlyTheAway == Spec => []OnlyAwayArePruned
<1>1. Inv => OnlyAwayArePruned
  BY DEF Inv, Justified
<1> QED BY <1>1, BroadcastInvariant, PTL

\* What the handler tells the owner is so: without a press of Cancel and without a
\* panic nobody counted is dropped on the way from the cursor to the tally, so that
\* the counts agree and the summary says "complete" (the producer, the workers and
\* the comparison of counts in handleBroadcast).
THEOREM HonestSummary == Spec => []SummaryIsHonest
<1>1. Inv /\ Inv' /\ Count /\ [Next]_vars => Count'
  <2> SUFFICES ASSUME Inv, Count, [Next]_vars PROVE Count'
    OBVIOUS
  <2>1. Accounted' /\ Seen' /\ Ended' /\ Delivered' /\ Blamed'
    BY AccountedKept, SeenKept, EndedKept, DeliveredKept, BlamedKept DEF Inv, Count
  <2> QED BY <2>1 DEF Count
<1>2. Inv /\ Count => SummaryIsHonest
  <2> SUFFICES ASSUME Inv, Count, summary # "none"
               PROVE  /\ summary = "cancelled" => pressed \/ panics > 0
                      /\ summary = "complete" /\ ~pressed /\ panics = 0 /\ unseen = <<>> /\ ~misjudged =>
                            Decided = {u \in Users : Addressed(u, u \in Authorised)}
                      /\ \A u \in tally["ok"] : copies[u] > 0
    BY DEF SummaryIsHonest
  <2>1. summary = "cancelled" => pressed \/ panics > 0
    BY DEF Count, Blamed, Gently, Inv, TypeOK
  <2>2. ASSUME ~pressed, panics = 0, unseen = <<>>, ~misjudged
        PROVE  Decided = {u \in Users : Addressed(u, u \in Authorised)}
    <3>1. main # "collect"
      BY DEF Count, Ended
    <3>2. Decided = counted
      BY <2>2, <3>1, AllDecided DEF Inv, Count, Gently
    <3>3. Elems(unseen) = {}
      BY <2>2 DEF Elems
    <3> QED BY <2>2, <3>2, <3>3 DEF Count, Seen
  <2> QED BY <2>1, <2>2 DEF Count, Delivered
<1> QED BY <1>1, <1>2, BroadcastInvariant, CountInit, PTL DEF Spec
=============================================================================
