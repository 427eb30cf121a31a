--------------------------- MODULE LifecycleProofs ---------------------------
(* Theorems about Lifecycle, for any number of messages and requests and   *)
(* any sizes of the semaphore and of the touch buffer.                     *)
EXTENDS Lifecycle, FiniteSetTheorems, TLAPS

\* The types, but for what is counted.
Types ==
    /\ main \in {"serving", "marker", "exited", "failed"} \cup Stopping
    /\ timeUp \in BOOLEAN
    /\ touchTimedOut \in BOOLEAN
    /\ marker \in {"pop", "edit", "done"}
    /\ msg \in [Messages -> {"idle", "entered", "waiting", "running", "done"}]
    /\ prune \in [Messages -> {"none", "running", "done"}]
    /\ handlerWg \in Int
    /\ botStop \in {"off", "closing", "waiting", "done"}
    /\ clients \in {"up", "stopping", "down"}
    /\ req \in [Requests -> {"idle", "lookup", "touch", "body", "done", "panicked"}]
    /\ touch \in [Requests -> {"none", "queued", "dropped", "counted", "saved", "lost"}]
    /\ chClosed \in BOOLEAN
    /\ flusher \in {"select", "flush", "last", "done"}

\* The messages dispatch has counted: all it has not yet dropped or finished.
Counted == {m \in Messages : msg[m] \in {"entered", "waiting", "running"}}

\* The counter is what it counts, so that Wait waits for every handler.
Counters ==
    /\ handlerWg = Cardinality(Counted) + Cardinality(Pruning)
    /\ Cardinality(Running) <= Slots
    /\ Cardinality(Touches("queued")) <= Capacity

\* No message gets past stopCh any more.
Drained == botStop = "done" =>
              \A m \in Messages : /\ msg[m] \notin {"waiting", "running"}
                                  /\ prune[m] # "running"

BeforeBot == main \in {"serving", "marker", "http", "failed"}
BeforePool == BeforeBot \/ main = "bot"

\* How far Run has come, and what it has therefore waited for.
Phases ==
    /\ ~BeforePool => clients # "up"
    /\ BeforePool => clients = "up"
    /\ BeforeBot => botStop = "off"
    /\ ~BeforeBot /\ ~timeUp => \A r \in Requests : req[r] \notin {"lookup", "touch", "body"}
    /\ ~BeforePool /\ ~timeUp => botStop = "done"
    /\ chClosed <=> main \in {"touch", "closed", "exited"}
    /\ main \in {"closed", "exited"} /\ ~touchTimedOut => flusher = "done"

\* The channel and the flush loop.
Flushed ==
    /\ \A r \in Requests : req[r] = "panicked" => timeUp
    /\ flusher \in {"last", "done"} =>
          chClosed /\ \A r \in Requests : touch[r] # "queued"
    /\ flusher = "done" => \A r \in Requests : touch[r] # "counted"

Inv == Types /\ Counters /\ Drained /\ Phases /\ Flushed

LEMMA Finite ==
    /\ IsFiniteSet(Counted) /\ IsFiniteSet(Running) /\ IsFiniteSet(Pruning)
    /\ \A s : IsFiniteSet(Touches(s))
  BY LifecycleAssumption, FS_Subset DEF Counted, Running, Pruning, Touches

LEMMA InvInit == Init => Inv
<1> SUFFICES ASSUME Init PROVE Inv
  OBVIOUS
<1>1. Types
  <2>1. /\ msg \in [Messages -> {"idle", "entered", "waiting", "running", "done"}]
        /\ prune \in [Messages -> {"none", "running", "done"}]
        /\ req \in [Requests -> {"idle", "lookup", "touch", "body", "done", "panicked"}]
        /\ touch \in [Requests -> {"none", "queued", "dropped", "counted", "saved", "lost"}]
        /\ handlerWg \in Int
    BY DEF Init
  <2> QED BY <2>1, Zenon DEF Init, Types, Stopping
<1>5. Drained /\ Flushed
  BY DEF Init, Drained, Flushed
<1>4. Phases
  BY DEF Init, Phases, BeforeBot, BeforePool
<1>2. /\ Counted = {} /\ Running = {} /\ Pruning = {} /\ Touches("queued") = {}
  BY DEF Init, Counted, Running, Pruning, Touches
<1>3. Counters
  BY <1>2, FS_EmptySet, LifecycleAssumption DEF Counters, Init
<1> QED BY <1>1, <1>3, <1>4, <1>5 DEF Inv

-----------------------------------------------------------------------------
(* What the steps of a message's handler do.                               *)

LEMMA Counting ==
    ASSUME Counters
    PROVE  /\ Cardinality(Counted) \in Nat /\ Cardinality(Running) \in Nat
           /\ Cardinality(Pruning) \in Nat /\ handlerWg \in Nat
  BY Finite, FS_CardinalityType DEF Counters

\* How the counters follow the state of one message.
LEMMA CountsFollow ==
    ASSUME NEW m \in Messages, Types, Counters, NEW s, Become(m, s), UNCHANGED <<prune, touch>>,
           s \in {"entered", "waiting", "running", "done"},
           handlerWg' = handlerWg + (IF s = "done" THEN 0 ELSE 1)
                                  - (IF msg[m] \in {"entered", "waiting", "running"} THEN 1 ELSE 0),
           s = "running" => msg[m] # "running" /\ Cardinality(Running) < Slots
    PROVE  Counters'
<1>1. msg' = [msg EXCEPT ![m] = s] /\ msg \in [Messages -> {"idle", "entered", "waiting", "running", "done"}]
  BY DEF Become, Types
<1>2. Pruning' = Pruning /\ Touches("queued")' = Touches("queued")
  BY DEF Pruning, Touches
<1>3. Counted' = IF s = "done" THEN Counted \ {m} ELSE Counted \cup {m}
  BY <1>1 DEF Counted
<1>4. Running' = IF s = "running" THEN Running \cup {m} ELSE Running \ {m}
  BY <1>1 DEF Running
<1>5. m \in Counted <=> msg[m] \in {"entered", "waiting", "running"}
  BY DEF Counted
<1>6. m \in Running <=> msg[m] = "running"
  BY DEF Running
<1>7. handlerWg' = Cardinality(Counted') + Cardinality(Pruning')
  <2>1. Cardinality(Counted \cup {m}) = IF m \in Counted THEN Cardinality(Counted) ELSE Cardinality(Counted) + 1
    BY Finite, FS_AddElement
  <2>2. Cardinality(Counted \ {m}) = IF m \in Counted THEN Cardinality(Counted) - 1 ELSE Cardinality(Counted)
    BY Finite, FS_RemoveElement
  <2>3. CASE s = "done"
    BY <1>2, <1>3, <1>5, <2>2, <2>3, Counting DEF Counters
  <2>4. CASE s # "done"
    BY <1>2, <1>3, <1>5, <2>1, <2>4, Counting DEF Counters
  <2> QED BY <2>3, <2>4
<1>8. Cardinality(Running') <= Slots
  <2>1. CASE s = "running"
    <3>1. Cardinality(Running') = Cardinality(Running) + 1
      BY <1>4, <1>6, <2>1, Finite, FS_AddElement
    <3> QED BY <3>1, <2>1, Counting, LifecycleAssumption
  <2>2. CASE s # "running"
    <3>1. Running' \in SUBSET Running
      BY <1>4, <2>2
    <3>2. Cardinality(Running') <= Cardinality(Running) /\ Cardinality(Running') \in Nat
      BY <3>1, Finite, FS_Subset, FS_CardinalityType
    <3> QED BY <3>2, Counting, LifecycleAssumption DEF Counters
  <2> QED BY <2>1, <2>2
<1> QED BY <1>2, <1>7, <1>8 DEF Counters

LEMMA MessagesKeepInv ==
    ASSUME NEW m \in Messages, Inv,
           Enter(m) \/ Check(m) \/ Launch(m) \/ GiveUp(m) \/ Finish(m)
    PROVE  Inv'
<1> USE DEF Inv
<1>1. /\ Types' /\ Drained' /\ Phases' /\ Flushed' /\ Counters'
  <2>1. CASE Enter(m)
    <3>1. Types' /\ Drained' /\ Phases' /\ Flushed'
      BY <2>1 DEF Enter, Become, Types, Drained, Phases, Flushed, BeforeBot, BeforePool,
                  mainVars, touchVars
    <3> QED BY <2>1, <3>1, CountsFollow, Counting DEF Enter, touchVars
  <2>2. CASE Check(m)
    <3>1. Types' /\ Drained' /\ Phases' /\ Flushed'
      BY <2>2 DEF Check, Become, Types, Drained, Phases, Flushed, BeforeBot, BeforePool,
                  StopChClosed, mainVars, touchVars
    <3> QED BY <2>2, <3>1, CountsFollow, Counting DEF Check, touchVars
  <2>3. CASE Launch(m)
    <3>1. Types' /\ Drained' /\ Phases' /\ Flushed'
      BY <2>3 DEF Launch, Become, Types, Drained, Phases, Flushed, BeforeBot, BeforePool,
                  mainVars, touchVars
    <3> QED BY <2>3, <3>1, CountsFollow, Counting DEF Launch, touchVars
  <2>4. CASE GiveUp(m)
    <3>1. Types' /\ Drained' /\ Phases' /\ Flushed'
      BY <2>4 DEF GiveUp, Become, Types, Drained, Phases, Flushed, BeforeBot, BeforePool,
                  mainVars, touchVars
    <3> QED BY <2>4, <3>1, CountsFollow, Counting DEF GiveUp, touchVars
  <2>5. CASE Finish(m)
    <3>1. Types' /\ Drained' /\ Phases' /\ Flushed'
      BY <2>5 DEF Finish, Become, Types, Drained, Phases, Flushed, BeforeBot, BeforePool,
                  mainVars, touchVars
    <3> QED BY <2>5, <3>1, CountsFollow, Counting DEF Finish, touchVars
  <2> QED BY <2>1, <2>2, <2>3, <2>4, <2>5
<1> QED BY <1>1

LEMMA PrunesKeepInv ==
    ASSUME NEW m \in Messages, Inv, StartPrune(m) \/ EndPrune(m)
    PROVE  Inv'
<1>1. /\ UNCHANGED <<main, timeUp, touchTimedOut, marker, msg, botStop, clients, req, touch,
                     chClosed, flusher>>
      /\ prune \in [Messages -> {"none", "running", "done"}]
  BY DEF StartPrune, EndPrune, mainVars, touchVars, Inv, Types
<1>2. /\ Counted' = Counted /\ Running' = Running /\ Touches("queued")' = Touches("queued")
  BY <1>1 DEF Counted, Running, Touches
<1>3. Types' /\ Drained' /\ Phases' /\ Flushed' /\ handlerWg' = Cardinality(Counted) + Cardinality(Pruning')
  <2>1. CASE StartPrune(m)
    <3>1. /\ prune' = [prune EXCEPT ![m] = "running"] /\ prune[m] = "none" /\ msg[m] = "running"
          /\ handlerWg' = handlerWg + 1
      BY <2>1 DEF StartPrune
    <3>2. Pruning' = Pruning \cup {m} /\ m \notin Pruning
      BY <1>1, <3>1 DEF Pruning
    <3>3. Cardinality(Pruning') = Cardinality(Pruning) + 1
      BY <3>2, Finite, FS_AddElement
    <3>4. Types' /\ Drained' /\ Phases' /\ Flushed'
      BY <1>1, <3>1 DEF Inv, Types, Drained, Phases, Flushed, BeforeBot, BeforePool
    <3> QED BY <3>1, <3>3, <3>4, Counting DEF Inv, Counters
  <2>2. CASE EndPrune(m)
    <3>1. /\ prune' = [prune EXCEPT ![m] = "done"] /\ prune[m] = "running"
          /\ handlerWg' = handlerWg - 1
      BY <2>2 DEF EndPrune
    <3>2. Pruning' = Pruning \ {m} /\ m \in Pruning
      BY <1>1, <3>1 DEF Pruning
    <3>3. Cardinality(Pruning') = Cardinality(Pruning) - 1
      BY <3>2, Finite, FS_RemoveElement
    <3>4. Types' /\ Drained' /\ Phases' /\ Flushed'
      BY <1>1, <3>1 DEF Inv, Types, Drained, Phases, Flushed, BeforeBot, BeforePool
    <3> QED BY <3>1, <3>3, <3>4, Counting DEF Inv, Counters
  <2> QED BY <2>1, <2>2
<1> QED BY <1>2, <1>3 DEF Inv, Counters

-----------------------------------------------------------------------------
(* Requests and the flush loop.                                            *)

\* A seen count that changes leaves no more of them in the channel, unless it
\* is a new one and there is room.
LEMMA QueueFollows ==
    ASSUME Inv, UNCHANGED <<msg, prune, handlerWg>>,
           Cardinality(Touches("queued")') <= Capacity
    PROVE  Counters'
<1>1. Counted' = Counted /\ Running' = Running /\ Pruning' = Pruning
  BY DEF Counted, Running, Pruning
<1> QED BY <1>1 DEF Inv, Counters

LEMMA QueueShrinks ==
    ASSUME Inv, UNCHANGED <<msg, prune, handlerWg>>, Touches("queued")' \subseteq Touches("queued")
    PROVE  Counters'
<1>1. Cardinality(Touches("queued")') <= Cardinality(Touches("queued"))
  BY Finite, FS_Subset
<1>2. Cardinality(Touches("queued")') \in Nat /\ Cardinality(Touches("queued")) \in Nat
  BY Finite, FS_Subset, FS_CardinalityType
<1>3. Cardinality(Touches("queued")') <= Capacity
  BY <1>1, <1>2, LifecycleAssumption DEF Inv, Counters
<1> QED BY <1>3, QueueFollows

LEMMA RequestsKeepInv ==
    ASSUME NEW r \in Requests, Inv, Request(r)
    PROVE  Inv'
<1> USE DEF Inv
<1>1. UNCHANGED <<main, timeUp, touchTimedOut, marker, msg, prune, handlerWg, botStop, clients,
                  chClosed, flusher>>
  BY DEF Request, Accept, LookUp, Increment, EndRequest, mainVars, botVars, touchVars
<1>2. CASE Increment(r)
  <2>1. /\ Types' /\ Drained' /\ Phases' /\ Flushed'
    BY <1>1, <1>2 DEF Increment, Reach, Types, Drained, Phases, Flushed, BeforeBot, BeforePool
  <2>2. Counters'
    <3>1. CASE Touches("queued")' \subseteq Touches("queued")
      BY <1>1, <3>1, QueueShrinks
    <3>2. CASE ~(Touches("queued")' \subseteq Touches("queued"))
      <4>1. /\ touch' = [touch EXCEPT ![r] = "queued"]
            /\ Cardinality(Touches("queued")) < Capacity
        BY <1>2, <3>2 DEF Increment, Touches, Types
      <4>2. Touches("queued")' = Touches("queued") \cup {r}
        BY <4>1 DEF Touches, Types
      <4>3. /\ Cardinality(Touches("queued")') <= Cardinality(Touches("queued")) + 1
            /\ Cardinality(Touches("queued")') \in Nat
            /\ Cardinality(Touches("queued")) \in Nat
        <5>1. IsFiniteSet(Touches("queued"))
          BY Finite
        <5>2. IsFiniteSet(Touches("queued") \cup {r})
          BY <5>1, FS_AddElement
        <5>3. /\ Cardinality(Touches("queued") \cup {r}) \in Nat
              /\ Cardinality(Touches("queued")) \in Nat
          BY <5>1, <5>2, FS_CardinalityType
        <5>4. Cardinality(Touches("queued") \cup {r}) <= Cardinality(Touches("queued")) + 1
          BY <5>1, <5>3, FS_AddElement
        <5> QED BY <4>2, <5>3, <5>4
      <4>4. Cardinality(Touches("queued")') <= Capacity
        BY <4>1, <4>3, LifecycleAssumption
      <4> QED BY <1>1, <4>4, QueueFollows
    <3> QED BY <3>1, <3>2
  <2> QED BY <2>1, <2>2
<1>3. CASE Accept(r) \/ LookUp(r) \/ EndRequest(r)
  <2>1. UNCHANGED touch /\ Touches("queued")' = Touches("queued")
    BY <1>3 DEF Accept, LookUp, EndRequest, touchVars, Touches
  <2>2. Types' /\ Drained' /\ Phases' /\ Flushed'
    BY <1>1, <1>3, <2>1 DEF Accept, LookUp, EndRequest, Reach, Types, Drained, Phases, Flushed,
                            BeforeBot, BeforePool
  <2> QED BY <1>1, <2>1, <2>2, QueueShrinks
<1> QED BY <1>2, <1>3 DEF Request

LEMMA FlushLoopKeepsInv == Inv /\ FlushLoop => Inv'
<1> SUFFICES ASSUME Inv, FlushLoop PROVE Inv'
  OBVIOUS
<1> USE DEF Inv
<1>1. UNCHANGED <<main, timeUp, touchTimedOut, marker, msg, prune, handlerWg, botStop, clients,
                  req, chClosed>>
  BY DEF FlushLoop, Receive, Flush, FlushLast, EndFlush, FlusherOnly, mainVars, botVars
<1>2. ASSUME NEW r \in Requests, Receive(r) PROVE Inv'
  <2>1. Types' /\ Drained' /\ Phases' /\ Flushed'
    BY <1>1, <1>2 DEF Receive, Types, Drained, Phases, Flushed, BeforeBot, BeforePool
  <2>2. Touches("queued")' \subseteq Touches("queued")
    BY <1>2 DEF Receive, Touches, Types
  <2> QED BY <1>1, <2>1, <2>2, QueueShrinks
<1>3. CASE Flush
  <2>1. Types' /\ Drained' /\ Phases' /\ Flushed'
    BY <1>1, <1>3 DEF Flush, Types, Drained, Phases, Flushed, BeforeBot, BeforePool
  <2>2. Touches("queued")' \subseteq Touches("queued")
    BY <1>3 DEF Flush, Touches
  <2> QED BY <1>1, <2>1, <2>2, QueueShrinks
<1>4. CASE FlushLast
  <2>1. /\ \A r \in Requests : touch[r] # "queued"
        /\ chClosed
        /\ flusher' = "done" => \A r \in Requests : touch[r] # "counted"
        /\ flusher' \in {"done", "last"}
        /\ UNCHANGED touch
    BY <1>4 DEF FlushLast, Touches
  <2>2. Types' /\ Drained' /\ Phases' /\ Flushed'
    BY <1>1, <1>4, <2>1 DEF FlushLast, Types, Drained, Phases, Flushed, BeforeBot, BeforePool
  <2>3. Touches("queued")' \subseteq Touches("queued")
    BY <2>1 DEF Touches
  <2> QED BY <1>1, <2>2, <2>3, QueueShrinks
<1>5. ASSUME NEW S \in SUBSET Touches("counted"), EndFlush(S) PROVE Inv'
  <2>1. /\ touch' = [r \in Requests |->
               IF touch[r] = "counted" THEN (IF r \in S THEN "saved" ELSE "lost") ELSE touch[r]]
        /\ flusher \in {"flush", "last"}
        /\ flusher' = IF flusher = "last" THEN "done" ELSE "select"
    BY <1>5 DEF EndFlush
  <2>2. Types' /\ Drained' /\ Phases' /\ Flushed'
    BY <1>1, <2>1 DEF Types, Drained, Phases, Flushed, BeforeBot, BeforePool
  <2>3. Touches("queued")' \subseteq Touches("queued")
    BY <2>1 DEF Touches
  <2> QED BY <1>1, <2>2, <2>3, QueueShrinks
<1> QED BY <1>2, <1>3, <1>4, <1>5 DEF FlushLoop

-----------------------------------------------------------------------------
(* Run, Bot.Stop, the marker and the clients.                              *)

RunOnly == \/ MarkerGone \/ HTTPDown \/ BotDown \/ PoolDown \/ TouchesDown \/ Exit
           \/ CancelPop \/ CloseStopCh \/ Signal \/ ServerFails \/ ShutdownTimer
           \/ TouchTimer \/ PopMarker \/ EditMarker \/ Terminate

LEMMA RunKeepsInv == Inv /\ RunOnly => Inv'
<1> SUFFICES ASSUME Inv, RunOnly PROVE Inv'
  OBVIOUS
<1> USE DEF Inv
<1>1. UNCHANGED <<msg, prune, handlerWg, req, touch, flusher>>
  BY DEF RunOnly, MarkerGone, HTTPDown, BotDown, PoolDown, TouchesDown, Exit, CancelPop,
         CloseStopCh, Signal, ServerFails, ShutdownTimer, TouchTimer, PopMarker, EditMarker,
         Terminate, MarkerOnly, mainVars, botVars, touchVars
<1>2. Types'
  <2>1. CASE MarkerGone \/ HTTPDown \/ BotDown
    BY <1>1, <2>1 DEF MarkerGone, HTTPDown, BotDown, Types, Stopping, botVars, touchVars
  <2>2. CASE TouchesDown \/ Exit \/ Signal \/ ServerFails
    BY <1>1, <2>2 DEF TouchesDown, Exit, Signal, ServerFails, Types, Stopping, botVars, touchVars
  <2>3. CASE PoolDown \/ ShutdownTimer \/ TouchTimer
    <3>1. /\ chClosed' = chClosed \/ chClosed' = TRUE
          /\ timeUp' = timeUp \/ timeUp' = TRUE
          /\ touchTimedOut' = touchTimedOut \/ touchTimedOut' = TRUE
          /\ main' = main \/ main' = "touch"
          /\ UNCHANGED <<marker, botStop, clients>>
      BY <1>1, <2>3, Zenon DEF PoolDown, ShutdownTimer, TouchTimer, botVars, touchVars
    <3>2. timeUp' \in BOOLEAN /\ touchTimedOut' \in BOOLEAN /\ chClosed' \in BOOLEAN
      BY <3>1, Zenon DEF Types
    <3>3. main' \in {"serving", "marker", "exited", "failed"} \cup Stopping
      BY <3>1 DEF Types, Stopping
    <3> QED BY <1>1, <3>1, <3>2, <3>3 DEF Types
  <2>4. CASE CancelPop \/ CloseStopCh \/ PopMarker \/ EditMarker \/ Terminate
    BY <1>1, <2>4 DEF CancelPop, CloseStopCh, PopMarker, EditMarker, Terminate, MarkerOnly, Types,
                      mainVars, botVars, touchVars
  <2> QED BY <2>1, <2>2, <2>3, <2>4 DEF RunOnly
<1>3. Drained'
  BY <1>1 DEF Types, Drained, RunOnly, MarkerGone, HTTPDown, BotDown, PoolDown, TouchesDown,
         Exit, CancelPop, CloseStopCh, Signal, ServerFails, ShutdownTimer, TouchTimer, PopMarker,
         EditMarker, Terminate, MarkerOnly, mainVars, botVars, touchVars
<1>4. Phases'
  <2>1. CASE HTTPDown
    BY <1>1, <2>1 DEF HTTPDown, Serving, Types, Phases, BeforeBot, BeforePool, touchVars
  <2>2. CASE BotDown \/ PoolDown \/ TouchesDown \/ Exit
    BY <1>1, <2>2 DEF BotDown, PoolDown, TouchesDown, Exit, Types, Phases, BeforeBot, BeforePool,
                      botVars, touchVars
  <2>3. CASE MarkerGone \/ Signal \/ ServerFails \/ ShutdownTimer \/ TouchTimer
    BY <1>1, <2>3 DEF MarkerGone, Signal, ServerFails, ShutdownTimer, TouchTimer, Types, Phases,
                      BeforeBot, BeforePool, botVars, touchVars
  <2>4. CASE CancelPop \/ CloseStopCh \/ PopMarker \/ EditMarker \/ Terminate
    BY <1>1, <2>4 DEF CancelPop, CloseStopCh, PopMarker, EditMarker, Terminate, MarkerOnly, Types,
                      Phases, BeforeBot, BeforePool, mainVars, botVars, touchVars
  <2> QED BY <2>1, <2>2, <2>3, <2>4 DEF RunOnly
<1>5. Flushed'
  <2>1. timeUp => timeUp'
    BY DEF RunOnly, MarkerGone, HTTPDown, BotDown, PoolDown, TouchesDown, Exit, CancelPop,
           CloseStopCh, Signal, ServerFails, ShutdownTimer, TouchTimer, PopMarker, EditMarker,
           Terminate, MarkerOnly, mainVars
  <2>2. chClosed => chClosed'
    BY DEF RunOnly, MarkerGone, HTTPDown, BotDown, PoolDown, TouchesDown, Exit, CancelPop,
           CloseStopCh, Signal, ServerFails, ShutdownTimer, TouchTimer, PopMarker, EditMarker,
           Terminate, MarkerOnly, touchVars
  <2> QED BY <1>1, <2>1, <2>2 DEF Flushed
<1>6. Counters'
  <2>1. Counted' = Counted /\ Running' = Running /\ Pruning' = Pruning
        /\ Touches("queued")' = Touches("queued")
    BY <1>1 DEF Counted, Running, Pruning, Touches
  <2> QED BY <1>1, <2>1 DEF Counters
<1> QED BY <1>2, <1>3, <1>4, <1>5, <1>6

LEMMA HandlersGoneKeepsInv == Inv /\ HandlersGone => Inv'
<1> SUFFICES ASSUME Inv, HandlersGone PROVE Inv'
  OBVIOUS
<1>1. /\ UNCHANGED <<main, timeUp, touchTimedOut, marker, msg, prune, handlerWg, clients, req,
                     touch, chClosed, flusher>>
      /\ botStop = "waiting" /\ botStop' = "done" /\ handlerWg = 0
  BY DEF HandlersGone, mainVars, touchVars
<1>2. Counted = {} /\ Pruning = {}
  <2>1. Cardinality(Counted) = 0 /\ Cardinality(Pruning) = 0
    BY <1>1, Counting DEF Inv, Counters
  <2> QED BY <2>1, Finite, FS_EmptySet
<1>3. Drained'
  BY <1>1, <1>2 DEF Drained, Counted, Pruning
<1>4. Types' /\ Phases' /\ Flushed'
  BY <1>1 DEF Inv, Types, Phases, Flushed, BeforeBot, BeforePool
<1>5. Counters'
  <2>1. Counted' = Counted /\ Running' = Running /\ Pruning' = Pruning
        /\ Touches("queued")' = Touches("queued")
    BY <1>1 DEF Counted, Running, Pruning, Touches
  <2> QED BY <1>1, <2>1 DEF Inv, Counters
<1> QED BY <1>3, <1>4, <1>5 DEF Inv

LEMMA InvNext == Inv /\ [Next]_vars => Inv'
<1> SUFFICES ASSUME Inv, [Next]_vars PROVE Inv'
  OBVIOUS
<1>1. CASE RunStep \/ Signal \/ ServerFails \/ ShutdownTimer \/ TouchTimer \/ PopMarker
           \/ EditMarker \/ Terminate
  BY <1>1, RunKeepsInv DEF RunStep, RunOnly
<1>2. CASE HandlersGone
  BY <1>2, HandlersGoneKeepsInv
<1>3. ASSUME NEW m \in Messages, Handler(m) PROVE Inv'
  BY <1>3, MessagesKeepInv, PrunesKeepInv DEF Handler
<1>4. ASSUME NEW r \in Requests, Request(r) PROVE Inv'
  BY <1>4, RequestsKeepInv
<1>5. CASE FlushLoop
  BY <1>5, FlushLoopKeepsInv
<1>6. CASE UNCHANGED vars
  <2>1. UNCHANGED <<main, timeUp, touchTimedOut, marker, msg, prune, handlerWg, botStop, clients,
                    req, touch, chClosed, flusher>>
    BY <1>6 DEF vars
  <2>2. Counted' = Counted /\ Running' = Running /\ Pruning' = Pruning
        /\ Touches("queued")' = Touches("queued")
    BY <2>1 DEF Counted, Running, Pruning, Touches
  <2>3. Types' /\ Drained' /\ Phases' /\ Flushed' /\ Counters'
    BY <2>1, <2>2 DEF Inv, Types, Drained, Phases, Flushed, Counters, BeforeBot, BeforePool
  <2> QED BY <2>3 DEF Inv
<1> QED BY <1>1, <1>2, <1>3, <1>4, <1>5, <1>6 DEF Next, Finished

LEMMA InvHolds == Spec => []Inv
  BY InvInit, InvNext, PTL DEF Spec

-----------------------------------------------------------------------------

\* No handler beyond the slots, no seen count beyond the channel, and never a
\* Done without its Add.
THEOREM LifecycleTypeCorrect == Spec => []TypeOK
<1>1. Inv => TypeOK
  BY Counting DEF Inv, Types, Counters, TypeOK
<1> QED BY <1>1, InvHolds, PTL

\* bot.go:224-225: once Stop has returned, no handler runs and none will.
THEOREM StopDrains == Spec => []HandlersDrained
<1>1. Inv => HandlersDrained
  BY DEF Inv, Drained, HandlersDrained, Running, Pruning
<1> QED BY <1>1, InvHolds, PTL

\* The order of Run: within the deadlines nothing is stopped that is in use.
THEOREM StoppedInOrder == Spec => []NothingInUseIsStopped
<1>1. Inv => NothingInUseIsStopped
  BY DEF Inv, Types, Drained, Phases, NothingInUseIsStopped, Running, Pruning, Serving,
         BeforePool, BeforeBot
<1> QED BY <1>1, InvHolds, PTL

\* Only a request that outlives the shutdown's 30 s can meet the closed channel.
THEOREM ChannelIsSafeInTime == Spec => []NoSendOnClosed
<1>1. Inv => NoSendOnClosed
  BY DEF Inv, Flushed, NoSendOnClosed
<1> QED BY <1>1, InvHolds, PTL

\* The last flush leaves no seen count behind.
THEOREM TouchBufferDrains == Spec => []TouchesWritten
<1>1. Inv => TouchesWritten
  BY DEF Inv, Phases, Flushed, TouchesWritten, Touches
<1> QED BY <1>1, InvHolds, PTL
=============================================================================
