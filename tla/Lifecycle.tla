------------------------------ MODULE Lifecycle ------------------------------
(***************************************************************************)
(* How the process stops: Run of internal/app/app.go, and what it stops in *)
(* turn: the restart marker's goroutine (bot/restart.go), the HTTP server, *)
(* the bot (Stop and dispatch of bot/bot.go), the Telegram clients, the    *)
(* touch buffer that batches seen counts and the store (store/store.go).   *)
(*                                                                         *)
(* Each part is waited for, up to the deadline of the shutdown (30 s) or,  *)
(* for the touch buffer, 5 s; what has not ended by then goes on running   *)
(* beside the rest of the shutdown until the process exits.                *)
(***************************************************************************)
EXTENDS Integers, FiniteSets

CONSTANTS
    Messages,  \* the messages Telegram delivers
    Requests,  \* HTTP requests for a file
    Slots,     \* cap(b.sem): the handlers that may run at once
    Capacity   \* touchChannelCapacity

ASSUME LifecycleAssumption ==
    /\ IsFiniteSet(Messages)
    /\ IsFiniteSet(Requests)
    /\ Slots \in Nat \ {0}
    /\ Capacity \in Nat \ {0}

VARIABLES
    main,           \* what Run is doing
    timeUp,         \* shutdownCtx is done
    touchTimedOut,  \* the 5 s of TouchBuffer.Stop are over
    marker,         \* the goroutine of EditRestartMarkerIfPending
    msg,            \* the dispatch and the handler of each message
    prune,          \* the goroutine a broadcast leaves behind
    handlerWg,      \* the counter of that WaitGroup
    botStop,        \* Bot.Stop
    clients,        \* the Telegram clients
    req,            \* the handler of each request
    touch,          \* the seen count each request has added
    chClosed,       \* the touch buffer's channel is closed
    flusher         \* flushLoop

mainVars == <<main, timeUp, touchTimedOut>>
botVars == <<msg, prune, handlerWg, botStop>>
touchVars == <<touch, chClosed, flusher>>
vars == <<main, timeUp, touchTimedOut, marker, msg, prune, handlerWg, botStop,
          clients, req, touch, chClosed, flusher>>

Stopping == {"http", "bot", "pool", "touch", "closed"}

Alive == main \notin {"exited", "failed"}

StopChClosed == botStop \in {"waiting", "done"}

Running == {m \in Messages : msg[m] = "running"}
Pruning == {m \in Messages : prune[m] = "running"}
Serving == {r \in Requests : req[r] \in {"lookup", "touch", "body"}}

Touches(s) == {r \in Requests : touch[r] = s}

\* Handlers within the slots, seen counts within the channel, and no Done
\* without its Add, on which the WaitGroup would panic.
TypeOK ==
    /\ main \in {"serving", "marker", "exited", "failed"} \cup Stopping
    /\ timeUp \in BOOLEAN
    /\ touchTimedOut \in BOOLEAN
    /\ marker \in {"pop", "edit", "done"}
    /\ msg \in [Messages -> {"idle", "entered", "waiting", "running", "done"}]
    /\ Cardinality(Running) <= Slots
    /\ prune \in [Messages -> {"none", "running", "done"}]
    /\ handlerWg \in Nat
    /\ botStop \in {"off", "closing", "waiting", "done"}
    /\ clients \in {"up", "stopping", "down"}
    /\ req \in [Requests -> {"idle", "lookup", "touch", "body", "done", "panicked"}]
    /\ touch \in [Requests -> {"none", "queued", "dropped", "counted", "saved", "lost"}]
    /\ Cardinality(Touches("queued")) <= Capacity
    /\ chClosed \in BOOLEAN
    /\ flusher \in {"select", "flush", "last", "done"}

\* New has returned.
Init ==
    /\ main = "serving"
    /\ timeUp = FALSE
    /\ touchTimedOut = FALSE
    /\ marker = "pop"
    /\ msg = [m \in Messages |-> "idle"]
    /\ prune = [m \in Messages |-> "none"]
    /\ handlerWg = 0
    /\ botStop = "off"
    /\ clients = "up"
    /\ req = [r \in Requests |-> "idle"]
    /\ touch = [r \in Requests |-> "none"]
    /\ chClosed = FALSE
    /\ flusher = "select"

-----------------------------------------------------------------------------
(* Messages: dispatch, in the client's goroutine, and the handlers.        *)

Become(m, s) == msg' = [msg EXCEPT ![m] = s]

\* dispatch: the handler is counted before stopCh is looked at.
Enter(m) ==
    /\ Alive
    /\ clients # "down"
    /\ msg[m] = "idle"
    /\ Become(m, "entered")
    /\ handlerWg' = handlerWg + 1
    /\ UNCHANGED <<mainVars, marker, prune, botStop, clients, req, touchVars>>

\* The bot has been stopped: the message is dropped.
Check(m) ==
    /\ Alive
    /\ msg[m] = "entered"
    /\ IF StopChClosed THEN Become(m, "done") /\ handlerWg' = handlerWg - 1
                       ELSE Become(m, "waiting") /\ UNCHANGED handlerWg
    /\ UNCHANGED <<mainVars, marker, prune, botStop, clients, req, touchVars>>

\* A slot of b.sem is free: the handler starts, even if stopCh is closed too.
Launch(m) ==
    /\ Alive
    /\ msg[m] = "waiting"
    /\ Cardinality(Running) < Slots
    /\ Become(m, "running")
    /\ UNCHANGED <<mainVars, marker, prune, handlerWg, botStop, clients, req, touchVars>>

\* The bot is stopped while the message waits for a slot.
GiveUp(m) ==
    /\ Alive
    /\ msg[m] = "waiting"
    /\ StopChClosed
    /\ Become(m, "done")
    /\ handlerWg' = handlerWg - 1
    /\ UNCHANGED <<mainVars, marker, prune, botStop, clients, req, touchVars>>

\* The handler returns, or panics and is recovered.
Finish(m) ==
    /\ Alive
    /\ msg[m] = "running"
    /\ Become(m, "done")
    /\ handlerWg' = handlerWg - 1
    /\ UNCHANGED <<mainVars, marker, prune, botStop, clients, req, touchVars>>

\* Mutant: the goroutine is not counted before it starts.
StartPruneUncounted(m) ==
    /\ Alive
    /\ msg[m] = "running"
    /\ prune[m] = "none"
    /\ prune' = [prune EXCEPT ![m] = "running"]
    /\ UNCHANGED <<mainVars, marker, msg, handlerWg, botStop, clients, req, touchVars>>

\* handleBroadcast leaves the users it could not reach to a goroutine.
StartPrune(m) ==
    /\ Alive
    /\ msg[m] = "running"
    /\ prune[m] = "none"
    /\ prune' = [prune EXCEPT ![m] = "running"]
    /\ handlerWg' = handlerWg + 1
    /\ UNCHANGED <<mainVars, marker, msg, botStop, clients, req, touchVars>>

EndPrune(m) ==
    /\ Alive
    /\ prune[m] = "running"
    /\ prune' = [prune EXCEPT ![m] = "done"]
    /\ handlerWg' = handlerWg - 1
    /\ UNCHANGED <<mainVars, marker, msg, botStop, clients, req, touchVars>>

-----------------------------------------------------------------------------
(* Requests for a file, and the seen counts they add.                      *)

Reach(r, s) == req' = [req EXCEPT ![r] = s]

\* The server accepts connections until Shutdown closes its listener.
Accept(r) ==
    /\ main \in {"serving", "marker"}
    /\ req[r] = "idle"
    /\ Reach(r, "lookup")
    /\ UNCHANGED <<mainVars, marker, botVars, clients, touchVars>>

\* FindFileByHash: a record, from the cache or the store, or none.
LookUp(r) ==
    /\ Alive
    /\ req[r] = "lookup"
    /\ Reach(r, "touch") \/ Reach(r, "done")
    /\ UNCHANGED <<mainVars, marker, botVars, clients, touchVars>>

\* TouchBuffer.Increment: a send on the closed channel panics, and a full
\* channel drops the count.
Increment(r) ==
    /\ Alive
    /\ req[r] = "touch"
    /\ IF chClosed
       THEN Reach(r, "panicked") /\ UNCHANGED touch
       ELSE /\ Reach(r, "body")
            /\ touch' = [touch EXCEPT ![r] =
                   IF Cardinality(Touches("queued")) < Capacity THEN "queued" ELSE "dropped"]
    /\ UNCHANGED <<mainVars, marker, botVars, clients, chClosed, flusher>>

EndRequest(r) ==
    /\ Alive
    /\ req[r] = "body"
    /\ Reach(r, "done")
    /\ UNCHANGED <<mainVars, marker, botVars, clients, touchVars>>

-----------------------------------------------------------------------------
(* flushLoop.                                                              *)

FlusherOnly == UNCHANGED <<mainVars, marker, botVars, clients, req, chClosed>>

\* A key is received, before the channel is seen to be closed.
Receive(r) ==
    /\ Alive
    /\ flusher = "select"
    /\ touch[r] = "queued"
    /\ touch' = [touch EXCEPT ![r] = "counted"]
    /\ UNCHANGED flusher
    /\ FlusherOnly

\* The ticker: a BulkWrite starts, and nothing is received until it is over.
Flush ==
    /\ Alive
    /\ flusher = "select"
    /\ Touches("counted") # {}
    /\ flusher' = "flush"
    /\ UNCHANGED touch
    /\ FlusherOnly

\* The channel is closed and drained: the last flush, if there is a count.
FlushLast ==
    /\ Alive
    /\ flusher = "select"
    /\ chClosed
    /\ Touches("queued") = {}
    /\ flusher' = IF Touches("counted") = {} THEN "done" ELSE "last"
    /\ UNCHANGED touch
    /\ FlusherOnly

\* The BulkWrite returns: it is not ordered, and the counts it could not write
\* are dropped with the rest.
EndFlush(S) ==
    /\ Alive
    /\ flusher \in {"flush", "last"}
    /\ touch' = [r \in Requests |->
           IF touch[r] = "counted" THEN (IF r \in S THEN "saved" ELSE "lost") ELSE touch[r]]
    /\ flusher' = IF flusher = "last" THEN "done" ELSE "select"
    /\ FlusherOnly

-----------------------------------------------------------------------------
(* The restart marker's goroutine, and Bot.Stop.                           *)

MarkerOnly == UNCHANGED <<mainVars, botVars, clients, req, touchVars>>

\* PopRestartMarker finds a marker, or none.
PopMarker ==
    /\ Alive
    /\ marker = "pop"
    /\ marker' \in {"edit", "done"}
    /\ MarkerOnly

\* restartCancel: the query is given up.
CancelPop ==
    /\ main = "marker"
    /\ marker = "pop"
    /\ marker' = "done"
    /\ MarkerOnly

\* EditMessage has no context: it is over when gogram says so.
EditMarker ==
    /\ Alive
    /\ marker = "edit"
    /\ marker' = "done"
    /\ MarkerOnly

\* Stop: baseCtx is cancelled and stopCh closed ...
CloseStopCh ==
    /\ Alive
    /\ botStop = "closing"
    /\ botStop' = "waiting"
    /\ UNCHANGED <<mainVars, marker, msg, prune, handlerWg, clients, req, touchVars>>

\* ... and the handlers that run are waited for.
HandlersGone ==
    /\ Alive
    /\ botStop = "waiting"
    /\ handlerWg = 0
    /\ botStop' = "done"
    /\ UNCHANGED <<mainVars, marker, msg, prune, handlerWg, clients, req, touchVars>>

\* Terminate has disconnected the clients: no more messages come.
Terminate ==
    /\ Alive
    /\ clients = "stopping"
    /\ clients' = "down"
    /\ UNCHANGED <<mainVars, marker, botVars, req, touchVars>>

-----------------------------------------------------------------------------
(* Run.                                                                    *)

\* ListenAndServe fails: Run returns at once, and main exits.
ServerFails ==
    /\ main = "serving"
    /\ main' = "failed"
    /\ UNCHANGED <<timeUp, touchTimedOut, marker, botVars, clients, req, touchVars>>

\* SIGINT or SIGTERM, a /restart's included.
Signal ==
    /\ main = "serving"
    /\ main' = "marker"
    /\ UNCHANGED <<timeUp, touchTimedOut, marker, botVars, clients, req, touchVars>>

\* restartWg.Wait(), without a deadline; then the shutdown's 30 s start, and
\* HTTP.Shutdown closes the listener.
MarkerGone ==
    /\ main = "marker"
    /\ marker = "done"
    /\ main' = "http"
    /\ UNCHANGED <<timeUp, touchTimedOut, marker, botVars, clients, req, touchVars>>

ShutdownTimer ==
    /\ main \in Stopping
    /\ ~timeUp
    /\ timeUp' = TRUE
    /\ UNCHANGED <<main, touchTimedOut, marker, botVars, clients, req, touchVars>>

\* Mutant: Shutdown closes the listener, and requests are not waited for.
HTTPClosed ==
    /\ main = "http"
    /\ main' = "bot"
    /\ botStop' = "closing"
    /\ UNCHANGED <<timeUp, touchTimedOut, marker, msg, prune, handlerWg, clients, req, touchVars>>

\* Shutdown returns, in time or not; a goroutine starts to stop the bot.
HTTPDown ==
    /\ main = "http"
    /\ Serving = {} \/ timeUp
    /\ main' = "bot"
    /\ botStop' = "closing"
    /\ UNCHANGED <<timeUp, touchTimedOut, marker, msg, prune, handlerWg, clients, req, touchVars>>

\* Mutant: the pool is stopped without waiting for the bot.
BotAbandoned ==
    /\ main = "bot"
    /\ main' = "pool"
    /\ clients' = "stopping"
    /\ UNCHANGED <<timeUp, touchTimedOut, marker, botVars, req, touchVars>>

\* The bot has stopped, or is left; Pool.Stop.
BotDown ==
    /\ main = "bot"
    /\ botStop = "done" \/ timeUp
    /\ main' = "pool"
    /\ clients' = "stopping"
    /\ UNCHANGED <<timeUp, touchTimedOut, marker, botVars, req, touchVars>>

\* TouchBuffer.Stop closes the channel.
PoolDown ==
    /\ main = "pool"
    /\ clients = "down" \/ timeUp
    /\ main' = "touch"
    /\ chClosed' = TRUE
    /\ UNCHANGED <<timeUp, touchTimedOut, marker, botVars, clients, req, touch, flusher>>

\* Mutant: Stop waits for the flush loop alone.
NoTouchTimer == FALSE /\ UNCHANGED vars

TouchTimer ==
    /\ main = "touch"
    /\ ~touchTimedOut
    /\ touchTimedOut' = TRUE
    /\ UNCHANGED <<main, timeUp, marker, botVars, clients, req, touchVars>>

\* Store.Close disconnects the Mongo client.
TouchesDown ==
    /\ main = "touch"
    /\ flusher = "done" \/ touchTimedOut
    /\ main' = "closed"
    /\ UNCHANGED <<timeUp, touchTimedOut, marker, botVars, clients, req, touchVars>>

Exit ==
    /\ main = "closed"
    /\ main' = "exited"
    /\ UNCHANGED <<timeUp, touchTimedOut, marker, botVars, clients, req, touchVars>>

-----------------------------------------------------------------------------

\* The steps that need no answer of Mongo or of a handler.
RunStep == \/ MarkerGone \/ HTTPDown \/ BotDown \/ PoolDown \/ TouchesDown \/ Exit
           \/ CancelPop \/ CloseStopCh

Handler(m) == \/ Enter(m) \/ Check(m) \/ Launch(m) \/ GiveUp(m) \/ Finish(m)
              \/ StartPrune(m) \/ EndPrune(m)

Request(r) == Accept(r) \/ LookUp(r) \/ Increment(r) \/ EndRequest(r)

FlushLoop == \/ \E r \in Requests : Receive(r)
             \/ Flush \/ FlushLast
             \/ \E S \in SUBSET Touches("counted") : EndFlush(S)

Finished == ~Alive /\ UNCHANGED vars

Next == \/ RunStep \/ Signal \/ ServerFails \/ ShutdownTimer \/ TouchTimer
        \/ PopMarker \/ EditMarker \/ HandlersGone \/ Terminate
        \/ \E m \in Messages : Handler(m)
        \/ \E r \in Requests : Request(r)
        \/ FlushLoop
        \/ Finished

Spec == Init /\ [][Next]_vars

\* Run goes on, timers fire, and gogram gives up a call of its own accord.
\* That handlers, requests, clients or a BulkWrite ever end is not assumed.
Fairness == /\ WF_vars(RunStep)
            /\ WF_vars(ShutdownTimer)
            /\ WF_vars(TouchTimer)
            /\ WF_vars(EditMarker)

FairSpec == Spec /\ Fairness

-----------------------------------------------------------------------------
(* Properties.                                                             *)

\* bot.go:224-225, 256-257: once Stop has returned no handler runs, nor what a
\* handler has left behind, and none will, though messages still come in.
HandlersDrained == botStop = "done" => Running = {} /\ Pruning = {}

\* app.go:236-239 and the order of Run: within the deadlines, the clients are
\* terminated when no handler and no request uses them, and the store is
\* closed when no seen count is on its way to it.
NothingInUseIsStopped ==
    /\ clients # "up" /\ ~timeUp => Running = {} /\ Pruning = {} /\ Serving = {}
    /\ main = "closed" /\ ~touchTimedOut => flusher = "done"

\* store.go:586-587: no request sends on the closed channel, unless it has
\* outlived the server's shutdown.
NoSendOnClosed == (\E r \in Requests : req[r] = "panicked") => timeUp

\* app.go:38-40: after a shutdown within its deadlines every seen count that
\* was taken in has been written, or its write has failed.
TouchesWritten ==
    main = "exited" /\ ~touchTimedOut => Touches("queued") \cup Touches("counted") = {}

\* app.go:203-205, 223-225: nothing the process waits for, a handler, a request,
\* Telegram or Mongo, keeps it from exiting when it has been told to.
ShutdownEnds == main = "marker" ~> main = "exited"
=============================================================================
