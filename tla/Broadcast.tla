----------------------------- MODULE Broadcast -----------------------------
(***************************************************************************)
(* /broadcast of internal/bot (handleBroadcast): a producer walks the users *)
(* collection with a cursor and feeds a channel, workers forward the        *)
(* message to one user each and report on a second channel, the handler     *)
(* counts the reports, leaves a goroutine behind that deletes the users     *)
(* nobody can reach any more, and posts a summary.  The owner may press     *)
(* Cancel while it runs, and users who had blocked the bot may come back.    *)
(*                                                                         *)
(* The two channels have the same capacity, Buffer.  The reports only count *)
(* and commute, so the channel of reports is a set.  A Forward and its      *)
(* answer are one step: nothing the broadcast does depends on when in the   *)
(* call the message lands.                                                  *)
(***************************************************************************)
EXTENDS Naturals, Sequences, FiniteSets

CONSTANTS
    Users,        \* the users collection when the broadcast begins
    Documents,    \* the order in which the cursor returns them
    Authorised,   \* the users on the allowlist
    Fickle,       \* the users who have blocked the bot, and may come back
    Workers,      \* numWorkers of them
    Modes,        \* the modes the owner may choose
    Buffer,       \* capacity of userCh and of resCh
    MaxAttempts,  \* forwards tried for one user
    MaxPanics,    \* bound on the workers that panic
    MaxLost,      \* bound on the users an answer for whom is lost
    NoUser        \* a worker, or the producer, without a user

ASSUME BroadcastAssumption ==
    /\ IsFiniteSet(Users) /\ IsFiniteSet(Workers) /\ Workers # {}
    /\ Documents \in Seq(Users) /\ \A u \in Users : \E i \in DOMAIN Documents : Documents[i] = u
    /\ \A i, j \in DOMAIN Documents : Documents[i] = Documents[j] => i = j
    /\ Authorised \subseteq Users /\ Fickle \subseteq Users
    /\ Modes \subseteq {"all", "authorized", "regular"}
    /\ Buffer \in Nat \ {0} /\ MaxAttempts \in Nat \ {0}
    /\ MaxPanics \in Nat /\ MaxLost \in Nat
    /\ NoUser \notin Users

VARIABLES
    mode,
    users,        \* the users collection
    away,         \* the users who cannot be reached: blocked, deactivated
    unseen,       \* the documents the cursor has not returned yet
    producer,     \* "fetch", "send" or, userCh closed, "done"
    next,         \* the user the producer holds
    userCh,
    counted,      \* the users totalUsers counts
    at,           \* at[w]: where worker w is
    job,          \* job[w]: the user it is forwarding to
    attempt,      \* attempt[w]: the forwards tried so far
    resCh,        \* reports not yet counted
    tally,        \* tally[v]: the users whose report v the handler has counted
    main,         \* where the handler is
    summary,      \* what it tells the owner
    prune,        \* the users the goroutine left behind has still to delete
    cancelled     \* broadcastCtx is cancelled

\* What happened, for the properties: copies[u] messages were delivered to u, and
\* the answer of one of them was lost for the users in lost; the owner pressed
\* Cancel; an allowlist check failed for somebody who is on it; panics workers
\* panicked; came back came; late[w] users were begun by w after the press.
VARIABLES copies, lost, pressed, misjudged, panics, came, late

history == <<copies, lost, pressed, misjudged, panics, came, late>>
vars == <<mode, users, away, unseen, producer, next, userCh, counted, at, job, attempt, resCh,
          tally, main, summary, prune, cancelled, history>>

Verdicts == {"ok", "failed", "unreachable"}

\* The verdicts double as the states of a worker about to report one.
Places == {"receive", "forward", "backoff", "delay", "done"} \cup Verdicts

Addressed(u, authorised) ==
    CASE mode = "all" -> TRUE
      [] mode = "authorized" -> authorised
      [] mode = "regular" -> ~authorised

Decided == tally["ok"] \cup tally["failed"] \cup tally["unreachable"]

Init ==
    /\ mode \in Modes
    /\ users = Users /\ unseen = Documents
    /\ away = Fickle
    /\ producer = "fetch" /\ next = NoUser
    /\ userCh = <<>> /\ resCh = {}
    /\ counted = {}
    /\ at = [w \in Workers |-> "receive"]
    /\ job = [w \in Workers |-> NoUser]
    /\ attempt = [w \in Workers |-> 0]
    /\ tally = [v \in Verdicts |-> {}]
    /\ main = "collect" /\ summary = "none"
    /\ prune = {}
    /\ cancelled = FALSE
    /\ copies = [u \in Users |-> 0] /\ lost = {}
    /\ pressed = FALSE /\ misjudged = FALSE /\ panics = 0 /\ came = {}
    /\ late = [w \in Workers |-> 0]

-----------------------------------------------------------------------------
(* The producer: StreamUsers and its callback.                              *)

workerVars == <<at, job, attempt, resCh>>
mainVars   == <<tally, main, summary, prune>>
worldVars  == <<mode, users, away>>

Close == producer' = "done" /\ next' = NoUser

\* The next document; an allowlist check that fails counts as "no".  A user the
\* mode addresses is counted before the cancellation is looked at.
Fetch ==
    /\ producer = "fetch"
    /\ unseen # <<>> /\ unseen' = Tail(unseen)
    /\ LET u == Head(unseen) IN
          \E authorised \in {(u \in Authorised), FALSE} :
             /\ mode # "all" \/ authorised = (u \in Authorised)
             /\ misjudged' = (misjudged \/ authorised # (u \in Authorised))
             /\ IF ~Addressed(u, authorised)
                THEN UNCHANGED <<producer, next, counted>>
                ELSE /\ counted' = counted \cup {u}
                     /\ IF cancelled THEN Close ELSE producer' = "send" /\ next' = u
    /\ UNCHANGED <<workerVars, mainVars, worldVars, userCh, cancelled,
                   copies, lost, pressed, panics, came, late>>

\* The cursor is exhausted, or fails: the end of its context, which comes with the
\* handler's, is such a failure too.
CursorEnds ==
    /\ producer = "fetch"
    /\ Close
    /\ UNCHANGED <<workerVars, mainVars, worldVars, unseen, userCh, counted, cancelled, history>>

\* (The producer waits for room in the channel, and for nothing else.)
SendBlocks ==
    /\ producer = "send"
    /\ Len(userCh) < Buffer
    /\ userCh' = Append(userCh, next)
    /\ producer' = "fetch" /\ next' = NoUser
    /\ UNCHANGED <<workerVars, mainVars, worldVars, unseen, counted, cancelled, history>>

Send ==
    /\ producer = "send"
    /\ \/ /\ Len(userCh) < Buffer
          /\ userCh' = Append(userCh, next)
          /\ producer' = "fetch" /\ next' = NoUser
       \/ /\ cancelled
          /\ Close
          /\ UNCHANGED userCh
    /\ UNCHANGED <<workerVars, mainVars, worldVars, unseen, counted, cancelled, history>>

-----------------------------------------------------------------------------
(* The workers.                                                             *)

producerVars == <<unseen, producer, next, counted>>

\* The worker is through with its user and goes on at p.
GoOn(w, p) ==
    /\ at' = [at EXCEPT ![w] = p]
    /\ job' = [job EXCEPT ![w] = NoUser]
    /\ attempt' = [attempt EXCEPT ![w] = 0]

Retire(w) == GoOn(w, "done")

\* (A user is taken in hand whether or not the broadcast is cancelled.)
TakeAlways(w) ==
    /\ at' = [at EXCEPT ![w] = "forward"]
    /\ job' = [job EXCEPT ![w] = Head(userCh)]
    /\ UNCHANGED attempt

\* The user received is taken in hand, unless the broadcast is cancelled.
Take(w) ==
    IF cancelled
    THEN Retire(w)
    ELSE /\ at' = [at EXCEPT ![w] = "forward"]
         /\ job' = [job EXCEPT ![w] = Head(userCh)]
         /\ UNCHANGED attempt

\* range userCh: a user, or the channel's end.
Receive(w) ==
    /\ at[w] = "receive"
    /\ \/ /\ userCh # <<>>
          /\ userCh' = Tail(userCh)
          /\ Take(w)
       \/ /\ userCh = <<>> /\ producer = "done"
          /\ Retire(w)
          /\ UNCHANGED userCh
    /\ UNCHANGED <<producerVars, mainVars, worldVars, resCh, cancelled, history>>

\* What a forward to u may come to: delivered ("ok"), delivered with the answer
\* lost, refused for good, refused by the flood limit, or some other error.
Answers(u) ==
    {"flood", "error"}
    \cup (IF u \in away THEN {"unreachable"} ELSE {"ok"})
    \cup (IF u \notin away \cup lost /\ Cardinality(lost) < MaxLost THEN {"lost"} ELSE {})

\* (The attempts go on after a delivery.)
AfterNoBreak(w, answer) ==
    CASE answer = "unreachable" -> answer
      [] answer # "unreachable" ->
            IF attempt[w] + 1 < MaxAttempts THEN "backoff" ELSE IF answer = "ok" THEN "ok" ELSE "failed"

\* Where the answer takes the worker: an error is worth another attempt, after a
\* pause, but for those that say there is no use.
After(w, answer) ==
    CASE answer \in {"ok", "unreachable"} -> answer
      [] answer = "flood"                 -> "failed"
      [] answer \in {"lost", "error"}     -> IF attempt[w] + 1 < MaxAttempts THEN "backoff" ELSE "failed"

Forward(w) ==
    /\ at[w] = "forward"
    /\ \E answer \in Answers(job[w]) :
          /\ at' = [at EXCEPT ![w] = After(w, answer)]
          /\ copies' = [copies EXCEPT ![job[w]] = IF answer \in {"ok", "lost"} THEN @ + 1 ELSE @]
          /\ lost' = IF answer = "lost" THEN lost \cup {job[w]} ELSE lost
    /\ attempt' = [attempt EXCEPT ![w] = @ + 1]
    /\ late' = [late EXCEPT ![w] = IF cancelled /\ attempt[w] = 0 THEN @ + 1 ELSE @]
    /\ UNCHANGED <<producerVars, mainVars, worldVars, userCh, job, resCh, cancelled,
                   pressed, misjudged, panics, came>>

\* The worker's recover: its user goes unreported.
Panic(w) ==
    /\ at[w] = "forward" /\ panics < MaxPanics
    /\ Retire(w)
    /\ panics' = panics + 1
    /\ UNCHANGED <<producerVars, mainVars, worldVars, userCh, resCh, cancelled,
                   copies, lost, pressed, misjudged, came, late>>

\* The pause before another attempt, which the cancellation ends.
Backoff(w) ==
    /\ at[w] = "backoff"
    /\ \/ at' = [at EXCEPT ![w] = "forward"] /\ UNCHANGED <<job, attempt>>
       \/ cancelled /\ Retire(w)
    /\ UNCHANGED <<producerVars, mainVars, worldVars, userCh, resCh, cancelled, history>>

Report(w) ==
    /\ at[w] \in Verdicts
    /\ Cardinality(resCh) < Buffer
    /\ resCh' = resCh \cup {[user |-> job[w], verdict |-> at[w]]}
    /\ GoOn(w, "delay")
    /\ UNCHANGED <<producerVars, mainVars, worldVars, userCh, cancelled, history>>

\* The pause between two users.
Delay(w) ==
    /\ at[w] = "delay"
    /\ GoOn(w, "receive") \/ (cancelled /\ Retire(w))
    /\ UNCHANGED <<producerVars, mainVars, worldVars, userCh, resCh, cancelled, history>>

-----------------------------------------------------------------------------
(* The handler, and the goroutine it leaves behind.                         *)

Collect ==
    /\ main = "collect"
    /\ \E r \in resCh :
          /\ resCh' = resCh \ {r}
          /\ tally' = [tally EXCEPT ![r.verdict] = @ \cup {r.user}]
    /\ UNCHANGED <<producerVars, worldVars, userCh, at, job, attempt, main, summary, prune,
                   cancelled, history>>

\* (The handler waits for the workers, and not for the last of their reports.)
WorkersDone == \A w \in Workers : at[w] = "done"

\* resCh has been read to its end: it is closed once every worker has returned.
ReportsEnd == resCh = {} /\ \A w \in Workers : at[w] = "done"

\* The users to be deleted.
Unreachable == tally["unreachable"]

Drained ==
    /\ main = "collect"
    /\ ReportsEnd
    /\ main' = "summary"
    /\ prune' = Unreachable
    /\ UNCHANGED <<producerVars, worldVars, workerVars, userCh, tally, summary, cancelled, history>>

\* "cancelled" is worked out from the counts.
Summarise ==
    /\ main = "summary"
    /\ summary' = IF Cardinality(Decided) < Cardinality(counted) THEN "cancelled" ELSE "complete"
    /\ main' = "reply"
    /\ UNCHANGED <<producerVars, worldVars, workerVars, userCh, tally, prune, cancelled, history>>

\* The summary is posted and the deferred calls run: both contexts end.
Return ==
    /\ main = "reply"
    /\ main' = "done"
    /\ cancelled' = TRUE
    /\ UNCHANGED <<producerVars, worldVars, workerVars, userCh, tally, summary, prune, history>>

\* DeleteUser, which may fail; Stop ends its context.
Prune ==
    \E u \in prune :
        /\ prune' = prune \ {u}
        /\ users' \in {users, users \ {u}}
        /\ UNCHANGED <<producerVars, workerVars, mode, away, userCh, tally, main, summary,
                       cancelled, history>>

-----------------------------------------------------------------------------
(* The world.                                                               *)

\* The button works for as long as the broadcast is registered.
PressCancel ==
    /\ main # "done" /\ ~pressed
    /\ cancelled' = TRUE
    /\ pressed' = TRUE
    /\ UNCHANGED <<producerVars, worldVars, workerVars, mainVars, userCh,
                   copies, lost, misjudged, panics, came, late>>

\* A user who comes back says /start, which upserts the user.
ComeBack(u) ==
    /\ u \in away
    /\ away' = away \ {u}
    /\ came' = came \cup {u}
    /\ users' = users \cup {u}
    /\ UNCHANGED <<producerVars, workerVars, mainVars, mode, userCh, cancelled,
                   copies, lost, pressed, misjudged, panics, late>>

Work(w) == Receive(w) \/ Forward(w) \/ Panic(w) \/ Backoff(w) \/ Report(w) \/ Delay(w)
Handle  == Collect \/ Drained \/ Summarise \/ Return

\* The broadcast is over and nobody will change anything more.
Over ==
    /\ main = "done" /\ producer = "done" /\ prune = {}
    /\ UNCHANGED vars

Next ==
    \/ Fetch \/ CursorEnds \/ Send
    \/ \E w \in Workers : Work(w)
    \/ Handle \/ Prune
    \/ PressCancel
    \/ \E u \in Fickle : ComeBack(u)
    \/ Over

Spec == Init /\ [][Next]_vars

\* Goroutines run, Forward returns and so does the edit of the status message.
SteadySpec ==
    /\ Spec
    /\ WF_vars(Send) /\ WF_vars(Handle) /\ WF_vars(Prune)
    /\ \A w \in Workers : WF_vars(Work(w))

\* The database answers the cursor as well.
FairSpec == SteadySpec /\ WF_vars(Fetch \/ CursorEnds)

-----------------------------------------------------------------------------
(* Properties.                                                              *)

TypeOK ==
    /\ mode \in Modes
    /\ users \subseteq Users /\ away \subseteq Fickle /\ unseen \in Seq(Users)
    /\ producer \in {"fetch", "send", "done"} /\ next \in Users \cup {NoUser}
    /\ userCh \in Seq(Users) /\ Len(userCh) <= Buffer
    /\ counted \subseteq Users
    /\ at \in [Workers -> Places]
    /\ job \in [Workers -> Users \cup {NoUser}]
    /\ attempt \in [Workers -> 0..MaxAttempts]
    /\ resCh \subseteq [user : Users, verdict : Verdicts]
    /\ tally \in [Verdicts -> SUBSET Users]
    /\ main \in {"collect", "summary", "reply", "done"}
    /\ summary \in {"none", "complete", "cancelled"}
    /\ prune \subseteq Users
    /\ cancelled \in BOOLEAN /\ pressed \in BOOLEAN /\ misjudged \in BOOLEAN
    /\ copies \in [Users -> Nat] /\ lost \subseteq Users
    /\ panics \in 0..MaxPanics /\ came \subseteq Fickle
    /\ late \in [Workers -> Nat]

\* No user gets the message twice, whatever the retries and however many workers,
\* but for the copy whose answer was lost.
OneCopyEach == \A u \in Users : copies[u] <= IF u \in lost THEN 2 ELSE 1

\* The summary says "cancelled" only if somebody pressed Cancel or a worker
\* panicked; and "complete", with neither and the cursor read to its end, only if
\* every user the mode addresses has been tried and those counted as delivered
\* have the message.
SummaryIsHonest ==
    summary # "none" =>
        /\ summary = "cancelled" => pressed \/ panics > 0
        /\ summary = "complete" /\ ~pressed /\ panics = 0 /\ unseen = <<>> /\ ~misjudged =>
              Decided = {u \in Users : Addressed(u, u \in Authorised)}
        /\ \A u \in tally["ok"] : copies[u] > 0

\* Once Cancel is pressed a worker begins no user but the one it has in hand.
CancelStopsWorkers == \A w \in Workers : late[w] <= 1

\* A user who could be reached all along stays in the collection.
OnlyAwayArePruned == Users \ users \subseteq away \cup came

\* The handler returns, and its producer does not outlive it for good: neither
\* waits for a channel nobody serves any more.
BroadcastEnds == <>(main = "done" /\ producer = "done" /\ prune = {})

\* handlers_owner.go:197: the listing "short-circuits on Cancel-button context":
\* after the press the broadcast ends, also when the database does not answer.
CancelEnds == pressed ~> main = "done"

=============================================================================
