-------------------------------- MODULE Batch --------------------------------
(***************************************************************************)
(* /link N of internal/bot (linkBatch): a producer hands the indices of N   *)
(* consecutive messages to workers, which ingest each file and shorten its  *)
(* two links at once; the results, kept by index, are then posted in        *)
(* chunks, in the messages' order, and counted in the status message, which *)
(* the workers have used for the progress before.  The batch has a deadline *)
(* that ends its ingestions; Shortener says what becomes of the links.      *)
(*                                                                         *)
(* Ingest is a call that succeeds or fails here: module Ingest says how.    *)
(***************************************************************************)
EXTENDS Shortener

CONSTANTS
    Messages,       \* len(msgs); message 1 is the oldest
    Media,          \* the messages with a file
    FileOf,         \* FileOf[i]: its file
    Files,
    Workers,        \* numWorkers of them
    IndexBuffer,    \* capacity of the channel of indices
    ChunkSize,      \* links per posted message
    ProgressEvery,  \* completions between two progress edits
    Senders,        \* whether the sender may be an owner, or on the allowlist
    MaxPanics       \* bound on the workers that panic

Indices == 1..Messages
Links   == {"stream", "download"}

ASSUME BatchAssumption ==
    /\ Messages \in Nat /\ Media \subseteq Indices /\ Workers # {}
    /\ FileOf \in [Indices -> Files]
    /\ IndexBuffer \in Nat \ {0} /\ ChunkSize \in Nat \ {0} /\ ProgressEvery \in Nat \ {0}
    /\ Senders \subseteq BOOLEAN /\ MaxPanics \in Nat
    /\ Callers = Workers \X Links /\ Urls = Files \X Links

VARIABLES
    privileged, \* the sender is an owner, or on the allowlist
    ctx,        \* batchCtx: "live", "expired", or cancelled as the handler returns
    handed,     \* the indices the producer has handed out
    producing,  \* it has not closed the channel
    indices,    \* the channel
    at,         \* at[w]: where worker w is
    job,        \* job[w]: its index, 0 for none
    shown,      \* shown[w]: the progress it is about to show
    results,    \* results[i]: its outcome and its message, "none" until written
    processed, lastShown,
    status,     \* the status message: the progress, or the summary
    main,       \* where the handler is: waiting, gathering, or what follows
    read,       \* the results it has gone through
    chunk,      \* the links of the next post
    posted,     \* the posts
    counts,     \* succeeded, skipped, failed
    dmFailed,
    panics

request   == <<privileged, ctx>>
batchVars == <<request, handed, producing, indices, at, job, shown, results, processed,
               lastShown, status, main, read, chunk, posted, counts, dmFailed, panics>>
vars == <<batchVars, shortenerVars>>

Outcomes == {"ok", "skipped", "failed"}

None == <<"none", 0>>

Init ==
    /\ privileged \in Senders /\ ctx = "live"
    /\ handed = 0 /\ producing = TRUE /\ indices = <<>>
    /\ at = [w \in Workers |-> "receive"]
    /\ job = [w \in Workers |-> 0]
    /\ shown = [w \in Workers |-> 0]
    /\ results = [i \in Indices |-> None]
    /\ processed = 0 /\ lastShown = 0
    /\ status = <<"processing", 0>>
    /\ main = "wait" /\ read = 0
    /\ chunk = <<>> /\ posted = <<>>
    /\ counts = [o \in Outcomes |-> 0]
    /\ dmFailed = 0
    /\ panics = 0
    /\ ShortenerInit

-----------------------------------------------------------------------------
(* The producer.                                                            *)

handlerVars == <<main, read, chunk, posted, counts, dmFailed>>
workerVars  == <<at, job, shown, results, processed, lastShown, status>>

\* (The producer waits for the workers only.)
HandOutOnly ==
    /\ producing
    /\ \/ /\ handed < Messages /\ Len(indices) < IndexBuffer
          /\ indices' = Append(indices, handed + 1)
          /\ handed' = handed + 1
          /\ UNCHANGED producing
       \/ /\ handed = Messages
          /\ producing' = FALSE
          /\ UNCHANGED <<indices, handed>>
    /\ UNCHANGED <<request, workerVars, handlerVars, panics, shortenerVars>>

\* The next index, or the channel's end: after the last, and when the batch ends.
HandOut ==
    /\ producing
    /\ \/ /\ handed < Messages /\ Len(indices) < IndexBuffer
          /\ indices' = Append(indices, handed + 1)
          /\ handed' = handed + 1
          /\ UNCHANGED producing
       \/ /\ handed = Messages \/ ctx # "live"
          /\ producing' = FALSE
          /\ UNCHANGED <<indices, handed>>
    /\ UNCHANGED <<request, workerVars, handlerVars, panics, shortenerVars>>

-----------------------------------------------------------------------------
(* The workers.                                                             *)

producerVars == <<handed, producing>>

Go(w, place, i) == at' = [at EXCEPT ![w] = place] /\ job' = [job EXCEPT ![w] = i]

\* range indices: an index, unless the batch has ended, or the channel's end.
Receive(w) ==
    /\ at[w] = "receive"
    /\ \/ /\ indices # <<>>
          /\ indices' = Tail(indices)
          /\ IF ctx # "live" THEN Go(w, "done", 0)
             ELSE Go(w, IF Head(indices) \in Media THEN "ingest" ELSE "skipped", Head(indices))
       \/ /\ indices = <<>> /\ ~producing
          /\ Go(w, "done", 0)
          /\ UNCHANGED indices
    /\ UNCHANGED <<request, producerVars, shown, results, processed, lastShown, status,
                   handlerVars, panics, shortenerVars>>

\* Ingest, whose file's links are shortened for those who are not privileged, the
\* two of them at once.
Ingest(w) ==
    /\ at[w] = "ingest"
    /\ \/ Go(w, "failed", job[w]) /\ UNCHANGED shortenerVars
       \/ privileged /\ Go(w, "ok", job[w]) /\ UNCHANGED shortenerVars
       \/ /\ ~privileged
          /\ Go(w, "shorten", job[w])
          /\ step' = [c \in Callers |-> IF c[1] = w THEN "lookup" ELSE step[c]]
          /\ asked' = [c \in Callers |-> IF c[1] = w THEN <<FileOf[job[w]], c[2]>> ELSE asked[c]]
          /\ UNCHANGED <<cache, flight, shortenerHistory>>
    /\ UNCHANGED <<request, producerVars, indices, shown, results, processed, lastShown, status,
                   handlerVars, panics>>

\* Both links are there.
Shortened(w) ==
    /\ at[w] = "shorten"
    /\ \A l \in Links : step[<<w, l>>] \in {"short", "long"}
    /\ Go(w, "ok", job[w])
    /\ step' = [c \in Callers |-> IF c[1] = w THEN "idle" ELSE step[c]]
    /\ asked' = [c \in Callers |-> IF c[1] = w THEN NoUrl ELSE asked[c]]
    /\ UNCHANGED <<request, producerVars, indices, shown, results, processed, lastShown, status,
                   handlerVars, panics, cache, flight, shortenerHistory>>

\* The recover of a worker: its message has no result.
Panic(w) ==
    /\ at[w] = "ingest" /\ panics < MaxPanics
    /\ Go(w, "done", 0)
    /\ panics' = panics + 1
    /\ UNCHANGED <<request, producerVars, indices, shown, results, processed, lastShown, status,
                   handlerVars, shortenerVars>>

\* (Results are kept in the order in which the workers bring them.)
InOrderOfArrival(w) ==
    [results EXCEPT ![CHOOSE i \in Indices : results[i] = None] = <<at[w], job[w]>>]

\* results[i].
Stored(w) == [results EXCEPT ![job[w]] = <<at[w], job[w]>>]

\* (A file that was not ingested ends its worker: return instead of continue.)
FailureReturns(w) == IF at[w] = "failed" THEN "done" ELSE "progress"

\* What a worker does once its result is there.
Then(w) == "progress"

Finish(w) ==
    /\ at[w] \in Outcomes
    /\ results' = Stored(w)
    /\ processed' = processed + 1
    /\ Go(w, Then(w), 0)
    /\ UNCHANGED <<request, producerVars, indices, shown, lastShown, status,
                   handlerVars, panics, shortenerVars>>

\* updateProgress: too soon for another edit, or the one to be made is claimed.
Progress(w) ==
    /\ at[w] = "progress"
    /\ IF processed < lastShown + ProgressEvery /\ processed < Messages
       THEN Go(w, "receive", 0) /\ UNCHANGED <<shown, lastShown>>
       ELSE /\ lastShown' = processed
            /\ shown' = [shown EXCEPT ![w] = processed]
            /\ Go(w, "edit", 0)
    /\ UNCHANGED <<request, producerVars, indices, results, processed, status,
                   handlerVars, panics, shortenerVars>>

Edit(w) ==
    /\ at[w] = "edit"
    /\ status' = <<"processed", shown[w]>>
    /\ shown' = [shown EXCEPT ![w] = 0]
    /\ Go(w, "receive", 0)
    /\ UNCHANGED <<request, producerVars, indices, results, processed, lastShown,
                   handlerVars, panics, shortenerVars>>

-----------------------------------------------------------------------------
(* The handler.                                                             *)

\* (A progress edit may still be on its way.)
OnlyEditsLeft == \A w \in Workers : at[w] \in {"edit", "done"}

\* wg.Wait.
WorkersDone == \A w \in Workers : at[w] = "done"

Waited ==
    /\ main = "wait" /\ WorkersDone
    /\ main' = "gather"
    /\ UNCHANGED <<request, producerVars, indices, workerVars, read, chunk, posted, counts,
                   dmFailed, panics, shortenerVars>>

\* Whether the links gathered so far are posted.
Full(links) == Len(links) >= ChunkSize

\* flushChunk posts the links; the private copy may not get through.
Flush(links) ==
    /\ posted' = Append(posted, links)
    /\ chunk' = <<>>
    /\ dmFailed' \in {dmFailed, dmFailed + 1}

\* One result, in the order of the messages.  One that no worker has written counts
\* as nothing.
Gather ==
    LET result == results[read + 1]
        links  == Append(chunk, result[2])
    IN
    /\ main = "gather" /\ read < Messages
    /\ read' = read + 1
    /\ counts' = IF result = None THEN counts ELSE [counts EXCEPT ![result[1]] = @ + 1]
    /\ IF result[1] # "ok" THEN UNCHANGED <<chunk, posted, dmFailed>>
       ELSE IF Full(links) THEN Flush(links)
       ELSE chunk' = links /\ UNCHANGED <<posted, dmFailed>>
    /\ UNCHANGED <<request, producerVars, indices, workerVars, main, panics, shortenerVars>>

LastFlush ==
    IF chunk # <<>> THEN Flush(chunk) ELSE UNCHANGED <<chunk, posted, dmFailed>>

Gathered ==
    /\ main = "gather" /\ read = Messages
    /\ LastFlush
    /\ main' = "summary"
    /\ UNCHANGED <<request, producerVars, indices, workerVars, read, counts, panics, shortenerVars>>

\* The summary takes the status message's place; the deferred batchCancel runs.
Summarise ==
    /\ main = "summary"
    /\ status' = <<"summary", 0>>
    /\ main' = "done"
    /\ ctx' = IF ctx = "live" THEN "cancelled" ELSE ctx
    /\ UNCHANGED <<privileged, producerVars, indices, at, job, shown, results, processed, lastShown,
                   read, chunk, posted, counts, dmFailed, panics, shortenerVars>>

\* The deadline, or the bot's shutdown.
Expire ==
    /\ ctx = "live"
    /\ ctx' = "expired"
    /\ UNCHANGED <<privileged, producerVars, indices, workerVars, handlerVars, panics, shortenerVars>>

ShortenLink(w) ==
    /\ \E l \in Links : Shorten(<<w, l>>)
    /\ UNCHANGED batchVars

ServiceAnswers(u) == Answer(u) /\ UNCHANGED batchVars

Work(w) ==
    \/ Receive(w) \/ Ingest(w) \/ ShortenLink(w) \/ Shortened(w)
    \/ Finish(w) \/ Progress(w) \/ Edit(w)

Handle == Waited \/ Gather \/ Gathered \/ Summarise

Over == main = "done" /\ ~producing /\ UNCHANGED vars

Next ==
    \/ HandOut
    \/ \E w \in Workers : Work(w) \/ Panic(w)
    \/ \E u \in Urls : ServiceAnswers(u)
    \/ Handle \/ Expire \/ Over

Spec == Init /\ [][Next]_vars

\* Goroutines run; Ingest ends with its context at the latest; the service's
\* client gives up after ten seconds.
FairSpec ==
    /\ Spec
    /\ WF_vars(HandOut) /\ WF_vars(Handle)
    /\ \A w \in Workers : WF_vars(Work(w))
    /\ \A u \in Urls : WF_vars(ServiceAnswers(u))

-----------------------------------------------------------------------------
(* Properties.                                                              *)

TypeOK ==
    /\ privileged \in Senders /\ ctx \in {"live", "expired", "cancelled"} /\ producing \in BOOLEAN
    /\ handed \in 0..Messages
    /\ indices \in Seq(Indices) /\ Len(indices) <= IndexBuffer
    /\ at \in [Workers -> {"receive", "ingest", "shorten", "progress", "edit", "done"} \cup Outcomes]
    /\ job \in [Workers -> 0..Messages] /\ shown \in [Workers -> 0..Messages]
    /\ results \in [Indices -> (Outcomes \X Indices) \cup {None}]
    /\ processed \in 0..Messages /\ lastShown \in 0..Messages
    /\ status \in {"processing", "processed", "summary"} \X (0..Messages)
    /\ main \in {"wait", "gather", "summary", "done"}
    /\ read \in 0..Messages
    /\ chunk \in Seq(Indices) /\ posted \in Seq(Seq(Indices))
    /\ counts \in [Outcomes -> 0..Messages]
    /\ dmFailed \in 0..Messages /\ panics \in 0..MaxPanics
    /\ ShortenerTypeOK

\* The messages that came out so.
CameOut(o) == {m \in Indices : \E i \in Indices : results[i] = <<o, m>>}

\* Whatever the order in which the workers finish, the links are posted in the
\* order of the messages, each that is ready once and none that is not, in posts
\* of ChunkSize and a shorter last one.
PostedInOrder ==
    main \in {"summary", "done"} =>
        /\ LET links == FlattenSeq(posted) IN
              /\ ToSet(links) = CameOut("ok")
              /\ \A i, j \in DOMAIN links : i < j => links[i] < links[j]
        /\ \A k \in DOMAIN posted : Len(posted[k]) <= ChunkSize
        /\ \A k \in DOMAIN posted : k < Len(posted) => Len(posted[k]) = ChunkSize

\* The counts of the summary are true, and are all the messages unless the batch
\* ran out of time or a worker panicked.
EveryMessageCounts ==
    main = "done" =>
        /\ \A o \in Outcomes : counts[o] = Cardinality(CameOut(o))
        /\ ctx # "expired" /\ panics = 0 =>
              /\ counts["ok"] + counts["failed"] = Cardinality(Media)
              /\ counts["skipped"] = Messages - Cardinality(Media)

\* The summary is the last thing the status message shows: no progress edit of a
\* worker comes after it.
SummaryStays == main = "done" => status[1] = "summary"

\* The batch ends, and so does its producer, whatever the workers come to.
BatchEnds == <>(main = "done" /\ ~producing)
=============================================================================
