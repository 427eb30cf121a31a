# ThunderGo in TLA+

ThunderGo is a Telegram bot that turns a file sent to it into an HTTP link. It
copies the file once into a private *vault* channel, records the copy in MongoDB
and streams it from Telegram, through a pool of clients, to whoever opens the
link. This directory specifies the parts of it in which goroutines, processes,
caches, deadlines and remote services meet, checks them with TLC on small
instances and proves the main properties with TLAPS for every instance.

Paths below are relative to the repository; `ingest.go:303` is
`internal/ingest/ingest.go`, line 303, and so on.

## 1. The system

| Component | State | Operations | Works with |
|---|---|---|---|
| **ingest** `internal/ingest` | `dedupMu` (a bounded map of one mutex per file key); locals of each call | `Ingest`: mutex, look the record up, validate its vault copy, take the cross-process lock, forward, persist, re-read and clean up; `CleanupDedupMu` | store (records, locks), Telegram (forward, validate, delete), the pool's lookup permits of the primary client |
| **store: files** `internal/store` | collection `files`; caches `fileByKey`, `fileByHash` | `InsertFile`, `ReplaceFile`, `FindFileByKey`, `FindFileByHash`, `DeleteFileByHash` | ingest, stream |
| **store: locks** | collection `file_ingest_locks` with a TTL index | `AcquireIngestLock`, `ReleaseIngestLock` | ingest, in every process |
| **store: access** | `banned_users`, `banned_channels`, `authorized`, `activation_tokens`, `activated_users`; a cache in front of each check | ban, unban, authorize, deauthorize, tokens, activation; `Is...` checks | bot |
| **store: users, restart markers** | collections `users`, `restart_markers` | `UpsertUser`, `DeleteUser`, `StreamUsers`; `SaveRestartMarker`, `PopRestartMarker` | bot |
| **store: touch buffer** | channel, counts, flush goroutine | `Increment`, `flushLoop`, `Stop` | stream, app |
| **bot** `internal/bot` | `sem` (handler slots), `handlerWg`, `stopCh`, the running broadcast | `dispatch`, `dispatchAsync`, `preflight`, the commands, `Stop` | everything |
| **pool** `internal/pool` | `Client.Inflight` (atomic), `acquireMu`, `lookupSem` per client | `AcquireBest`, `Release`, lookup permits, `Stop` | stream, ingest, app |
| **stream** `internal/stream` | locals of each request | `ServeHTTP`, `resolveVaultMedia`, `streamBody`, eviction of stale records | pool, store |
| **ratelimit** `internal/ratelimit` | `tats` in shards; a wrapped `x/time/rate` limiter | `AllowN`, `Reset`, `Sweep`; the global limiter's `Allow`, `RetryAfter` | bot |
| **app** `internal/app`, `cmd/thundergo` | the parts, in start-up order | `New` with its clean-ups, `Run`, the shutdown | everything, and the supervisor |
| **bot: broadcast** `handlers_owner.go` | two channels, the counts, the goroutine that prunes | `handleBroadcast`, the Cancel button | store (users), Telegram |
| **bot: batches** `handlers_link.go` | a channel of indices, the results, the status message | `linkBatch` | ingest, shortener, Telegram |
| **bot: /restart** | collection `restart`, the status messages | `handleRestart`, `EditRestartMarkerIfPending` | app, git and go, the next life of the process |
| **shortener** `internal/shortener` | an LRU cache, the calls under way | `Shorten` | batches, an outside service |
| **http, tgutil, config** | none | routes and headers, pure conversions | bot, stream |

They interact in three ways. *Calls*: a message becomes a goroutine
(`dispatch`) that goes through the pre-flight chain and a handler, which calls
store and ingest; an HTTP request becomes a goroutine that calls pool, store and
Telegram. *Shared state*: the caches of a process, the counters of the pool, and,
between processes, MongoDB and the vault channel. *Signals*: contexts, the stop
channel, WaitGroups, the touch buffer's channel.

### What is hard, and what makes each part correct

- **ingest** - goroutines of several processes; an insert that commits although
  its answer is lost; a Forward that outlives its caller; a lock document that
  outlives its holder; a cache that is stale because *another* process wrote.
  Correct: one copy per file, one lock holder, no record left pointing at a copy
  ingestion deleted, no second forward for a transient failure, and every call
  returns.
- **store: files** - fills of a cache are not atomic with the reads before them;
  invalidation therefore happens twice. Correct: stale entries do not stay, and a
  working link is never destroyed by someone who looked at it.
- **access** - the same race, where the stale answer is a ban not seen. Correct:
  fail closed; no answer is older than a cache lifetime; one token, one user.
- **pool and stream** - the counters are lowered without the mutex the scan runs
  under; lookups are abandoned but keep running. Correct: the cap is hard, a
  request is only turned away when all were full, abandoned lookups are bounded.
- **ratelimit** - a sweep deletes while requests push. Correct: the rate is
  bounded over *every* interval, and `retryAfter` is exact.
- **stream: bodies** - windows of 1 MiB aligned to the file, a range that is not, a
  failed window taken up again in its middle, a reader that asks for the rest, an
  `int` of 32 bits. Correct: the reader has the bytes asked for, each once, in order.
- **broadcast** - a cursor, workers with retries, two channels, a cancellation and
  panics. Correct: nobody gets the message twice, Cancel stops the workers, the
  summary is true, and neither handler nor producer waits for ever.
- **batches and shortener** - results in any order, a deadline, progress edits of
  the message the summary replaces, a cache filled after the shared call. Correct:
  links in order and once, true counts, the summary last, a known short URL not
  asked for again.
- **/restart and start-up** - a marker that outlives its process, two commands, a
  failing step of `New`, a signal nobody hears yet. Correct: a success is reported
  only when earned, and is reported; what was started is stopped in order.
- **shutdown** - everything still runs while it is being taken down, under one
  30 s deadline. Correct: stopped after its users, nothing lost in time, and
  the process ends.

`PROJECT.json` lists the hazards, each at its line with the properties that
cover it, and the map from definitions to source lines.

## 2. The modules

| Code | Module | Instances | Proofs | Abstract specification |
|---|---|---|---|---|
| ingest, locks | `Ingest` | `MCIngest` | `IngestProofs` | `FileRegistry` |
| file records and caches, eviction | `FileStore` | `MCFileStore` | `StreamProofs` | |
| access checks, commands, tokens | `Access` | `MCAccess` | `AccessProofs` | |
| client pool, stream admission, lookups | `ClientPool` | `MCClientPool` | `ClientPoolProofs` | |
| per-user limiter | `RateLimit` | `MCRateLimit` | `LinkProofs` | `TokenBucket` |
| shutdown, dispatch, touch buffer | `Lifecycle` | `MCLifecycle` | `LifecycleProofs` | |
| broadcast, users | `Broadcast` | `MCBroadcast` | `BroadcastProofs` | |
| byte ranges of responses | `Ranges` | `MCRanges` | `StreamProofs` | the set `Asked` |
| batches | `Batch` (on `Shortener`) | `MCBatch` | `LinkProofs` | |
| shortener | `Shortener` | `MCBatch` | `LinkProofs` | |
| start-up, /restart, lives of the process | `Restart` | `MCRestart` | `RestartProofs` | |

Conventions. Each goroutine has a program counter; a step is what happens between
two points at which others can interfere: an access to a mutex, an atomic, a
cache, a collection, Telegram or a channel. An operator named `...` under a
comment "Mutant:" is a plausible bug of the operation that follows it; it is not
part of the specification, and serves to show that a property would notice.
Message ids stand for vault messages and for the records that point at them
(`vault_msg_id`); 0 is "none".

### Ingest

One file key; `Workers` are goroutines calling `Ingest` once, `ProcOf` their
process. `rec` is the record in `files`, `vault` the messages that exist,
`lockOwner`/`lockExpired` the lock document, `keyCache[p]` the process' cached
record, `dedupMu[p]` and `holder` the mutex map and its mutexes. Mutexes are
named after the worker that would create them, so that two goroutines of one
process can hold two different mutexes once `CleanupDedupMu` or a full map has
dropped the entry between the map lookup and `Lock`.

The pc follows the code: `fileMutex`, `LockMutex`, `FindFileByKey`, then the
outcome of `validateCanonicalRecord` (`ReuseRecord`, `RecordIsStale`,
`ValidateFails`). The same lookup is made at entry, again under the lock, and
again after a failed persist; `stage` tells them apart. `AcquireIngestLock` is
three accesses: the insert, the look at the document in the way (`InspectLock`)
and the takeover, which deletes by `_id` alone (`UnlinkLock`) before it inserts
again (`ReinsertLock`). `SendForward` starts a goroutine that lives on when its
caller leaves (`AbandonForward`); `ForwardLands`, `ForwardIsUnusable` and
`ForwardErrs` end it, with a message created or not. `PersistFile`,
`PersistRefused` and `PersistUnanswered` are the three fates of a write; the last
two lead to `Reread` and, perhaps, `DeleteMessages`.

The environment loses messages, fails calls, ends contexts, lets lock documents
and cache entries expire, evicts records through the stream handler and crashes
processes. `Budget` and `MaxEvents` bound how often.

`FileRegistry` is what a client of ingestion is owed: copies come and go, and a
record whose copy is there is neither replaced nor dropped. `Ingest` implements
it with `canon <- rec, live <- vault`.

### FileStore

The record of one file and one process' two caches, each access a step: a lookup
is `Find` (cache), `Read` (collection), `Fill` (cache); a delete or a replace
drops both entries before and after its write, which is the double invalidation
the code comments on. `Streams` are requests for the link (`ServeOrEvict`),
`Ingests` find and write. `raced` records that a write overtook somebody's fill,
or lost its answer. The cache of another process never learns of a write; that is
the subject of `Ingest`.

### Access

The collections asked by the chain (`rows`), their caches (`cache`, an entry with
its remaining ticks), the tokens, and goroutines that receive a message, answer
the checks one after the other in the chain's order (`Hit`; or `Miss`, `Count`,
`Fill`) and then handle it (`Command`, `ConsumeToken`, `Write`, `Invalidate`).
Which checks apply depends on the sender and the kind of message (`Asks`), and
when a message is refused (`Refused`) on `PrivateMode` and `TokenEnabled`. A tick
is five minutes, the shortest cache lifetime. `since[c][i]` is how long the
present answer has been the true one.

### ClientPool

`AcquireBest`, `Scan`, `Reserve`, `Reject` are the mutex-protected scan, one
client per step, while `Release` lowers counters between the steps. A request
then looks its vault message up with a permit of its client, may abandon that
lookup (the call keeps the permit until Telegram answers), may evict, streams
the body, and may look up again when the file reference expires. Ingestion's
lookups use the permits of the first client and no ticket.

### RateLimit

GCRA with integer time. `AllowN` is one step because it holds the shard's mutex;
`Sweep` fixes its cutoff and then visits the shards one by one, requests coming in
between. `TokenBucket` is a leaky bucket per user; `RateLimit` implements it with
`level[u]` = how far the user's arrival time is ahead of the clock.

### Lifecycle

`main` is where `Run` is. Beside it run the goroutine that edits the restart
marker, `dispatch` and the handlers (counted by `handlerWg`, bounded by `Slots`),
the prune goroutine a broadcast leaves behind, the requests with their seen
counts, the flush loop, and the goroutine of `Bot.Stop`. `timeUp` is the 30 s of
the shutdown, `touchTimedOut` the 5 s of `TouchBuffer.Stop`: what has not ended by
then is left running beside the next stage.

### Broadcast

The producer (`Fetch`, `CursorEnds`, `Send`), the workers (`Receive`, `Forward`,
`Backoff`, `Report`, `Delay`, `Panic`) and the handler (`Collect`, `Drained`,
`Summarise`, `Return`), with the two channels between them; `Prune` is the
goroutine left behind. A forward and its answer are one step: delivered, delivered
with the answer lost, refused for good, refused by the flood limit, or in error.
Users who had blocked the bot come back (`ComeBack`), and the owner may press
Cancel until the handler has returned.

### Batch and Shortener

`Batch` EXTENDS `Shortener` and composes them: a worker whose file is ingested, for
a sender whose links are shortened, becomes two callers of `Shorten` at once and
goes on when both have a result, as maybeShorten does. The shortener's cache and
calls in flight are shared by all workers. An ingestion is a call here that
succeeds or fails; `Ingest` says how. The results stay with their index and are
gathered one by one into posts.

### Ranges

One response and, after it, the reader: a request with a `Range` header over a file
of `size` bytes, named by their positions. `ParseRange` is a function of header and
size; `Serve` sets status, range and length; `ReadChunk` sends what one window brings,
cut at both ends, `ReadWhole` a piece of the whole file. `ChunkFails`, `ChunkIsEmpty`,
`WriteBreaks` and `WholeFails` are what goes wrong, `Overflow` the end of `int`
(`native` is its largest value). `Resume` is a reader who asks for what is missing
from where the body broke off, `Leave` one who does not.

### Restart

`main` goes through the steps of `New`, `Run` and the way out; `parts` is what runs
in the process and `undo` what is still to be stopped, in the order of each clean-up.
Beside it are the goroutine that looks for a marker and the commands (`Ask`,
`SaveMarker`, pull, verify, build, `Signal`). `Die` ends the process with whatever
ran in it; markers, ages and status messages stay. The supervisor's `policy` is
"always" (docker) or "on-failure" (the systemd unit of docs/DEPLOYMENT.md:202).

## 3. The runs

All runs finish within three minutes on two TLC workers, and each property of
each passing run is broken by the mutant `PROJECT.json` names for it.

| Run | Instance | Properties | Shows |
|---|---|---|---|
| `ingest` | 3 goroutines, 2 processes, any 2 events | `LockExclusiveInTime` `OneCopy` `RecordKeepsItsCopyInTime` `ResultWasLive` `ForwardOnlyIfGone` | deduplication, lock and re-read do their work unless one of items 1 to 3 of section 4 interferes |
| `ingest_one_process` | 2 goroutines, 1 process, every deadline may pass | `NoLeak` `ImplementsRegistry` `EveryIngestReturns` | ingestion implements `FileRegistry`; calls end |
| `ingest_takeover` | the smallest budget that suffices | `LockExclusive` | counterexample, see section 4 |
| `file_store` | 3 requests, 2 ingestions | `StaleIsDoomed` `LiveLinkKeptFromItsReaders` | stale cache entries have a named cause; nobody destroys a live record they looked at |
| `access` | 1 user, 1 owner, 1 group, 1 token, 2 goroutines, 3 messages | `AnswersAreRecent` `WrongOnlyByRace` `AdmittedByTheBook` `OneTokenOneActivation` | stale answers last one lifetime at most; fail closed |
| `client_pool` | 3 requests, 1 ingestion, 2 clients of 1 ticket and 2 permits | `TicketsAccounted` `RejectedOnlyWhenFull` `LeastLoaded` `LookupsBounded` `EveryTicketMoves` | admission is exact despite unlocked releases; abandoned lookups are bounded and hold nobody up |
| `rate_limit` | 2 users, cap 2, window 4, 9 instants | `RetryIsExact` `ImplementsBucket` | the limiter is a leaky bucket per user |
| `lifecycle` | 2 messages, 1 slot, 2 requests, a touch buffer of 1 | `HandlersDrained` `NothingInUseIsStopped` `NoSendOnClosed` `ShutdownEnds` | each part is stopped after its users; the process exits |
| `broadcast` | 4 users, 2 workers, channels of 1, 2 attempts, a panic, a lost answer | `OneCopyEach` `SummaryIsHonest` `CancelStopsWorkers` `BroadcastEnds` | one copy each, a true summary, and an end |
| `batch` | 4 messages, 2 with one file, 2 workers, a cache of 2 | `PostedInOrder` `EveryMessageCounts` `SummaryStays` `AskedOnce` `BatchEnds` | links in order and once, true counts, the summary last |
| `ranges` | files of 0 to 10 bytes, windows of 3, 9 numbers, 2 faults, 3 widths of `int` | `RangeAsAsked` `BodyIsTheRange` `ReaderIsServed` | the reader has exactly the bytes asked for |
| `restart` | 2 commands, both policies, with and without signals, 1 fault | `SuccessIsEarned` `StoppedInReverse` `EveryRestartIsReported` | what a reported success means, that it comes, and what a failing start stops |

### Bounds

- `ingest`: three goroutines are two that share a process and one that does not;
  two of anything else (a loss, a failed call, a deadline, an expired lock, a
  crash, a forgotten cache entry or mutex) give every pair of causes, such as a
  crash and the expiry of its lock. `MaxMsg` 5 = a copy to begin with, one per
  goroutine and one per failed forward: it never blocks a forward. Waits and
  forward attempts have the code's own limits (2 and 3).
- `ingest_one_process` limits all events but deadlines to two, and allows each
  goroutine's deadline to pass.
- `file_store`: a reader, a writer and a third whose fill is overtaken need one
  step each, and `MaxMsg` 3 lets the record be replaced twice.
- `access`: a user's request and an owner's command race in two goroutines;
  the third message sees what they left. `TTL` is 1 tick for every cache and ages
  are counted up to `MaxAge` 2, one past what `AnswersAreRecent` tolerates; an
  age stays at `MaxAge` from there on. Only the
  ban cache of groups may be full (`Crowded`). `/unban`, bans of chats and
  `PrivateMode` TRUE are left to the proofs, which cover every value.
- `client_pool`: three requests exceed the two tickets, so that requests are
  turned away while tickets come back; two permits per client against a ticket of
  one leave room for one abandoned lookup beside a live one, and the ingestion
  takes the next.
- `rate_limit`: nine instants are two windows and a bit, so that an entry is
  filled, swept and filled again.
- `lifecycle`: one slot for two messages makes one wait for the other, a channel
  of one for two requests makes a count be dropped.
- `broadcast`: four users against channels of one and two workers fill both
  channels with the cursor still open; the second attempt is the last, so that
  both the retry and its end occur. The mode is "regular", which passes some users
  over by the allowlist; the other two differ in that test alone, and the proofs
  cover all three.
- `batch`: four messages are two full posts, or one and a shorter one; an edit every
  two completions (five in the code) makes one edit be skipped; one file twice makes
  the two workers share a call, and a cache of two for four URLs evicts.
- `ranges`: windows of three make ranges begin, end and break in each position of a
  window, over up to four windows; `MaxInt64` 100 is beyond every number but one that
  does not parse, and `native` 5, 8 and 100 are an `int` that cannot hold the file,
  can just not hold the window after it, or does not matter.
- `restart`: with two commands both their builds and markers can overlap; one fault
  is enough for every path, because a restart of its own needs none.

Symmetry is used for interchangeable goroutines, requests and users, and only in
runs without liveness properties.

### Fairness

Liveness is claimed under as little as the code gives:

- `Ingest`: goroutines run, MongoDB answers or fails, and every caller's context
  has a deadline (the handlers create it with one). That Telegram answers a
  Forward is *not* assumed: `EveryIngestReturns` holds because `AbandonForward`
  does not wait for it.
- `ClientPool`: the callers' own steps, timers included. That Telegram answers a
  lookup, or that a reader takes the body, is not assumed; `EveryTicketMoves`
  accordingly ends at the body (the code sets no write deadline there on purpose,
  stream/handler.go:178).
- `Broadcast`: the goroutines run, a `Forward` and the edit of the status message
  return. `FairSpec` adds that the cursor brings the next user or ends. That a
  worker's users are ever away, that one panics, that Cancel is pressed is never
  assumed.
- `Batch`: the goroutines run; an ingestion ends with the batch's context at the
  latest; the service's client gives up after ten seconds. The deadline need not
  come.
- `Ranges`: a body goes on or breaks, and its reader resumes or leaves.
- `Restart`: the goroutines run, each external command has a deadline, store and
  client answer or fail, the supervisor starts what its policy tells it to. Nobody
  has to send commands, signals or faults, nor to start by hand.
- `Lifecycle`: `Run` goes on, both timers fire, and `EditMessage` ends, which has
  no context and relies on gogram's own time limit for a call. Handlers, requests,
  `BulkWrite`, `Terminate` and the marker's query may hang for ever.

## 4. Where the code departs from what it says

Each of these has a configuration whose counterexample TLC finds. The first is a run
and a finding of `PROJECT.json`; the others are kept beside it, one command each:

    tlc -workers 2 -config IngestSecondCopy.cfg MCIngest

1. `IngestTakeover.cfg`, run `ingest_takeover` - **two holders of the lock**
   (store.go:684). Two processes read the expired document; each deletes *by `_id`*
   and inserts, the second deleting the document the first has just inserted. The
   comment at store.go:657-658 calls the lock exclusive. `LockExclusiveInTime` is
   what does hold: no two holders as long as no document outlives its `expires_at`.
2. `IngestSecondCopy.cfg` (MCIngest, `NeverSecondCopy`) - **a second copy although
   nothing failed** (ingest.go:303, against ingest.go:2-3). The recheck under the
   lock reads the process' own cache, which still has the record another process has
   replaced since; its copy is gone, so the file is forwarded again.
3. `IngestDeadline.cfg` (MCIngest, `RecordKeepsItsCopy`) - **the copy of a committed
   record is deleted** (ingest.go:463, against ingest.go:448-449). The deadline passes
   while the insert commits; the re-read that is to protect against just this uses
   the same finished context.
4. `FileStoreEvict.cfg` (MCFileStore, `LiveLinkKept`) - **a working link is deleted**
   (stream/handler.go:155, against its lines 24-26). The eviction deletes by hash, and
   may hit the record that replaced the stale one.
5. `BroadcastCancel.cfg` (MCBroadcast, `CancelEnds`) - **Cancel waits for the
   database** (handlers_owner.go:197: the listing "short-circuits on Cancel-button
   context"). The producer looks at the context between two users only; a cursor that
   does not answer holds it, and with it the workers and the handler.
6. `RestartEarly.cfg` (MCRestart, `SuccessByTheNextStart`) - **a restart reported by
   the process it was sent to** (handlers_owner.go:644: "on next startup"). Messages
   are handled from `Bot.Start` on, and `New` looks for a marker after it.

Observed while modelling, and kept in the models as the code has it, without a
configuration of their own:

- `/link` for N files takes one slot of the rate limiter (bot.go:459) although
  docs/CONFIGURATION.md:33 speaks of files per minute.
- "Immediate" revocation (store.go:920-921) is as immediate as a cache fill under way
  allows, at worst one cache lifetime (`AnswersAreRecent`).
- app.go:236-239 sees no write in flight when the store closes, which is so unless the
  5 s of `TouchBuffer.Stop` run out (store.go:613; `NothingInUseIsStopped` has that
  condition). A batch of seen counts is lost when the HTTP server fails (app.go:194).
- The marker of a `/restart` whose build failed stays, and the next start within the
  hour reports a success under it (`aborted` in `SuccessIsEarned`). Of two markers
  only the newest is taken by a start; the other waits for one more, or its hour.
- main takes SIGTERM over before `New`, and nobody looks at that context until `Run`
  has returned: a signal during the start-up is lost, also that of a `/restart`. Under
  the systemd unit's `Restart=on-failure` a restart, which exits cleanly, leaves the
  service down. `Excused` names both.
- A broadcast that was cancelled after its last user had been counted, or whose cursor
  failed, is summarised as complete with the users reached so far; in a batch that
  runs into its deadline the messages nobody took appear in no count.
- A last byte position that is no number is answered with 416 (tgutil/util.go:418),
  where docs/API.md:140 has 400 for malformed headers. With a 32-bit `int` a body ends
  early, its headers sent, when a window would pass the largest offset
  (stream/handler.go:197).

## 5. What is proved

`*Proofs` modules, checked to the last leaf, for every value of the constants
under the named `ASSUME` of each module: finite sets where something is counted,
positive capacities, disjoint kinds of actors, a process for each goroutine
(`ProcOf`), and at least one worker, of which `handleBroadcast` and `linkBatch`
start four and five. Nothing else is assumed. Every safety invariant and action
property of the passing runs is stated by a theorem, and so are the two refinements.

Two modules hold the proofs of several components, for each of which they EXTEND
its module: `StreamProofs` those a streaming request meets (`FileStore`, `Ranges`),
`LinkProofs` those a `/link` meets beside ingestion (`RateLimit`, and `Batch` with
`Shortener`). `Ranges` and `RateLimit` therefore have names of their own for what each
specification has (`RangesInit`, `LimitNext`, `limitVars`, ...).

- **Ingest** - `LockExclusion` proves `LockExclusiveInTime`, for any number of
  goroutines, processes and events. `LockExclusive` says nothing of who is about to
  take a lock over, so the invariant is `LockTypeOK /\ UnderLock /\ OwnedInTime`:
  work that needs the lock happens at a stage reached under it, and while no
  document has outlived its `expires_at` nobody has seen an expired one, nobody is
  between `UnlinkLock` and `ReinsertLock`, and whoever is in the critical section
  owns the document. `TypeCorrect` needs `WaitsLeft`: the counter of waits is below
  its limit wherever it is about to be raised.

  `ResultsWereLive` and `ForwardsOnlyIfGone` rest on the history of the vault, under
  no condition at all: messages are numbered upwards and nobody knows a number yet
  to come (`Numbered`), so that what was gone when a call began, or when its record
  was validated, is gone for good (`GoneForGood`).

  The other promises hold under conditions, and section 4 shows that they fail
  without. `IngestInvariant` has one part for each condition, beside `Placed`, the
  step at which each local is set. `Coherent`, while `Calm` (no document outlived;
  one process, or next to no failure): a cache holds the record or nothing, and who
  is about to write under the lock has seen the record that is there or that has
  been dropped since. `Kept`, while `Gentle` (no context ends, nothing is lost, one
  call at most fails): the record's copy is there, and a goroutine that discards a
  copy knows that the record does not point at it. `Tidy`, while `Smooth` (no call
  fails): no copy exists but the record's and that of the goroutine about to write
  it. Events are only ever added up (`SpentGrows`), so a condition that holds now
  held all along. `OneCopyOnly` is `Tidy` and the lock together: two goroutines that
  both hold a copy would both be in the critical section. `NothingLeaks` is `Tidy`,
  `RecordsKeepTheirCopies` is `Kept`.

  `IngestionIsARegistry` is the refinement of `FileRegistry`, step by step: a write
  of the record is a `Register` because, by `Coherent` and `GoneForGood`, the record
  it replaces had lost its copy; forwards are `Copy`, deletions and losses `Remove`,
  evictions `Forget`, everything else a stutter. It is a theorem for one process and
  for behaviours in which no document outlives its `expires_at`, as in the run
  `ingest_one_process`; failed and unanswered calls, deadlines, losses, crashes and
  forgotten caches and mutexes are all allowed, in any number.
- **ClientPool** - `TicketsAreAccounted`, `CapIsHard`, `RejectsOnlyWhenFull`,
  `ReservesLeastLoaded` follow from `PoolInv`, whose core is `ScanSound`: counters
  only fall while the mutex is held, so what a scan has seen is an upper bound and
  what it began with is one too. `LookupsAreBounded` follows from `LookupInv`: the
  permits of a client *are* its unanswered calls, each counted once because calls
  are numbered.
- **FileStore** - `StaleEntriesAreDoomed` and `ReadersKeepLiveLinks`, from
  `FillsAreFresh` (without a race, who is about to fill holds the present row) and
  `DeletesAreDue` (who is about to delete has seen a copy that is gone, and copies
  do not come back).
- **RateLimit** - `RateIsBounded` from `GrantsArePaid`: what passed since a moment
  has pushed the arrival time at least that far beyond it. `RetriesAreExact` from
  `PromisesAreDue`. `LimiterIsABucket` proves the refinement: each step of the
  limiter is a step of `TokenBucket` or a stutter, sweeps included, because what a
  sweep removes is a window old and weighs nothing.
- **Access** - `ChainFailsClosed`, `TokensServeOnce`, `InvalidationWorks`,
  `ChecksAnswerRecently`. The last two rest on `StaleInv`: an outdated answer is
  carried either by a fill that a change overtook, for one tick at most
  (`FillsRecent`), or by an entry for what is left of its life (`EntriesRecent`).
- **Lifecycle** - `StopDrains`, `StoppedInOrder`, `ChannelIsSafeInTime`,
  `TouchBufferDrains`. The invariant has `Counters` (the WaitGroup counts exactly
  the messages past `Add` and the prune goroutines, so that zero means nobody),
  `Drained` (a message gets past the check of `stopCh` only before it is closed),
  `Phases` (what each stage of `Run` has waited for) and `Flushed`.
- **Broadcast** - `OneCopyForEach` from `Apart` (a user is ahead of the cursor, with
  the producer, in the channel or with one worker, and in one of these places only)
  and `Fresh` (nobody has had a copy before a worker takes them, nor, but for a lost
  answer, while it goes on trying). `WorkersStopAtCancel` from `Punctual`: a worker
  between two attempts is past the first, and none receives a user once cancelled.
  `PrunesOnlyTheAway` from `Justified`, which follows a verdict from the answer to the
  deletion. `HonestSummary` is an account of users, `Count`: whoever is in the
  producer's hands, in a channel, with a worker or under a verdict has been counted,
  and while nobody pressed Cancel and no worker panicked nobody counted is anywhere
  else (`Accounted`); those counted are the users the mode addresses among those the
  cursor has returned (`Seen`); a worker that has returned saw the end of the
  channel, and the handler goes on only after all of them (`Ended`, which needs that
  there is a worker). When the handler sums up nobody is under way, so that all who
  were counted are under a verdict.
- **Batch** - `BatchInvariant` follows an index: it is in the channel or with one
  worker until its own result is there (`HandsFull`), none is dropped but by the
  deadline or a panic (`NoneMissing`), and `processed` is the number of results
  (`Filed`). The workers return only at the end of the channel and the handler goes on
  after all of them (`Wound`), so that what it reads no longer changes, and it has
  counted just the results it has gone through (`Gathering`). `CountsAreTrue` and
  `SummaryIsLast` follow. `LinksInOrder` adds `Listed`: the links in the posts and in
  the chunk, one after the other, are those of the results gone through, ascending.
  That needs what `FlattenSeq` makes of a sequence with one more at its end. The
  library's induction theorems cannot be used for it, but the least-number principle
  can (`Least`, from `NatLessThanWellFounded`): a function that puts the posts one
  behind the other exists and is the only one, because there is no shortest sequence
  for which it is not (`FlattenedSo`, `FlattenedAlike`, `FlattenAppend`).
- **Shortener** - `NotAskedAgain`, for a cache of any capacity, any callers and any
  URLs, from `LinksInvariant`: a flight carries only callers waiting for its URL, no
  URL is in the cache twice (`Flights`), and of the calls of the service for a URL
  all but one are matched by an eviction or by a caller that had missed it while it was
  on its way to the cache, all of them when nobody has it (`Spent`).
- **Restart** - `StopsInReverse` from `Stages`, which parts run at each step of the
  start and at each of the clean-ups. `SuccessIsAlwaysEarned` from `Marked`: every
  marker a start may take is that of a command that built, failed or was cut off, or
  that came before its process had looked. The marker taken is the newest, and there
  is one because the commands are a finite sequence (`Greatest`, `NewestIsOne`).
- **Ranges** - `RangesAreAsked` from a lemma about `ParseRange` for every header and
  size; `BodiesAreRanges` from `Position`: what the reader has ends where the next
  window, after its skip, begins. A lemma about sequences (`Longer`) says that a piece
  put behind the first bytes makes more first bytes.

The type invariants are proved (`TypeCorrect`, `PoolTypeCorrect`, ...) rather than run:
each is part of the inductive invariant and says nothing about an instance that the
theorem does not. The same goes for `CapRespected`, `RateBounded`, `TouchesWritten` and
`OnlyAwayArePruned`.

**Only model-checked.** Liveness, which is out of the prover's reach:
`EveryIngestReturns`, `EveryTicketMoves`, `ShutdownEnds`, `BroadcastEnds`, `BatchEnds`,
`ReaderIsServed` and `EveryRestartIsReported`, each under the fairness of section 3. The
absence of deadlock is TLC's as well. The counterexamples of section 4 show why the
theorems about `Ingest`, `FileStore` and `Restart` have conditions.

## 6. What is abstracted, and what is not modelled

- Contents of files, names, texts, sizes and headers: no property depends on them.
  One file is modelled where files do not interact; where they do (a full mutex
  map) the others are an action of the environment (`MapFull`).
- MongoDB is linearizable per document, and a call that errs may have been applied.
  Its TTL monitor deletes expired documents at any later time.
- Telegram creates, loses and finds messages; a call may err with or without its
  effect, and need not answer.
- Clocks: deadlines and expiries may come at any time, but for a lock document,
  which a caller whose context is shorter than 60 s cannot outlive
  (`LongContext` FALSE). `RateLimit` takes the wall clock not to go back.
- A Forward of a broadcast and its answer are one step, and so are the two counters
  behind a progress edit of a batch: nothing the properties tell apart comes between
  them. What an edit or a post does when Telegram refuses it is only logged.
- In `Restart` a part runs or it does not; what goes on in it while it is being
  stopped, and the deadlines, are `Lifecycle`'s. The builds of two commands do not
  disturb each other's files.
- The Go runtime: a WaitGroup is its counter. Its detection of an `Add` that races
  with `Wait` at zero (bot.go:229 and 258) is not modelled.

The reuse and seen counts of a record (`IncrementReuseCount`,
`IncrementSeenCount`) are fields no decision depends on; `Lifecycle` has the seen
counts' way through the touch buffer.

Not modelled: the global limiter (golang.org/x/time/rate decides), the commands
that only read and reply, routing, templates and headers, configuration, logging,
and pure string functions (names, tokens, media metadata, formatting). The bot's
refusals before a broadcast or a batch begins, argument parsing and the fetch of the
messages of a `/link` are left out too.

## 7. Plan

Done, in this order: `Ingest` with `FileRegistry` (the heart of the bot),
`ClientPool`, `FileStore`, `RateLimit` with `TokenBucket`, `Access`, `Lifecycle`,
then `Broadcast`, `Batch` with `Shortener`, `Ranges` and `Restart`; and the proofs of
every safety property the runs check.

To come:

1. Abstract specifications of `FileStore` (a read-through cache that forgets) and of
   `Broadcast` (each user once, a verdict each), with the refinements proved.
2. Composition: the caches of several processes (`FileStore` per process under
   `Ingest`), in place of `keyCache`.

## 8. Running it

    tlc -workers 2 -config Ingest.cfg MCIngest      # any .cfg with the module PROJECT.json names
    tlapm IngestProofs.tla                          # any *Proofs module
