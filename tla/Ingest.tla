------------------------------- MODULE Ingest -------------------------------
(***************************************************************************)
(* Ingestion of ONE file (one stable file key) by several goroutines of    *)
(* several bot processes: internal/ingest/ingest.go, Ingest and what it    *)
(* calls in internal/store/store.go.                                       *)
(*                                                                         *)
(* A goroutine takes the process' mutex of the key, looks the record up in *)
(* the process' cache or in MongoDB, validates it against the vault        *)
(* channel, takes the cross-process lock document, forwards the media to   *)
(* the vault and persists the record.  Messages of the vault are numbered  *)
(* in the order Telegram creates them; a file record is identified by its  *)
(* vault_msg_id, 0 standing for "no record" and "no message".              *)
(*                                                                         *)
(* The environment loses vault messages, fails calls, lets contexts and    *)
(* lock documents expire and crashes processes; how often each may happen  *)
(* is bounded by Budget.                                                   *)
(***************************************************************************)
EXTENDS Naturals, FiniteSets

CONSTANTS
    Workers,      \* goroutines, each running Ingest once for the file
    Procs,        \* bot processes
    ProcOf,       \* ProcOf[w]: the process goroutine w runs in
    NoWorker,     \* "nobody": no lock owner, no holder, no map entry
    MapFull,      \* TRUE if other files may fill dedupMu to maxDedupEntries
    LongContext,  \* TRUE if a caller's context may outlive the lock's 60 s
    MaxMsg,       \* bound on the messages ever created in the vault
    Budget,       \* Budget[k]: how many events of kind k the environment has
    Limited,      \* the kinds that happen only ...
    MaxEvents     \* ... while fewer events than this did

\* What fails, expires or is lost, and what is merely forgotten.
Failures == {"loss", "fault", "timeout", "expiry", "crash"}
Kinds == Failures \cup {"cacheGone", "mutexGone"}

ASSUME IngestAssumption ==
    /\ NoWorker \notin Workers
    /\ IsFiniteSet(Procs) /\ ProcOf \in [Workers -> Procs]
    /\ MapFull \in BOOLEAN
    /\ LongContext \in BOOLEAN
    /\ MaxMsg \in Nat
    /\ Budget \in [Kinds -> Nat]
    /\ Limited \subseteq Kinds
    /\ MaxEvents \in Nat

VARIABLES
    rec,          \* the files collection: vault_msg_id of the key's record
    vault,        \* the messages that exist in the vault channel
    lastMsg,      \* the last message id the vault channel handed out
    lockOwner,    \* file_ingest_locks: who inserted the document of the key
    lockExpired,  \* its expires_at has passed
    keyCache,     \* keyCache[p]: fileByKey's entry in process p
    dedupMu,      \* dedupMu[p]: the mutex the map of process p holds
    holder,       \* holder[m]: who has locked mutex m
    pc,           \* the next step of each goroutine
    stage,        \* how far Ingest got, for the steps it runs several times
    local,        \* its local variables, see Locals
    sawExpired,   \* the document its insert hit had expired before "now"
    ctxDone,      \* its context is done
    forwarding,   \* its detached Forward call has not landed yet
    spent         \* history: the events of each kind so far

dbVars    == <<rec, keyCache>>
vaultVars == <<vault, lastMsg>>
lockVars  == <<lockOwner, lockExpired, sawExpired>>
mutexVars == <<dedupMu, holder>>
workerVars == <<pc, stage, local, forwarding>>
vars == <<rec, keyCache, vault, lastMsg, lockOwner, lockExpired, sawExpired, dedupMu,
          holder, pc, stage, local, ctxDone, forwarding, spent>>

PCs == {"idle", "mutex", "find", "validate", "acquire", "inspect", "unlink",
        "reinsert", "wait", "forward", "awaiting", "persist", "discard",
        "release", "unlock", "done"}
Stages == {"entry", "locked", "persistErr"}

MaxWaits    == 2    \* ingest.go:265
MaxForwards == 3    \* ingest.go:337

Locals == [mu: Workers \cup {NoWorker},  \* the mutex fileMutex returned
           seen: Nat,       \* existing: the record last looked up
           stale: Nat,      \* staleExisting
           cand: Nat,       \* vaultMsgID: the goroutine's own vault message
           waits: 0 .. MaxWaits,       \* waits spent on a lock somebody else holds
           attempts: 0 .. MaxForwards, \* forwards tried
           result: Nat,     \* message of the record to return, 0 for an error
           goneBefore: SUBSET Nat] \* history: copies lost before the call began

NoLocals == [mu |-> NoWorker, seen |-> 0, stale |-> 0, cand |-> 0, waits |-> 0,
             attempts |-> 0, result |-> 0, goneBefore |-> {}]

Active(w) == pc[w] \notin {"idle", "done"}

\* What w holds the lock document for: from the acquire that succeeded to the
\* deferred release.
Critical(w) == stage[w] \in {"locked", "persistErr"} /\ pc[w] \notin {"unlock", "done"}

Quiet(K) == \A k \in K : spent[k] = 0

Events == spent["loss"] + spent["fault"] + spent["timeout"] + spent["expiry"]
              + spent["crash"] + spent["cacheGone"] + spent["mutexGone"]

Spend(k) == /\ spent[k] < Budget[k]
            /\ k \in Limited => Events < MaxEvents
            /\ spent' = [spent EXCEPT ![k] = @ + 1]

Goto(w, l) == pc' = [pc EXCEPT ![w] = l]

TypeOK ==
    /\ rec \in Nat
    /\ vault \subseteq Nat
    /\ lastMsg \in Nat
    /\ lockOwner \in Workers \cup {NoWorker}
    /\ lockExpired \in BOOLEAN
    /\ keyCache \in [Procs -> Nat]
    /\ dedupMu \in [Procs -> Workers \cup {NoWorker}]
    /\ holder \in [Workers -> Workers \cup {NoWorker}]
    /\ pc \in [Workers -> PCs]
    /\ stage \in [Workers -> Stages]
    /\ local \in [Workers -> Locals]
    /\ sawExpired \in [Workers -> BOOLEAN]
    /\ ctxDone \in [Workers -> BOOLEAN]
    /\ forwarding \in [Workers -> BOOLEAN]
    /\ spent \in [Kinds -> Nat]

\* The file is new, or has been ingested before: message 1 is its copy then,
\* and the processes may have the record in their caches.
Init ==
    /\ rec \in {0, 1} /\ vault = {rec} \ {0} /\ lastMsg = rec
    /\ keyCache \in [Procs -> {0, rec}]
    /\ lockOwner = NoWorker /\ lockExpired = FALSE
    /\ dedupMu = [p \in Procs |-> NoWorker]
    /\ holder = [w \in Workers |-> NoWorker]
    /\ pc = [w \in Workers |-> "idle"]
    /\ stage = [w \in Workers |-> "entry"]
    /\ local = [w \in Workers |-> NoLocals]
    /\ sawExpired = [w \in Workers |-> FALSE]
    /\ ctxDone = [w \in Workers |-> FALSE]
    /\ forwarding = [w \in Workers |-> FALSE]
    /\ spent = [k \in Kinds |-> 0]

-----------------------------------------------------------------------------
(* Leaving Ingest.  The deferred calls run in reverse order: first the     *)
(* release of the lock document, if it was acquired, then the mutex.       *)

Leave(w) == Goto(w, IF stage[w] \in {"locked", "persistErr"} THEN "release" ELSE "unlock")

\* A call that takes the context fails when it is done, or by a fault.
CallFails(w) == \/ ctxDone[w] /\ UNCHANGED spent
                \/ ~ctxDone[w] /\ Spend("fault")

-----------------------------------------------------------------------------
(* The process' mutex of the key.  The mutex that w would create is named  *)
(* w.                                                                      *)

\* fileMutex: the map's mutex, or a new one put into the map.
fileMutex(w) ==
    LET p == ProcOf[w]
        m == IF dedupMu[p] = NoWorker THEN w ELSE dedupMu[p]
    IN  /\ pc[w] = "idle"
        /\ Goto(w, "mutex")
        /\ dedupMu' = [dedupMu EXCEPT ![p] = m]
        /\ local' = [local EXCEPT ![w].mu = m, ![w].goneBefore = (1 .. lastMsg) \ vault]
        /\ UNCHANGED <<dbVars, vaultVars, lockVars, holder, stage, ctxDone, forwarding, spent>>

\* mu.Lock() does not look at the context.
LockMutex(w) ==
    /\ pc[w] = "mutex"
    /\ holder[local[w].mu] = NoWorker
    /\ holder' = [holder EXCEPT ![local[w].mu] = w]
    /\ Goto(w, "find")
    /\ UNCHANGED <<dbVars, vaultVars, lockVars, dedupMu, stage, local, ctxDone,
                   forwarding, spent>>

\* defer mu.Unlock(), and the locals are gone.
UnlockMutex(w) ==
    /\ pc[w] = "unlock"
    /\ holder' = [holder EXCEPT ![local[w].mu] = NoWorker]
    /\ Goto(w, "done")
    /\ local' = [local EXCEPT ![w] = NoLocals]
    /\ stage' = [stage EXCEPT ![w] = "entry"]
    /\ UNCHANGED <<dbVars, vaultVars, lockVars, dedupMu, ctxDone, forwarding, spent>>

\* CleanupDedupMu drops a mutex nobody has locked at that instant, although
\* a goroutine may hold it, about to lock it.
CleanupDedupMu(p) ==
    /\ dedupMu[p] # NoWorker
    /\ holder[dedupMu[p]] = NoWorker
    /\ Spend("mutexGone")
    /\ dedupMu' = [dedupMu EXCEPT ![p] = NoWorker]
    /\ UNCHANGED <<dbVars, vaultVars, lockVars, holder, workerVars, ctxDone>>

\* fileMutex of another key, when the map is full, drops any entry, one
\* whose mutex is locked included.
EvictMutex(p) ==
    /\ MapFull
    /\ dedupMu[p] # NoWorker
    /\ Spend("mutexGone")
    /\ dedupMu' = [dedupMu EXCEPT ![p] = NoWorker]
    /\ UNCHANGED <<dbVars, vaultVars, lockVars, holder, workerVars, ctxDone>>

-----------------------------------------------------------------------------
(* Looking the record up and validating it: four call sites, told apart by *)
(* stage.                                                                  *)

\* Where Ingest goes on when there is no record, or a stale one...
AfterLookup(w) == CASE stage[w] = "entry"      -> Goto(w, "acquire")
                    [] stage[w] = "locked"     -> Goto(w, "forward")
                    [] stage[w] = "persistErr" -> Goto(w, "discard")

\* ... and when it cannot tell: after a failed persist the copy is discarded.
LookupFails(w) == IF stage[w] = "persistErr" THEN Goto(w, "discard") ELSE Leave(w)

\* FindFileByKey: the cache, else the collection (which fills the cache).
FindFileByKey(w) ==
    LET p == ProcOf[w]
        r == IF keyCache[p] # 0 THEN keyCache[p] ELSE rec
    IN  /\ pc[w] = "find"
        /\ keyCache[p] = 0 => ~ctxDone[w]
        /\ local' = [local EXCEPT ![w].seen = r]
        /\ keyCache' = [keyCache EXCEPT ![p] = r]
        /\ IF r = 0 THEN AfterLookup(w) ELSE Goto(w, "validate")
        /\ UNCHANGED <<rec, vaultVars, lockVars, mutexVars, stage, ctxDone, forwarding, spent>>

FindFileByKeyFails(w) ==
    /\ pc[w] = "find"
    /\ keyCache[ProcOf[w]] = 0
    /\ CallFails(w)
    /\ LookupFails(w)
    /\ UNCHANGED <<dbVars, vaultVars, lockVars, mutexVars, stage, local, ctxDone, forwarding>>

\* Mutant: the record is reused unvalidated.
ReuseBlindly(w) ==
    /\ pc[w] = "validate"
    /\ local' = [local EXCEPT ![w].result = local[w].seen, ![w].seen = 0]
    /\ Leave(w)
    /\ UNCHANGED <<dbVars, vaultVars, lockVars, mutexVars, stage, ctxDone, forwarding, spent>>

\* validateCanonicalRecord finds the vault copy: reuse the record.  On the way
\* out of a failed persist the goroutine's own copy goes unless it is the one.
ReuseRecord(w) ==
    LET l == local[w]
    IN  /\ pc[w] = "validate"
        /\ l.seen \in vault
        /\ local' = [local EXCEPT ![w].result = l.seen, ![w].seen = 0]
        /\ Leave(w)
        /\ \/ vault' = vault \ ({l.cand} \ {l.seen}) /\ UNCHANGED spent
           \/ l.cand \notin {0, l.seen} /\ Spend("fault") /\ UNCHANGED vault
        /\ UNCHANGED <<dbVars, lastMsg, lockVars, mutexVars, stage, ctxDone, forwarding>>

\* The copy is missing: the record is stale, keep it for its provenance.
RecordIsStale(w) ==
    /\ pc[w] = "validate"
    /\ local[w].seen \notin vault
    /\ local' = [local EXCEPT ![w].stale = IF stage[w] = "persistErr" THEN @ ELSE local[w].seen,
                             ![w].seen = 0]
    /\ AfterLookup(w)
    /\ UNCHANGED <<dbVars, vaultVars, lockVars, mutexVars, stage, ctxDone, forwarding, spent>>

\* Mutant: a transient failure passes for a missing copy.
FailureIsStale(w) ==
    /\ pc[w] = "validate"
    /\ CallFails(w)
    /\ local' = [local EXCEPT ![w].stale = local[w].seen, ![w].seen = 0]
    /\ AfterLookup(w)
    /\ UNCHANGED <<dbVars, vaultVars, lockVars, mutexVars, stage, ctxDone, forwarding>>

\* A transient failure, or the 30 s of a lookup: not a missing copy.
ValidateFails(w) ==
    /\ pc[w] = "validate"
    /\ CallFails(w)
    /\ LookupFails(w)
    /\ local' = [local EXCEPT ![w].seen = 0]
    /\ UNCHANGED <<dbVars, vaultVars, lockVars, mutexVars, stage, ctxDone, forwarding>>

-----------------------------------------------------------------------------
(* The cross-process lock: AcquireIngestLock and ReleaseIngestLock.        *)

\* The lock is held by another: wait and look again, at most MaxWaits times.
NotAcquired(w) == /\ IF local[w].waits < MaxWaits THEN Goto(w, "wait") ELSE Leave(w)
                  /\ UNCHANGED stage

\* Mutant: no second look at the record under the lock.
AcquiredNoRecheck(w) == /\ lockOwner' = w
                        /\ lockExpired' = FALSE
                        /\ stage' = [stage EXCEPT ![w] = "locked"]
                        /\ Goto(w, "forward")

Acquired(w) == /\ lockOwner' = w
               /\ lockExpired' = FALSE
               /\ stage' = [stage EXCEPT ![w] = "locked"]
               /\ Goto(w, "find")

\* InsertOne: the lock is taken, or the document in the way is to be looked
\* at; only one whose expires_at is before this instant will be taken over.
AcquireIngestLock(w) ==
    /\ pc[w] = "acquire" /\ ~ctxDone[w]
    /\ \/ lockOwner = NoWorker /\ Acquired(w) /\ UNCHANGED sawExpired
       \/ /\ lockOwner # NoWorker
          /\ sawExpired' = [sawExpired EXCEPT ![w] = lockExpired]
          /\ Goto(w, "inspect")
          /\ UNCHANGED <<lockOwner, lockExpired, stage>>
    /\ UNCHANGED <<dbVars, vaultVars, mutexVars, local, ctxDone, forwarding, spent>>

\* Mutant: the document is taken over whether or not it has expired.
InspectNoExpiry(w) ==
    /\ pc[w] = "inspect" /\ ~ctxDone[w]
    /\ Goto(w, "unlink")
    /\ UNCHANGED <<dbVars, vaultVars, lockVars, mutexVars, stage, local, ctxDone,
                   forwarding, spent>>

\* FindOne of the document in the way.  An error counts as "held".
InspectLock(w) ==
    /\ pc[w] = "inspect"
    /\ \/ /\ ~ctxDone[w] /\ lockOwner # NoWorker /\ sawExpired[w]
          /\ Goto(w, "unlink")
          /\ UNCHANGED <<stage, spent>>
       \/ (lockOwner = NoWorker \/ ~sawExpired[w]) /\ NotAcquired(w) /\ UNCHANGED spent
       \/ CallFails(w) /\ NotAcquired(w)
    /\ UNCHANGED <<dbVars, vaultVars, lockVars, mutexVars, local, ctxDone, forwarding>>

\* The document is gone from file_ingest_locks, whoever deleted it: what an
\* acquirer saw of it says nothing of the next one.
DocumentRemoved == /\ lockOwner' = NoWorker
                   /\ lockExpired' = FALSE
                   /\ sawExpired' = [x \in Workers |-> FALSE]

\* DeleteOne by _id alone: it removes whichever document is there by now.
UnlinkLock(w) ==
    /\ pc[w] = "unlink"
    /\ \/ ~ctxDone[w] /\ DocumentRemoved /\ Goto(w, "reinsert") /\ UNCHANGED <<stage, spent>>
       \/ CallFails(w) /\ NotAcquired(w) /\ UNCHANGED lockVars
    /\ UNCHANGED <<dbVars, vaultVars, mutexVars, local, ctxDone, forwarding>>

\* The second InsertOne of a takeover.
ReinsertLock(w) ==
    /\ pc[w] = "reinsert" /\ ~ctxDone[w]
    /\ \/ lockOwner = NoWorker /\ Acquired(w)
       \/ lockOwner # NoWorker /\ NotAcquired(w) /\ UNCHANGED <<lockOwner, lockExpired>>
    /\ UNCHANGED <<dbVars, vaultVars, sawExpired, mutexVars, local, ctxDone, forwarding, spent>>

\* An insert fails; it may have reached the collection all the same.
AcquireFails(w) ==
    /\ pc[w] \in {"acquire", "reinsert"}
    /\ CallFails(w)
    /\ Leave(w)
    /\ \/ UNCHANGED <<lockOwner, lockExpired>>
       \/ ~ctxDone[w] /\ lockOwner = NoWorker /\ lockOwner' = w /\ lockExpired' = FALSE
    /\ UNCHANGED <<dbVars, vaultVars, sawExpired, mutexVars, stage, local, ctxDone, forwarding>>

\* time.After(2s), or the context.
WaitForLock(w) ==
    /\ pc[w] = "wait"
    /\ \/ /\ ~ctxDone[w]
          /\ local' = [local EXCEPT ![w].waits = local[w].waits + 1]
          /\ Goto(w, "find")
       \/ ctxDone[w] /\ Leave(w) /\ UNCHANGED local
    /\ UNCHANGED <<dbVars, vaultVars, lockVars, mutexVars, stage, ctxDone, forwarding, spent>>

\* defer ReleaseIngestLock: by key, whoever owns it; its error is dropped.
ReleaseIngestLock(w) ==
    /\ pc[w] = "release"
    /\ \/ ~ctxDone[w] /\ DocumentRemoved /\ UNCHANGED spent
       \/ CallFails(w) /\ UNCHANGED lockVars
    /\ Goto(w, "unlock")
    /\ UNCHANGED <<dbVars, vaultVars, mutexVars, stage, local, ctxDone, forwarding>>

-----------------------------------------------------------------------------
(* The forward to the vault, in a goroutine of its own that outlives the   *)
(* caller when its context ends first.                                     *)

SendForward(w) ==
    /\ pc[w] = "forward"
    /\ \/ /\ ~ctxDone[w] /\ local[w].attempts < MaxForwards
          /\ local' = [local EXCEPT ![w].attempts = local[w].attempts + 1]
          /\ forwarding' = [forwarding EXCEPT ![w] = TRUE]
          /\ Goto(w, "awaiting")
       \/ /\ ctxDone[w] \/ local[w].attempts = MaxForwards
          /\ Leave(w)
          /\ UNCHANGED <<local, forwarding>>
    /\ UNCHANGED <<dbVars, vaultVars, lockVars, mutexVars, stage, ctxDone, spent>>

\* Telegram puts a copy into the vault channel.
NewMessage == /\ lastMsg < MaxMsg
              /\ lastMsg' = lastMsg + 1
              /\ vault' = vault \cup {lastMsg'}

\* The call lands; nobody listens any more if the caller has left.
ForwardLands(w) ==
    /\ forwarding[w]
    /\ NewMessage
    /\ forwarding' = [forwarding EXCEPT ![w] = FALSE]
    /\ IF pc[w] = "awaiting" THEN local' = [local EXCEPT ![w].cand = lastMsg'] /\ Goto(w, "persist")
                             ELSE UNCHANGED <<local, pc>>
    /\ UNCHANGED <<dbVars, lockVars, mutexVars, stage, ctxDone, spent>>

\* The message is not the media of the key, or of size 0: it is to go again.
ForwardIsUnusable(w) ==
    /\ forwarding[w] /\ pc[w] = "awaiting"
    /\ NewMessage
    /\ forwarding' = [forwarding EXCEPT ![w] = FALSE]
    /\ local' = [local EXCEPT ![w].cand = lastMsg']
    /\ Goto(w, "discard")
    /\ Spend("fault")
    /\ UNCHANGED <<dbVars, lockVars, mutexVars, stage, ctxDone>>

\* The call errs, its message created or not: retried, but for a FLOOD_WAIT.
ForwardErrs(w) ==
    /\ forwarding[w]
    /\ Spend("fault")
    /\ forwarding' = [forwarding EXCEPT ![w] = FALSE]
    /\ NewMessage \/ UNCHANGED vaultVars
    /\ IF pc[w] = "awaiting" THEN Goto(w, "forward") \/ Leave(w) ELSE UNCHANGED pc
    /\ UNCHANGED <<dbVars, lockVars, mutexVars, stage, local, ctxDone>>

\* Mutant: the caller waits for the call whatever its context says.
AbandonNever(w) == FALSE /\ pc[w] = "awaiting" /\ UNCHANGED vars

\* case <-ctx.Done(): the caller leaves, the call goes on.
AbandonForward(w) ==
    /\ pc[w] = "awaiting" /\ ctxDone[w]
    /\ Leave(w)
    /\ UNCHANGED <<dbVars, vaultVars, lockVars, mutexVars, stage, local, ctxDone,
                   forwarding, spent>>

-----------------------------------------------------------------------------
(* Persisting the record: ReplaceFile of a stale one, else InsertFile.     *)

\* file_key is unique: an insert beside a record is refused.
Writable(w) == local[w].stale # 0 \/ rec = 0

\* Mutant: the stale cache entry survives the write.
PersistNoCache(w) ==
    LET m == local[w].cand
    IN  /\ pc[w] = "persist" /\ ~ctxDone[w]
        /\ Writable(w)
        /\ rec' = m
        /\ local' = [local EXCEPT ![w].result = m]
        /\ Leave(w)
        /\ UNCHANGED <<keyCache, vaultVars, lockVars, mutexVars, stage, ctxDone,
                       forwarding, spent>>

\* Persisted: the process' cache holds the new record too.
PersistFile(w) ==
    LET m == local[w].cand
    IN  /\ pc[w] = "persist" /\ ~ctxDone[w]
        /\ Writable(w)
        /\ rec' = m
        /\ keyCache' = [keyCache EXCEPT ![ProcOf[w]] = m]
        /\ local' = [local EXCEPT ![w].result = m]
        /\ Leave(w)
        /\ UNCHANGED <<vaultVars, lockVars, mutexVars, stage, ctxDone, forwarding, spent>>

\* Mutant: the copy is deleted without a second look.
DiscardAtOnce(w) == /\ stage' = [stage EXCEPT ![w] = "persistErr"]
                    /\ Goto(w, "discard")
                    /\ UNCHANGED keyCache

\* The write returned an error: Ingest re-reads before it deletes.  A replace
\* drops the cache entry before the write, an insert leaves it.
Reread(w) == /\ stage' = [stage EXCEPT ![w] = "persistErr"]
             /\ Goto(w, "find")
             /\ keyCache' = [keyCache EXCEPT ![ProcOf[w]] = IF local[w].stale # 0 THEN 0 ELSE @]

\* The insert met another record, or the call failed before it was applied.
PersistRefused(w) ==
    /\ pc[w] = "persist"
    /\ \/ ~Writable(w) /\ ~ctxDone[w] /\ UNCHANGED spent
       \/ CallFails(w)
    /\ Reread(w)
    /\ UNCHANGED <<rec, vaultVars, lockVars, mutexVars, local, ctxDone, forwarding>>

\* The write is applied, but its answer is lost or the context ends first.
PersistUnanswered(w) ==
    /\ pc[w] = "persist" /\ ~ctxDone[w]
    /\ Writable(w)
    /\ rec' = local[w].cand
    /\ Reread(w)
    /\ \/ Spend("fault") /\ UNCHANGED ctxDone
       \/ Spend("timeout") /\ ctxDone' = [ctxDone EXCEPT ![w] = TRUE]
    /\ UNCHANGED <<vaultVars, lockVars, mutexVars, local, forwarding>>

\* DeleteMessages of the goroutine's own message (it takes no context; an
\* error is only logged), then the error is returned.
DeleteMessages(w) ==
    /\ pc[w] = "discard"
    /\ \/ vault' = vault \ {local[w].cand} /\ UNCHANGED spent
       \/ Spend("fault") /\ UNCHANGED vault
    /\ Leave(w)
    /\ UNCHANGED <<dbVars, lastMsg, lockVars, mutexVars, stage, local, ctxDone, forwarding>>

-----------------------------------------------------------------------------
(* The environment.                                                        *)

\* The caller's deadline passes, or the caller cancels.
ContextDone(w) ==
    /\ Active(w) /\ ~ctxDone[w]
    /\ Spend("timeout")
    /\ ctxDone' = [ctxDone EXCEPT ![w] = TRUE]
    /\ UNCHANGED <<dbVars, vaultVars, lockVars, mutexVars, workerVars>>

\* Sixty seconds pass.  A caller whose context is shorter is past its own
\* deadline by then.
LockExpires ==
    /\ lockOwner # NoWorker /\ ~lockExpired
    /\ LongContext \/ ctxDone[lockOwner] \/ pc[lockOwner] = "done"
    /\ Spend("expiry")
    /\ lockExpired' = TRUE
    /\ UNCHANGED <<dbVars, vaultVars, lockOwner, sawExpired, mutexVars, workerVars, ctxDone>>

\* MongoDB's TTL monitor.
ReapLock == /\ lockExpired
            /\ DocumentRemoved
            /\ UNCHANGED <<dbVars, vaultVars, mutexVars, workerVars, ctxDone, spent>>

\* The entry of fileByKey expires or is evicted.
CacheExpires(p) ==
    /\ keyCache[p] # 0
    /\ Spend("cacheGone")
    /\ keyCache' = [keyCache EXCEPT ![p] = 0]
    /\ UNCHANGED <<rec, vaultVars, lockVars, mutexVars, workerVars, ctxDone>>

\* A vault message is removed by somebody else.
LoseMessage ==
    /\ Spend("loss")
    /\ \E m \in vault : vault' = vault \ {m}
    /\ UNCHANGED <<dbVars, lastMsg, lockVars, mutexVars, workerVars, ctxDone>>

\* The stream handler of process p finds the record's copy gone and evicts
\* the record (DeleteFileByHash).
EvictRecord(p) ==
    /\ rec # 0 /\ rec \notin vault
    /\ rec' = 0
    /\ keyCache' = [keyCache EXCEPT ![p] = 0]
    /\ UNCHANGED <<vaultVars, lockVars, mutexVars, workerVars, ctxDone, spent>>

\* Process p dies and starts again, its memory empty; calls already sent to
\* Telegram may still land.
Crash(p) ==
    LET killed == {w \in Workers : ProcOf[w] = p /\ Active(w)}
    IN  /\ killed # {}
        /\ Spend("crash")
        /\ pc' = [w \in Workers |-> IF w \in killed THEN "done" ELSE pc[w]]
        /\ stage' = [w \in Workers |-> IF w \in killed THEN "entry" ELSE stage[w]]
        /\ local' = [w \in Workers |-> IF w \in killed THEN NoLocals ELSE local[w]]
        /\ holder' = [m \in Workers |-> IF ProcOf[m] = p THEN NoWorker ELSE holder[m]]
        /\ dedupMu' = [dedupMu EXCEPT ![p] = NoWorker]
        /\ keyCache' = [keyCache EXCEPT ![p] = 0]
        /\ UNCHANGED <<rec, vaultVars, lockVars, ctxDone, forwarding>>

-----------------------------------------------------------------------------

\* The steps of a goroutine that its scheduler, MongoDB and Telegram take in
\* time, each call being answered or failing.
Step(w) ==
    \/ LockMutex(w) \/ UnlockMutex(w)
    \/ FindFileByKey(w) \/ FindFileByKeyFails(w)
    \/ ReuseRecord(w) \/ RecordIsStale(w) \/ ValidateFails(w)
    \/ AcquireIngestLock(w) \/ InspectLock(w) \/ UnlinkLock(w) \/ ReinsertLock(w)
    \/ AcquireFails(w) \/ WaitForLock(w) \/ ReleaseIngestLock(w)
    \/ SendForward(w) \/ ForwardIsUnusable(w) \/ ForwardErrs(w) \/ AbandonForward(w)
    \/ PersistFile(w) \/ PersistRefused(w) \/ PersistUnanswered(w) \/ DeleteMessages(w)

Environment ==
    \/ \E w \in Workers : ContextDone(w)
    \/ \E p \in Procs : \/ CleanupDedupMu(p) \/ EvictMutex(p)
                        \/ CacheExpires(p) \/ EvictRecord(p) \/ Crash(p)
    \/ LockExpires \/ ReapLock \/ LoseMessage

\* Every goroutine has returned: nothing is left to do.
Finished == (\A w \in Workers : pc[w] = "done") /\ UNCHANGED vars

Next == \/ \E w \in Workers : fileMutex(w) \/ Step(w) \/ ForwardLands(w)
        \/ Environment
        \/ Finished

Spec == Init /\ [][Next]_vars

\* Goroutines run, MongoDB answers or fails, and every context has a deadline;
\* that Telegram ever answers a Forward is not assumed.
Fairness == \A w \in Workers : WF_vars(Step(w)) /\ WF_vars(ContextDone(w))

FairSpec == Spec /\ Fairness

-----------------------------------------------------------------------------
(* Properties.                                                             *)

\* store.go:657-659: "The _id (file key) plus the implicit unique _id index
\* make the lock exclusive".
LockExclusive ==
    \A v, w \in Workers : Critical(v) /\ Critical(w) => v = w

\* ... which holds as long as no lock document outlives its expires_at,
\* whatever else fails, and then the document is its holder's.
LockExclusiveInTime ==
    Quiet({"expiry"}) =>
        /\ LockExclusive
        /\ \A w \in Workers : Critical(w) => lockOwner = w

\* ingest.go:1-4, "the same file never creates a second vault message": when
\* nothing fails, expires or gets lost, the vault never holds two copies, in
\* whatever way the goroutines interleave and the mutex map is cleaned up.
OneCopy == Quiet(Failures) => Cardinality(vault) <= 1

\* The same promise with no condition at all on the vault.
NeverSecondCopy ==
    Quiet(Failures \ {"loss"}) =>
        \A m, n \in vault : m # n => \E w \in Workers : Active(w) /\ local[w].cand \in {m, n}

\* No copy leaks: with one process, vault messages being lost at any time, a
\* copy in the vault is the canonical one or its goroutine is still at work.
NoLeak ==
    Quiet(Failures \ {"loss"}) /\ (Quiet({"loss"}) \/ Cardinality(Procs) = 1) =>
        \A m \in vault : m = rec \/ \E w \in Workers : Active(w) /\ local[w].cand = m

\* ingest.go:448: an insert "may have committed despite a transient response
\* failure", so the copy of a committed record is not deleted: the ingesters
\* never leave the record pointing at a message they removed themselves...
RecordKeepsItsCopy == Quiet({"loss"}) => rec = 0 \/ rec \in vault

\* ... as long as no context ends and no second call fails.
RecordKeepsItsCopyInTime ==
    Quiet({"timeout", "expiry"}) /\ spent["fault"] <= 1 => RecordKeepsItsCopy

\* No result is of a record whose copy was gone before the call began, cached
\* as it may still be in the process.
ResultWasLive == \A w \in Workers : local[w].result \notin local[w].goneBefore

\* ingest.go:79: "a transient failure must not trigger a new forward": the
\* media is forwarded again only beside a record whose copy is gone.
ForwardOnlyIfGone ==
    \A w \in Workers : pc[w] \in {"forward", "awaiting"} => local[w].stale = 0 \/ local[w].stale \notin vault

\* The registry that ingestion implements: the record is rec, its copies vault.
Registry == INSTANCE FileRegistry WITH canon <- rec, live <- vault

\* A record whose copy is in the vault is never replaced or dropped: a link
\* that works goes on working (one process, no lock document outlived).
ImplementsRegistry == Registry!Spec

\* Every call of Ingest returns, by its deadline if nothing else answers.
EveryIngestReturns == \A w \in Workers : Active(w) ~> pc[w] = "done"
=============================================================================
