------------------------------ MODULE FileStore ------------------------------
(***************************************************************************)
(* The record of ONE file in MongoDB and in the two caches of one process: *)
(* fileByKey, which ingestion reads, and fileByHash, which the links read. *)
(* InsertFile, ReplaceFile, FindFileByKey, FindFileByHash and              *)
(* DeleteFileByHash of internal/store/store.go, each taken apart into its  *)
(* accesses to the collection and to the caches, with the calls that       *)
(* internal/ingest/ingest.go and internal/stream/handler.go make of them.  *)
(*                                                                         *)
(* The hash is a function of the key, so one entry of each cache matters.  *)
(* A record is identified by its vault_msg_id, 0 standing for none.        *)
(***************************************************************************)
EXTENDS Naturals, FiniteSets

CONSTANTS
    Streams,  \* HTTP requests for the file's link
    Ingests,  \* ingestions of the file
    MaxMsg    \* bound on the messages ever created in the vault

ASSUME StoreAssumption ==
    /\ Streams \cap Ingests = {}
    /\ MaxMsg \in Nat

Actors == Streams \cup Ingests

VARIABLES
    row,      \* the files collection: the record
    cache,    \* cache["key"], cache["hash"]: the record's entries
    vault,    \* the messages in the vault channel
    lastMsg,  \* the last message it handed out
    pc,       \* the next step of each actor
    rec,      \* the record each actor looked up, or is to write
    raced     \* history: the row changed while another actor's fill was under way,
              \* or the answer of a write was lost

vars == <<row, cache, vault, lastMsg, pc, rec, raced>>

Indexes == {"key", "hash"}

\* The cache an actor reads.
Index(a) == IF a \in Streams THEN "hash" ELSE "key"

\* The steps that drop an entry: of which cache, and what is next.
Drops == [deleteHit    |-> <<"hash", "deleteKey0">>,   deleteMiss   |-> <<"hash", "deleteCold">>,
          deleteNone   |-> <<"hash", "done">>,         deleteKey0   |-> <<"key", "deleteRow">>,
          deleteHash1  |-> <<"hash", "deleteKey1">>,   deleteKey1   |-> <<"key", "done">>,
          replaceKey0  |-> <<"key", "replaceHash0">>,  replaceHash0 |-> <<"hash", "replaceRow">>,
          replaceKey1  |-> <<"key", "replaceHash1">>,  replaceHash1 |-> <<"hash", "setHash">>]

\* The steps that put an actor's record into a cache.
Sets == [setHash |-> <<"hash", "setKey">>, setKey |-> <<"key", "done">>]

\* A lookup: the step that asks the collection, and the one after an answer.
Lookups == [find |-> <<"read", "check">>, refind |-> <<"reread", "done">>]
Reads   == [read |-> <<"fill", "check">>, reread |-> <<"refill", "done">>]
Fills   == [fill |-> "check", refill |-> "done"]

\* Links only find and delete, ingestions only find and write, and look the
\* record up again after a write that failed.
StreamPCs == {"idle", "find", "read", "fill", "check", "done", "delete", "deleteHit", "deleteMiss",
              "deleteCold", "deleteNone", "deleteKey0", "deleteRow", "deleteHash1", "deleteKey1"}
IngestPCs == {"idle", "find", "read", "fill", "check", "done", "insert", "replace", "replaceKey0",
              "replaceHash0", "replaceRow", "replaceKey1", "replaceHash1", "setHash", "setKey",
              "refind", "reread", "refill"}

\* An actor with a record it read or wrote and has yet to put into a cache.
Filling(a) == pc[a] \in {"fill", "refill", "replaceKey1", "replaceHash1", "setHash", "setKey"}

\* The steps after a write at which the writer has yet to drop entry i.
WillDrop(i) == IF i = "key" THEN {"deleteHash1", "deleteKey1", "replaceKey1"}
                            ELSE {"deleteHash1", "replaceKey1", "replaceHash1"}

Goto(a, l) == pc' = [pc EXCEPT ![a] = l]

TypeOK ==
    /\ row \in 0 .. MaxMsg
    /\ cache \in [Indexes -> 0 .. MaxMsg]
    /\ vault \subseteq 1 .. MaxMsg
    /\ lastMsg \in 0 .. MaxMsg
    /\ pc \in [Actors -> StreamPCs \cup IngestPCs]
    /\ \A s \in Streams : pc[s] \in StreamPCs
    /\ \A g \in Ingests : pc[g] \in IngestPCs
    /\ rec \in [Actors -> 0 .. MaxMsg]
    /\ raced \in BOOLEAN

\* The file is new, or has been ingested before.
Init ==
    /\ row \in {0, 1} \cap 0 .. MaxMsg /\ vault = {row} \ {0} /\ lastMsg = row
    /\ cache \in [Indexes -> {0, row}]
    /\ pc = [a \in Actors |-> "idle"]
    /\ rec = [a \in Actors |-> 0]
    /\ raced = FALSE

-----------------------------------------------------------------------------
(* The caches.                                                             *)

Drop(a) ==
    /\ pc[a] \in DOMAIN Drops
    /\ cache' = [cache EXCEPT ![Drops[pc[a]][1]] = 0]
    /\ Goto(a, Drops[pc[a]][2])
    /\ UNCHANGED <<row, vault, lastMsg, rec, raced>>

Set(a) ==
    /\ pc[a] \in DOMAIN Sets
    /\ cache' = [cache EXCEPT ![Sets[pc[a]][1]] = rec[a]]
    /\ Goto(a, Sets[pc[a]][2])
    /\ UNCHANGED <<row, vault, lastMsg, rec, raced>>

\* An entry's time is up, or it is evicted.
Expire(i) ==
    /\ cache[i] # 0
    /\ cache' = [cache EXCEPT ![i] = 0]
    /\ UNCHANGED <<row, vault, lastMsg, pc, rec, raced>>

-----------------------------------------------------------------------------
(* FindFileByKey and FindFileByHash: the cache, else the collection, whose *)
(* answer is cached in a step of its own.                                  *)

\* A request comes in; an ingestion has the file's mutex from here to its end.
Begin(a) ==
    /\ pc[a] = "idle"
    /\ a \in Ingests => \A g \in Ingests : pc[g] \in {"idle", "done"}
    /\ Goto(a, "find")
    /\ UNCHANGED <<row, cache, vault, lastMsg, rec, raced>>

Find(a) ==
    /\ pc[a] \in DOMAIN Lookups
    /\ IF cache[Index(a)] # 0 THEN /\ rec' = [rec EXCEPT ![a] = cache[Index(a)]]
                                   /\ Goto(a, Lookups[pc[a]][2])
                              ELSE Goto(a, Lookups[pc[a]][1]) /\ UNCHANGED rec
    /\ UNCHANGED <<row, cache, vault, lastMsg, raced>>

\* FindOne, or its error.
Read(a) ==
    /\ pc[a] \in DOMAIN Reads
    /\ \/ /\ rec' = [rec EXCEPT ![a] = row]
          /\ Goto(a, Reads[pc[a]][IF row = 0 THEN 2 ELSE 1])
       \/ Goto(a, "done") /\ UNCHANGED rec
    /\ UNCHANGED <<row, cache, vault, lastMsg, raced>>

Fill(a) ==
    /\ pc[a] \in DOMAIN Fills
    /\ cache' = [cache EXCEPT ![Index(a)] = rec[a]]
    /\ Goto(a, Fills[pc[a]])
    /\ UNCHANGED <<row, vault, lastMsg, rec, raced>>

-----------------------------------------------------------------------------
(* Writes of the row.                                                      *)

\* The row becomes r by a's write, which overtakes a fill under way elsewhere.
WriteRow(a, r) == /\ row' = r
                  /\ raced' = (raced \/ (r # row /\ \E b \in Actors \ {a} : Filling(b)))

\* The write errs: it was not applied, or it was and only its answer is lost.
WriteErrs(r) == /\ row' \in {row, r}
                /\ raced' = (raced \/ row' # row)

\* InsertOne: the unique index refuses it beside another record.
InsertFile(a) ==
    /\ pc[a] = "insert"
    /\ \/ row = 0 /\ WriteRow(a, rec[a]) /\ Goto(a, "setHash")
       \/ row # 0 /\ Goto(a, "refind") /\ UNCHANGED <<row, raced>>
       \/ row = 0 /\ WriteErrs(rec[a]) /\ Goto(a, "refind")
    /\ UNCHANGED <<cache, vault, lastMsg, rec>>

\* The old record's hash, from fileByKey or else from the collection.
ReplaceFile(a) ==
    /\ pc[a] = "replace"
    /\ Goto(a, "replaceKey0") \/ (cache["key"] = 0 /\ Goto(a, "refind"))
    /\ UNCHANGED <<row, cache, vault, lastMsg, rec, raced>>

\* ReplaceOne, with upsert.
ReplaceRow(a) ==
    /\ pc[a] = "replaceRow"
    /\ \/ WriteRow(a, rec[a]) /\ Goto(a, "replaceKey1")
       \/ WriteErrs(rec[a]) /\ Goto(a, "refind")
    /\ UNCHANGED <<cache, vault, lastMsg, rec>>

\* DeleteFileByHash looks into fileByHash for the key first.
DeleteFileByHash(a) ==
    /\ pc[a] = "delete"
    /\ Goto(a, IF cache["hash"] # 0 THEN "deleteHit" ELSE "deleteMiss")
    /\ UNCHANGED <<row, cache, vault, lastMsg, rec, raced>>

\* Not cached: the key from the collection.
DeleteCold(a) ==
    /\ pc[a] = "deleteCold"
    /\ Goto(a, IF row = 0 THEN "deleteNone" ELSE "deleteKey0") \/ Goto(a, "done")
    /\ UNCHANGED <<row, cache, vault, lastMsg, rec, raced>>

\* Mutant: no second round of invalidations.
DeleteRowOnly(a) ==
    /\ pc[a] = "deleteRow"
    /\ \/ WriteRow(a, 0) /\ Goto(a, "done")
       \/ WriteErrs(0) /\ Goto(a, "done")
    /\ UNCHANGED <<cache, vault, lastMsg, rec>>

\* DeleteOne, of whichever record has the hash by now.
DeleteRow(a) ==
    /\ pc[a] = "deleteRow"
    /\ \/ WriteRow(a, 0) /\ Goto(a, "deleteHash1")
       \/ WriteErrs(0) /\ Goto(a, "done")
    /\ UNCHANGED <<cache, vault, lastMsg, rec>>

-----------------------------------------------------------------------------
(* What the callers do with the record they found.                         *)

\* Mutant: any failure of the lookup counts as a missing copy.
StreamFailsEvict(a) ==
    /\ a \in Streams /\ pc[a] = "check"
    /\ Goto(a, IF rec[a] = 0 THEN "done" ELSE "delete")
    /\ UNCHANGED <<row, cache, vault, lastMsg, rec, raced>>

\* ServeHTTP: a link without a record is a 404; the copy is looked up in the
\* vault, and only if it is gone the record is deleted, not when the lookup fails.
ServeOrEvict(a) ==
    /\ a \in Streams /\ pc[a] = "check"
    /\ Goto(a, IF rec[a] = 0 \/ rec[a] \in vault THEN "done" ELSE "delete") \/ Goto(a, "done")
    /\ UNCHANGED <<row, cache, vault, lastMsg, rec, raced>>

\* Ingest reuses a record whose copy is there, ...
Reuse(a) ==
    /\ a \in Ingests /\ pc[a] = "check"
    /\ rec[a] \in vault
    /\ Goto(a, "done")
    /\ UNCHANGED <<row, cache, vault, lastMsg, rec, raced>>

\* ... looks it up once more, after a wait for the lock and with the lock held, ...
LookAgain(a) ==
    /\ a \in Ingests /\ pc[a] = "check"
    /\ rec[a] \notin vault
    /\ Goto(a, "find")
    /\ UNCHANGED <<row, cache, vault, lastMsg, rec, raced>>

\* ... and finally forwards the media and persists a new record, in place of the
\* stale one if this or an earlier lookup found one; any of the calls before
\* that may fail.
Forward(a) ==
    /\ a \in Ingests /\ pc[a] = "check"
    /\ rec[a] \notin vault
    /\ lastMsg < MaxMsg
    /\ lastMsg' = lastMsg + 1
    /\ vault' = vault \cup {lastMsg'}
    /\ \E l \in {"replace"} \cup (IF rec[a] = 0 THEN {"insert"} ELSE {}) : Goto(a, l)
    /\ rec' = [rec EXCEPT ![a] = lastMsg']
    /\ UNCHANGED <<row, cache, raced>>

IngestFails(a) ==
    /\ a \in Ingests /\ pc[a] = "check"
    /\ Goto(a, "done")
    /\ UNCHANGED <<row, cache, vault, lastMsg, rec, raced>>

\* A message disappears from the vault channel; an ingestion whose write failed
\* deletes its own.
LoseMessage ==
    /\ \E m \in vault : vault' = vault \ {m}
    /\ UNCHANGED <<row, cache, lastMsg, pc, rec, raced>>

-----------------------------------------------------------------------------

Step(a) == \/ Begin(a) \/ Find(a) \/ Read(a) \/ Fill(a) \/ Drop(a) \/ Set(a)
           \/ InsertFile(a) \/ ReplaceFile(a) \/ ReplaceRow(a)
           \/ DeleteFileByHash(a) \/ DeleteCold(a) \/ DeleteRow(a)
           \/ ServeOrEvict(a) \/ Reuse(a) \/ LookAgain(a) \/ Forward(a) \/ IngestFails(a)

Finished == (\A a \in Actors : pc[a] = "done") /\ UNCHANGED vars

Next == \/ \E a \in Actors : Step(a)
        \/ \E i \in Indexes : Expire(i)
        \/ LoseMessage
        \/ Finished

Spec == Init /\ [][Next]_vars

-----------------------------------------------------------------------------
(* Properties.                                                             *)

\* store.go:402-405 and 486-487, the double invalidation: a cache entry that
\* disagrees with the collection is one a writer is about to drop, unless a
\* write overtook somebody's fill or lost its answer.
StaleIsDoomed ==
    ~raced => \A i \in Indexes : \/ cache[i] \in {0, row}
                                 \/ \E a \in Actors : pc[a] \in WillDrop(i)

\* handler.go:24-26, "a transient error must not destroy a still-valid public
\* link": a record whose copy is in the vault is not deleted or replaced...
LiveLinkKept == [][(row \in vault) => row' = row]_vars

\* ... by an actor that looked at this very record.
LiveLinkKeptFromItsReaders ==
    [][\A a \in Actors : row \in vault /\ rec[a] = row /\ Step(a) => row' = row]_vars
=============================================================================
