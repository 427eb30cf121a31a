---------------------------- MODULE StreamProofs ----------------------------
(* What a streaming request rests on: theorems about FileStore, for any    *)
(* number of requests and ingestions, and about Ranges, for files, chunks  *)
(* and ints of any size.                                                   *)
EXTENDS FileStore, Ranges, SequenceTheorems, TLAPS

-----------------------------------------------------------------------------
(* The caches.  Until a write overtakes it, whoever is about to fill a     *)
(* cache does so with the row as it is, so that stale entries come from    *)
(* writes alone, and each writer drops both of them afterwards.            *)

StoreTypeOK ==
    /\ row \in 0 .. lastMsg
    /\ cache \in [Indexes -> 0 .. lastMsg]
    /\ vault \subseteq 1 .. lastMsg
    /\ lastMsg \in 0 .. MaxMsg
    /\ pc \in [Actors -> StreamPCs \cup IngestPCs]
    /\ \A s \in Streams : pc[s] \in StreamPCs
    /\ \A g \in Ingests : pc[g] \in IngestPCs
    /\ rec \in [Actors -> 0 .. lastMsg]
    /\ raced \in BOOLEAN

FillsAreFresh == \A a \in Actors : Filling(a) /\ ~raced => rec[a] = row

\* A request deletes only after it has found its record's copy gone, and
\* copies do not come back.
Deleting == {"delete", "deleteHit", "deleteMiss", "deleteCold", "deleteNone", "deleteKey0",
             "deleteRow", "deleteHash1", "deleteKey1"}

DeletesAreDue == \A s \in Streams : pc[s] \in Deleting => rec[s] \notin vault

Inv == StoreTypeOK /\ FillsAreFresh /\ StaleIsDoomed /\ DeletesAreDue

LEMMA InvInit == Init => Inv
<1> SUFFICES ASSUME Init PROVE Inv
  OBVIOUS
<1> USE StoreAssumption DEF Init
<1>1. lastMsg \in 0 .. MaxMsg /\ row = lastMsg /\ vault \subseteq 1 .. lastMsg
  OBVIOUS
<1>2. {0, row} \subseteq 0 .. lastMsg
  BY <1>1
<1>3. pc \in [Actors -> StreamPCs \cup IngestPCs] /\ \A a \in Actors : pc[a] \in StreamPCs \cap IngestPCs
  BY DEF StreamPCs, IngestPCs
<1>4. StoreTypeOK
  BY <1>1, <1>2, <1>3 DEF StoreTypeOK, Actors
<1>5. FillsAreFresh /\ StaleIsDoomed /\ DeletesAreDue
  BY DEF FillsAreFresh, Filling, StaleIsDoomed, DeletesAreDue, Deleting, Actors
<1> QED BY <1>4, <1>5 DEF Inv

\* Every step of an actor stays among the steps of its kind.
LEMMA StepsOfAKind ==
    ASSUME NEW a \in Actors, Inv, Step(a)
    PROVE  /\ pc' \in [Actors -> StreamPCs \cup IngestPCs]
           /\ \A s \in Streams : pc'[s] \in StreamPCs
           /\ \A g \in Ingests : pc'[g] \in IngestPCs
           /\ \A b \in Actors \ {a} : pc'[b] = pc[b]
<1> DEFINE Mine == IF a \in Streams THEN StreamPCs ELSE IngestPCs
<1>1. /\ pc \in [Actors -> StreamPCs \cup IngestPCs] /\ pc[a] \in Mine
      /\ \A s \in Streams : pc[s] \in StreamPCs
      /\ \A g \in Ingests : pc[g] \in IngestPCs
  BY DEF Inv, StoreTypeOK, Actors
<1>2. \E l \in Mine : Goto(a, l)
  <2>1. CASE Begin(a)
    BY <2>1 DEF Begin, StreamPCs, IngestPCs
  <2>8. CASE Find(a) \/ Read(a) \/ Fill(a)
    BY <1>1, <2>8 DEF Find, Read, Fill, Lookups, Reads, Fills, Goto, StreamPCs, IngestPCs
  <2>2. CASE Drop(a)
    BY <1>1, <2>2 DEF Drop, Drops, StreamPCs, IngestPCs
  <2>3. CASE Set(a)
    BY <1>1, <2>3 DEF Set, Sets, StreamPCs, IngestPCs
  <2>4. CASE InsertFile(a) \/ ReplaceFile(a) \/ ReplaceRow(a)
    BY <1>1, <2>4 DEF InsertFile, ReplaceFile, ReplaceRow, WriteErrs, Goto, StreamPCs, IngestPCs
  <2>5. CASE DeleteFileByHash(a) \/ DeleteCold(a) \/ DeleteRow(a)
    BY <1>1, <2>5 DEF DeleteFileByHash, DeleteCold, DeleteRow, WriteErrs, Goto, StreamPCs, IngestPCs
  <2>6. CASE ServeOrEvict(a)
    BY <2>6 DEF ServeOrEvict, Goto, StreamPCs
  <2>7. CASE Reuse(a) \/ LookAgain(a) \/ Forward(a) \/ IngestFails(a)
    BY <2>7, StoreAssumption DEF Reuse, LookAgain, Forward, IngestFails, Goto, IngestPCs
  <2> QED BY <2>1, <2>2, <2>3, <2>4, <2>5, <2>6, <2>7, <2>8 DEF Step
<1> QED BY <1>1, <1>2, StoreAssumption DEF Goto, Actors

\* A step that changes neither the row nor the caches, nor creates messages.
LEMMA InvKeptOutside ==
    ASSUME NEW a \in Actors, Inv,
           Begin(a) \/ Find(a) \/ Read(a) \/ ReplaceFile(a) \/ DeleteFileByHash(a) \/ DeleteCold(a)
               \/ ServeOrEvict(a) \/ Reuse(a) \/ LookAgain(a) \/ IngestFails(a)
    PROVE  Inv'
<1> USE StoreAssumption DEF Begin, Find, Read, ReplaceFile, DeleteFileByHash, DeleteCold,
        ServeOrEvict, Reuse, LookAgain, IngestFails, Lookups, Reads, Goto
<1>1. StoreTypeOK'
  <2>1. rec' \in [Actors -> 0 .. lastMsg] /\ UNCHANGED <<row, cache, vault, lastMsg, raced>>
    BY DEF Inv, StoreTypeOK, Index, Indexes
  <2> QED BY <2>1, StepsOfAKind DEF Inv, StoreTypeOK, Step
<1>2. FillsAreFresh'
  BY DEF Inv, StoreTypeOK, FillsAreFresh, Filling
<1>3. StaleIsDoomed'
  BY DEF Inv, StoreTypeOK, StaleIsDoomed, WillDrop, Indexes
<1>4. DeletesAreDue'
  <2>1. SUFFICES ASSUME NEW s \in Streams, pc'[s] \in Deleting PROVE rec'[s] \notin vault'
    BY DEF DeletesAreDue
  <2>2. /\ pc \in [Actors -> StreamPCs \cup IngestPCs] /\ rec \in [Actors -> 0 .. lastMsg]
        /\ s \in Actors /\ (pc[s] \in Deleting => rec[s] \notin vault) /\ 0 \notin vault
    BY DEF Inv, StoreTypeOK, DeletesAreDue, Actors
  <2>3. CASE s # a
    BY <2>1, <2>2, <2>3
  <2>4. CASE s = a
    <3>1. CASE Begin(a) \/ Find(a) \/ Read(a) \/ ReplaceFile(a) \/ Reuse(a) \/ LookAgain(a)
               \/ IngestFails(a)
      BY <2>1, <2>2, <2>4, <3>1 DEF Deleting
    <3>2. CASE DeleteFileByHash(a) \/ DeleteCold(a)
      BY <2>1, <2>2, <2>4, <3>2 DEF Deleting
    <3>3. CASE ServeOrEvict(a)
      BY <2>1, <2>2, <2>4, <3>3 DEF Deleting
    <3> QED BY <3>1, <3>2, <3>3
  <2> QED BY <2>3, <2>4
<1> QED BY <1>1, <1>2, <1>3, <1>4 DEF Inv

\* A step that empties an entry, or puts into it what a fill is due to put.
LEMMA InvKeptByCaches ==
    ASSUME NEW a \in Actors, Inv, Drop(a) \/ Set(a) \/ Fill(a)
    PROVE  Inv'
<1> USE StoreAssumption DEF Goto
<1>1. /\ UNCHANGED <<row, vault, lastMsg, rec, raced>>
      /\ pc \in [Actors -> StreamPCs \cup IngestPCs] /\ rec \in [Actors -> 0 .. lastMsg]
      /\ cache \in [Indexes -> 0 .. lastMsg]
  BY DEF Inv, StoreTypeOK, Drop, Set, Fill
<1>2. PICK i \in Indexes, v \in {0, rec[a]} :
          /\ cache' = [cache EXCEPT ![i] = v]
          /\ v = 0 \/ (Filling(a) /\ v = rec[a])
          /\ \A j \in Indexes \ {i} : pc[a] \in WillDrop(j) => pc'[a] \in WillDrop(j)
  <2>1. CASE Drop(a)
    <3> DEFINE i == Drops[pc[a]][1]
               l == Drops[pc[a]][2]
    <3>1. pc[a] \in DOMAIN Drops /\ cache' = [cache EXCEPT ![i] = 0] /\ pc'[a] = l
      BY <1>1, <2>1 DEF Drop
    <3>2. i \in Indexes
      BY <3>1 DEF Drops, Indexes
    <3>3. \A j \in Indexes \ {i} : pc[a] \in WillDrop(j) => l \in WillDrop(j)
      BY <3>1 DEF Drops, Indexes, WillDrop
    <3>4. \A j \in Indexes \ {i} : pc[a] \in WillDrop(j) => pc'[a] \in WillDrop(j)
      BY <3>1, <3>3
    <3> HIDE DEF i, l
    <3>5. 0 \in {0, rec[a]} /\ cache' = [cache EXCEPT ![i] = 0]
      BY <3>1
    <3> QED BY <3>2, <3>4, <3>5
  <2>2. CASE Set(a)
    <3> DEFINE i == Sets[pc[a]][1]
    <3>1. pc[a] \in DOMAIN Sets /\ cache' = [cache EXCEPT ![i] = rec[a]]
      BY <1>1, <2>2 DEF Set
    <3>2. i \in Indexes /\ Filling(a)
      BY <3>1 DEF Sets, Indexes, Filling
    <3>3. \A j \in Indexes : pc[a] \notin WillDrop(j)
      BY <3>1 DEF Sets, Indexes, WillDrop
    <3> HIDE DEF i
    <3> QED BY <3>1, <3>2, <3>3
  <2>3. CASE Fill(a)
    BY <1>1, <2>3 DEF Fill, Fills, Index, Indexes, WillDrop, Filling
  <2> QED BY <2>1, <2>2, <2>3
<1>3. \A b \in Actors \ {a} : pc'[b] = pc[b]
  BY StepsOfAKind DEF Step
<1>4. StoreTypeOK'
  <2>1. cache' \in [Indexes -> 0 .. lastMsg]
    BY <1>1, <1>2 DEF Inv, StoreTypeOK
  <2> QED BY <1>1, <2>1, StepsOfAKind DEF Inv, StoreTypeOK, Step
<1>5. FillsAreFresh'
  <2>1. Filling(a)' => Filling(a)
    BY <1>1 DEF Drop, Drops, Set, Sets, Fill, Fills, Filling
  <2> QED BY <1>1, <1>3, <2>1 DEF Inv, FillsAreFresh, Filling
<1>6. StaleIsDoomed'
  <2> SUFFICES ASSUME ~raced, NEW j \in Indexes
               PROVE  cache'[j] \in {0, row} \/ \E b \in Actors : pc'[b] \in WillDrop(j)
    BY <1>1 DEF StaleIsDoomed, WillDrop
  <2>1. CASE j = i
    BY <1>1, <1>2, <2>1 DEF Inv, FillsAreFresh
  <2>2. CASE j # i
    BY <1>1, <1>2, <1>3, <2>2 DEF Inv, StaleIsDoomed
  <2> QED BY <2>1, <2>2
<1>7. DeletesAreDue'
  <2>1. pc'[a] \in Deleting => pc[a] \in Deleting
    BY <1>1 DEF Drop, Drops, Set, Sets, Fill, Fills, Deleting
  <2> QED BY <1>1, <1>3, <2>1 DEF Inv, DeletesAreDue, Actors
<1> QED BY <1>4, <1>5, <1>6, <1>7 DEF Inv

\* A write of the row: whoever applies it drops both entries next, unless there
\* was no record to be cached.
LEMMA InvKeptByWrites ==
    ASSUME NEW a \in Actors, Inv, InsertFile(a) \/ ReplaceRow(a) \/ DeleteRow(a)
    PROVE  Inv'
<1> USE StoreAssumption DEF Goto
<1>1. /\ UNCHANGED <<cache, vault, lastMsg, rec>>
      /\ pc \in [Actors -> StreamPCs \cup IngestPCs] /\ rec \in [Actors -> 0 .. lastMsg]
      /\ cache \in [Indexes -> 0 .. lastMsg] /\ raced \in BOOLEAN /\ row \in 0 .. lastMsg
      /\ lastMsg \in Nat
  BY DEF Inv, StoreTypeOK, InsertFile, ReplaceRow, DeleteRow
<1>2. \A b \in Actors \ {a} : pc'[b] = pc[b]
  BY StepsOfAKind DEF Step
<1>3. \/ row' = row /\ raced' = raced /\ pc'[a] \in {"done", "refind"}
      \/ raced'
      \/ /\ raced' = (raced \/ (row' # row /\ \E b \in Actors \ {a} : Filling(b)))
         /\ \/ row = 0 /\ row' = rec[a] /\ pc[a] = "insert" /\ pc'[a] = "setHash"
            \/ row' = rec[a] /\ pc'[a] = "replaceKey1"
            \/ row' = 0 /\ pc'[a] = "deleteHash1"
  <2>1. CASE InsertFile(a)
    BY <1>1, <2>1 DEF InsertFile, WriteRow, WriteErrs
  <2>2. CASE ReplaceRow(a)
    BY <1>1, <2>2 DEF ReplaceRow, WriteRow, WriteErrs
  <2>3. CASE DeleteRow(a)
    BY <1>1, <2>3 DEF DeleteRow, WriteRow, WriteErrs
  <2> QED BY <2>1, <2>2, <2>3
<1>4. row' \in {row, 0, rec[a]} /\ raced' \in BOOLEAN
  BY <1>1 DEF InsertFile, ReplaceRow, DeleteRow, WriteRow, WriteErrs
<1>5. pc[a] \in {"insert", "replaceRow", "deleteRow"} /\ (raced => raced')
  BY <1>1 DEF InsertFile, ReplaceRow, DeleteRow, WriteRow, WriteErrs
<1>6. StoreTypeOK'
  BY <1>1, <1>4, StepsOfAKind DEF Inv, StoreTypeOK, Step
<1>7. FillsAreFresh'
  <2> SUFFICES ASSUME NEW b \in Actors, Filling(b)', ~raced' PROVE rec[b] = row'
    BY <1>1 DEF FillsAreFresh
  <2>1. CASE b = a
    BY <1>3, <2>1 DEF Filling
  <2>2. CASE b # a
    BY <1>2, <1>3, <1>5, <2>2 DEF Inv, FillsAreFresh, Filling
  <2> QED BY <2>1, <2>2
<1>8. StaleIsDoomed'
  <2> SUFFICES ASSUME ~raced', NEW j \in Indexes
               PROVE  cache[j] \in {0, row'} \/ \E b \in Actors : pc'[b] \in WillDrop(j)
    BY <1>1 DEF StaleIsDoomed, WillDrop
  <2>1. cache[j] \in {0, row} \/ \E b \in Actors : pc[b] \in WillDrop(j)
    BY <1>5 DEF Inv, StaleIsDoomed
  <2>2. pc[a] \notin WillDrop(j)
    BY <1>5 DEF WillDrop
  <2>3. CASE row' = row \/ row = 0
    BY <1>2, <2>1, <2>2, <2>3
  <2>4. CASE pc'[a] \in {"replaceKey1", "deleteHash1"}
    BY <2>4 DEF WillDrop
  <2> QED BY <1>3, <2>3, <2>4
<1>9. DeletesAreDue'
  <2>1. a \in Streams => (pc'[a] \in Deleting => pc[a] \in Deleting)
    BY <1>1 DEF Inv, StoreTypeOK, StreamPCs, InsertFile, ReplaceRow, DeleteRow, Deleting
  <2> QED BY <1>1, <1>2, <2>1 DEF Inv, DeletesAreDue, Actors
<1> QED BY <1>6, <1>7, <1>8, <1>9 DEF Inv

\* A new message is not one that anybody has seen before.
LEMMA InvKeptByForward ==
    ASSUME NEW a \in Actors, Inv, Forward(a)
    PROVE  Inv'
<1> USE StoreAssumption DEF Forward, Goto
<1>1. /\ pc \in [Actors -> StreamPCs \cup IngestPCs] /\ rec \in [Actors -> 0 .. lastMsg]
      /\ lastMsg \in Nat /\ MaxMsg \in Nat
  BY DEF Inv, StoreTypeOK
<1>2. StoreTypeOK'
  <2>1. 0 .. lastMsg \subseteq 0 .. lastMsg' /\ 1 .. lastMsg \subseteq 1 .. lastMsg'
        /\ lastMsg' \in 0 .. MaxMsg /\ lastMsg' \in 1 .. lastMsg'
    BY <1>1
  <2>2. cache \in [Indexes -> 0 .. lastMsg'] /\ rec' \in [Actors -> 0 .. lastMsg']
    BY <1>1, <2>1 DEF Inv, StoreTypeOK
  <2> QED BY <2>1, <2>2, StepsOfAKind DEF Inv, StoreTypeOK, Step
<1>3. FillsAreFresh'
  BY <1>1 DEF Inv, FillsAreFresh, Filling
<1>4. StaleIsDoomed'
  BY <1>1 DEF Inv, StaleIsDoomed, WillDrop, Indexes
<1>5. DeletesAreDue'
  <2> SUFFICES ASSUME NEW s \in Streams, pc'[s] \in Deleting PROVE rec'[s] \notin vault'
    BY DEF DeletesAreDue
  <2>1. s # a /\ s \in Actors
    BY DEF Actors
  <2> QED BY <1>1, <2>1 DEF Inv, DeletesAreDue
<1> QED BY <1>2, <1>3, <1>4, <1>5 DEF Inv

\* Entries expire and messages disappear at any time.
LEMMA InvKeptByOthers ==
    ASSUME Inv, (\E i \in Indexes : Expire(i)) \/ LoseMessage \/ UNCHANGED vars
    PROVE  Inv'
<1>1. CASE \E i \in Indexes : Expire(i)
  <2>1. PICK i \in Indexes : Expire(i)
    BY <1>1
  <2> USE <2>1 DEF Expire
  <2>2. StoreTypeOK'
    BY DEF Inv, StoreTypeOK
  <2>3. FillsAreFresh' /\ DeletesAreDue'
    BY DEF Inv, FillsAreFresh, Filling, DeletesAreDue
  <2>4. StaleIsDoomed'
    BY DEF Inv, StoreTypeOK, StaleIsDoomed, WillDrop
  <2> QED BY <2>2, <2>3, <2>4 DEF Inv
<1>2. CASE LoseMessage
  BY <1>2 DEF LoseMessage, Inv, StoreTypeOK, FillsAreFresh, Filling, DeletesAreDue, StaleIsDoomed, WillDrop
<1>3. CASE UNCHANGED vars
  BY <1>3 DEF vars, Inv, StoreTypeOK, FillsAreFresh, Filling, DeletesAreDue, StaleIsDoomed, WillDrop
<1> QED BY <1>1, <1>2, <1>3

LEMMA InvStep == Inv /\ [Next]_vars => Inv'
<1> SUFFICES ASSUME Inv, [Next]_vars PROVE Inv'
  OBVIOUS
<1>1. ASSUME NEW a \in Actors, Step(a) PROVE Inv'
  BY <1>1, InvKeptOutside, InvKeptByCaches, InvKeptByWrites, InvKeptByForward DEF Step
<1> QED BY <1>1, InvKeptByOthers DEF Next, Finished

\* Types are those of the model's data; besides, messages are numbered in the
\* order the vault hands them out.
THEOREM StoreTypeCorrect == Spec => []TypeOK
<1>1. Inv => TypeOK
  <2> SUFFICES ASSUME Inv PROVE TypeOK
    OBVIOUS
  <2>1. lastMsg \in 0 .. MaxMsg /\ 0 .. lastMsg \subseteq 0 .. MaxMsg /\ 1 .. lastMsg \subseteq 1 .. MaxMsg
    BY StoreAssumption DEF Inv, StoreTypeOK
  <2>2. cache \in [Indexes -> 0 .. MaxMsg] /\ rec \in [Actors -> 0 .. MaxMsg]
    BY <2>1 DEF Inv, StoreTypeOK
  <2> QED BY <2>1, <2>2 DEF Inv, StoreTypeOK, TypeOK
<1> QED BY <1>1, InvInit, InvStep, PTL DEF Spec

\* store.go:402-405 and 486-487: as long as no write has overtaken a fill or
\* lost its answer, a stale entry is one its writer is about to drop.
THEOREM StaleEntriesAreDoomed == Spec => []StaleIsDoomed
<1>1. Inv => StaleIsDoomed
  BY DEF Inv
<1> QED BY <1>1, InvInit, InvStep, PTL DEF Spec

\* handler.go:24-26: no request and no ingestion destroys the record it has
\* looked at while the copy is in the vault.
THEOREM ReadersKeepLiveLinks == Spec => LiveLinkKeptFromItsReaders
<1>1. Inv /\ [Next]_vars =>
         [\A a \in Actors : row \in vault /\ rec[a] = row /\ Step(a) => row' = row]_vars
  <2> SUFFICES ASSUME Inv, NEW a \in Actors, row \in vault, rec[a] = row, Step(a)
               PROVE  row' = row
    OBVIOUS
  <2>1. row # 0
    BY DEF Inv, StoreTypeOK
  <2>2. CASE InsertFile(a) \/ ReplaceRow(a)
    BY <2>1, <2>2 DEF InsertFile, ReplaceRow, WriteRow, WriteErrs
  <2>3. ~DeleteRow(a)
    <3>1. pc[a] = "deleteRow" => a \in Streams
      BY DEF Inv, StoreTypeOK, Actors, IngestPCs
    <3> QED BY <3>1 DEF DeleteRow, Inv, DeletesAreDue, Deleting
  <2>4. CASE Begin(a) \/ Find(a) \/ Read(a) \/ Fill(a) \/ Drop(a) \/ Set(a) \/ ReplaceFile(a)
             \/ DeleteFileByHash(a) \/ DeleteCold(a) \/ ServeOrEvict(a) \/ Reuse(a) \/ LookAgain(a)
             \/ Forward(a) \/ IngestFails(a)
    BY <2>4 DEF Begin, Find, Read, Fill, Drop, Set, ReplaceFile, DeleteFileByHash, DeleteCold,
                ServeOrEvict, Reuse, LookAgain, Forward, IngestFails
  <2> QED BY <2>2, <2>3, <2>4 DEF Step
<1> QED BY <1>1, InvInit, InvStep, PTL DEF Spec, LiveLinkKeptFromItsReaders

-----------------------------------------------------------------------------
(* The bytes.  What a request is answered, first.                          *)

HeaderTexts == Nat \cup {Blank, Junk}

HeaderType == [form : {"absent", "noise", "range"}, first : HeaderTexts, last : HeaderTexts]

\* A range lies in the file, and "none" stands for the whole of it.
RangeOf(r, sz) ==
    /\ r.is \in {"none", "range", "malformed", "unsatisfiable"}
    /\ r.start \in Nat /\ r.end \in Nat
    /\ r.is = "none" => r.start = 0
    /\ r.is = "range" => r.start <= r.end /\ r.end < sz

LEMMA ParsedRange ==
    ASSUME NEW h \in HeaderType, NEW sz \in Nat
    PROVE  RangeOf(ParseRange(h, sz), sz)
<1> USE RangesAssumption
<1>1. CASE h.form = "absent"
  BY <1>1 DEF ParseRange, Answered, RangeOf, HeaderType
<1>2. CASE h.form # "absent" /\ sz <= 0
  BY <1>2 DEF ParseRange, Answered, RangeOf, HeaderType
<1>3. CASE h.form = "noise" /\ sz > 0
  BY <1>3 DEF ParseRange, Answered, RangeOf, HeaderType
<1>4. CASE h.form = "range" /\ sz > 0
  <2>1. CASE h.first = Blank
    BY <1>4, <2>1 DEF ParseRange, Answered, RangeOf, HeaderType, HeaderTexts, Suffix, Least, Parses
  <2>2. CASE h.first # Blank
    BY <1>4, <2>2 DEF ParseRange, Answered, RangeOf, HeaderType, HeaderTexts, LastByte, Least, Parses
  <2> QED BY <2>1, <2>2
<1> QED BY <1>1, <1>2, <1>3, <1>4 DEF HeaderType

\* The answer to a well-formed header is exactly the bytes it asks for.
LEMMA ParsedAsAsked ==
    ASSUME NEW h \in HeaderType, NEW sz \in Nat, Sound(h)
    PROVE  LET r == ParseRange(h, sz) IN
           /\ r.is \in {"range", "unsatisfiable"}
           /\ r.is = "range" => r.start..r.end = Asked(h, sz)
           /\ r.is = "unsatisfiable" => Asked(h, sz) = {}
<1> USE RangesAssumption DEF HeaderType, HeaderTexts, Sound, ParseRange, Answered, Asked, Parses
<1>1. CASE sz <= 0
  BY <1>1
<1>2. CASE sz > 0 /\ h.first = Blank
  BY <1>2 DEF Suffix, Least
<1>3. CASE sz > 0 /\ h.first # Blank /\ h.first >= sz
  BY <1>3
<1>4. CASE sz > 0 /\ h.first # Blank /\ h.first < sz /\ h.last = Blank
  BY <1>4
<1>5. CASE sz > 0 /\ h.first # Blank /\ h.first < sz /\ h.last # Blank
  BY <1>5 DEF LastByte, Least
<1> QED BY <1>1, <1>2, <1>3, <1>4, <1>5

-----------------------------------------------------------------------------
(* The invariant.  While a body is read, what the reader has ends where the *)
(* next bytes of the file begin: at start + written, which the next window  *)
(* reaches after skip bytes, unless everything has been written.            *)

RangesTypes ==
    /\ size \in Nat /\ native \in Nat
    /\ header \in HeaderType
    /\ at \in {"idle", "chunks", "whole", "ended", "over"}
    /\ status \in {0, 200, 206, 400, 416, 500}
    /\ start \in Nat /\ end \in Nat \cup {-1} /\ length \in Nat
    /\ wireStart \in Nat /\ skip \in Nat /\ written \in Nat
    /\ fails \in Nat /\ first \in Nat /\ wanted \in Nat
    /\ got \in Seq(Nat)
    /\ faults \in Nat /\ faulty \in BOOLEAN

\* What has been answered.
Response ==
    /\ at = "idle" <=> status = 0
    /\ at \in {"chunks", "whole"} => status \in {200, 206}
    /\ at = "chunks" => status = 206
    /\ at = "whole" => start = 0
    /\ at = "idle" => got = << >> /\ written = 0 /\ length = 0
    /\ written <= length

Position ==
    /\ at \in {"chunks", "whole"} => first + Len(got) = start + written
    /\ at = "chunks" => written = length \/ wireStart + skip = start + written

RangesInv == /\ RangesTypes /\ Response /\ Position
             /\ BytesInOrder /\ BodyAsAnnounced /\ RangeAsAsked

\* The next bytes of the file at the end of the first ones.
LEMMA Longer ==
    ASSUME NEW a \in Nat, NEW s \in Seq(Nat), s = [i \in 1..Len(s) |-> a + i - 1], NEW n \in Nat,
           NEW b \in Nat, b = a + Len(s)
    PROVE  LET t == s \o [i \in 1..n |-> b + i - 1] IN
           t \in Seq(Nat) /\ Len(t) = Len(s) + n /\ t = [i \in 1..Len(t) |-> a + i - 1]
<1> DEFINE m == [i \in 1..n |-> b + i - 1]
           t == s \o m
<1>1. m \in Seq(Nat) /\ Len(m) = n
  OBVIOUS
<1>2. t \in Seq(Nat) /\ Len(t) = Len(s) + n
  BY <1>1, ConcatProperties
<1>3. \A i \in 1..Len(t) : t[i] = a + i - 1
  <2>1. ASSUME NEW i \in 1..Len(t) PROVE t[i] = IF i <= Len(s) THEN s[i] ELSE m[i - Len(s)]
    BY <1>1, <1>2, ConcatProperties
  <2>2. \A i \in 1..Len(s) : s[i] = a + i - 1
    OBVIOUS
  <2> QED BY <2>1, <2>2, <1>1, <1>2, LenProperties
<1>4. DOMAIN t = 1..Len(t)
  BY <1>2, LenProperties
<1> HIDE DEF t
<1>5. t = [i \in 1..Len(t) |-> a + i - 1]
  BY <1>2, <1>3, <1>4
<1> QED BY <1>2, <1>5 DEF t

LEMMA RangesBegin == RangesInit => RangesInv
<1> SUFFICES ASSUME RangesInit PROVE RangesInv
  OBVIOUS
<1> USE RangesAssumption DEF RangesInit
<1>1. RangesTypes
  <2>1. header \in HeaderType
    BY DEF HeaderType, HeaderTexts
  <2>2. size \in Nat /\ native \in Nat
    OBVIOUS
  <2>3. got \in Seq(Nat)
    OBVIOUS
  <2> QED BY <2>1, <2>2, <2>3 DEF RangesTypes
<1>4. Response /\ Position
  BY DEF Response, Position
<1>2. BytesInOrder
  BY DEF BytesInOrder
<1>3. BodyAsAnnounced /\ RangeAsAsked
  BY DEF BodyAsAnnounced, RangeAsAsked
<1> QED BY <1>1, <1>2, <1>3, <1>4 DEF RangesInv

-----------------------------------------------------------------------------
(* Requests.                                                               *)

LEMMA WindowBefore ==
    ASSUME NEW s \in Nat
    PROVE  Window(s) \in Nat /\ Window(s) <= s
  BY RangesAssumption DEF Window

\* What a request leaves behind, whoever makes it.
ServedAs(h) ==
    /\ header' = h /\ header' \in HeaderType
    /\ at' \in {"chunks", "whole", "ended", "over"}
    /\ status' \in {200, 206, 400, 416, 500}
    /\ start' \in Nat /\ end' \in Nat \cup {-1} /\ length' \in Nat
    /\ wireStart' \in Nat /\ skip' \in Nat /\ wireStart' + skip' = ParseRange(h, size).start
    /\ written' = 0 /\ fails' = 0 /\ faulty' = FALSE
    /\ at' \in {"chunks", "whole"} => /\ status' \in {200, 206}
                                     /\ start' = ParseRange(h, size).start
                                     /\ ParseRange(h, size).is \in {"none", "range"}
    /\ at' = "chunks" => status' = 206
    /\ at' = "whole" => start' = 0
    /\ at' = "ended" => status' \notin {200, 206}
    /\ RangeAsAsked'

LEMMA Served ==
    ASSUME RangesTypes, NEW h \in HeaderType, NEW head \in BOOLEAN, Serve(h, head), size' = size
    PROVE  ServedAs(h)
<1> USE DEF ServedAs
<1> DEFINE r == ParseRange(h, size)
<1> USE RangesAssumption DEF RangesTypes
<1>1. RangeOf(r, size)
  BY ParsedRange
<1>2. Window(r.start) \in Nat /\ Window(r.start) <= r.start
  BY <1>1, WindowBefore DEF RangeOf
<1>3. Sound(h) => /\ r.is \in {"range", "unsatisfiable"}
                  /\ r.is = "range" => r.start..r.end = Asked(h, size)
                  /\ r.is = "unsatisfiable" => Asked(h, size) = {}
  BY ParsedAsAsked
<1> HIDE DEF r
<1>4. /\ header' = h
      /\ wireStart' = Window(r.start) /\ skip' = r.start - Window(r.start)
      /\ written' = 0 /\ fails' = 0 /\ faulty' = FALSE
  BY DEF Serve, r
<1>5. CASE r.is = "unsatisfiable"
  <2>1. Respond(416, "ended", 0, -1)
    BY <1>5 DEF Serve, r
  <2>2. RangeAsAsked'
    BY <2>1, <1>3, <1>4, <1>5 DEF Respond, RangeAsAsked, Sound, Asked, Parses
  <2> QED BY <2>1, <2>2, <1>1, <1>2, <1>4 DEF Respond, RangeOf, r
<1>6. CASE r.is = "malformed"
  <2>1. Respond(400, "ended", 0, -1)
    BY <1>6 DEF Serve, r
  <2>2. RangeAsAsked'
    BY <2>1, <1>3, <1>4, <1>6 DEF Respond, RangeAsAsked, Sound, Asked, Parses
  <2> QED BY <2>1, <2>2, <1>1, <1>2, <1>4 DEF Respond, RangeOf, r
<1>7. CASE r.is \in {"none", "range"}
  <2> DEFINE whole == r.is = "none" \/ (r.start = 0 /\ r.end = size - 1)
  <2>1. CASE whole
    <3>1. Respond(200, IF head THEN "over" ELSE "whole", 0, size - 1)
      BY <1>7, <2>1 DEF Serve, r
    <3>2. r.start = 0
      BY <1>1, <1>7, <2>1 DEF RangeOf
    <3>3. RangeAsAsked'
      BY <3>1, <2>1, <1>3, <1>4, <1>7 DEF Respond, RangeAsAsked, Sound, Asked, Parses
    <3> QED BY <3>1, <3>2, <3>3, <1>1, <1>2, <1>4, <1>7 DEF Respond, RangeOf, r
  <2>2. CASE ~whole
    <3>1. \/ Respond(500, "ended", 0, -1)
          \/ Respond(206, IF head THEN "over" ELSE "chunks", r.start, r.end)
      BY <1>7, <2>2 DEF Serve, r
    <3>2. RangeAsAsked'
      BY <3>1, <2>2, <1>3, <1>4, <1>7 DEF Respond, RangeAsAsked, Sound, Asked, Parses
    <3> QED BY <3>1, <3>2, <2>2, <1>1, <1>2, <1>4, <1>7 DEF Respond, RangeOf, r
  <2> QED BY <2>1, <2>2
<1> QED BY <1>1, <1>5, <1>6, <1>7 DEF RangeOf

LEMMA AskKeeps ==
    ASSUME RangesInv, NEW h \in Headers, Ask(h)
    PROVE  RangesInv'
<1> USE DEF RangesInv
<1>1. PICK head \in BOOLEAN : Serve(h, head)
  BY DEF Ask
<1>2. h \in HeaderType
  BY RangesAssumption DEF Headers, Texts, HeaderType, HeaderTexts
<1>3. /\ UNCHANGED <<size, native, got, faults>>
      /\ at = "idle" /\ got = << >> /\ first' = start' /\ wanted' = length'
  BY DEF Ask, Response
<1>9. ServedAs(h)
  BY <1>1, <1>2, <1>3, Served
<1>4. RangesTypes'
  <2>1. /\ size' \in Nat /\ native' \in Nat /\ got' \in Seq(Nat) /\ faults' \in Nat
        /\ first' \in Nat /\ wanted' \in Nat
    BY <1>3, <1>9 DEF ServedAs, RangesTypes
  <2>2. /\ at' \in {"idle", "chunks", "whole", "ended", "over"}
        /\ status' \in {0, 200, 206, 400, 416, 500}
    BY <1>9 DEF ServedAs
  <2>3. written' = 0 /\ fails' = 0 /\ faulty' = FALSE
    BY <1>9 DEF ServedAs
  <2>4. written' \in Nat /\ fails' \in Nat
    BY <2>3
  <2>5. faulty' \in BOOLEAN
    BY <2>3
  <2> QED BY <2>1, <2>2, <2>4, <2>5, <1>9 DEF ServedAs, RangesTypes
<1>5. Response'
  BY <1>3, <1>9 DEF ServedAs, Response
<1>6. Position'
  BY <1>3, <1>4, <1>9 DEF ServedAs, Position, RangesTypes
<1>7. BytesInOrder' /\ BodyAsAnnounced'
  BY <1>3, <1>4, <1>9 DEF ServedAs, BytesInOrder, BodyAsAnnounced, RangesTypes
<1>8. RangeAsAsked'
  BY <1>9 DEF ServedAs
<1> QED BY <1>4, <1>5, <1>6, <1>7, <1>8

LEMMA ResumeKeeps ==
    ASSUME RangesInv, Resume
    PROVE  RangesInv'
<1> USE DEF RangesInv
<1> DEFINE h == [form |-> "range", first |-> first + Len(got), last |-> first + wanted - 1]
<1>1. Serve(h, FALSE) /\ UNCHANGED <<size, native, first, wanted, got, faults>>
  BY DEF Resume
<1>2. Len(got) \in Nat /\ Len(got) < wanted /\ wanted \in Nat /\ first \in Nat
  BY DEF Resume, Broken, RangesTypes
<1>3. h \in HeaderType
  BY <1>2 DEF HeaderType, HeaderTexts
<1>4. ParseRange(h, size).is \in {"none", "range"} => ParseRange(h, size).start = first + Len(got)
  BY <1>2, RangesAssumption DEF ParseRange, Answered, RangesTypes
<1> HIDE DEF h
<1>10. ServedAs(h)
  BY <1>1, <1>3, Served DEF RangesInv
<1>5. RangesTypes'
  <2>1. /\ size' \in Nat /\ native' \in Nat /\ got' \in Seq(Nat) /\ faults' \in Nat
        /\ first' \in Nat /\ wanted' \in Nat
    BY <1>1 DEF RangesTypes
  <2>2. /\ at' \in {"idle", "chunks", "whole", "ended", "over"}
        /\ status' \in {0, 200, 206, 400, 416, 500}
    BY <1>10 DEF ServedAs
  <2>3. written' = 0 /\ fails' = 0 /\ faulty' = FALSE
    BY <1>10 DEF ServedAs
  <2>4. written' \in Nat /\ fails' \in Nat
    BY <2>3
  <2>5. faulty' \in BOOLEAN
    BY <2>3
  <2> QED BY <2>1, <2>2, <2>4, <2>5, <1>10 DEF ServedAs, RangesTypes
<1>6. Response'
  BY <1>1, <1>3, <1>5, <1>10 DEF ServedAs, Response, RangesTypes
<1>7. Position'
  BY <1>1, <1>2, <1>3, <1>4, <1>5, <1>10 DEF ServedAs, Position, RangesTypes
<1>8. BytesInOrder' /\ BodyAsAnnounced'
  BY <1>1, <1>3, <1>5, <1>10 DEF ServedAs, BytesInOrder, BodyAsAnnounced, RangesTypes
<1>9. RangeAsAsked'
  BY <1>1, <1>3, <1>10 DEF ServedAs
<1> QED BY <1>5, <1>6, <1>7, <1>8, <1>9

-----------------------------------------------------------------------------
(* The body.                                                               *)

\* What these steps leave alone carries the answer over.
LEMMA AnswerKept ==
    ASSUME RangeAsAsked, at # "idle", UNCHANGED <<header, size, status, start, end>>
    PROVE  RangeAsAsked'
  BY DEF RangeAsAsked, Asked

\* The end of a body, and faults that end it or do not.
LEMMA EndKeeps ==
    ASSUME RangesInv, Complete \/ Overflow \/ ChunkFails \/ ChunkIsEmpty \/ WholeFails \/ Leave
    PROVE  RangesInv'
<1> USE DEF RangesInv
<1>5. Fault => faults' \in Nat /\ faulty' \in BOOLEAN
  BY DEF Fault, RangesTypes
<1>1. /\ UNCHANGED <<requestVars, wireStart, skip, written, got>>
      /\ at # "idle" /\ at' \in {at, "ended", "over"}
      /\ fails' \in Nat /\ faults' \in Nat /\ faulty' \in BOOLEAN
  <2>1. CASE Complete \/ Overflow \/ Leave
    BY <2>1 DEF Complete, Overflow, Leave, EndBody, RangesTypes
  <2>2. CASE ChunkFails
    <3>1. fails' = fails + 1 /\ fails' \in Nat
      BY <2>2 DEF ChunkFails, RangesTypes
    <3> QED BY <2>2, <3>1, <1>5 DEF ChunkFails, EndBody
  <2>3. CASE ChunkIsEmpty \/ WholeFails
    BY <2>3, <1>5 DEF ChunkIsEmpty, WholeFails, EndBody, RangesTypes
  <2> QED BY <2>1, <2>2, <2>3
<1>2. RangesTypes' /\ Response' /\ Position' /\ BytesInOrder'
  BY <1>1 DEF requestVars, RangesTypes, Response, Position, BytesInOrder
<1>3. RangeAsAsked'
  BY <1>1, AnswerKept DEF requestVars
<1>4. BodyAsAnnounced'
  <2>1. CASE Complete \/ Overflow
    BY <2>1, <1>1 DEF Complete, Overflow, EndBody, Fits, requestVars, BodyAsAnnounced, Response, RangesTypes
  <2>2. CASE ChunkFails \/ ChunkIsEmpty \/ WholeFails
    BY <2>2, <1>1 DEF ChunkFails, ChunkIsEmpty, WholeFails, Fault, requestVars, BodyAsAnnounced
  <2>3. CASE Leave
    BY <2>3, <1>1 DEF Leave, requestVars, BodyAsAnnounced
  <2> QED BY <2>1, <2>2, <2>3
<1> QED BY <1>2, <1>3, <1>4

LEMMA ReadChunkKeeps ==
    ASSUME RangesInv, ReadChunk
    PROVE  RangesInv'
<1> USE DEF RangesInv
<1>1. PICK raw \in 1..Least(Chunk, size - wireStart) :
          IF skip >= raw THEN SkipWindow(raw) ELSE WriteWindow(raw)
  BY DEF ReadChunk
<1>2. raw \in Nat /\ raw > 0
  BY RangesAssumption DEF Least, RangesTypes
<1>3. /\ UNCHANGED <<requestVars, at, faults, faulty>> /\ fails' = 0
      /\ at = "chunks" /\ written < length /\ status = 206
  BY DEF ReadChunk, Response
<1>4. wireStart + skip = start + written /\ first + Len(got) = start + written
  BY <1>3 DEF Position, RangesTypes
<1>5. CASE skip >= raw
  <2>1. SkipWindow(raw)
    BY <1>1, <1>5
  <2>2. RangesTypes' /\ Response' /\ Position'
    BY <2>1, <1>2, <1>3, <1>4, <1>5 DEF SkipWindow, requestVars, RangesTypes, Response, Position
  <2>3. BytesInOrder' /\ BodyAsAnnounced'
    BY <2>1, <1>3 DEF SkipWindow, requestVars, BytesInOrder, BodyAsAnnounced
  <2> QED BY <2>2, <2>3, <1>3, AnswerKept DEF requestVars
<1>6. CASE skip < raw
  <2> DEFINE n == InRange(raw)
  <2>1. n \in Nat /\ n > 0 /\ n <= length - written /\ n <= raw - skip
        /\ (n = raw - skip \/ n = length - written)
    BY <1>2, <1>3, <1>6 DEF InRange, Least, RangesTypes
  <2> HIDE DEF n
  <2>7. WriteWindow(raw)
    BY <1>1, <1>2, <1>6 DEF RangesTypes
  <2>8. got' = got \o Sent(n) /\ written' = written + n /\ skip' = 0 /\ wireStart' = wireStart + raw
    BY <2>7 DEF WriteWindow, n
  <2>2. /\ got' = got \o [i \in 1..n |-> (wireStart + skip) + i - 1]
        /\ written' = written + n /\ skip' = 0 /\ wireStart' = wireStart + raw
    BY <2>8 DEF Sent
  <2>3. /\ got' \in Seq(Nat) /\ Len(got') = Len(got) + n
        /\ got' = [i \in 1..Len(got') |-> first + i - 1]
    <3>1. wireStart + skip \in Nat /\ wireStart + skip = first + Len(got) /\ first \in Nat /\ got \in Seq(Nat)
      BY <1>4 DEF RangesTypes
    <3>2. got = [i \in 1..Len(got) |-> first + i - 1]
      BY DEF BytesInOrder
    <3> DEFINE b == wireStart + skip
    <3>3. got' = got \o [i \in 1..n |-> b + i - 1] /\ b \in Nat /\ b = first + Len(got)
      BY <2>2, <3>1
    <3> HIDE DEF b
    <3> QED BY <2>1, <3>1, <3>2, <3>3, Longer
  <2>4. RangesTypes'
    BY <2>1, <2>2, <2>3, <1>2, <1>3 DEF requestVars, RangesTypes
  <2>5. Response'
    BY <2>1, <2>2, <1>3 DEF requestVars, RangesTypes, Response
  <2>10. Position'
    <3>1. first' = first /\ start' = start /\ length' = length
      BY <1>3 DEF requestVars
    <3>2. first + (Len(got) + n) = start + (written + n)
      BY <2>1, <1>4 DEF RangesTypes
    <3>3. written + n = length \/ wireStart + raw = start + (written + n)
      BY <2>1, <1>2, <1>4 DEF RangesTypes
    <3>4. first' + Len(got') = start' + written'
      BY <3>1, <3>2, <2>2, <2>3
    <3>5. written' = length' \/ wireStart' + skip' = start' + written'
      BY <3>1, <3>3, <2>1, <2>2, <1>2 DEF RangesTypes
    <3> QED BY <3>4, <3>5 DEF Position
  <2>6. BytesInOrder'
    BY <2>3, <1>3 DEF requestVars, BytesInOrder
  <2>9. BodyAsAnnounced'
    BY <2>1, <2>2, <1>3 DEF requestVars, BodyAsAnnounced, RangesTypes
  <2> QED BY <2>4, <2>5, <2>6, <2>9, <2>10, <1>3, AnswerKept DEF requestVars
<1> QED BY <1>2, <1>5, <1>6 DEF RangesTypes

LEMMA WriteBreaksKeeps ==
    ASSUME RangesInv, WriteBreaks
    PROVE  RangesInv'
<1> USE DEF RangesInv
<1>1. PICK raw \in 1..Least(Chunk, size - wireStart) :
          /\ skip < raw
          /\ \E n \in 0..(InRange(raw) - 1) : got' = got \o Sent(n)
  BY DEF WriteBreaks
<1>2. raw \in Nat /\ raw > 0
  BY RangesAssumption DEF Least, RangesTypes
<1>3. /\ UNCHANGED <<requestVars, wireStart, skip, written>>
      /\ fails' = 0 /\ at' = "ended" /\ faulty' = TRUE /\ faults' = faults + 1
      /\ at = "chunks" /\ written < length /\ status = 206
  BY DEF WriteBreaks, Fault, Response
<1>4. wireStart + skip = start + written /\ first + Len(got) = start + written
  BY <1>3 DEF Position, RangesTypes
<1>5. PICK n \in 0..(InRange(raw) - 1) : got' = got \o Sent(n)
  BY <1>1
<1>6. n \in Nat
  BY <1>1, <1>2, <1>3 DEF InRange, Least, RangesTypes
<1>7. /\ got' \in Seq(Nat)
      /\ got' = [i \in 1..Len(got') |-> first + i - 1]
  <2>1. wireStart + skip \in Nat /\ wireStart + skip = first + Len(got) /\ first \in Nat /\ got \in Seq(Nat)
    BY <1>4 DEF RangesTypes
  <2>2. got = [i \in 1..Len(got) |-> first + i - 1]
    BY DEF BytesInOrder
  <2> QED BY <1>5, <1>6, <2>1, <2>2, Longer DEF Sent
<1>8. RangesTypes' /\ Response' /\ Position'
  BY <1>3, <1>7 DEF requestVars, RangesTypes, Response, Position
<1>9. BytesInOrder' /\ BodyAsAnnounced'
  BY <1>3, <1>7 DEF requestVars, BytesInOrder, BodyAsAnnounced
<1> QED BY <1>8, <1>9, <1>3, AnswerKept DEF requestVars

LEMMA ReadWholeKeeps ==
    ASSUME RangesInv, ReadWhole
    PROVE  RangesInv'
<1> USE DEF RangesInv
<1>1. PICK data \in 1..(length - written) :
          /\ got' = got \o [i \in 1..data |-> written + i - 1]
          /\ written' = written + data
  BY DEF ReadWhole
<1>2. /\ UNCHANGED <<requestVars, at, wireStart, skip, fails, faults, faulty>>
      /\ at = "whole" /\ written < length /\ start = 0
  BY DEF ReadWhole, Response
<1>3. data \in Nat /\ data > 0 /\ written + data <= length
  BY <1>1 DEF RangesTypes
<1>4. /\ got' \in Seq(Nat) /\ Len(got') = Len(got) + data
      /\ got' = [i \in 1..Len(got') |-> first + i - 1]
  <2>1. written \in Nat /\ written = first + Len(got) /\ first \in Nat /\ got \in Seq(Nat)
    BY <1>2 DEF RangesTypes, Position
  <2>2. got = [i \in 1..Len(got) |-> first + i - 1]
    BY DEF BytesInOrder
  <2> QED BY <1>1, <1>3, <2>1, <2>2, Longer
<1>5. RangesTypes' /\ Response'
  BY <1>1, <1>2, <1>3, <1>4 DEF requestVars, RangesTypes, Response
<1>7. Position'
  <2>1. first + (Len(got) + data) = start + (written + data)
    BY <1>2, <1>3 DEF Position, RangesTypes
  <2> QED BY <2>1, <1>1, <1>2, <1>4 DEF requestVars, Position
<1>6. BytesInOrder' /\ BodyAsAnnounced'
  BY <1>1, <1>2, <1>3, <1>4 DEF requestVars, BytesInOrder, BodyAsAnnounced, RangesTypes
<1> QED BY <1>5, <1>6, <1>7, <1>2, AnswerKept DEF requestVars

LEMMA RangesStutter ==
    ASSUME RangesInv, UNCHANGED rangesVars
    PROVE  RangesInv'
  BY DEF RangesInv, rangesVars, RangesTypes, Response, Position, BytesInOrder, BodyAsAnnounced, RangeAsAsked, Fits

-----------------------------------------------------------------------------
(* The theorems.                                                           *)

\* The base of the theorems below: the types, what was parsed, and where in the file
\* the response and its reader are.
THEOREM RangesInvariant == RangesSpec => []RangesInv
<1>1. RangesInv /\ [RangesNext]_rangesVars => RangesInv'
  <2> SUFFICES ASSUME RangesInv, [RangesNext]_rangesVars PROVE RangesInv'
    OBVIOUS
  <2>1. CASE \E h \in Headers : Ask(h)
    BY <2>1, AskKeeps
  <2>2. CASE Complete \/ Overflow \/ ChunkFails \/ ChunkIsEmpty \/ WholeFails \/ Leave
    BY <2>2, EndKeeps
  <2>3. CASE ReadChunk
    BY <2>3, ReadChunkKeeps
  <2>4. CASE WriteBreaks
    BY <2>4, WriteBreaksKeeps
  <2>5. CASE ReadWhole
    BY <2>5, ReadWholeKeeps
  <2>6. CASE Resume
    BY <2>6, ResumeKeeps
  <2>7. CASE UNCHANGED rangesVars
    BY <2>7, RangesStutter
  <2> QED BY <2>1, <2>2, <2>3, <2>4, <2>5, <2>6, <2>7 DEF RangesNext, Body
<1> QED BY RangesBegin, <1>1, PTL DEF RangesSpec

\* tgutil.ParseRange and the status ServeHTTP chooses: a well-formed header is
\* answered by exactly the bytes it asks for, in files of any size.
THEOREM RangesAreAsked == RangesSpec => []RangeAsAsked
  BY RangesInvariant, PTL DEF RangesInv

\* streamBody over any number of windows, faults and resumptions: the reader has
\* the file's bytes in order from the first it wanted, never more than announced,
\* and less only after a fault or where an int ends.
THEOREM BodiesAreRanges == RangesSpec => []BodyIsTheRange
<1>1. RangesInv => BodyIsTheRange
  BY DEF RangesInv, BodyIsTheRange
<1> QED BY <1>1, RangesInvariant, PTL

\* The sizes and positions of a transfer stay natural numbers, faults in bounds.
THEOREM RangesTypeCorrect == RangesSpec => []RangesTypeOK
<1> DEFINE Bounds == size \in Sizes /\ native \in Natives /\ faults \in 0..MaxFaults
<1>1. RangesInit => Bounds
  BY RangesAssumption DEF RangesInit
<1>2. Bounds /\ RangesInv /\ [RangesNext]_rangesVars => Bounds'
  <2> SUFFICES ASSUME Bounds, [RangesNext]_rangesVars PROVE Bounds'
    OBVIOUS
  <2>1. CASE UNCHANGED <<size, native, faults>>
    BY <2>1
  <2>2. CASE UNCHANGED <<size, native>> /\ Fault
    BY <2>2, RangesAssumption DEF Fault
  <2>3. CASE RangesNext
    <3>1. UNCHANGED <<size, native>>
      BY <2>3 DEF RangesNext, Body, Ask, Complete, Overflow, ReadChunk, ReadWhole, ChunkFails, ChunkIsEmpty,
         WriteBreaks, WholeFails, Resume, Leave, requestVars, rangesVars
    <3>2. UNCHANGED faults \/ Fault
      BY <2>3 DEF RangesNext, Body, Ask, Complete, Overflow, ReadChunk, ReadWhole, ChunkFails, ChunkIsEmpty,
         WriteBreaks, WholeFails, Resume, Leave, rangesVars
    <3> QED BY <3>1, <3>2, <2>1, <2>2
  <2>4. CASE UNCHANGED rangesVars
    BY <2>4, <2>1 DEF rangesVars
  <2> QED BY <2>3, <2>4
<1>3. Bounds /\ RangesInv => RangesTypeOK
  BY DEF RangesInv, RangesTypes, RangesTypeOK, HeaderType, HeaderTexts
<1> HIDE DEF Bounds
<1> QED BY <1>1, <1>2, <1>3, RangesInvariant, PTL DEF RangesSpec
=============================================================================
