---------------------------- MODULE IngestProofs ----------------------------
(* Theorems about Ingest, for any number of goroutines and processes and   *)
(* any budget of events.                                                   *)
EXTENDS Ingest, FiniteSetTheorems, TLAPS

-----------------------------------------------------------------------------
(* Mutual exclusion.  What the lock depends on: while no lock document has *)
(* outlived its expires_at, nobody is about to take one over, and whoever  *)
(* works under the lock owns the document.  The work that only the lock's  *)
(* holder may do is done at a stage reached under it.                      *)

LockTypeOK ==
    /\ lockOwner \in Workers \cup {NoWorker}
    /\ lockExpired \in BOOLEAN
    /\ sawExpired \in [Workers -> BOOLEAN]
    /\ pc \in [Workers -> PCs]
    /\ stage \in [Workers -> Stages]
    /\ spent \in [Kinds -> Nat]

UnderLock ==
    \A w \in Workers : pc[w] \in {"forward", "awaiting", "persist", "discard", "release"}
                          => stage[w] \in {"locked", "persistErr"}

OwnedInTime ==
    Quiet({"expiry"}) =>
        /\ ~lockExpired
        /\ \A w \in Workers : ~sawExpired[w] /\ pc[w] \notin {"unlink", "reinsert"}
        /\ \A w \in Workers : Critical(w) => lockOwner = w

LockInv == LockTypeOK /\ UnderLock /\ OwnedInTime

LEMMA LockInit == Init => LockInv
<1> SUFFICES ASSUME Init PROVE LockInv
  OBVIOUS
<1> USE IngestAssumption DEF Init
<1>1. LockTypeOK
  BY DEF LockTypeOK, PCs, Stages, Kinds, Failures
<1>2. UnderLock /\ OwnedInTime
  BY DEF UnderLock, OwnedInTime, Critical
<1> QED BY <1>1, <1>2 DEF LockInv

\* A call that fails spends at most a fault.
LEMMA FaultsTyped ==
    ASSUME NEW w \in Workers, spent \in [Kinds -> Nat], CallFails(w) \/ UNCHANGED spent
    PROVE  spent' \in [Kinds -> Nat]
BY DEF CallFails, Spend, Kinds, Failures

\* Where a lookup that found no record, or a stale one, takes the goroutine.
LEMMA AfterLookupGoes ==
    ASSUME NEW w \in Workers, stage \in [Workers -> Stages], AfterLookup(w)
    PROVE  \/ stage[w] = "entry" /\ Goto(w, "acquire")
           \/ stage[w] = "locked" /\ Goto(w, "forward")
           \/ stage[w] = "persistErr" /\ Goto(w, "discard")
<1>1. stage[w] \in Stages
  OBVIOUS
<1>2. CASE stage[w] = "entry" BY <1>2 DEF AfterLookup
<1>3. CASE stage[w] = "locked" BY <1>3 DEF AfterLookup
<1>4. CASE stage[w] = "persistErr" BY <1>4 DEF AfterLookup
<1> QED BY <1>1, <1>2, <1>3, <1>4 DEF Stages

\* The steps that leave the lock document and what is seen of it alone.
LEMMA LockKeptByLocalSteps ==
    ASSUME NEW w \in Workers, LockInv,
           \/ fileMutex(w) \/ LockMutex(w) \/ UnlockMutex(w)
           \/ FindFileByKey(w) \/ FindFileByKeyFails(w)
           \/ ReuseRecord(w) \/ RecordIsStale(w) \/ ValidateFails(w)
           \/ WaitForLock(w) \/ SendForward(w) \/ ForwardLands(w) \/ ForwardIsUnusable(w)
           \/ ForwardErrs(w) \/ AbandonForward(w) \/ PersistFile(w) \/ PersistRefused(w)
           \/ PersistUnanswered(w) \/ DeleteMessages(w)
    PROVE  LockInv'
<1> USE IngestAssumption DEF LockInv, LockTypeOK, UnderLock, OwnedInTime, Critical, PCs, Stages, Kinds, Failures, Goto, Leave,
        CallFails, lockVars, Spend, Quiet
<1>1. CASE fileMutex(w) BY <1>1 DEF fileMutex
<1>2. CASE LockMutex(w) BY <1>2 DEF LockMutex
<1>3. CASE UnlockMutex(w) BY <1>3 DEF UnlockMutex
<1>4. CASE FindFileByKey(w)
  BY <1>4, AfterLookupGoes DEF FindFileByKey
<1>5. CASE FindFileByKeyFails(w) BY <1>5 DEF FindFileByKeyFails, LookupFails
<1>6. CASE ReuseRecord(w) BY <1>6 DEF ReuseRecord
<1>7. CASE RecordIsStale(w) BY <1>7, AfterLookupGoes DEF RecordIsStale
<1>8. CASE ValidateFails(w) BY <1>8 DEF ValidateFails, LookupFails
<1>9. CASE WaitForLock(w) BY <1>9 DEF WaitForLock
<1>10. CASE SendForward(w) BY <1>10 DEF SendForward
<1>11. CASE ForwardLands(w) BY <1>11 DEF ForwardLands
<1>12. CASE ForwardIsUnusable(w) BY <1>12 DEF ForwardIsUnusable
<1>13. CASE ForwardErrs(w) BY <1>13 DEF ForwardErrs
<1>14. CASE AbandonForward(w) BY <1>14 DEF AbandonForward
<1>15. CASE PersistFile(w) BY <1>15 DEF PersistFile
<1>16. CASE PersistRefused(w) BY <1>16 DEF PersistRefused, Reread
<1>17. CASE PersistUnanswered(w) BY <1>17 DEF PersistUnanswered, Reread
<1>18. CASE DeleteMessages(w) BY <1>18 DEF DeleteMessages
<1> QED BY <1>1, <1>2, <1>3, <1>4, <1>5, <1>6, <1>7, <1>8, <1>9, <1>10, <1>11, <1>12,
           <1>13, <1>14, <1>15, <1>16, <1>17, <1>18

\* The steps of the lock itself.
LEMMA LockKeptByLockSteps ==
    ASSUME NEW w \in Workers, LockInv,
           \/ AcquireIngestLock(w) \/ InspectLock(w) \/ UnlinkLock(w) \/ ReinsertLock(w)
           \/ AcquireFails(w) \/ ReleaseIngestLock(w)
    PROVE  LockInv'
<1> USE IngestAssumption DEF LockInv, LockTypeOK, UnderLock, OwnedInTime, Critical, PCs, Stages, Kinds, Failures, Goto, Leave,
        CallFails, lockVars, Spend, Quiet, Acquired, NotAcquired, DocumentRemoved
<1>1. CASE AcquireIngestLock(w)
  <2>1. LockTypeOK' BY <1>1 DEF AcquireIngestLock
  <2>2. UnderLock' BY <1>1 DEF AcquireIngestLock
  <2>3. OwnedInTime' BY <1>1 DEF AcquireIngestLock
  <2> QED BY <2>1, <2>2, <2>3
<1>2. CASE InspectLock(w) BY <1>2 DEF InspectLock
<1>3. CASE UnlinkLock(w)
  <2>1. LockTypeOK'
    <3>1. spent' \in [Kinds -> Nat] BY <1>3, FaultsTyped DEF UnlinkLock
    <3>2. pc' \in [Workers -> PCs] BY <1>3 DEF UnlinkLock
    <3>3. UNCHANGED stage /\ lockOwner' \in Workers \cup {NoWorker} /\ lockExpired' \in BOOLEAN
            /\ sawExpired' \in [Workers -> BOOLEAN]
      BY <1>3 DEF UnlinkLock
    <3> QED BY <3>1, <3>2, <3>3
  <2>2. UnderLock' BY <1>3 DEF UnlinkLock
  <2>3. OwnedInTime' BY <1>3 DEF UnlinkLock
  <2> QED BY <2>1, <2>2, <2>3
<1>4. CASE ReinsertLock(w)
  <2>1. LockTypeOK' BY <1>4 DEF ReinsertLock
  <2>2. UnderLock' BY <1>4 DEF ReinsertLock
  <2>3. OwnedInTime' BY <1>4 DEF ReinsertLock
  <2> QED BY <2>1, <2>2, <2>3
<1>5. CASE AcquireFails(w)
  <2>1. LockTypeOK'
    <3>1. spent' \in [Kinds -> Nat] BY <1>5, FaultsTyped DEF AcquireFails
    <3>2. pc' \in [Workers -> PCs] BY <1>5 DEF AcquireFails
    <3>3. UNCHANGED stage /\ lockOwner' \in Workers \cup {NoWorker} /\ lockExpired' \in BOOLEAN
            /\ sawExpired' \in [Workers -> BOOLEAN]
      BY <1>5 DEF AcquireFails
    <3> QED BY <3>1, <3>2, <3>3
  <2>2. UnderLock' BY <1>5 DEF AcquireFails
  <2>3. OwnedInTime' BY <1>5 DEF AcquireFails
  <2> QED BY <2>1, <2>2, <2>3
<1>6. CASE ReleaseIngestLock(w)
  <2>1. LockTypeOK'
    <3>1. spent' \in [Kinds -> Nat] BY <1>6, FaultsTyped DEF ReleaseIngestLock
    <3>2. pc' \in [Workers -> PCs] BY <1>6 DEF ReleaseIngestLock
    <3>3. UNCHANGED stage /\ lockOwner' \in Workers \cup {NoWorker} /\ lockExpired' \in BOOLEAN
            /\ sawExpired' \in [Workers -> BOOLEAN]
      BY <1>6 DEF ReleaseIngestLock
    <3> QED BY <3>1, <3>2, <3>3
  <2>2. UnderLock' BY <1>6 DEF ReleaseIngestLock
  <2>3. OwnedInTime' BY <1>6 DEF ReleaseIngestLock
  <2> QED BY <2>1, <2>2, <2>3
<1> QED BY <1>1, <1>2, <1>3, <1>4, <1>5, <1>6

\* Time, crashes, losses and the housekeeping of caches and mutexes.
LEMMA LockKeptByEnvironment ==
    ASSUME LockInv, Environment
    PROVE  LockInv'
<1> USE IngestAssumption DEF LockInv, LockTypeOK, UnderLock, OwnedInTime, Critical, PCs, Stages, Kinds, Failures,
        lockVars, workerVars, Spend, Quiet, DocumentRemoved
<1>1. ASSUME NEW w \in Workers, ContextDone(w) PROVE LockInv'
  BY <1>1 DEF ContextDone
<1>2. ASSUME NEW p \in Procs, CleanupDedupMu(p) PROVE LockInv'
  BY <1>2 DEF CleanupDedupMu
<1>3. ASSUME NEW p \in Procs, EvictMutex(p) PROVE LockInv'
  BY <1>3 DEF EvictMutex
<1>4. ASSUME NEW p \in Procs, CacheExpires(p) PROVE LockInv'
  BY <1>4 DEF CacheExpires
<1>5. ASSUME NEW p \in Procs, EvictRecord(p) PROVE LockInv'
  BY <1>5 DEF EvictRecord
<1>6. ASSUME NEW p \in Procs, Crash(p) PROVE LockInv'
  BY <1>6 DEF Crash
<1>7. CASE LockExpires BY <1>7 DEF LockExpires
<1>8. CASE ReapLock BY <1>8 DEF ReapLock
<1>9. CASE LoseMessage BY <1>9 DEF LoseMessage
<1> QED BY <1>1, <1>2, <1>3, <1>4, <1>5, <1>6, <1>7, <1>8, <1>9 DEF Environment

LEMMA LockStep == LockInv /\ [Next]_vars => LockInv'
<1> SUFFICES ASSUME LockInv, [Next]_vars PROVE LockInv'
  OBVIOUS
<1>1. ASSUME NEW w \in Workers, fileMutex(w) \/ Step(w) \/ ForwardLands(w) PROVE LockInv'
  BY <1>1, LockKeptByLocalSteps, LockKeptByLockSteps DEF Step
<1>2. CASE Environment
  BY <1>2, LockKeptByEnvironment
<1>3. CASE UNCHANGED vars
  BY <1>3 DEF vars, workerVars, LockInv, LockTypeOK, UnderLock, OwnedInTime, Critical, Quiet
<1> QED BY <1>1, <1>2, <1>3 DEF Next, Finished

\* store.go:657-659 and its limit: as long as no lock document outlives its
\* expires_at, the lock excludes and its document is its holder's, whatever
\* crashes, deadlines and failed calls do.
THEOREM LockExclusion == Spec => []LockExclusiveInTime
<1>1. LockInv => LockExclusiveInTime
  BY DEF LockInv, OwnedInTime, LockExclusiveInTime, LockExclusive
<1> QED BY <1>1, LockInit, LockStep, PTL DEF Spec

-----------------------------------------------------------------------------
(* Types.  A goroutine that waits for the lock has a wait left; everything *)
(* else of TypeOK is inductive as it stands.                               *)

WaitsLeft == \A w \in Workers : pc[w] = "wait" => local[w].waits < MaxWaits

TypeInv == TypeOK /\ WaitsLeft

LEMMA TypeInit == Init => TypeInv
<1> SUFFICES ASSUME Init PROVE TypeInv
  OBVIOUS
<1> USE IngestAssumption DEF Init
<1>1. NoLocals \in Locals
  BY DEF NoLocals, Locals, MaxWaits, MaxForwards
<1>2. local \in [Workers -> Locals]
  BY <1>1
<1>3. rec \in Nat /\ vault \subseteq Nat /\ lastMsg \in Nat /\ keyCache \in [Procs -> Nat]
  OBVIOUS
<1>4. WaitsLeft
  BY DEF WaitsLeft
<1> QED BY <1>2, <1>3, <1>4 DEF TypeInv, TypeOK, PCs, Stages

\* The counters of events.
LEMMA SpendTyped ==
    ASSUME NEW k \in Kinds, spent \in [Kinds -> Nat], Spend(k)
    PROVE  spent' \in [Kinds -> Nat]
BY DEF Spend

LEMMA FieldsTyped ==
    ASSUME NEW w \in Workers, local \in [Workers -> Locals]
    PROVE  /\ local[w].seen \in Nat /\ local[w].stale \in Nat /\ local[w].cand \in Nat
           /\ local[w].result \in Nat
           /\ local[w].waits \in 0 .. MaxWaits /\ local[w].attempts \in 0 .. MaxForwards
           /\ local[w].mu \in Workers \cup {NoWorker}
BY DEF Locals

\* The locals a goroutine sets, in the combinations in which it sets them.
LEMMA UpdatesTyped ==
    ASSUME NEW w \in Workers, local \in [Workers -> Locals], NEW n \in Nat, NEW m \in Nat
    PROVE  /\ [local EXCEPT ![w].seen = n] \in [Workers -> Locals]
           /\ [local EXCEPT ![w].cand = n] \in [Workers -> Locals]
           /\ [local EXCEPT ![w].result = n] \in [Workers -> Locals]
           /\ [local EXCEPT ![w].result = n, ![w].seen = m] \in [Workers -> Locals]
           /\ [local EXCEPT ![w].stale = n, ![w].seen = m] \in [Workers -> Locals]
<1>1. [local[w] EXCEPT !.result = n, !.seen = m] \in Locals BY DEF Locals
<1>2. [local[w] EXCEPT !.stale = n, !.seen = m] \in Locals BY DEF Locals
<1>3. [local[w] EXCEPT !.seen = n] \in Locals BY DEF Locals
<1>4. [local[w] EXCEPT !.cand = n] \in Locals BY DEF Locals
<1>5. [local[w] EXCEPT !.result = n] \in Locals BY DEF Locals
<1> QED BY <1>1, <1>2, <1>3, <1>4, <1>5

LEMMA LocalsKeptByStep ==
    ASSUME NEW w \in Workers, TypeOK, WaitsLeft, fileMutex(w) \/ Step(w) \/ ForwardLands(w)
    PROVE  local' \in [Workers -> Locals]
<1>1. /\ local \in [Workers -> Locals] /\ rec \in Nat /\ lastMsg \in Nat
      /\ keyCache \in [Procs -> Nat] /\ dedupMu \in [Procs -> Workers \cup {NoWorker}]
      /\ ProcOf[w] \in Procs
  BY IngestAssumption DEF TypeOK
<1>2. /\ local[w].seen \in Nat /\ local[w].stale \in Nat /\ local[w].cand \in Nat
      /\ local[w].waits \in 0 .. MaxWaits /\ local[w].attempts \in 0 .. MaxForwards
  BY <1>1, FieldsTyped
<1>3. CASE fileMutex(w)
  <2> DEFINE m == IF dedupMu[ProcOf[w]] = NoWorker THEN w ELSE dedupMu[ProcOf[w]]
             g == (1 .. lastMsg) \ vault
  <2>1. m \in Workers \cup {NoWorker}
    BY <1>1
  <2>2. g \in SUBSET Nat
    BY <1>1
  <2>3. local' = [local EXCEPT ![w].mu = m, ![w].goneBefore = g]
    BY <1>3 DEF fileMutex
  <2> HIDE DEF m, g
  <2>4. [local[w] EXCEPT !.mu = m, !.goneBefore = g] \in Locals
    BY <1>1, <2>1, <2>2 DEF Locals
  <2> QED BY <1>1, <2>3, <2>4
<1>4. CASE UnlockMutex(w)
  <2>1. NoLocals \in Locals
    BY DEF NoLocals, Locals, MaxWaits, MaxForwards
  <2> QED BY <1>1, <1>4, <2>1 DEF UnlockMutex
<1>5. CASE FindFileByKey(w)
  <2>1. PICK r \in Nat : local' = [local EXCEPT ![w].seen = r]
    BY <1>1, <1>5 DEF FindFileByKey
  <2> QED BY <1>1, <2>1, UpdatesTyped
<1>6. CASE ReuseRecord(w)
  <2>1. local' = [local EXCEPT ![w].result = local[w].seen, ![w].seen = 0]
    BY <1>6 DEF ReuseRecord
  <2> QED BY <1>1, <1>2, <2>1, UpdatesTyped
<1>7. CASE ValidateFails(w)
  <2>1. local' = [local EXCEPT ![w].seen = 0]
    BY <1>7 DEF ValidateFails
  <2> QED BY <1>1, <2>1, UpdatesTyped
<1>8. CASE RecordIsStale(w)
  <2>1. PICK r \in Nat : local' = [local EXCEPT ![w].stale = r, ![w].seen = 0]
    BY <1>1, <1>2, <1>8 DEF RecordIsStale
  <2> QED BY <1>1, <2>1, UpdatesTyped
<1>9. CASE WaitForLock(w) /\ ~ctxDone[w]
  <2>1. local' = [local EXCEPT ![w].waits = local[w].waits + 1]
    BY <1>9 DEF WaitForLock
  <2>2. local[w].waits < MaxWaits
    BY <1>9 DEF WaitForLock, WaitsLeft
  <2>3. local[w].waits + 1 \in 0 .. MaxWaits
    BY <1>2, <2>2 DEF MaxWaits
  <2>4. [local[w] EXCEPT !.waits = local[w].waits + 1] \in Locals
    BY <1>1, <2>3 DEF Locals
  <2> QED BY <1>1, <2>1, <2>4
<1>10. CASE SendForward(w) /\ UNCHANGED local
  BY <1>1, <1>10
<1>11. CASE SendForward(w) /\ ~UNCHANGED local
  <2>1. local' = [local EXCEPT ![w].attempts = local[w].attempts + 1] /\ local[w].attempts < MaxForwards
    BY <1>11 DEF SendForward
  <2>2. local[w].attempts + 1 \in 0 .. MaxForwards
    BY <1>2, <2>1 DEF MaxForwards
  <2>3. [local[w] EXCEPT !.attempts = local[w].attempts + 1] \in Locals
    BY <1>1, <2>2 DEF Locals
  <2> QED BY <1>1, <2>1, <2>3
<1>12. CASE ForwardLands(w) \/ ForwardIsUnusable(w)
  <2>1. local' = [local EXCEPT ![w].cand = lastMsg'] \/ UNCHANGED local
    BY <1>12 DEF ForwardLands, ForwardIsUnusable
  <2>2. lastMsg' \in Nat
    BY <1>1, <1>12 DEF ForwardLands, ForwardIsUnusable, NewMessage
  <2>3. [local EXCEPT ![w].cand = lastMsg'] \in [Workers -> Locals]
    BY <1>1, <2>2, UpdatesTyped
  <2> QED BY <1>1, <2>1, <2>3
<1>13. CASE PersistFile(w)
  <2>1. local' = [local EXCEPT ![w].result = local[w].cand]
    BY <1>13 DEF PersistFile
  <2> QED BY <1>1, <1>2, <2>1, UpdatesTyped
<1>14. CASE UNCHANGED local
  BY <1>1, <1>14
<1> QED BY <1>3, <1>4, <1>5, <1>6, <1>7, <1>8, <1>9, <1>10, <1>11, <1>12, <1>13, <1>14
        DEF Step, LockMutex, FindFileByKeyFails, AcquireIngestLock, InspectLock, UnlinkLock,
            ReinsertLock, AcquireFails, WaitForLock, ReleaseIngestLock, ForwardErrs, AbandonForward,
            PersistRefused, PersistUnanswered, DeleteMessages

LEMMA TypeKeptByStep ==
    ASSUME NEW w \in Workers, TypeInv, fileMutex(w) \/ Step(w) \/ ForwardLands(w)
    PROVE  TypeInv'
<1> local' \in [Workers -> Locals]
  BY LocalsKeptByStep DEF TypeInv
<1> USE IngestAssumption, FaultsTyped, SpendTyped DEF TypeInv, TypeOK, WaitsLeft, Goto, Leave, PCs, Stages,
        dbVars, vaultVars, lockVars, mutexVars
<1> /\ "fault" \in Kinds /\ "timeout" \in Kinds /\ "crash" \in Kinds /\ "expiry" \in Kinds
    /\ "loss" \in Kinds /\ "cacheGone" \in Kinds /\ "mutexGone" \in Kinds
  BY DEF Kinds, Failures
<1>1. CASE fileMutex(w) BY <1>1 DEF fileMutex
<1>2. CASE LockMutex(w) BY <1>2 DEF LockMutex
<1>3. CASE UnlockMutex(w) BY <1>3 DEF UnlockMutex
<1>4. CASE FindFileByKey(w) BY <1>4, AfterLookupGoes DEF FindFileByKey
<1>5. CASE FindFileByKeyFails(w) BY <1>5 DEF FindFileByKeyFails, LookupFails
<1>6. CASE ReuseRecord(w) BY <1>6 DEF ReuseRecord
<1>7. CASE RecordIsStale(w) BY <1>7, AfterLookupGoes DEF RecordIsStale
<1>8. CASE ValidateFails(w) BY <1>8 DEF ValidateFails, LookupFails
<1>9. CASE AcquireIngestLock(w)
  <2>1. sawExpired' \in [Workers -> BOOLEAN] /\ lockOwner' \in Workers \cup {NoWorker}
        /\ lockExpired' \in BOOLEAN /\ stage' \in [Workers -> Stages]
    BY <1>9 DEF AcquireIngestLock, Acquired
  <2>2. pc' \in [Workers -> PCs] /\ WaitsLeft'
    BY <1>9 DEF AcquireIngestLock, Acquired
  <2> QED BY <1>9, <2>1, <2>2 DEF AcquireIngestLock
<1>10. CASE InspectLock(w) BY <1>10 DEF InspectLock, NotAcquired
<1>11. CASE UnlinkLock(w) BY <1>11 DEF UnlinkLock, NotAcquired, DocumentRemoved
<1>12. CASE ReinsertLock(w) BY <1>12 DEF ReinsertLock, Acquired, NotAcquired
<1>13. CASE AcquireFails(w) BY <1>13 DEF AcquireFails
<1>14. CASE WaitForLock(w) BY <1>14 DEF WaitForLock
<1>15. CASE ReleaseIngestLock(w) BY <1>15 DEF ReleaseIngestLock, DocumentRemoved
<1>16. CASE SendForward(w) BY <1>16 DEF SendForward
<1>17. CASE ForwardLands(w) BY <1>17 DEF ForwardLands, NewMessage
<1>18. CASE ForwardIsUnusable(w) BY <1>18 DEF ForwardIsUnusable, NewMessage
<1>19. CASE ForwardErrs(w)
  <2>1. lastMsg' \in Nat /\ vault' \subseteq Nat
    <3>1. CASE NewMessage BY <3>1 DEF NewMessage
    <3>2. CASE UNCHANGED vaultVars BY <3>2
    <3> QED BY <1>19, <3>1, <3>2 DEF ForwardErrs
  <2>2. WaitsLeft'
    BY <1>19 DEF ForwardErrs
  <2> QED BY <1>19, <2>1, <2>2 DEF ForwardErrs
<1>20. CASE AbandonForward(w) BY <1>20 DEF AbandonForward
<1>21. CASE PersistFile(w)
  <2>1. local[w].cand \in Nat
    BY FieldsTyped
  <2>2. WaitsLeft'
    BY <1>21 DEF PersistFile, Locals
  <2> QED BY <1>21, <2>1, <2>2 DEF PersistFile
<1>22. CASE PersistRefused(w) BY <1>22 DEF PersistRefused, Reread
<1>23. CASE PersistUnanswered(w)
  <2>1. local[w].cand \in Nat
    BY FieldsTyped
  <2> QED BY <1>23, <2>1 DEF PersistUnanswered, Reread
<1>24. CASE DeleteMessages(w) BY <1>24 DEF DeleteMessages
<1> QED BY <1>1, <1>2, <1>3, <1>4, <1>5, <1>6, <1>7, <1>8, <1>9, <1>10, <1>11, <1>12, <1>13, <1>14, <1>15, <1>16, <1>17, <1>18, <1>19, <1>20, <1>21, <1>22, <1>23, <1>24 DEF Step

LEMMA TypeKeptByEnvironment ==
    ASSUME TypeInv, Environment
    PROVE  TypeInv'
<1> USE IngestAssumption, SpendTyped DEF TypeInv, TypeOK, WaitsLeft, Goto, Leave, PCs, Stages,
        dbVars, vaultVars, lockVars, mutexVars, workerVars
<1> /\ "fault" \in Kinds /\ "timeout" \in Kinds /\ "crash" \in Kinds /\ "expiry" \in Kinds
    /\ "loss" \in Kinds /\ "cacheGone" \in Kinds /\ "mutexGone" \in Kinds
  BY DEF Kinds, Failures
<1>1. ASSUME NEW w \in Workers, ContextDone(w) PROVE TypeInv'
  BY <1>1 DEF ContextDone
<1>2. ASSUME NEW p \in Procs, EvictMutex(p) PROVE TypeInv'
  BY <1>2 DEF EvictMutex
<1>3. ASSUME NEW p \in Procs, CleanupDedupMu(p) PROVE TypeInv'
  BY <1>3 DEF CleanupDedupMu
<1>4. ASSUME NEW p \in Procs, CacheExpires(p) PROVE TypeInv'
  BY <1>4 DEF CacheExpires
<1>5. ASSUME NEW p \in Procs, EvictRecord(p) PROVE TypeInv'
  BY <1>5 DEF EvictRecord
<1>6. ASSUME NEW p \in Procs, Crash(p) PROVE TypeInv'
  <2>1. NoLocals \in Locals
    BY DEF NoLocals, Locals, MaxWaits, MaxForwards
  <2>2. /\ local' \in [Workers -> Locals] /\ pc' \in [Workers -> PCs] /\ stage' \in [Workers -> Stages]
        /\ holder' \in [Workers -> Workers \cup {NoWorker}]
    BY <1>6, <2>1 DEF Crash
  <2>3. WaitsLeft'
    BY <1>6 DEF Crash
  <2> QED BY <1>6, <2>2, <2>3 DEF Crash
<1>7. CASE LockExpires BY <1>7 DEF LockExpires
<1>8. CASE ReapLock BY <1>8 DEF ReapLock, DocumentRemoved
<1>9. CASE LoseMessage BY <1>9 DEF LoseMessage
<1> QED BY <1>1, <1>2, <1>3, <1>4, <1>5, <1>6, <1>7, <1>8, <1>9 DEF Environment

LEMMA TypeStep == TypeInv /\ [Next]_vars => TypeInv'
<1> SUFFICES ASSUME TypeInv, [Next]_vars PROVE TypeInv'
  OBVIOUS
<1>1. CASE \E w \in Workers : fileMutex(w) \/ Step(w) \/ ForwardLands(w)
  BY <1>1, TypeKeptByStep
<1>2. CASE Environment
  BY <1>2, TypeKeptByEnvironment
<1>3. CASE UNCHANGED vars
  BY <1>3 DEF vars, TypeInv, TypeOK, WaitsLeft
<1> QED BY <1>1, <1>2, <1>3 DEF Next, Finished

\* Every variable of Ingest keeps its type, its counters included: no goroutine
\* waits for the lock, or forwards, more often than ingest.go:265 and :337 allow.
THEOREM TypeCorrect == Spec => []TypeOK
<1>1. TypeInv => TypeOK
  BY DEF TypeInv
<1> QED BY <1>1, TypeInit, TypeStep, PTL DEF Spec

-----------------------------------------------------------------------------
(* Steps one goroutine at a time.                                           *)

WorkerStep(w) == fileMutex(w) \/ Step(w) \/ ForwardLands(w)

\* A step of w is none of the other goroutines'.
LEMMA OthersRest ==
    ASSUME TypeOK, NEW w \in Workers, WorkerStep(w), NEW x \in Workers \ {w}
    PROVE  /\ pc'[x] = pc[x] /\ stage'[x] = stage[x] /\ local'[x] = local[x]
           /\ ctxDone'[x] = ctxDone[x] /\ forwarding'[x] = forwarding[x]
<1> USE DEF TypeOK, Goto, Leave
<1>1. CASE fileMutex(w) BY <1>1 DEF fileMutex
<1>2. CASE LockMutex(w) BY <1>2 DEF LockMutex
<1>3. CASE UnlockMutex(w) BY <1>3 DEF UnlockMutex
<1>4. CASE FindFileByKey(w) BY <1>4, AfterLookupGoes DEF FindFileByKey
<1>5. CASE FindFileByKeyFails(w) BY <1>5 DEF FindFileByKeyFails, LookupFails
<1>6. CASE ReuseRecord(w) BY <1>6 DEF ReuseRecord
<1>7. CASE RecordIsStale(w) BY <1>7, AfterLookupGoes DEF RecordIsStale
<1>8. CASE ValidateFails(w) BY <1>8 DEF ValidateFails, LookupFails
<1>9. CASE AcquireIngestLock(w) BY <1>9 DEF AcquireIngestLock, Acquired
<1>10. CASE InspectLock(w) BY <1>10 DEF InspectLock, NotAcquired
<1>11. CASE UnlinkLock(w) BY <1>11 DEF UnlinkLock, NotAcquired
<1>12. CASE ReinsertLock(w) BY <1>12 DEF ReinsertLock, Acquired, NotAcquired
<1>13. CASE AcquireFails(w) BY <1>13 DEF AcquireFails
<1>14. CASE WaitForLock(w) BY <1>14 DEF WaitForLock
<1>15. CASE ReleaseIngestLock(w) BY <1>15 DEF ReleaseIngestLock
<1>16. CASE SendForward(w) BY <1>16 DEF SendForward
<1>17. CASE ForwardLands(w) BY <1>17 DEF ForwardLands
<1>18. CASE ForwardIsUnusable(w) BY <1>18 DEF ForwardIsUnusable
<1>19. CASE ForwardErrs(w) BY <1>19 DEF ForwardErrs
<1>20. CASE AbandonForward(w) BY <1>20 DEF AbandonForward
<1>21. CASE PersistFile(w) BY <1>21 DEF PersistFile
<1>22. CASE PersistRefused(w) BY <1>22 DEF PersistRefused, Reread
<1>23. CASE PersistUnanswered(w) BY <1>23 DEF PersistUnanswered, Reread
<1>24. CASE DeleteMessages(w) BY <1>24 DEF DeleteMessages
<1> QED BY <1>1, <1>2, <1>3, <1>4, <1>5, <1>6, <1>7, <1>8, <1>9, <1>10, <1>11, <1>12, <1>13,
           <1>14, <1>15, <1>16, <1>17, <1>18, <1>19, <1>20, <1>21, <1>22, <1>23, <1>24
        DEF WorkerStep, Step

\* What a step of w may do to its locals: forget them, note what is gone as the
\* call begins, or move message numbers about.
LocalsMove(w) ==
    LET l == local[w]  n == local'[w] IN
    \/ n = NoLocals
    \/ /\ pc[w] = "idle" /\ vault' = vault
       /\ n.seen = l.seen /\ n.stale = l.stale /\ n.cand = l.cand /\ n.result = l.result
       /\ n.goneBefore = (1 .. lastMsg) \ vault
    \/ /\ n.goneBefore = l.goneBefore
       /\ n.seen \in {0, l.seen, rec, keyCache[ProcOf[w]]}
       /\ n.stale = l.stale \/ (n.stale = l.seen /\ l.seen \notin vault /\ vault' = vault)
       /\ n.cand = l.cand \/ (n.cand = lastMsg' /\ lastMsg' = lastMsg + 1)
       /\ n.result = l.result \/ n.result = l.cand \/ (n.result = l.seen /\ l.seen \in vault)

LEMMA LocalsStep ==
    ASSUME TypeOK, NEW w \in Workers, WorkerStep(w)
    PROVE  LocalsMove(w)
<1> USE DEF LocalsMove
<1>0. local \in [Workers -> Locals]
  BY DEF TypeOK
<1>1. CASE fileMutex(w)
  BY <1>0, <1>1 DEF fileMutex, vaultVars, Locals
<1>2. CASE UnlockMutex(w)
  BY <1>0, <1>2 DEF UnlockMutex
<1>3. CASE FindFileByKey(w)
  BY <1>0, <1>3 DEF FindFileByKey, Locals
<1>4. CASE ReuseRecord(w)
  BY <1>0, <1>4 DEF ReuseRecord, Locals
<1>5. CASE RecordIsStale(w)
  BY <1>0, <1>5 DEF RecordIsStale, vaultVars, Locals
<1>6. CASE ValidateFails(w)
  BY <1>0, <1>6 DEF ValidateFails, Locals
<1>7. CASE WaitForLock(w)
  BY <1>0, <1>7 DEF WaitForLock, Locals
<1>8. CASE SendForward(w)
  BY <1>0, <1>8 DEF SendForward, Locals
<1>9. CASE ForwardLands(w)
  BY <1>0, <1>9 DEF ForwardLands, NewMessage, Locals
<1>10. CASE ForwardIsUnusable(w)
  BY <1>0, <1>10 DEF ForwardIsUnusable, NewMessage, Locals
<1>11. CASE PersistFile(w)
  BY <1>0, <1>11 DEF PersistFile, Locals
<1>12. CASE UNCHANGED local
  BY <1>0, <1>12
<1> QED BY <1>1, <1>2, <1>3, <1>4, <1>5, <1>6, <1>7, <1>8, <1>9, <1>10, <1>11, <1>12
        DEF WorkerStep, Step, LockMutex, FindFileByKeyFails, AcquireIngestLock, InspectLock,
            UnlinkLock, ReinsertLock, AcquireFails, ReleaseIngestLock, ForwardErrs, AbandonForward,
            PersistRefused, PersistUnanswered, DeleteMessages

\* What is in the vault after a step was there before, or is its newest message.
LEMMA VaultStep ==
    ASSUME TypeOK, [Next]_vars
    PROVE  \/ vault' \subseteq vault /\ lastMsg' = lastMsg
           \/ vault' = vault \cup {lastMsg + 1} /\ lastMsg' = lastMsg + 1
<1> USE DEF vaultVars
<1>1. ASSUME NEW w \in Workers, WorkerStep(w)
      PROVE  \/ vault' \subseteq vault /\ lastMsg' = lastMsg
             \/ vault' = vault \cup {lastMsg + 1} /\ lastMsg' = lastMsg + 1
  <2>1. CASE ForwardLands(w) \/ ForwardIsUnusable(w) \/ ForwardErrs(w)
    BY <2>1 DEF ForwardLands, ForwardIsUnusable, ForwardErrs, NewMessage
  <2>2. CASE ReuseRecord(w) \/ DeleteMessages(w)
    BY <2>2 DEF ReuseRecord, DeleteMessages
  <2>3. CASE UNCHANGED vaultVars
    BY <2>3
  <2> QED BY <1>1, <2>1, <2>2, <2>3
          DEF WorkerStep, Step, fileMutex, LockMutex, UnlockMutex, FindFileByKey,
              FindFileByKeyFails, RecordIsStale, ValidateFails, AcquireIngestLock, InspectLock,
              UnlinkLock, ReinsertLock, AcquireFails, WaitForLock, ReleaseIngestLock, SendForward,
              AbandonForward, PersistFile, PersistRefused, PersistUnanswered
<1>2. CASE Environment
  <2>1. CASE LoseMessage
    BY <2>1 DEF LoseMessage
  <2> QED BY <1>2, <2>1 DEF Environment, ContextDone, CleanupDedupMu, EvictMutex, CacheExpires,
                            EvictRecord, Crash, LockExpires, ReapLock
<1>3. CASE UNCHANGED vars
  BY <1>3 DEF vars
<1> QED BY <1>1, <1>2, <1>3 DEF Next, Finished, WorkerStep

\* The record and its cache entries hold nothing but what they, or the writer, held.
LEMMA RecordStep ==
    ASSUME TypeOK, NEW w \in Workers, WorkerStep(w)
    PROVE  /\ rec' = rec \/ (rec' = local[w].cand /\ pc[w] = "persist")
           /\ \A p \in Procs : keyCache'[p] \in {0, keyCache[p], rec, rec'}
<1> USE IngestAssumption DEF TypeOK, dbVars
<1>1. CASE FindFileByKey(w)
  BY <1>1 DEF FindFileByKey
<1>2. CASE PersistFile(w)
  BY <1>2 DEF PersistFile
<1>3. CASE PersistRefused(w) \/ PersistUnanswered(w)
  BY <1>3 DEF PersistRefused, PersistUnanswered, Reread
<1>4. CASE UNCHANGED dbVars
  BY <1>4
<1> QED BY <1>1, <1>2, <1>3, <1>4
        DEF WorkerStep, Step, fileMutex, LockMutex, UnlockMutex, FindFileByKeyFails, ReuseRecord,
            RecordIsStale, ValidateFails, AcquireIngestLock, InspectLock, UnlinkLock, ReinsertLock,
            AcquireFails, WaitForLock, ReleaseIngestLock, SendForward, ForwardLands,
            ForwardIsUnusable, ForwardErrs, AbandonForward, DeleteMessages

\* Nobody becomes idle again: a goroutine runs Ingest once.
LEMMA IdleNoMore ==
    ASSUME TypeOK, NEW w \in Workers, WorkerStep(w), pc'[w] = "idle"
    PROVE  pc[w] = "idle" /\ local'[w] = local[w]
<1> USE DEF TypeOK, Goto, Leave
<1>1. CASE ForwardLands(w) BY <1>1 DEF ForwardLands
<1>2. CASE ForwardErrs(w) BY <1>2 DEF ForwardErrs
<1>3. CASE FindFileByKey(w) BY <1>3, AfterLookupGoes DEF FindFileByKey
<1>4. CASE RecordIsStale(w) BY <1>4, AfterLookupGoes DEF RecordIsStale
<1>5. CASE AcquireIngestLock(w) \/ InspectLock(w) \/ UnlinkLock(w) \/ ReinsertLock(w)
  BY <1>5 DEF AcquireIngestLock, InspectLock, UnlinkLock, ReinsertLock, Acquired, NotAcquired
<1>6. CASE PersistFile(w) \/ PersistRefused(w) \/ PersistUnanswered(w) \/ DeleteMessages(w)
  BY <1>6 DEF PersistFile, PersistRefused, PersistUnanswered, DeleteMessages, Reread
<1> QED BY <1>1, <1>2, <1>3, <1>4, <1>5, <1>6
        DEF WorkerStep, Step, fileMutex, LockMutex, UnlockMutex, FindFileByKeyFails, LookupFails,
            ReuseRecord, ValidateFails, AcquireFails, WaitForLock, ReleaseIngestLock, SendForward,
            ForwardIsUnusable, AbandonForward

-----------------------------------------------------------------------------
(* What is gone stays gone.  The vault numbers its messages upwards, and    *)
(* nothing in the system knows of a number yet to come; so a copy that was  *)
(* gone once, when a call began or when its record was validated, is gone.  *)

Numbered ==
    /\ vault \subseteq 1 .. lastMsg
    /\ rec \in 0 .. lastMsg
    /\ \A p \in Procs : keyCache[p] \in 0 .. lastMsg
    /\ \A w \in Workers :
          /\ {local[w].seen, local[w].stale, local[w].cand} \subseteq 0 .. lastMsg
          /\ local[w].goneBefore \subseteq 1 .. lastMsg

GoneForGood ==
    \A w \in Workers :
       /\ local[w].stale \notin vault
       /\ local[w].goneBefore \cap vault = {}
       /\ local[w].cand \notin local[w].goneBefore
       /\ local[w].result \notin local[w].goneBefore
       /\ pc[w] = "idle" => local[w] = NoLocals

HistoryInv == Numbered /\ GoneForGood

LEMMA HistoryInit == Init => HistoryInv
<1> SUFFICES ASSUME Init PROVE HistoryInv
  OBVIOUS
<1> USE DEF Init, NoLocals
<1>1. Numbered
  BY DEF Numbered
<1>2. GoneForGood
  BY DEF GoneForGood, ResultWasLive
<1> QED BY <1>1, <1>2 DEF HistoryInv

\* The typing facts both parts need.
LEMMA LocalsAreNumbers ==
    ASSUME TypeOK, NEW w \in Workers
    PROVE  /\ local[w].seen \in Nat /\ local[w].stale \in Nat /\ local[w].cand \in Nat
           /\ local[w].goneBefore \subseteq Nat /\ ProcOf[w] \in Procs
           /\ lastMsg \in Nat /\ rec \in Nat
BY IngestAssumption DEF TypeOK, Locals

LEMMA HistoryKeptByStep ==
    ASSUME TypeOK, HistoryInv, NEW w \in Workers, WorkerStep(w)
    PROVE  HistoryInv'
<1> USE DEF HistoryInv
<1>1. \/ vault' \subseteq vault /\ lastMsg' = lastMsg
      \/ vault' = vault \cup {lastMsg + 1} /\ lastMsg' = lastMsg + 1
  BY VaultStep DEF Next, WorkerStep
<1>2. LocalsMove(w) /\ lastMsg \in Nat
  BY LocalsStep, LocalsAreNumbers
<1>3. \A x \in Workers \ {w} : pc'[x] = pc[x] /\ local'[x] = local[x]
  BY OthersRest
<1>4. Numbered'
  <2>1. 0 .. lastMsg \subseteq 0 .. lastMsg' /\ 1 .. lastMsg \subseteq 1 .. lastMsg'
    BY <1>1, <1>2
  <2>2. vault' \subseteq 1 .. lastMsg'
    <3>1. lastMsg + 1 \in 1 .. lastMsg + 1
      BY <1>2
    <3>2. vault \subseteq 1 .. lastMsg'
      BY <2>1 DEF Numbered
    <3> QED BY <1>1, <3>1, <3>2
  <2>3. rec' \in 0 .. lastMsg' /\ \A p \in Procs : keyCache'[p] \in 0 .. lastMsg'
    <3>1. 0 \in 0 .. lastMsg
      BY <1>2
    <3>2. {0, rec, local[w].cand} \subseteq 0 .. lastMsg'
      BY <2>1, <3>1 DEF Numbered
    <3>3. \A p \in Procs : keyCache[p] \in 0 .. lastMsg'
      BY <2>1 DEF Numbered
    <3> HIDE DEF HistoryInv
    <3> QED BY <3>2, <3>3, RecordStep
  <2>4. ASSUME NEW x \in Workers
        PROVE  /\ {local'[x].seen, local'[x].stale, local'[x].cand} \subseteq 0 .. lastMsg'
               /\ local'[x].goneBefore \subseteq 1 .. lastMsg'
    <3>1. CASE x # w
      BY <1>3, <2>1, <3>1 DEF Numbered
    <3>2. CASE x = w
      <4>1. /\ {local[w].seen, local[w].stale, local[w].cand} \subseteq 0 .. lastMsg'
            /\ rec \in 0 .. lastMsg' /\ keyCache[ProcOf[w]] \in 0 .. lastMsg'
            /\ 0 \in 0 .. lastMsg' /\ (lastMsg' = lastMsg + 1 => lastMsg' \in 0 .. lastMsg')
            /\ local[w].goneBefore \subseteq 1 .. lastMsg'
            /\ (1 .. lastMsg) \ vault \subseteq 1 .. lastMsg'
        BY <1>2, <2>1, LocalsAreNumbers DEF Numbered
      <4> QED BY <1>2, <3>2, <4>1 DEF LocalsMove, NoLocals
    <3> QED BY <3>1, <3>2
  <2> QED BY <2>2, <2>3, <2>4 DEF Numbered
<1>5. GoneForGood'
  <2>1. ASSUME NEW m \in 0 .. lastMsg, m \notin vault PROVE m \notin vault'
    BY <1>1, <1>2, <2>1
  <2>2. ASSUME NEW x \in Workers \ {w}
        PROVE  /\ local'[x].stale \notin vault'
               /\ local'[x].goneBefore \cap vault' = {}
               /\ local'[x].cand \notin local'[x].goneBefore
               /\ local'[x].result \notin local'[x].goneBefore
               /\ pc'[x] = "idle" => local'[x] = NoLocals
    <3>1. local[x].stale \in 0 .. lastMsg /\ local[x].goneBefore \subseteq 0 .. lastMsg
      BY DEF Numbered
    <3> QED BY <1>3, <2>1, <3>1 DEF GoneForGood, ResultWasLive
  <2>3. /\ local'[w].stale \notin vault'
        /\ local'[w].goneBefore \cap vault' = {}
        /\ local'[w].cand \notin local'[w].goneBefore
        /\ local'[w].result \notin local'[w].goneBefore
    <3>1. CASE local'[w] = NoLocals
      BY <1>4, <3>1 DEF Numbered, NoLocals
    <3>2. CASE /\ pc[w] = "idle" /\ vault' = vault
               /\ local'[w].stale = local[w].stale /\ local'[w].cand = local[w].cand
               /\ local'[w].result = local[w].result
               /\ local'[w].goneBefore = (1 .. lastMsg) \ vault
      BY <3>2 DEF Numbered, GoneForGood, NoLocals
    <3>3. CASE /\ local'[w].goneBefore = local[w].goneBefore
               /\ \/ local'[w].stale = local[w].stale
                  \/ (local'[w].stale = local[w].seen /\ local[w].seen \notin vault /\ vault' = vault)
               /\ \/ local'[w].cand = local[w].cand
                  \/ (local'[w].cand = lastMsg' /\ lastMsg' = lastMsg + 1)
               /\ \/ local'[w].result = local[w].result \/ local'[w].result = local[w].cand
                  \/ (local'[w].result = local[w].seen /\ local[w].seen \in vault)
      <4>1. local[w].stale \in 0 .. lastMsg /\ local[w].goneBefore \subseteq 1 .. lastMsg
        BY DEF Numbered
      <4>2. local'[w].stale \notin vault' /\ local'[w].goneBefore \cap vault' = {}
        BY <2>1, <3>3, <4>1 DEF GoneForGood
      <4>3. local'[w].cand \notin local'[w].goneBefore
        BY <1>2, <3>3, <4>1 DEF GoneForGood
      <4>4. local'[w].result \notin local'[w].goneBefore
        BY <3>3 DEF GoneForGood, ResultWasLive
      <4> QED BY <4>2, <4>3, <4>4
    <3> QED BY <1>2, <3>1, <3>2, <3>3 DEF LocalsMove
  <2>4. pc'[w] = "idle" => local'[w] = NoLocals
    BY IdleNoMore DEF GoneForGood
  <2> QED BY <2>2, <2>3, <2>4 DEF GoneForGood, ResultWasLive
<1> QED BY <1>4, <1>5

LEMMA HistoryKeptByEnvironment ==
    ASSUME TypeOK, HistoryInv, Environment
    PROVE  HistoryInv'
<1> USE DEF HistoryInv, Numbered, GoneForGood, ResultWasLive, workerVars, vaultVars
<1>1. ASSUME UNCHANGED <<lastMsg, workerVars>>, vault' \subseteq vault, rec' \in {0, rec},
             \A p \in Procs : keyCache'[p] \in {0, keyCache[p]}
      PROVE  HistoryInv'
  <2>1. 0 \in 0 .. lastMsg
    BY DEF TypeOK
  <2>2. Numbered'
    BY <1>1, <2>1
  <2>3. GoneForGood'
    BY <1>1
  <2> QED BY <2>2, <2>3
<1>2. ASSUME NEW p \in Procs, EvictRecord(p) \/ CacheExpires(p) PROVE HistoryInv'
  BY <1>1, <1>2 DEF EvictRecord, CacheExpires, TypeOK
<1>3. ASSUME NEW p \in Procs, Crash(p) PROVE HistoryInv'
  <2>1. UNCHANGED <<rec, vault, lastMsg>> /\ \A q \in Procs : keyCache'[q] \in {0, keyCache[q]}
    BY <1>3 DEF Crash, TypeOK
  <2>2. \A w \in Workers : local'[w] \in {NoLocals, local[w]}
    BY <1>3 DEF Crash
  <2>3. \A w \in Workers : pc'[w] = "idle" => local'[w] = local[w] /\ pc[w] = "idle"
    BY <1>3 DEF Crash, Active
  <2>4. 0 \notin vault /\ lastMsg \in Nat
    BY DEF TypeOK
  <2>5. Numbered'
    BY <2>1, <2>2, <2>4 DEF NoLocals
  <2>6. GoneForGood'
    <3> SUFFICES ASSUME NEW w \in Workers
                 PROVE  /\ local'[w].stale \notin vault'
                        /\ local'[w].goneBefore \cap vault' = {}
                        /\ local'[w].cand \notin local'[w].goneBefore
                        /\ local'[w].result \notin local'[w].goneBefore
                        /\ pc'[w] = "idle" => local'[w] = NoLocals
      OBVIOUS
    <3>1. CASE local'[w] = NoLocals
      BY <2>1, <2>4, <3>1 DEF NoLocals
    <3>2. CASE local'[w] = local[w]
      BY <2>1, <2>3, <3>2
    <3> QED BY <2>2, <3>1, <3>2
  <2> QED BY <2>5, <2>6
<1>4. CASE LoseMessage
  BY <1>1, <1>4 DEF LoseMessage, dbVars
<1> QED BY <1>1, <1>2, <1>3, <1>4 DEF Environment, ContextDone, CleanupDedupMu, EvictMutex,
                                      LockExpires, ReapLock, dbVars

LEMMA HistoryStep == TypeOK /\ HistoryInv /\ [Next]_vars => HistoryInv'
<1> SUFFICES ASSUME TypeOK, HistoryInv, [Next]_vars PROVE HistoryInv'
  OBVIOUS
<1>1. CASE \E w \in Workers : WorkerStep(w)
  BY <1>1, HistoryKeptByStep
<1>2. CASE Environment
  BY <1>2, HistoryKeptByEnvironment
<1>3. CASE UNCHANGED vars
  BY <1>3 DEF vars, HistoryInv, Numbered, GoneForGood, ResultWasLive
<1> QED BY <1>1, <1>2, <1>3 DEF Next, Finished, WorkerStep

\* No result is of a record whose copy was gone before the call began, although the
\* record comes from a cache that may be older: what is reused has been validated,
\* and the vault does not number a copy twice.
THEOREM ResultsWereLive == Spec => []ResultWasLive
<1>1. HistoryInv => ResultWasLive
  BY DEF HistoryInv, GoneForGood, ResultWasLive
<1> QED BY <1>1, HistoryInit, HistoryStep, TypeCorrect, PTL DEF Spec

\* The media is forwarded again only beside a record whose copy is gone, and it is
\* still gone while the forward is under way (ingest.go:79).
THEOREM ForwardsOnlyIfGone == Spec => []ForwardOnlyIfGone
<1>1. HistoryInv => ForwardOnlyIfGone
  BY DEF HistoryInv, GoneForGood, ForwardOnlyIfGone
<1> QED BY <1>1, HistoryInit, HistoryStep, TypeCorrect, PTL DEF Spec

-----------------------------------------------------------------------------
(* Where a goroutine is.  Its place and stage tell whether it has a copy of *)
(* its own: none before its forward has landed, and one from there on.      *)

PlacedAt(w) ==
    /\ stage[w] = "entry" => local[w].cand = 0
    /\ stage[w] = "locked" =>
          pc[w] \in {"find", "validate", "forward", "awaiting", "persist", "discard", "release",
                     "unlock"}
    /\ stage[w] = "locked" /\ pc[w] \in {"find", "validate", "forward", "awaiting"} =>
          local[w].cand = 0
    /\ stage[w] = "persistErr" => pc[w] \in {"find", "validate", "discard", "release", "unlock"}
    /\ stage[w] = "persistErr" \/ pc[w] \in {"persist", "discard"} => local[w].cand # 0
    /\ pc[w] = "validate" => local[w].seen # 0
    /\ pc[w] \in {"forward", "awaiting", "persist"} => stage[w] = "locked"

Placed == \A w \in Workers : PlacedAt(w)

LEMMA PlacedKeptByStep ==
    ASSUME TypeOK, UnderLock, Placed, NEW w \in Workers, WorkerStep(w)
    PROVE  Placed'
<1>1. \A x \in Workers \ {w} : pc'[x] = pc[x] /\ stage'[x] = stage[x] /\ local'[x] = local[x]
  BY OthersRest
<1>2. /\ pc \in [Workers -> PCs] /\ stage \in [Workers -> Stages] /\ local \in [Workers -> Locals]
      /\ lastMsg \in Nat
  BY DEF TypeOK
<1>3. PlacedAt(w)'
  <2> USE <1>2 DEF Placed, PlacedAt, Goto, Leave, Stages, Locals
  <2>1. CASE fileMutex(w) BY <2>1 DEF fileMutex
  <2>2. CASE LockMutex(w) BY <2>2 DEF LockMutex
  <2>3. CASE UnlockMutex(w) BY <2>3 DEF UnlockMutex, NoLocals
  <2>4. CASE FindFileByKey(w) BY <2>4, AfterLookupGoes DEF FindFileByKey
  <2>5. CASE FindFileByKeyFails(w) BY <2>5 DEF FindFileByKeyFails, LookupFails
  <2>6. CASE ReuseRecord(w) BY <2>6 DEF ReuseRecord
  <2>7. CASE RecordIsStale(w) BY <2>7, AfterLookupGoes DEF RecordIsStale
  <2>8. CASE ValidateFails(w) BY <2>8 DEF ValidateFails, LookupFails
  <2>9. CASE AcquireIngestLock(w) BY <2>9 DEF AcquireIngestLock, Acquired
  <2>10. CASE InspectLock(w) BY <2>10 DEF InspectLock, NotAcquired
  <2>11. CASE UnlinkLock(w) BY <2>11 DEF UnlinkLock, NotAcquired
  <2>12. CASE ReinsertLock(w) BY <2>12 DEF ReinsertLock, Acquired, NotAcquired
  <2>13. CASE AcquireFails(w) BY <2>13 DEF AcquireFails
  <2>14. CASE WaitForLock(w) BY <2>14 DEF WaitForLock
  <2>15. CASE ReleaseIngestLock(w) BY <2>15 DEF ReleaseIngestLock
  <2>16. CASE SendForward(w) BY <2>16 DEF SendForward
  <2>17. CASE ForwardLands(w) BY <2>17 DEF ForwardLands, NewMessage
  <2>18. CASE ForwardIsUnusable(w) BY <2>18 DEF ForwardIsUnusable, NewMessage
  <2>19. CASE ForwardErrs(w) BY <2>19 DEF ForwardErrs
  <2>20. CASE AbandonForward(w) BY <2>20 DEF AbandonForward
  <2>21. CASE PersistFile(w) BY <2>21 DEF PersistFile
  <2>22. CASE PersistRefused(w) BY <2>22 DEF PersistRefused, Reread
  <2>23. CASE PersistUnanswered(w) BY <2>23 DEF PersistUnanswered, Reread
  <2>24. CASE DeleteMessages(w) BY <2>24 DEF DeleteMessages
  <2> QED BY <2>1, <2>2, <2>3, <2>4, <2>5, <2>6, <2>7, <2>8, <2>9, <2>10, <2>11, <2>12, <2>13,
             <2>14, <2>15, <2>16, <2>17, <2>18, <2>19, <2>20, <2>21, <2>22, <2>23, <2>24
          DEF WorkerStep, Step
<1> QED BY <1>1, <1>3 DEF Placed, PlacedAt

LEMMA PlacedStep == TypeOK /\ UnderLock /\ Placed /\ [Next]_vars => Placed'
<1> SUFFICES ASSUME TypeOK, UnderLock, Placed, [Next]_vars PROVE Placed'
  OBVIOUS
<1>1. CASE \E w \in Workers : WorkerStep(w)
  BY <1>1, PlacedKeptByStep
<1>2. CASE UNCHANGED workerVars
  BY <1>2 DEF workerVars, Placed, PlacedAt
<1>3. ASSUME NEW p \in Procs, Crash(p) PROVE Placed'
  BY <1>3 DEF Crash, Placed, PlacedAt, NoLocals, TypeOK
<1> QED BY <1>1, <1>2, <1>3 DEF Next, Finished, vars, workerVars, WorkerStep, Environment, ContextDone,
                                CleanupDedupMu, EvictMutex, CacheExpires, EvictRecord, LockExpires,
                                ReapLock, LoseMessage

-----------------------------------------------------------------------------
(* The record and its copies.  Three conditions on what has happened so far, *)
(* each of which the promises below need one of: the lock has excluded, and  *)
(* the process is the only one or hardly anything has failed (Calm); nothing *)
(* was lost and no second call failed (Gentle); no call failed (Smooth).     *)

OneProcess == \A p, q \in Procs : p = q

Gentle == Quiet({"timeout", "expiry", "loss"}) /\ spent["fault"] <= 1
Calm   == Quiet({"expiry"}) /\ (OneProcess \/ Gentle)
Smooth == Quiet(Failures \ {"loss"}) /\ (OneProcess \/ Quiet({"loss"}))

\* Caches hold the record or nothing, and whoever is about to write a record under
\* the lock has seen the one that is there, or the one that has been dropped since.
CoherentAt(w) ==
    /\ stage[w] = "locked" /\ pc[w] = "validate" => rec \in {0, local[w].seen}
    /\ pc[w] \in {"forward", "awaiting", "persist"} => rec \in {0, local[w].stale}
    /\ pc[w] = "persist" => rec # local[w].cand

Coherent ==
    Calm => /\ \A p \in Procs : keyCache[p] \in {0, rec}
            /\ \A w \in Workers : CoherentAt(w)

\* The record's copy is there, no record is taken for stale, and a goroutine that
\* discards its copy knows that it is not the record's.
KeptAt(w) ==
    /\ ~ctxDone[w] /\ local[w].stale = 0 /\ local[w].seen \in {0, rec}
    /\ pc[w] = "persist" => local[w].cand \in vault
    /\ stage[w] = "persistErr" => spent["fault"] = 1
    /\ stage[w] = "persistErr" /\ pc[w] \in {"find", "validate"} => rec \in {0, local[w].cand}
    /\ pc[w] = "discard" => rec # local[w].cand

Kept ==
    Gentle => /\ rec = 0 \/ rec \in vault
              /\ \A w \in Workers : KeptAt(w)

\* No copy is there but the record's and that of the goroutine about to write it.
TidyAt(w) ==
    /\ ~ctxDone[w] /\ stage[w] # "persistErr" /\ pc[w] # "discard"
    /\ forwarding[w] => pc[w] = "awaiting"

Tidy ==
    Smooth =>
        /\ \A w \in Workers : TidyAt(w)
        /\ \A m \in vault : m = rec \/ \E w \in Workers : pc[w] = "persist" /\ local[w].cand = m

\* The events only add up, so that each condition held before if it holds now.
LEMMA SpentGrows ==
    ASSUME TypeOK, [Next]_vars, NEW k \in Kinds
    PROVE  spent[k] \in Nat /\ spent'[k] \in Nat /\ spent[k] <= spent'[k]
<1> USE DEF TypeOK, Spend, CallFails
<1>1. ASSUME NEW w \in Workers, WorkerStep(w) PROVE UNCHANGED spent \/ Spend("fault") \/ Spend("timeout")
  BY <1>1 DEF WorkerStep, Step, fileMutex, LockMutex, UnlockMutex, FindFileByKey,
              FindFileByKeyFails, ReuseRecord, RecordIsStale, ValidateFails, AcquireIngestLock,
              InspectLock, UnlinkLock, ReinsertLock, AcquireFails, WaitForLock, ReleaseIngestLock,
              SendForward, ForwardLands, ForwardIsUnusable, ForwardErrs, AbandonForward,
              PersistFile, PersistRefused, PersistUnanswered, DeleteMessages
<1>2. CASE Environment
  BY <1>2 DEF Environment, ContextDone, CleanupDedupMu, EvictMutex, CacheExpires, EvictRecord, Crash,
              LockExpires, ReapLock, LoseMessage
<1> QED BY <1>1, <1>2 DEF Next, Finished, vars, WorkerStep

LEMMA ConditionsHeld ==
    ASSUME TypeOK, [Next]_vars
    PROVE  /\ \A K \in SUBSET Kinds : Quiet(K)' => Quiet(K)
           /\ Gentle' => Gentle
           /\ Calm' => Calm
           /\ Smooth' => Smooth
           /\ Gentle => Calm
           /\ Smooth => Calm
<1>1. \A k \in Kinds : spent[k] \in Nat /\ spent'[k] \in Nat /\ spent[k] <= spent'[k]
  BY SpentGrows
<1>2. ASSUME NEW K \in SUBSET Kinds, Quiet(K)' PROVE Quiet(K)
  BY <1>1, <1>2 DEF Quiet
<1>3. /\ {"timeout", "expiry", "loss"} \in SUBSET Kinds /\ {"expiry"} \in SUBSET Kinds
      /\ Failures \ {"loss"} \in SUBSET Kinds /\ {"loss"} \in SUBSET Kinds /\ "fault" \in Kinds
  BY DEF Kinds, Failures
<1>4. Gentle' => Gentle
  <2> SUFFICES ASSUME Gentle' PROVE Gentle
    OBVIOUS
  <2>1. Quiet({"timeout", "expiry", "loss"})' /\ spent'["fault"] <= 1
    BY DEF Gentle
  <2> QED BY <1>1, <1>2, <1>3, <2>1 DEF Gentle
<1>5. Calm' => Calm
  BY <1>2, <1>3, <1>4 DEF Calm, OneProcess
<1>6. Smooth' => Smooth
  BY <1>2, <1>3 DEF Smooth, OneProcess
<1>7. Gentle => Calm
  BY DEF Gentle, Calm, Quiet
<1>8. Smooth => Calm
  BY DEF Smooth, Gentle, Calm, Quiet, Failures
<1> QED BY <1>2, <1>4, <1>5, <1>6, <1>7, <1>8

\* One goroutine at a time is in the critical section while the lock excludes.
LEMMA AloneUnderLock ==
    ASSUME LockInv, Quiet({"expiry"}), NEW v \in Workers, NEW w \in Workers, Critical(v), Critical(w)
    PROVE  v = w
BY DEF LockInv, OwnedInTime

\* What the copies' invariants rest on.
Base == TypeOK /\ LockInv /\ HistoryInv /\ Placed


LEMMA RecordWritten ==
    ASSUME TypeOK, NEW w \in Workers, WorkerStep(w), rec' # rec
    PROVE  /\ PersistFile(w) \/ PersistUnanswered(w)
           /\ pc[w] = "persist" /\ rec' = local[w].cand /\ vault' = vault
<1>1. CASE PersistFile(w) \/ PersistUnanswered(w)
  BY <1>1 DEF PersistFile, PersistUnanswered, vaultVars
<1>2. CASE UNCHANGED rec
  BY <1>2
<1> QED BY <1>1, <1>2
        DEF WorkerStep, Step, dbVars, fileMutex, LockMutex, UnlockMutex, FindFileByKey,
            FindFileByKeyFails, ReuseRecord, RecordIsStale, ValidateFails, AcquireIngestLock,
            InspectLock, UnlinkLock, ReinsertLock, AcquireFails, WaitForLock, ReleaseIngestLock,
            SendForward, ForwardLands, ForwardIsUnusable, ForwardErrs, AbandonForward,
            PersistRefused, DeleteMessages

LEMMA CoherentKeptByStep ==
    ASSUME Base, Coherent, Kept, NEW w \in Workers, WorkerStep(w), Calm'
    PROVE  (\A p \in Procs : keyCache[p] \in {0, rec})' /\ (\A x \in Workers : CoherentAt(x))'
<1>1. Calm /\ Quiet({"expiry"}) /\ TypeOK /\ [Next]_vars
  BY ConditionsHeld DEF Base, Calm, Next, WorkerStep
<1>2. /\ \A p \in Procs : keyCache[p] \in {0, rec}
      /\ \A x \in Workers : CoherentAt(x)
  BY <1>1 DEF Coherent
<1>3. /\ pc \in [Workers -> PCs] /\ stage \in [Workers -> Stages] /\ local \in [Workers -> Locals]
      /\ keyCache \in [Procs -> Nat] /\ ProcOf[w] \in Procs /\ lastMsg \in Nat
  BY <1>1, IngestAssumption DEF TypeOK
<1>4. \A x \in Workers \ {w} : pc'[x] = pc[x] /\ stage'[x] = stage[x] /\ local'[x] = local[x]
  BY <1>1, OthersRest
<1>5. CASE rec' # rec
  <2>1. /\ PersistFile(w) \/ PersistUnanswered(w)
        /\ pc[w] = "persist" /\ rec' = local[w].cand
    BY <1>1, <1>5, RecordWritten
  <2>2. rec \in {0, local[w].stale}
    BY <1>2, <2>1 DEF CoherentAt
  <2>3. stage[w] = "locked" /\ Critical(w)
    BY <2>1 DEF Base, Placed, PlacedAt, Critical
  <2>4. ASSUME NEW x \in Workers \ {w} PROVE CoherentAt(x)'
    <3>1. ~Critical(x)
      BY <1>1, <2>3, AloneUnderLock DEF Base
    <3>2. UnderLock
      BY DEF Base, LockInv
    <3> QED BY <1>4, <3>1, <3>2 DEF CoherentAt, Critical, UnderLock
  <2>5. CoherentAt(w)'
    <3>1. pc'[w] \in {"release", "unlock", "find"}
      BY <1>3, <2>1 DEF PersistFile, PersistUnanswered, Reread, Leave, Goto
    <3> QED BY <3>1 DEF CoherentAt
  <2>6. ASSUME NEW p \in Procs PROVE keyCache'[p] \in {0, rec'}
    <3>1. CASE PersistFile(w) /\ p = ProcOf[w]
      BY <1>3, <2>1, <3>1 DEF PersistFile
    <3>2. CASE PersistUnanswered(w) /\ p = ProcOf[w] /\ local[w].stale # 0
      BY <1>3, <3>2 DEF PersistUnanswered, Reread
    <3>3. CASE local[w].stale = 0
      <4>1. keyCache[p] = 0
        BY <1>2, <2>2, <3>3
      <4> QED BY <1>3, <2>1, <3>1, <3>3, <4>1 DEF PersistFile, PersistUnanswered, Reread
    <3>4. CASE p # ProcOf[w] /\ local[w].stale # 0
      <4>1. Gentle
        BY <1>1, <1>3, <3>4 DEF Calm, OneProcess
      <4> QED BY <3>4, <4>1 DEF Kept, KeptAt
    <3> QED BY <2>1, <3>1, <3>2, <3>3, <3>4
  <2> QED BY <2>4, <2>5, <2>6
<1>6. CASE rec' = rec
  <2>1. \A p \in Procs : keyCache'[p] \in {0, rec'}
    BY <1>1, <1>2, <1>6, RecordStep
  <2>2. CoherentAt(w)'
    <3> USE <1>2, <1>3, <1>6 DEF CoherentAt, Goto, Leave, Locals
    <3>1. CASE FindFileByKey(w)
      <4>1. local'[w].seen = IF keyCache[ProcOf[w]] # 0 THEN keyCache[ProcOf[w]] ELSE rec
        BY <3>1 DEF FindFileByKey
      <4>2. local'[w].seen = rec
        BY <4>1
      <4>3. stage' = stage /\ local'[w].cand = local[w].cand
        BY <3>1 DEF FindFileByKey
      <4>4. \/ rec = 0 /\ AfterLookup(w)
            \/ pc'[w] = "validate"
        BY <3>1, <4>1, <4>2 DEF FindFileByKey
      <4>5. pc'[w] # "persist"
        BY <1>1, <3>1, AfterLookupGoes DEF FindFileByKey
      <4> QED BY <4>2, <4>3, <4>4, <4>5
    <3>2. CASE RecordIsStale(w)
      <4>1. stage' = stage /\ AfterLookup(w) /\ pc[w] = "validate"
        BY <3>2 DEF RecordIsStale
      <4>2. \/ pc'[w] \in {"acquire", "discard"}
            \/ stage[w] = "locked" /\ pc'[w] = "forward"
        BY <1>1, <4>1, AfterLookupGoes
      <4>3. stage[w] = "locked" => local'[w].stale = local[w].seen
        BY <3>2 DEF RecordIsStale
      <4> QED BY <4>1, <4>2, <4>3
    <3>3. CASE ForwardLands(w)
      <4>1. rec # lastMsg + 1
        BY DEF Base, HistoryInv, Numbered
      <4> QED BY <3>3, <4>1 DEF ForwardLands, NewMessage
    <3>4. CASE SendForward(w) BY <3>4 DEF SendForward
    <3>5. CASE ForwardErrs(w) BY <3>5 DEF ForwardErrs
    <3>6. CASE AcquireIngestLock(w) \/ InspectLock(w) \/ UnlinkLock(w) \/ ReinsertLock(w)
      BY <3>6 DEF AcquireIngestLock, InspectLock, UnlinkLock, ReinsertLock, Acquired, NotAcquired
    <3>7. CASE PersistFile(w) \/ PersistRefused(w) \/ PersistUnanswered(w)
      BY <3>7 DEF PersistFile, PersistRefused, PersistUnanswered, Reread
    <3> QED BY <3>1, <3>2, <3>3, <3>4, <3>5, <3>6, <3>7
            DEF WorkerStep, Step, fileMutex, LockMutex, UnlockMutex, FindFileByKeyFails,
                LookupFails, ReuseRecord, ValidateFails, AcquireFails, WaitForLock,
                ReleaseIngestLock, ForwardIsUnusable, AbandonForward, DeleteMessages
  <2>3. \A x \in Workers \ {w} : CoherentAt(x)'
    BY <1>2, <1>4, <1>6 DEF CoherentAt
  <2> QED BY <2>1, <2>2, <2>3
<1> QED BY <1>5, <1>6

\* While nothing is lost and no second call fails, a record's copy survives every
\* step: what is deleted is the goroutine's own copy, of which it knows by a second
\* look at the record that it is not the record's.
LEMMA KeptKeptByStep ==
    ASSUME Base, Coherent, Kept, NEW w \in Workers, WorkerStep(w), Gentle'
    PROVE  (rec = 0 \/ rec \in vault)' /\ (\A x \in Workers : KeptAt(x))'
<1>1. /\ TypeOK /\ [Next]_vars /\ Gentle /\ Calm /\ Quiet({"timeout", "expiry", "loss"})
      /\ Quiet({"timeout", "expiry", "loss"})'
      /\ spent["fault"] \in Nat /\ spent'["fault"] \in Nat /\ spent["fault"] <= spent'["fault"]
      /\ spent["fault"] <= 1 /\ spent'["fault"] <= 1
  BY ConditionsHeld, SpentGrows DEF Base, Gentle, Next, WorkerStep, Kinds, Failures
<1>2. /\ \A p \in Procs : keyCache[p] \in {0, rec}
      /\ \A x \in Workers : CoherentAt(x)
      /\ rec = 0 \/ rec \in vault
      /\ \A x \in Workers : KeptAt(x)
  BY <1>1 DEF Coherent, Kept
<1>3. /\ pc \in [Workers -> PCs] /\ stage \in [Workers -> Stages] /\ local \in [Workers -> Locals]
      /\ keyCache \in [Procs -> Nat] /\ ProcOf[w] \in Procs /\ lastMsg \in Nat
      /\ ctxDone \in [Workers -> BOOLEAN] /\ spent \in [Kinds -> Nat] /\ rec \in Nat
      /\ 0 \notin vault
  BY <1>1, IngestAssumption DEF TypeOK, Base, HistoryInv, Numbered
<1>4. \A x \in Workers \ {w} :
         /\ pc'[x] = pc[x] /\ stage'[x] = stage[x] /\ local'[x] = local[x]
         /\ ctxDone'[x] = ctxDone[x]
  BY <1>1, OthersRest
<1>5. PlacedAt(w) /\ UnderLock
  BY DEF Base, Placed, LockInv
<1>6. \A x \in Workers \ {w} : Critical(w) => ~Critical(x)
  BY <1>1, AloneUnderLock DEF Base, Quiet
\* A call that fails is the first.
<1>7. /\ Spend("fault") => spent["fault"] = 0 /\ spent'["fault"] = 1
      /\ ~Spend("timeout")
  <2>1. Spend("fault") => spent'["fault"] = spent["fault"] + 1
    BY <1>3 DEF Spend, Kinds, Failures
  <2>2. Spend("timeout") => spent'["timeout"] = spent["timeout"] + 1 /\ spent["timeout"] = 0
    BY <1>1, <1>3 DEF Spend, Kinds, Failures, Quiet
  <2> QED BY <1>1, <2>1, <2>2 DEF Quiet
<1>8. CallFails(w) => Spend("fault")
  BY <1>2 DEF CallFails, KeptAt
<1>9. CASE rec' # rec
  <2>1. /\ PersistFile(w) \/ PersistUnanswered(w)
        /\ pc[w] = "persist" /\ rec' = local[w].cand /\ vault' = vault
    BY <1>1, <1>9, RecordWritten
  <2>2. rec = 0 /\ local[w].cand \in vault /\ Critical(w)
    BY <1>2, <1>5, <2>1 DEF CoherentAt, KeptAt, PlacedAt, Critical
  <2>3. ASSUME NEW x \in Workers \ {w} PROVE KeptAt(x)'
    <3>1. \/ pc[x] # "persist" /\ pc[x] # "discard" /\ stage[x] # "persistErr"
          \/ pc[x] \in {"unlock", "done"}
      BY <1>5, <1>6, <2>2 DEF Critical, UnderLock
    <3>2. stage[x] = "persistErr" => spent'["fault"] = 1
      BY <1>1, <1>2 DEF KeptAt
    <3> QED BY <1>2, <1>4, <2>2, <3>1, <3>2 DEF KeptAt
  <2>4. KeptAt(w)'
    <3>1. CASE PersistFile(w)
      <4>1. pc'[w] \in {"release", "unlock"} /\ stage'[w] = "locked"
        BY <1>3, <1>5, <2>1, <3>1 DEF PersistFile, Leave, Goto, PlacedAt
      <4>2. local'[w].stale = local[w].stale /\ local'[w].seen = local[w].seen /\ ~ctxDone'[w]
        BY <1>3, <3>1 DEF PersistFile, Locals
      <4> QED BY <1>2, <2>2, <4>1, <4>2 DEF KeptAt
    <3>2. CASE PersistUnanswered(w)
      <4>1. pc'[w] = "find" /\ local' = local
        BY <1>3, <3>2 DEF PersistUnanswered, Reread, Goto
      <4>2. Spend("fault") /\ ctxDone' = ctxDone
        BY <1>7, <3>2 DEF PersistUnanswered
      <4> QED BY <1>2, <1>7, <2>1, <2>2, <4>1, <4>2 DEF KeptAt
    <3> QED BY <2>1, <3>1, <3>2
  <2> QED BY <2>1, <2>2, <2>3, <2>4
<1>10. CASE rec' = rec
  \* What leaves the vault is a copy nobody needs.
  <2>1. \/ vault \subseteq vault'
        \/ /\ pc[w] = "discard" /\ vault' = vault \ {local[w].cand}
    <3>1. CASE ReuseRecord(w)
      <4>1. vault' \in {vault, vault \ ({local[w].cand} \ {local[w].seen})} /\ pc[w] = "validate"
        BY <3>1 DEF ReuseRecord
      <4>2. local[w].cand \in {0, local[w].seen}
        <5>1. local[w].seen = rec /\ rec # 0
          BY <1>2, <1>5, <4>1 DEF KeptAt, PlacedAt
        <5>2. stage[w] \in Stages
          BY <1>3
        <5> QED BY <1>2, <1>5, <4>1, <5>1, <5>2 DEF KeptAt, PlacedAt, Stages
      <4> QED BY <1>3, <4>1, <4>2
    <3>2. CASE DeleteMessages(w) BY <3>2 DEF DeleteMessages
    <3>3. CASE ForwardLands(w) \/ ForwardIsUnusable(w) \/ ForwardErrs(w)
      BY <3>3 DEF ForwardLands, ForwardIsUnusable, ForwardErrs, NewMessage, vaultVars
    <3>4. CASE UNCHANGED vault
      BY <3>4
    <3> QED BY <3>1, <3>2, <3>3, <3>4
            DEF WorkerStep, Step, vaultVars, fileMutex, LockMutex, UnlockMutex, FindFileByKey,
                FindFileByKeyFails, RecordIsStale, ValidateFails, AcquireIngestLock, InspectLock,
                UnlinkLock, ReinsertLock, AcquireFails, WaitForLock, ReleaseIngestLock, SendForward,
                AbandonForward, PersistFile, PersistRefused, PersistUnanswered
  <2>2. rec' = 0 \/ rec' \in vault'
    BY <1>2, <1>10, <2>1 DEF KeptAt
  <2>3. ASSUME NEW x \in Workers \ {w} PROVE KeptAt(x)'
    <3>1. pc[x] = "persist" => local[x].cand \in vault'
      <4>1. CASE pc[w] = "discard"
        <5>1. pc[x] # "persist"
          BY <1>5, <1>6, <4>1 DEF Critical, UnderLock
        <5> QED BY <5>1
      <4>2. CASE vault \subseteq vault'
        BY <1>2, <4>2 DEF KeptAt
      <4> QED BY <2>1, <4>1, <4>2
    <3>2. stage[x] = "persistErr" => spent'["fault"] = 1
      BY <1>1, <1>2 DEF KeptAt
    <3> QED BY <1>2, <1>4, <1>10, <3>1, <3>2 DEF KeptAt
  <2>4. KeptAt(w)'
    <3> USE <1>3, <1>10 DEF Goto, Leave, Locals
    <3>1. CASE FindFileByKey(w)
      <4>1. local'[w].seen \in {0, rec} /\ local'[w].stale = local[w].stale
            /\ local'[w].cand = local[w].cand
        BY <1>2, <3>1 DEF FindFileByKey
      <4>2. ctxDone' = ctxDone /\ stage' = stage /\ spent' = spent /\ pc[w] = "find"
        BY <3>1 DEF FindFileByKey
      <4>3. pc'[w] # "persist"
        BY <1>1, <3>1, AfterLookupGoes DEF FindFileByKey
      <4>4. pc'[w] = "discard" => rec = 0 /\ stage[w] = "persistErr"
        BY <1>1, <1>2, <3>1, AfterLookupGoes DEF FindFileByKey
      <4>5. stage[w] = "persistErr" => local[w].cand # 0
        BY <1>5 DEF PlacedAt
      <4> QED BY <1>2, <4>1, <4>2, <4>3, <4>4, <4>5 DEF KeptAt
    <3>2. CASE ReuseRecord(w)
      <4>1. pc'[w] \in {"release", "unlock"} /\ local'[w].seen = 0
            /\ local'[w].stale = local[w].stale
        BY <3>2 DEF ReuseRecord
      <4>2. UNCHANGED <<stage, ctxDone>>
        BY <3>2 DEF ReuseRecord
      <4>3. stage[w] = "persistErr" => spent'["fault"] = 1
        BY <1>1, <1>2 DEF KeptAt
      <4> QED BY <1>2, <4>1, <4>2, <4>3 DEF KeptAt
    <3>3. CASE RecordIsStale(w)
      <4>1. local[w].seen = rec /\ rec # 0 /\ rec \notin vault
        BY <1>2, <1>5, <3>3 DEF KeptAt, PlacedAt, RecordIsStale
      <4> QED BY <1>2, <4>1
    <3>4. CASE FindFileByKeyFails(w) \/ ValidateFails(w)
      <4>1. Spend("fault") /\ stage[w] # "persistErr"
        BY <1>2, <1>7, <1>8, <3>4 DEF FindFileByKeyFails, ValidateFails, KeptAt
      <4>2. pc'[w] \in {"release", "unlock"} /\ local'[w].seen \in {0, local[w].seen}
            /\ local'[w].stale = local[w].stale
        BY <3>4, <4>1 DEF FindFileByKeyFails, ValidateFails, LookupFails
      <4>3. UNCHANGED <<stage, ctxDone>>
        BY <3>4 DEF FindFileByKeyFails, ValidateFails
      <4> QED BY <1>2, <4>1, <4>2, <4>3 DEF KeptAt
    <3>5. CASE PersistRefused(w)
      <4>1. Writable(w)
        BY <1>2, <3>5 DEF PersistRefused, CoherentAt, KeptAt, Writable
      <4>2. Spend("fault")
        BY <1>8, <3>5, <4>1 DEF PersistRefused
      <4>3. pc'[w] = "find" /\ UNCHANGED <<local, ctxDone>> /\ rec = 0
        BY <1>2, <3>5 DEF PersistRefused, Reread, CoherentAt, KeptAt
      <4> QED BY <1>2, <1>7, <4>2, <4>3 DEF KeptAt
    <3>6. CASE PersistFile(w) \/ PersistUnanswered(w)
      <4>1. rec = local[w].cand /\ pc[w] = "persist"
        BY <3>6 DEF PersistFile, PersistUnanswered
      <4> QED BY <1>2, <4>1 DEF CoherentAt
    <3>7. CASE ForwardLands(w)
      <4>1. UNCHANGED <<stage, ctxDone, spent>> /\ lastMsg' \in vault'
        BY <3>7 DEF ForwardLands, NewMessage
      <4>2. CASE pc[w] = "awaiting"
        BY <1>2, <3>7, <4>1, <4>2 DEF ForwardLands, KeptAt
      <4>3. CASE pc[w] # "awaiting"
        BY <1>2, <3>7, <4>1, <4>3 DEF ForwardLands, NewMessage, KeptAt
      <4> QED BY <4>2, <4>3
    <3>8. CASE ForwardIsUnusable(w)
      <4>1. rec # lastMsg + 1 /\ stage[w] = "locked"
        BY <1>5, <3>8 DEF Base, HistoryInv, Numbered, ForwardIsUnusable, PlacedAt
      <4> QED BY <1>2, <3>8, <4>1 DEF ForwardIsUnusable, NewMessage, KeptAt
    <3>9. CASE ForwardErrs(w)
      <4>1. UNCHANGED <<stage, ctxDone, local>> /\ vault \subseteq vault' /\ Spend("fault")
        BY <3>9 DEF ForwardErrs, NewMessage, vaultVars
      <4>2. pc'[w] \in {pc[w], "forward", "release", "unlock"}
        BY <3>9 DEF ForwardErrs
      <4> QED BY <1>2, <1>7, <4>1, <4>2 DEF KeptAt
    <3>10. CASE AcquireIngestLock(w) \/ InspectLock(w) \/ UnlinkLock(w) \/ ReinsertLock(w)
                \/ AcquireFails(w) \/ WaitForLock(w)
      <4>1. /\ pc'[w] \notin {"persist", "discard"} /\ ctxDone' = ctxDone
            /\ local'[w].seen = local[w].seen /\ local'[w].stale = local[w].stale
        BY <3>10 DEF AcquireIngestLock, InspectLock, UnlinkLock, ReinsertLock, AcquireFails,
                     WaitForLock, Acquired, NotAcquired
      <4>2. stage'[w] # "persistErr"
        BY <1>5, <3>10 DEF AcquireIngestLock, InspectLock, UnlinkLock, ReinsertLock, AcquireFails,
                           WaitForLock, Acquired, NotAcquired, PlacedAt
      <4> QED BY <1>2, <4>1, <4>2 DEF KeptAt
    <3>11. CASE fileMutex(w) \/ LockMutex(w) \/ UnlockMutex(w)
      BY <1>2, <1>5, <3>11 DEF fileMutex, LockMutex, UnlockMutex, NoLocals, KeptAt, PlacedAt
    <3>12. CASE ReleaseIngestLock(w) \/ DeleteMessages(w) \/ AbandonForward(w) \/ SendForward(w)
      <4>1. /\ pc'[w] \in {"release", "unlock", "awaiting"} /\ UNCHANGED <<ctxDone, stage>>
            /\ local'[w].seen = local[w].seen /\ local'[w].stale = local[w].stale
        BY <3>12 DEF ReleaseIngestLock, DeleteMessages, AbandonForward, SendForward
      <4>2. stage[w] = "persistErr" => spent'["fault"] = 1
        BY <1>1, <1>2 DEF KeptAt
      <4> QED BY <1>2, <4>1, <4>2 DEF KeptAt
    <3> QED BY <3>1, <3>2, <3>3, <3>4, <3>5, <3>6, <3>7, <3>8, <3>9, <3>10, <3>11, <3>12
            DEF WorkerStep, Step
  <2> QED BY <2>2, <2>3, <2>4
<1> QED BY <1>9, <1>10

\* As long as no call fails, a goroutine keeps its copy to itself from the moment the
\* forward has landed to the moment the record is written, when it replaces one whose
\* copy is gone.
LEMMA TidyKeptByStep ==
    ASSUME Base, Coherent, Tidy, NEW w \in Workers, WorkerStep(w), Smooth'
    PROVE  /\ (\A x \in Workers : TidyAt(x))'
           /\ (\A m \in vault :
                  m = rec \/ \E x \in Workers : pc[x] = "persist" /\ local[x].cand = m)'
<1>1. /\ TypeOK /\ [Next]_vars /\ Smooth /\ Calm /\ Quiet({"fault", "timeout", "expiry", "crash"})
      /\ spent["fault"] \in Nat /\ spent["timeout"] \in Nat
      /\ spent'["fault"] = 0 /\ spent'["timeout"] = 0
  BY ConditionsHeld, SpentGrows DEF Base, Smooth, Quiet, Next, WorkerStep, Kinds, Failures
<1>2. /\ \A x \in Workers : CoherentAt(x) /\ TidyAt(x)
      /\ \A m \in vault : m = rec \/ \E x \in Workers : pc[x] = "persist" /\ local[x].cand = m
  BY <1>1 DEF Coherent, Tidy
<1>3. /\ pc \in [Workers -> PCs] /\ stage \in [Workers -> Stages] /\ local \in [Workers -> Locals]
      /\ ctxDone \in [Workers -> BOOLEAN] /\ spent \in [Kinds -> Nat]
      /\ forwarding \in [Workers -> BOOLEAN] /\ 0 \notin vault
  BY <1>1 DEF TypeOK, Base, HistoryInv, Numbered
<1>4. \A x \in Workers \ {w} :
         /\ pc'[x] = pc[x] /\ stage'[x] = stage[x] /\ local'[x] = local[x]
         /\ ctxDone'[x] = ctxDone[x] /\ forwarding'[x] = forwarding[x]
  BY <1>1, OthersRest
<1>5. PlacedAt(w) /\ UnderLock
  BY DEF Base, Placed, LockInv
\* Nothing fails.
<1>6. ~Spend("fault") /\ ~Spend("timeout") /\ ~CallFails(w)
  <2>1. Spend("fault") => spent'["fault"] = spent["fault"] + 1
    BY <1>3 DEF Spend, Kinds, Failures
  <2>2. Spend("timeout") => spent'["timeout"] = spent["timeout"] + 1
    BY <1>3 DEF Spend, Kinds, Failures
  <2> QED BY <1>1, <1>2, <2>1, <2>2 DEF CallFails, TidyAt
\* A goroutine about to write can do so.
<1>7. pc[w] = "persist" => Writable(w)
  BY <1>2 DEF CoherentAt, Writable
<1>8. TidyAt(w)'
  <2> USE <1>2, <1>3, <1>6 DEF TidyAt, Goto, Leave
  <2>1. CASE FindFileByKey(w) \/ RecordIsStale(w)
    <3>1. pc'[w] # "discard" /\ UNCHANGED <<stage, ctxDone, forwarding>> /\ pc[w] # "awaiting"
      BY <1>1, <2>1, AfterLookupGoes DEF FindFileByKey, RecordIsStale
    <3> QED BY <3>1
  <2>2. CASE PersistRefused(w) \/ PersistUnanswered(w)
    BY <1>7, <2>2 DEF PersistRefused, PersistUnanswered
  <2>3. CASE DeleteMessages(w)
    BY <2>3 DEF DeleteMessages
  <2>4. CASE AcquireIngestLock(w) \/ InspectLock(w) \/ UnlinkLock(w) \/ ReinsertLock(w)
    BY <2>4 DEF AcquireIngestLock, InspectLock, UnlinkLock, ReinsertLock, Acquired, NotAcquired
  <2>5. CASE ForwardLands(w) \/ ForwardIsUnusable(w) \/ ForwardErrs(w)
    BY <2>5 DEF ForwardLands, ForwardIsUnusable, ForwardErrs
  <2>6. CASE SendForward(w)
    BY <2>6 DEF SendForward
  <2>7. CASE FindFileByKeyFails(w) \/ ValidateFails(w) \/ AcquireFails(w) \/ AbandonForward(w)
    BY <2>7 DEF FindFileByKeyFails, ValidateFails, AcquireFails, AbandonForward
  <2> QED BY <2>1, <2>2, <2>3, <2>4, <2>5, <2>6, <2>7
          DEF WorkerStep, Step, fileMutex, LockMutex, UnlockMutex, ReuseRecord, WaitForLock,
              ReleaseIngestLock, PersistFile
<1>9. ASSUME NEW m \in vault'
      PROVE  m = rec' \/ \E x \in Workers : pc'[x] = "persist" /\ local'[x].cand = m
  <2>1. CASE ForwardLands(w)
    <3>1. pc[w] = "awaiting" /\ rec' = rec
      BY <1>2, <2>1 DEF TidyAt, ForwardLands, dbVars
    <3>2. pc'[w] = "persist" /\ local'[w].cand = lastMsg'
      BY <1>3, <2>1, <3>1 DEF ForwardLands, Goto, Locals
    <3>3. m \in vault \/ m = lastMsg'
      BY <1>9, <2>1 DEF ForwardLands, NewMessage
    <3> QED BY <1>2, <1>4, <3>1, <3>2, <3>3
  <2>2. CASE PersistFile(w)
    <3>1. rec' = local[w].cand /\ vault' = vault /\ pc[w] = "persist"
      BY <2>2 DEF PersistFile, vaultVars
    <3>2. rec \notin vault
      BY <1>2, <1>3, <3>1 DEF CoherentAt, Base, HistoryInv, GoneForGood
    <3>3. PICK x \in Workers : pc[x] = "persist" /\ local[x].cand = m
      BY <1>2, <1>9, <3>1, <3>2
    <3>4. Critical(x) /\ Critical(w)
      BY <1>5, <3>1, <3>3 DEF Critical, UnderLock
    <3>5. x = w
      BY <1>1, <3>4, AloneUnderLock DEF Base, Quiet
    <3> QED BY <3>1, <3>3, <3>5
  <2>3. CASE vault' \subseteq vault /\ rec' = rec /\ pc[w] # "persist"
    BY <1>2, <1>4, <1>9, <2>3
  <2>4. CASE ForwardIsUnusable(w) \/ ForwardErrs(w)
    BY <1>6, <2>4 DEF ForwardIsUnusable, ForwardErrs
  <2>5. CASE PersistRefused(w) \/ PersistUnanswered(w)
    BY <1>6, <1>7, <2>5 DEF PersistRefused, PersistUnanswered
  <2> QED BY <2>1, <2>2, <2>3, <2>4, <2>5
          DEF WorkerStep, Step, dbVars, vaultVars, fileMutex, LockMutex, UnlockMutex, FindFileByKey,
              FindFileByKeyFails, ReuseRecord, RecordIsStale, ValidateFails, AcquireIngestLock,
              InspectLock, UnlinkLock, ReinsertLock, AcquireFails, WaitForLock, ReleaseIngestLock,
              SendForward, AbandonForward, DeleteMessages
<1>10. \A x \in Workers \ {w} : TidyAt(x)'
  BY <1>2, <1>4 DEF TidyAt
<1> QED BY <1>8, <1>9, <1>10

CopyInv == Coherent /\ Kept /\ Tidy

LEMMA CopyInit == Init => CopyInv
<1> SUFFICES ASSUME Init PROVE CopyInv
  OBVIOUS
<1> USE DEF Init, NoLocals
<1>1. Coherent
  BY DEF Coherent, CoherentAt
<1>2. Kept
  BY DEF Kept, KeptAt
<1>3. Tidy
  BY DEF Tidy, TidyAt
<1> QED BY <1>1, <1>2, <1>3 DEF CopyInv

LEMMA CopyKeptByEnvironment ==
    ASSUME Base, CopyInv, Environment
    PROVE  CopyInv'
<1> USE DEF CopyInv, workerVars, vaultVars
<1>1. /\ TypeOK /\ [Next]_vars
      /\ Gentle' => Gentle
      /\ Calm' => Calm
      /\ Smooth' => Smooth
      /\ Gentle => Calm
  BY ConditionsHeld DEF Base, Next
<1>2. spent \in [Kinds -> Nat] /\ ctxDone \in [Workers -> BOOLEAN] /\ keyCache \in [Procs -> Nat]
  BY <1>1 DEF TypeOK
<1>3. \A k \in Kinds : Spend(k) => spent'[k] > 0
  BY <1>2 DEF Spend
<1>4. CASE UNCHANGED <<rec, vault, workerVars, ctxDone>> /\ spent'["fault"] = spent["fault"]
           /\ \A p \in Procs : keyCache'[p] \in {0, keyCache[p]}
  <2>1. Coherent'
    BY <1>1, <1>4 DEF Coherent, CoherentAt, OneProcess
  <2>2. Kept'
    BY <1>1, <1>4 DEF Kept, KeptAt
  <2>3. Tidy'
    BY <1>1, <1>4 DEF Tidy, TidyAt
  <2> QED BY <2>1, <2>2, <2>3
<1>5. ASSUME NEW w \in Workers, ContextDone(w) PROVE CopyInv'
  <2>1. ~Gentle' /\ ~Smooth'
    BY <1>3, <1>5 DEF ContextDone, Gentle, Smooth, Quiet, Kinds, Failures
  <2>2. Coherent'
    BY <1>1, <1>5 DEF Coherent, CoherentAt, ContextDone, dbVars
  <2> QED BY <2>1, <2>2 DEF Kept, Tidy
<1>6. CASE LoseMessage
  <2>1. ~Gentle'
    BY <1>3, <1>6 DEF LoseMessage, Gentle, Quiet, Kinds, Failures
  <2>2. Coherent'
    BY <1>1, <1>6 DEF Coherent, CoherentAt, LoseMessage, dbVars
  <2>3. Tidy'
    BY <1>1, <1>6 DEF Tidy, TidyAt, LoseMessage, dbVars
  <2> QED BY <2>1, <2>2, <2>3 DEF Kept
<1>7. ASSUME NEW p \in Procs, EvictRecord(p) PROVE CopyInv'
  <2>1. /\ rec # 0 /\ rec \notin vault /\ rec' = 0
        /\ keyCache' = [keyCache EXCEPT ![p] = 0]
        /\ UNCHANGED <<vault, pc, stage, local, forwarding, ctxDone, spent>>
    BY <1>7 DEF EvictRecord
  <2>2. ~Gentle /\ ~Gentle'
    BY <1>1, <2>1 DEF Kept
  <2>3. Coherent'
    <3> SUFFICES ASSUME Calm' PROVE (\A q \in Procs : keyCache[q] \in {0, rec})' /\ (\A w \in Workers : CoherentAt(w))'
      BY DEF Coherent
    <3>1. OneProcess
      BY <2>2 DEF Calm, OneProcess
    <3>2. \A q \in Procs : keyCache'[q] = 0
      BY <1>2, <2>1, <3>1 DEF OneProcess
    <3>3. ASSUME NEW w \in Workers PROVE CoherentAt(w)'
      <4>1. pc[w] = "persist" => local[w].cand # 0
        BY DEF Base, Placed, PlacedAt
      <4> QED BY <2>1, <4>1 DEF CoherentAt
    <3> QED BY <3>2, <3>3
  <2>4. Tidy'
    BY <1>1, <2>1 DEF Tidy, TidyAt
  <2> QED BY <2>2, <2>3, <2>4 DEF Kept
<1>8. ASSUME NEW p \in Procs, Crash(p) PROVE CopyInv'
  <2>1. /\ UNCHANGED <<rec, vault, ctxDone>>
        /\ spent'["fault"] = spent["fault"] /\ ~Smooth'
        /\ \A q \in Procs : keyCache'[q] \in {0, keyCache[q]}
    BY <1>2, <1>3, <1>8 DEF Crash, Spend, Kinds, Failures, Smooth, Quiet
  <2>2. ASSUME NEW w \in Workers
        PROVE  \/ pc'[w] = pc[w] /\ stage'[w] = stage[w] /\ local'[w] = local[w]
               \/ pc'[w] = "done" /\ stage'[w] = "entry" /\ local'[w] = NoLocals
    BY <1>8 DEF Crash
  <2>3. Coherent'
    BY <1>1, <2>1, <2>2 DEF Coherent, CoherentAt, OneProcess
  <2>4. Kept'
    BY <1>1, <2>1, <2>2 DEF Kept, KeptAt, NoLocals
  <2> QED BY <2>1, <2>3, <2>4 DEF Tidy
<1>9. ASSUME NEW p \in Procs, CacheExpires(p) PROVE CopyInv'
  BY <1>2, <1>4, <1>9 DEF CacheExpires, Spend, Kinds, Failures
<1>10. ASSUME NEW p \in Procs, CleanupDedupMu(p) \/ EvictMutex(p) PROVE CopyInv'
  BY <1>2, <1>4, <1>10 DEF CleanupDedupMu, EvictMutex, dbVars, Spend, Kinds, Failures
<1>11. CASE LockExpires \/ ReapLock
  BY <1>2, <1>4, <1>11 DEF LockExpires, ReapLock, dbVars, Spend, Kinds, Failures
<1> QED BY <1>5, <1>6, <1>7, <1>8, <1>9, <1>10, <1>11 DEF Environment

LEMMA CopyStep == Base /\ CopyInv /\ [Next]_vars => CopyInv'
<1> SUFFICES ASSUME Base, CopyInv, [Next]_vars PROVE CopyInv'
  OBVIOUS
<1>1. ASSUME NEW w \in Workers, WorkerStep(w) PROVE CopyInv'
  <2>1. Coherent'
    BY <1>1, CoherentKeptByStep DEF CopyInv, Coherent
  <2>2. Kept'
    BY <1>1, KeptKeptByStep DEF CopyInv, Kept
  <2>3. Tidy'
    BY <1>1, TidyKeptByStep DEF CopyInv, Tidy
  <2> QED BY <2>1, <2>2, <2>3 DEF CopyInv
<1>2. CASE Environment
  BY <1>2, CopyKeptByEnvironment
<1>3. CASE UNCHANGED vars
  BY <1>3 DEF vars, CopyInv, Coherent, CoherentAt, Kept, KeptAt, Tidy, TidyAt, Gentle, Calm, Smooth,
              OneProcess, Quiet
<1> QED BY <1>1, <1>2, <1>3 DEF Next, Finished, WorkerStep

\* Everything that is known of the state, together.
IngestInv == TypeInv /\ Base /\ CopyInv

\* The base of the theorems about copies: types, the lock's holder, the history of the
\* vault, and, under what each needs, what caches, writers and copies agree on.
THEOREM IngestInvariant == Spec => []IngestInv
<1>1. Init => IngestInv
  <2>1. Init => Placed
    BY DEF Init, Placed, PlacedAt, NoLocals
  <2> QED BY <2>1, TypeInit, LockInit, HistoryInit, CopyInit DEF IngestInv, Base, TypeInv
<1>2. IngestInv /\ [Next]_vars => IngestInv'
  <2> SUFFICES ASSUME IngestInv, [Next]_vars PROVE IngestInv'
    OBVIOUS
  <2>1. TypeInv'
    BY TypeStep DEF IngestInv
  <2>2. LockInv' /\ HistoryInv'
    BY LockStep, HistoryStep DEF IngestInv, Base
  <2>3. Placed'
    BY PlacedStep DEF IngestInv, Base, LockInv
  <2>4. CopyInv'
    BY CopyStep DEF IngestInv
  <2> QED BY <2>1, <2>2, <2>3, <2>4 DEF IngestInv, Base, TypeInv
<1> QED BY <1>1, <1>2, PTL DEF Spec

\* ingest.go:1-4: when nothing fails, expires or is lost, the vault never holds two
\* copies of the file, however many goroutines of however many processes are given it
\* at once, and whatever the caches and the map of mutexes forget meanwhile.
THEOREM OneCopyOnly == Spec => []OneCopy
<1>1. IngestInv => OneCopy
  <2> SUFFICES ASSUME IngestInv, Quiet(Failures) PROVE Cardinality(vault) <= 1
    BY DEF OneCopy
  <2>1. Smooth /\ Calm /\ Quiet({"expiry"})
    BY DEF Quiet, Smooth, Calm, Gentle, Failures
  <2>2. /\ \A w \in Workers : CoherentAt(w)
        /\ \A m \in vault : m = rec \/ \E w \in Workers : pc[w] = "persist" /\ local[w].cand = m
    BY <2>1 DEF IngestInv, CopyInv, Coherent, Tidy
  <2>3. ASSUME NEW m \in vault, NEW n \in vault PROVE m = n
    <3>1. ASSUME NEW w \in Workers, pc[w] = "persist"
          PROVE  rec \notin vault /\ Critical(w)
      BY <2>2, <3>1 DEF CoherentAt, IngestInv, Base, HistoryInv, Numbered, GoneForGood, LockInv,
                        UnderLock, Critical
    <3>2. ASSUME NEW v \in Workers, NEW w \in Workers, pc[v] = "persist", pc[w] = "persist"
          PROVE  v = w
      BY <2>1, <3>1, <3>2, AloneUnderLock DEF IngestInv, Base
    <3> QED BY <2>2, <2>3, <3>1, <3>2
  <2>4. CASE vault = {}
    BY <2>4, FS_EmptySet
  <2>5. CASE vault # {}
    <3>1. PICK m : vault = {m}
      BY <2>3, <2>5
    <3>2. Cardinality(vault) = 1
      BY <3>1, FS_Singleton
    <3> QED BY <3>2
  <2> QED BY <2>4, <2>5
<1> QED BY <1>1, IngestInvariant, PTL

\* No copy leaks while no call fails: with one process, vault messages being lost at
\* any time, every copy is the record's or belongs to a goroutine still at work.
THEOREM NothingLeaks == Spec => []NoLeak
<1>1. IngestInv => NoLeak
  <2> SUFFICES ASSUME IngestInv, Quiet(Failures \ {"loss"}),
                      Quiet({"loss"}) \/ Cardinality(Procs) = 1
               PROVE  \A m \in vault : m = rec \/ \E w \in Workers : Active(w) /\ local[w].cand = m
    BY DEF NoLeak
  <2>1. Cardinality(Procs) = 1 => OneProcess
    BY FS_Singleton, IngestAssumption DEF OneProcess
  <2>2. Smooth
    BY <2>1 DEF Smooth
  <2> QED BY <2>2 DEF IngestInv, CopyInv, Tidy, Active
<1> QED BY <1>1, IngestInvariant, PTL

\* ingest.go:448: a write that may have been applied although it erred does not cost
\* the record its copy, as long as no context ends and no second call fails.
THEOREM RecordsKeepTheirCopies == Spec => []RecordKeepsItsCopyInTime
<1>1. IngestInv => RecordKeepsItsCopyInTime
  <2>1. Quiet({"timeout", "expiry"}) /\ spent["fault"] <= 1 /\ Quiet({"loss"}) => Gentle
    BY DEF Gentle, Quiet
  <2> QED BY <2>1 DEF RecordKeepsItsCopyInTime, RecordKeepsItsCopy, IngestInv, CopyInv, Kept
<1> QED BY <1>1, IngestInvariant, PTL

-----------------------------------------------------------------------------
(* Refinement.  Each step is one of the registry's, or none.                *)

LEMMA RegistryStep ==
    ASSUME IngestInv, OneProcess, Quiet({"expiry"}), [Next]_vars
    PROVE  [Registry!Next]_<<rec, vault>>
<1> USE DEF Registry!Next
<1>1. /\ TypeOK /\ HistoryInv /\ LockInv /\ Calm /\ 0 \notin vault
      /\ \A w \in Workers : CoherentAt(w) /\ PlacedAt(w)
  BY DEF IngestInv, Base, CopyInv, Coherent, Calm, Placed, HistoryInv, Numbered
<1>2. ASSUME NEW w \in Workers, WorkerStep(w) PROVE [Registry!Next]_<<rec, vault>>
  <2>1. CASE rec' # rec
    <3>1. pc[w] = "persist" /\ rec' = local[w].cand /\ vault' = vault
      BY <1>1, <1>2, <2>1, RecordWritten
    <3>2. rec \notin vault
      BY <1>1, <3>1 DEF CoherentAt, HistoryInv, GoneForGood
    <3>3. local[w].cand \in Nat \ {0, rec}
      BY <1>1, <3>1, LocalsAreNumbers DEF CoherentAt, PlacedAt
    <3> QED BY <3>1, <3>2, <3>3 DEF Registry!Register
  <2>2. CASE rec' = rec /\ vault' # vault
    <3>1. CASE ForwardLands(w) \/ ForwardIsUnusable(w) \/ ForwardErrs(w)
      <4>1. vault' = vault \cup {lastMsg + 1} /\ lastMsg \in Nat
        BY <1>1, <2>2, <3>1 DEF ForwardLands, ForwardIsUnusable, ForwardErrs, NewMessage, vaultVars,
                                TypeOK
      <4>2. lastMsg + 1 \notin vault
        BY <1>1, <4>1 DEF HistoryInv, Numbered
      <4>3. lastMsg + 1 \in vault' \ vault /\ lastMsg + 1 # 0
        BY <4>1, <4>2
      <4> QED BY <2>2, <4>1, <4>3 DEF Registry!Copy
    <3>2. CASE ReuseRecord(w) \/ DeleteMessages(w)
      <4>1. PICK m : vault' = vault \ {m}
        BY <2>2, <3>2 DEF ReuseRecord, DeleteMessages
      <4> QED BY <2>2, <4>1 DEF Registry!Remove
    <3>3. CASE UNCHANGED vault
      BY <2>2, <3>3
    <3> QED BY <1>2, <3>1, <3>2, <3>3
            DEF WorkerStep, Step, vaultVars, fileMutex, LockMutex, UnlockMutex, FindFileByKey,
                FindFileByKeyFails, RecordIsStale, ValidateFails, AcquireIngestLock, InspectLock,
                UnlinkLock, ReinsertLock, AcquireFails, WaitForLock, ReleaseIngestLock, SendForward,
                AbandonForward, PersistFile, PersistRefused, PersistUnanswered
  <2> QED BY <2>1, <2>2
<1>3. CASE Environment
  <2>1. CASE LoseMessage
    BY <2>1 DEF LoseMessage, dbVars, Registry!Remove
  <2>2. CASE \E p \in Procs : EvictRecord(p)
    BY <2>2 DEF EvictRecord, vaultVars, Registry!Forget
  <2> QED BY <1>3, <2>1, <2>2
          DEF Environment, ContextDone, CleanupDedupMu, EvictMutex, CacheExpires, Crash, LockExpires,
              ReapLock, dbVars, vaultVars
<1>4. CASE UNCHANGED vars
  BY <1>4 DEF vars
<1> QED BY <1>2, <1>3, <1>4 DEF Next, Finished, WorkerStep

\* A link that works goes on working: with one process, and while no lock document
\* outlives its expires_at, ingestion is the registry, whatever calls fail, contexts
\* end, copies get lost or crashes interrupt it.
THEOREM IngestionIsARegistry ==
    ASSUME OneProcess
    PROVE  Spec /\ []Quiet({"expiry"}) => ImplementsRegistry
<1>1. Init => Registry!Init
  BY DEF Init, Registry!Init
<1>2. IngestInv /\ Quiet({"expiry"}) /\ [Next]_vars => [Registry!Next]_<<rec, vault>>
  BY RegistryStep
<1> QED BY <1>1, <1>2, IngestInvariant, PTL DEF Spec, ImplementsRegistry, Registry!Spec
=============================================================================
