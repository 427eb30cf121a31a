---------------------------- MODULE AccessProofs ----------------------------
(* Theorems about Access, for any users, chats, tokens and messages, any   *)
(* number of goroutines and any lifetimes of the caches.                   *)
EXTENDS Access, TLAPS

-----------------------------------------------------------------------------
(* Types.                                                                  *)

\* Who writes is an owner's command or an activation.
WritersWrite ==
    \A w \in Workers : at[w] \in {"write", "invalidate"} =>
        OwnerOnly(msg[w]) \/ msg[w].kind = "activate"

TypeInv == TypeOK /\ WritersWrite

LEMMA MessageFields ==
    ASSUME NEW m \in Inputs
    PROVE  /\ m.from \in Ids
           /\ m.chat \in Chats \cup {None}
           /\ m.kind = "activate" => m.to \in Tokens
           /\ OwnerOnly(m) => m.to \in Ids
BY AccessAssumption DEF Messages, Ids, OwnerOnly

LEMMA IdOfIsId ==
    ASSUME NEW m \in Inputs, NEW a, NEW c \in Asks(m, a)
    PROVE  IdOf(m, c) \in Ids
BY MessageFields, AccessAssumption DEF Asks, IdOf, Ids

LEMMA WrittenIsCheck ==
    ASSUME NEW m \in Inputs, OwnerOnly(m) \/ m.kind = "activate"
    PROVE  Written(m) \in Checks /\ About(m) \in Ids
<1>1. About(m) \in Ids
  BY MessageFields DEF About
<1>2. \E c \in Checks :
        \/ c = "activated" /\ m.kind = "activate"
        \/ c = "bannedChats" /\ m.kind \in {"ban", "unban"} /\ m.to \in Chats
        \/ c = "banned" /\ m.kind \in {"ban", "unban"} /\ m.to \notin Chats
        \/ c = "authorized" /\ m.kind \in {"authorize", "deauthorize"}
  BY DEF Checks, OwnerOnly
<1> QED BY <1>1, <1>2 DEF Written

LEMMA TypeInit == Init => TypeInv
BY AccessAssumption DEF Init, TypeInv, TypeOK, WritersWrite, Entry, Absent, NoMessage, NoAnswers

LEMMA DueIsAsked ==
    ASSUME NEW w \in Workers, NEW c \in Checks, TypeInv, at[w] # "idle", Due(w, c)
    PROVE  IdOf(msg[w], c) \in Ids /\ ans[w][c] = None
BY IdOfIsId DEF Due, Unasked, TypeInv, TypeOK

LEMMA FinishType ==
    ASSUME TypeInv, NEW w \in Workers, Finish(w)
    PROVE  /\ at' \in [Workers -> {"idle", "look", "count", "fill", "handler", "write", "invalidate"}]
           /\ msg' \in [Workers -> Inputs \cup {NoMessage}]
           /\ \A v \in Workers : at'[v] # "idle" => msg'[v] \in Inputs
           /\ ans' \in [Workers -> [Checks -> {None, "yes", "no", "error"}]]
           /\ got' \in [Workers -> BOOLEAN]
           /\ col' \in [Workers -> Checks \cup {None}]
           /\ \A v \in Workers : at'[v] \in {"write", "invalidate"} =>
                  col'[v] \in Checks /\ (OwnerOnly(msg'[v]) \/ msg'[v].kind = "activate")
BY DEF TypeInv, TypeOK, WritersWrite, Finish, NoAnswers

LEMMA TypeStep == TypeInv /\ [Next]_vars => TypeInv'
<1> SUFFICES ASSUME TypeInv, [Next]_vars PROVE TypeInv'
  OBVIOUS
<1> USE AccessAssumption
<1>1. ASSUME NEW w \in Workers, NEW m \in Inputs, Receive(w, m) PROVE TypeInv'
  BY <1>1 DEF TypeInv, TypeOK, WritersWrite, Receive, Become, db, history
<1>2. ASSUME NEW w \in Workers, NEW c \in Checks, Hit(w, c) PROVE TypeInv'
  BY <1>2 DEF TypeInv, TypeOK, WritersWrite, Hit, Answer, db, history
<1>3. ASSUME NEW w \in Workers, NEW c \in Checks, Miss(w, c) PROVE TypeInv'
  BY <1>3 DEF TypeInv, TypeOK, WritersWrite, Miss, Become, db, history
<1>4. ASSUME NEW w \in Workers, NEW c \in Checks, Count(w, c) PROVE TypeInv'
  BY <1>4 DEF TypeInv, TypeOK, WritersWrite, Count, Become, Truth, db, history
<1>5. ASSUME NEW w \in Workers, NEW c \in Checks, CountFails(w, c) PROVE TypeInv'
  BY <1>5 DEF TypeInv, TypeOK, WritersWrite, CountFails, Become, db, history
<1>6. ASSUME NEW w \in Workers, NEW c \in Checks, Fill(w, c) PROVE TypeInv'
  <2> DEFINE i == IdOf(msg[w], c)
  <2>1. i \in Ids
    BY <1>6, DueIsAsked DEF Fill
  <2>2. [val |-> got[w], left |-> TTL[c]] \in Entry
    BY DEF TypeInv, TypeOK, Entry
  <2>3. cache' \in [Checks -> [Ids -> Entry]]
    BY <1>6, <2>1, <2>2 DEF TypeInv, TypeOK, Fill
  <2>4. excused' \subseteq Checks \X Ids
    BY <1>6, <2>1 DEF TypeInv, TypeOK, Fill
  <2> QED BY <1>6, <2>3, <2>4 DEF TypeInv, TypeOK, WritersWrite, Fill, Answer, Become, db
<1>7. ASSUME NEW w \in Workers, Refuse(w) \/ TurnAway(w) \/ Handle(w) PROVE TypeInv'
  <2>1. Finish(w) /\ UNCHANGED <<db, cache, received, history>>
    BY <1>7 DEF Refuse, TurnAway, Handle
  <2> QED BY <2>1, FinishType DEF TypeInv, TypeOK, WritersWrite, db, history
<1>8. ASSUME NEW w \in Workers, NEW t \in Tokens, PromptActivation(w, t) PROVE TypeInv'
  BY <1>8, FinishType DEF TypeInv, TypeOK, WritersWrite, PromptActivation, history
<1>9. ASSUME NEW w \in Workers, Admit(w) PROVE TypeInv'
  BY <1>9 DEF TypeInv, TypeOK, WritersWrite, Admit, Become, db, history
<1>10. ASSUME NEW w \in Workers, Command(w) PROVE TypeInv'
  <2>1. Written(msg[w]) \in Checks
    BY <1>10, WrittenIsCheck DEF Command, TypeInv, TypeOK
  <2> QED BY <1>10, <2>1 DEF TypeInv, TypeOK, WritersWrite, Command, Become, db, history
<1>11. ASSUME NEW w \in Workers, ConsumeToken(w) PROVE TypeInv'
  <2>1. Written(msg[w]) \in Checks
    BY <1>11, WrittenIsCheck DEF ConsumeToken, TypeInv, TypeOK
  <2>2. tokens' \in [Tokens -> {"unmade", "stored", "gone"}] /\ spent' \in [Tokens -> Nat]
    <3>1. tokens \in [Tokens -> {"unmade", "stored", "gone"}] /\ spent \in [Tokens -> Nat]
      BY DEF TypeInv, TypeOK
    <3>2. msg[w].to \in Tokens
      BY <1>11, MessageFields DEF ConsumeToken, TypeInv, TypeOK
    <3>3. /\ tokens' = [tokens EXCEPT ![msg[w].to] = "gone"]
          /\ spent' = [spent EXCEPT ![msg[w].to] = @ + 1]
      BY <1>11 DEF ConsumeToken
    <3> QED BY <3>1, <3>2, <3>3
  <2> QED BY <1>11, <2>1, <2>2 DEF TypeInv, TypeOK, WritersWrite, ConsumeToken, Become
<1>12. ASSUME NEW w \in Workers, ConsumeFails(w) PROVE TypeInv'
  <2>1. tokens' \in [Tokens -> {"unmade", "stored", "gone"}]
    <3>1. tokens \in [Tokens -> {"unmade", "stored", "gone"}]
      BY DEF TypeInv, TypeOK
    <3> QED BY <1>12, <3>1 DEF ConsumeFails
  <2> QED BY <1>12, <2>1, FinishType DEF TypeInv, TypeOK, WritersWrite, ConsumeFails, history
<1>13. ASSUME NEW c \in Checks, NEW i \in Ids, NEW holds \in BOOLEAN, Put(c, i, holds)
       PROVE  /\ rows' \in [Checks -> SUBSET Ids]
              /\ since' \in [Checks -> [Ids -> 0 .. MaxAge]]
              /\ overtaken' \subseteq Workers
  BY <1>13 DEF TypeInv, TypeOK, Put
<1>14. ASSUME NEW w \in Workers, at[w] \in {"write", "invalidate"}
       PROVE  col[w] \in Checks /\ About(msg[w]) \in Ids /\ Adds(msg[w]) \in BOOLEAN
  <2>1. col[w] \in Checks /\ msg[w] \in Inputs
    BY <1>14 DEF TypeInv, TypeOK
  <2>2. OwnerOnly(msg[w]) \/ msg[w].kind = "activate"
    BY <1>14 DEF TypeInv, WritersWrite
  <2>3. About(msg[w]) \in Ids
    BY <2>1, <2>2, WrittenIsCheck
  <2> QED BY <2>1, <2>3 DEF Adds
<1>15. ASSUME NEW w \in Workers, Write(w) PROVE TypeInv'
  <2>1. /\ rows' \in [Checks -> SUBSET Ids]
        /\ since' \in [Checks -> [Ids -> 0 .. MaxAge]]
        /\ overtaken' \subseteq Workers
    BY <1>13, <1>14, <1>15 DEF Write
  <2> QED BY <1>15, <2>1 DEF TypeInv, TypeOK, WritersWrite, Write, Become
<1>16. ASSUME NEW w \in Workers, WriteFails(w) PROVE TypeInv'
  <2>1. /\ rows' \in [Checks -> SUBSET Ids]
        /\ since' \in [Checks -> [Ids -> 0 .. MaxAge]]
        /\ overtaken' \subseteq Workers
        /\ excused' \subseteq Checks \X Ids
    BY <1>13, <1>14, <1>16 DEF WriteFails, TypeInv, TypeOK
  <2> QED BY <1>16, <2>1, FinishType DEF TypeInv, TypeOK, WritersWrite, WriteFails
<1>17. ASSUME NEW w \in Workers, Invalidate(w) PROVE TypeInv'
  <2>1. cache' \in [Checks -> [Ids -> Entry]] /\ excused' \subseteq Checks \X Ids
    BY <1>14, <1>17 DEF TypeInv, TypeOK, Invalidate, Entry, Absent
  <2>2. CASE Finish(w)
    BY <1>17, <2>1, <2>2, FinishType DEF TypeInv, TypeOK, WritersWrite, Invalidate, db
  <2>3. CASE ~Finish(w)
    <3>1. /\ Become(w, "write")
          /\ col' = [col EXCEPT ![w] = "activated"]
          /\ UNCHANGED <<msg, ans, got>>
          /\ msg[w].kind = "deauthorize"
      BY <1>17, <2>3 DEF Invalidate, Continue
    <3>2. UNCHANGED <<db, received, since, aged, overtaken, spent>> /\ at[w] = "invalidate"
      BY <1>17 DEF Invalidate
    <3> QED BY <2>1, <3>1, <3>2 DEF TypeInv, TypeOK, WritersWrite, Become, OwnerOnly, Checks, db
  <2> QED BY <2>2, <2>3
<1>18. CASE Tick
  <2>1. cache' \in [Checks -> [Ids -> Entry]]
    <3>1. ASSUME NEW c \in Checks, NEW i \in Ids
          PROVE  (IF cache[c][i].left <= 1 THEN Absent
                  ELSE [cache[c][i] EXCEPT !.left = @ - 1]) \in Entry
      <4>1. cache[c][i] \in Entry
        BY DEF TypeInv, TypeOK
      <4> QED BY <4>1 DEF Entry, Absent
    <3> QED BY <1>18, <3>1 DEF Tick
  <2>2. since' \in [Checks -> [Ids -> 0 .. MaxAge]]
    BY <1>18 DEF TypeInv, TypeOK, Tick
  <2> QED BY <1>18, <2>1, <2>2 DEF TypeInv, TypeOK, WritersWrite, Tick, db
<1>19. ASSUME NEW c \in Checks, NEW i \in Ids, EvictEntry(c, i) PROVE TypeInv'
  BY <1>19 DEF TypeInv, TypeOK, WritersWrite, EvictEntry, Entry, Absent, db, history
<1>20. ASSUME NEW u \in Users \cup Owners, ActivationExpires(u) PROVE TypeInv'
  <2>1. "activated" \in Checks /\ u \in Ids
    BY DEF Checks, Ids
  <2>2. /\ rows' \in [Checks -> SUBSET Ids]
        /\ since' \in [Checks -> [Ids -> 0 .. MaxAge]]
        /\ overtaken' \subseteq Workers
    BY <1>13, <1>20, <2>1 DEF ActivationExpires
  <2> QED BY <1>20, <2>1, <2>2 DEF TypeInv, TypeOK, WritersWrite, ActivationExpires
<1>21. ASSUME NEW t \in Tokens, TokenExpires(t) PROVE TypeInv'
  BY <1>21 DEF TypeInv, TypeOK, WritersWrite, TokenExpires, history
<1>22. CASE Restart
  BY <1>22 DEF TypeInv, TypeOK, WritersWrite, Restart, Entry, Absent, NoAnswers, db
<1>23. CASE UNCHANGED vars
  BY <1>23 DEF TypeInv, TypeOK, WritersWrite, vars, db, history
<1> QED
  BY <1>1, <1>2, <1>3, <1>4, <1>5, <1>6, <1>7, <1>8, <1>9, <1>10, <1>11, <1>12, <1>15, <1>16,
     <1>17, <1>18, <1>19, <1>20, <1>21, <1>22, <1>23 DEF Next, Step

\* The variables of bot.go and store.go keep their types.
THEOREM AccessTypeCorrect == Spec => []TypeOK
<1>1. Spec => []TypeInv
  BY TypeInit, TypeStep, PTL DEF Spec
<1>2. TypeInv => TypeOK
  BY DEF TypeInv
<1> QED BY <1>1, <1>2, PTL

-----------------------------------------------------------------------------
(* The chain.                                                              *)

Passed(w) == ~Refused(msg[w], ans[w]) /\ Unasked(w) = {}

PassedInside == \A w \in Workers : at[w] \in {"handler", "write", "invalidate"} => Passed(w)

LEMMA PassedByTheBook == TypeInv /\ PassedInside => AdmittedByTheBook
<1> SUFFICES ASSUME TypeInv, PassedInside, NEW w \in Workers,
                    at[w] \in {"handler", "write", "invalidate"}
             PROVE  LET m == msg[w]
                        a == ans[w]
                    IN  /\ m.chat # None => a["bannedChats"] = "no" /\ m.chat \notin ConfigBanned
                        /\ ~Exempt(m) =>
                             /\ a["banned"] = "no"
                             /\ PrivateMode => a["authorized"] = "yes"
                             /\ TokenEnabled /\ ~IsStart(m) => "yes" \in {a["authorized"], a["activated"]}
                             /\ ~OwnerOnly(m)
  BY DEF AdmittedByTheBook
<1> DEFINE m == msg[w]
           a == ans[w]
<1>1. a \in [Checks -> {None, "yes", "no", "error"}] /\ Passed(w)
  BY DEF TypeInv, TypeOK, PassedInside
<1>2. \A c \in Asks(m, a) : a[c] # None
  BY <1>1 DEF Passed, Unasked
<1>3. "authorized" \in Asks(m, a) /\ (m.chat # None => "bannedChats" \in Asks(m, a))
  BY DEF Asks, Checks
<1>4. ~Exempt(m) => "banned" \in Asks(m, a)
  BY DEF Asks, Checks
<1>5. ~Exempt(m) /\ TokenEnabled /\ ~IsStart(m) /\ a["authorized"] # "yes" => "activated" \in Asks(m, a)
  BY DEF Asks, Checks
<1>6. ~Refused(m, a)
  BY <1>1 DEF Passed
<1> QED BY <1>1, <1>2, <1>3, <1>4, <1>5, <1>6 DEF Refused, Exempt, Checks

LEMMA PassedStep == TypeInv /\ PassedInside /\ [Next]_vars => PassedInside'
<1> SUFFICES ASSUME TypeInv, PassedInside, [Next]_vars PROVE PassedInside'
  OBVIOUS
<1> DEFINE Inside == {"handler", "write", "invalidate"}
           Stays(v) == at'[v] \in Inside =>
                           /\ msg'[v] = msg[v] /\ ans'[v] = ans[v]
                           /\ at[v] \in Inside \/ Passed(v)
<1>1. SUFFICES ASSUME NEW v \in Workers PROVE Stays(v)
  <2>1. \A v \in Workers : Stays(v)
    BY <1>1
  <2> QED BY <2>1 DEF PassedInside, Passed, Unasked
<1>2. at \in [Workers -> {"idle", "look", "count", "fill", "handler", "write", "invalidate"}]
  BY DEF TypeInv, TypeOK
<1>3. ASSUME NEW w \in Workers, Finish(w) PROVE Stays(v)
  BY <1>2, <1>3 DEF TypeInv, TypeOK, Finish
<1>4. ASSUME NEW w \in Workers, Step(w) PROVE Stays(v)
  <2>1. ASSUME NEW m \in Inputs, Receive(w, m) PROVE Stays(v)
    BY <1>2, <2>1 DEF TypeInv, TypeOK, Receive, Become
  <2>2. ASSUME NEW c \in Checks, Hit(w, c) PROVE Stays(v)
    BY <1>2, <2>2 DEF TypeInv, TypeOK, Hit, Answer
  <2>3. ASSUME NEW c \in Checks, Miss(w, c) \/ Count(w, c) PROVE Stays(v)
    BY <1>2, <2>3 DEF TypeInv, TypeOK, Miss, Count, Become
  <2>4. ASSUME NEW c \in Checks, CountFails(w, c) PROVE Stays(v)
    BY <1>2, <2>4 DEF TypeInv, TypeOK, CountFails, Become
  <2>5. ASSUME NEW c \in Checks, Fill(w, c) PROVE Stays(v)
    BY <1>2, <2>5 DEF TypeInv, TypeOK, Fill, Answer, Become
  <2>6. CASE Admit(w)
    BY <1>2, <2>6 DEF Admit, Become, Passed
  <2>7. CASE Command(w)
    BY <1>2, <2>7 DEF Command, Become
  <2>8. CASE ConsumeToken(w)
    BY <1>2, <2>8 DEF ConsumeToken, Become
  <2>9. CASE Write(w)
    BY <1>2, <2>9 DEF Write, Become
  <2>10. CASE Invalidate(w)
    BY <1>2, <1>3, <2>10 DEF Invalidate, Continue, Become
  <2>11. CASE \E t \in Tokens : PromptActivation(w, t)
    BY <1>3, <2>11 DEF PromptActivation
  <2>12. CASE Refuse(w) \/ TurnAway(w) \/ Handle(w) \/ ConsumeFails(w) \/ WriteFails(w)
    BY <1>3, <2>12 DEF Refuse, TurnAway, Handle, ConsumeFails, WriteFails
  <2> QED BY <1>4, <2>1, <2>2, <2>3, <2>4, <2>5, <2>6, <2>7, <2>8, <2>9, <2>10, <2>11, <2>12 DEF Step
<1>5. CASE Tick \/ \E c \in Checks, i \in Ids : EvictEntry(c, i)
  BY <1>2, <1>5 DEF Tick, EvictEntry
<1>6. CASE (\E u \in Users \cup Owners : ActivationExpires(u)) \/ \E t \in Tokens : TokenExpires(t)
  BY <1>2, <1>6 DEF ActivationExpires, TokenExpires
<1>7. CASE Restart
  BY <1>7 DEF Restart
<1>8. CASE UNCHANGED vars
  BY <1>2, <1>8 DEF vars
<1> QED BY <1>4, <1>5, <1>6, <1>7, <1>8 DEF Next

\* The pre-flight chain lets nobody through whom a check has not let through.
THEOREM ChainFailsClosed == Spec => []AdmittedByTheBook
<1>1. Init => PassedInside
  BY DEF Init, PassedInside
<1>2. Spec => [](TypeInv /\ PassedInside)
  BY <1>1, TypeInit, TypeStep, PassedStep, PTL DEF Spec
<1> QED BY <1>2, PassedByTheBook, PTL
-----------------------------------------------------------------------------
(* Tokens.                                                                 *)

\* A token that is still there has not been used up.
TokensUnspent == \A t \in Tokens : tokens[t] # "gone" => spent[t] = 0

TokenInv == TypeInv /\ TokensUnspent /\ OneTokenOneActivation

\* Who is activating someone had started to before, with the same message.
LEMMA TokensKept ==
    ASSUME TokenInv, UNCHANGED spent,
           \A t \in Tokens : tokens'[t] # "gone" => tokens[t] # "gone" ,
           \A v \in Workers : Activating(v)' => Activating(v) /\ msg'[v] = msg[v]
    PROVE  TokensUnspent' /\ OneTokenOneActivation'
BY DEF TokenInv, TokensUnspent, OneTokenOneActivation, Activating

LEMMA TokenStep == TokenInv /\ [Next]_vars => TokensUnspent' /\ OneTokenOneActivation'
<1> SUFFICES ASSUME TokenInv, [Next]_vars PROVE TokensUnspent' /\ OneTokenOneActivation'
  OBVIOUS
<1> DEFINE Stays(v) == Activating(v)' => Activating(v) /\ msg'[v] = msg[v]
           Kept == /\ UNCHANGED spent
                   /\ \A t \in Tokens : tokens'[t] # "gone" => tokens[t] # "gone"
                   /\ \A v \in Workers : Stays(v)
           Goal == TokensUnspent' /\ OneTokenOneActivation'
<1>0. Kept => Goal
  BY TokensKept
<1>1. /\ at \in [Workers -> {"idle", "look", "count", "fill", "handler", "write", "invalidate"}]
      /\ msg \in [Workers -> Inputs \cup {NoMessage}]
      /\ tokens \in [Tokens -> {"unmade", "stored", "gone"}]
      /\ spent \in [Tokens -> Nat]
  BY DEF TokenInv, TypeInv, TypeOK
<1>2. ASSUME NEW w \in Workers, Finish(w), NEW v \in Workers PROVE Stays(v)
  BY <1>1, <1>2 DEF Finish, Activating
<1>3. ASSUME NEW w \in Workers, Finish(w), UNCHANGED <<db, history>> PROVE Goal
  BY <1>0, <1>2, <1>3 DEF db, history
<1>4. ASSUME NEW w \in Workers, Step(w) PROVE Goal
  <2>1. ASSUME NEW m \in Inputs, Receive(w, m) PROVE Goal
    BY <1>0, <1>1, <2>1 DEF Receive, Become, Activating, db, history
  <2>2. ASSUME NEW c \in Checks, Hit(w, c) PROVE Goal
    BY <1>0, <1>1, <2>2 DEF Hit, Activating, db, history
  <2>3. ASSUME NEW c \in Checks, Miss(w, c) \/ Count(w, c) \/ CountFails(w, c) PROVE Goal
    BY <1>0, <1>1, <2>3 DEF Miss, Count, CountFails, Become, Activating, db, history
  <2>4. ASSUME NEW c \in Checks, Fill(w, c) PROVE Goal
    BY <1>0, <1>1, <2>4 DEF Fill, Become, Activating, db
  <2>5. CASE Admit(w)
    BY <1>0, <1>1, <2>5 DEF Admit, Become, Activating, db, history
  <2>6. CASE Command(w)
    BY <1>0, <1>1, <2>6 DEF Command, Become, Activating, OwnerOnly, db, history
  <2>7. CASE Refuse(w) \/ TurnAway(w) \/ Handle(w)
    BY <1>3, <2>7 DEF Refuse, TurnAway, Handle
  <2>8. ASSUME NEW t \in Tokens, PromptActivation(w, t) PROVE Goal
    BY <1>0, <1>1, <1>2, <2>8 DEF PromptActivation, history
  <2>9. CASE ConsumeToken(w)
    <3> DEFINE t == msg[w].to
    <3>1. t \in Tokens /\ tokens[t] = "stored"
      BY <1>1, <2>9, MessageFields DEF ConsumeToken, TokenInv, TypeInv, TypeOK
    <3>2. spent[t] = 0 /\ \A v \in Workers : Activating(v) => msg[v].to # t
      BY <3>1 DEF TokenInv, TokensUnspent, OneTokenOneActivation
    <3>3. /\ tokens' = [tokens EXCEPT ![t] = "gone"]
          /\ spent' = [spent EXCEPT ![t] = @ + 1]
          /\ at' = [at EXCEPT ![w] = "write"] /\ UNCHANGED msg
      BY <2>9 DEF ConsumeToken, Become
    <3>4. TokensUnspent'
      BY <1>1, <3>1, <3>3 DEF TokenInv, TokensUnspent
    <3>5. spent'[t] = 1 /\ \A x \in Tokens \ {t} : spent'[x] = spent[x]
      BY <1>1, <3>1, <3>2, <3>3
    <3>6. \A v \in Workers : Activating(v)' => v = w \/ Activating(v)
      BY <1>1, <3>3 DEF Activating
    <3>7. \A v \in Workers : Activating(v) => msg[v].to \in Tokens
      BY MessageFields DEF TokenInv, TypeInv, TypeOK, Activating
    <3> QED BY <3>2, <3>3, <3>4, <3>5, <3>6, <3>7 DEF TokenInv, OneTokenOneActivation
  <2>10. CASE ConsumeFails(w)
    BY <1>0, <1>1, <1>2, <2>10 DEF ConsumeFails, history
  <2>11. CASE Write(w)
    BY <1>0, <1>1, <2>11 DEF Write, Become, Activating
  <2>12. CASE WriteFails(w)
    BY <1>0, <1>1, <1>2, <2>12 DEF WriteFails
  <2>13. CASE Invalidate(w)
    <3>1. CASE Finish(w)
      BY <1>0, <1>2, <2>13, <3>1 DEF Invalidate, db
    <3>2. CASE ~Finish(w)
      BY <1>0, <1>1, <2>13, <3>2 DEF Invalidate, Continue, Become, Activating, db
    <3> QED BY <3>1, <3>2
  <2> QED BY <1>4, <2>1, <2>2, <2>3, <2>4, <2>5, <2>6, <2>7, <2>8, <2>9, <2>10, <2>11, <2>12, <2>13 DEF Step
<1>5. CASE Tick \/ \E c \in Checks, i \in Ids : EvictEntry(c, i)
  BY <1>0, <1>5 DEF Tick, EvictEntry, Activating, db, history
<1>6. ASSUME NEW u \in Users \cup Owners, ActivationExpires(u) PROVE Goal
  BY <1>0, <1>6 DEF ActivationExpires, Activating
<1>7. ASSUME NEW t \in Tokens, TokenExpires(t) PROVE Goal
  BY <1>0, <1>1, <1>7 DEF TokenExpires, Activating, history
<1>8. CASE Restart
  BY <1>0, <1>8 DEF Restart, Activating, db
<1>9. CASE UNCHANGED vars
  BY <1>0, <1>9 DEF vars, Activating, db, history
<1> QED BY <1>4, <1>5, <1>6, <1>7, <1>8, <1>9 DEF Next

\* A token lets one user in once, whoever sends it however often.
THEOREM TokensServeOnce == Spec => []OneTokenOneActivation
<1>1. Init => TokensUnspent /\ OneTokenOneActivation
  BY DEF Init, TokensUnspent, OneTokenOneActivation, Activating
<1>2. TokenInv /\ [Next]_vars => TokenInv'
  BY TypeStep, TokenStep DEF TokenInv
<1>3. Init => TokenInv
  BY <1>1, TypeInit DEF TokenInv
<1>4. TokenInv => OneTokenOneActivation
  BY DEF TokenInv
<1> QED BY <1>2, <1>3, <1>4, PTL DEF Spec

-----------------------------------------------------------------------------
(* Stale answers.  An answer the database gave before it changed is carried *)
(* by a fill that has been overtaken, for one tick at the most, or is in   *)
(* the cache, for what is left of the entry's life.                        *)

FillsRecent ==
    \A w \in Workers, c \in Checks :
        LET i == IdOf(msg[w], c) IN
        at[w] = "fill" /\ Due(w, c) /\ got[w] # Truth(c, i) =>
            w \in overtaken /\ since[c][i] <= (IF w \in aged THEN 1 ELSE 0)

EntriesRecent ==
    \A c \in Checks, i \in Ids :
        /\ cache[c][i].left <= TTL[c]
        /\ cache[c][i].left > 0 /\ cache[c][i].val # Truth(c, i) =>
              since[c][i] + cache[c][i].left <= TTL[c] + 1

StaleInv == TypeInv /\ FillsRecent /\ EntriesRecent /\ WrongOnlyByRace

\* Who is at a fill was there before, with the same answer to the same check.
FillsStay ==
    \A v \in Workers : at'[v] = "fill" =>
        /\ at[v] = "fill" /\ msg'[v] = msg[v]
        /\ ans'[v] = ans[v] /\ got'[v] = got[v]

\* Who has an invalidation to do still has.
PendingStay ==
    \A v \in Workers : at[v] = "invalidate" =>
        at'[v] = "invalidate" /\ msg'[v] = msg[v] /\ col'[v] = col[v]

LEMMA DueStays ==
    ASSUME FillsStay, NEW v \in Workers, at'[v] = "fill", NEW c \in Checks
    PROVE  (Due(v, c)' <=> Due(v, c)) /\ IdOf(msg[v], c)' = IdOf(msg[v], c)
BY DEF FillsStay, Due, Unasked

LEMMA PendingStays ==
    ASSUME PendingStay, NEW c \in Checks, NEW i \in Ids, Pending(c, i)
    PROVE  Pending(c, i)'
BY DEF PendingStay, Pending

LEMMA QuietStep ==
    ASSUME StaleInv, FillsStay, PendingStay,
           UNCHANGED <<rows, cache, since, aged, overtaken, excused>>
    PROVE  FillsRecent' /\ EntriesRecent' /\ WrongOnlyByRace'
<1>1. FillsRecent'
  BY DueStays DEF StaleInv, FillsRecent, FillsStay, Truth
<1>2. EntriesRecent'
  BY DEF StaleInv, EntriesRecent, Truth
<1>3. WrongOnlyByRace'
  BY PendingStays DEF StaleInv, WrongOnlyByRace, Truth
<1> QED BY <1>1, <1>2, <1>3

\* A collection changes: what is stale now was true until now.
LEMMA PutStep ==
    ASSUME StaleInv, NEW c \in Checks, NEW i \in Ids, NEW holds \in BOOLEAN,
           Put(c, i, holds), FillsStay, UNCHANGED <<cache, aged>>
    PROVE  /\ FillsRecent' /\ EntriesRecent'
           /\ \A d \in Checks, j \in Ids : <<d, j>> # <<c, i>> => (Truth(d, j)' <=> Truth(d, j))
<1>1. /\ rows \in [Checks -> SUBSET Ids]
      /\ since \in [Checks -> [Ids -> 0 .. MaxAge]]
      /\ cache \in [Checks -> [Ids -> Entry]]
      /\ got \in [Workers -> BOOLEAN]
      /\ at \in [Workers -> {"idle", "look", "count", "fill", "handler", "write", "invalidate"}]
  BY DEF StaleInv, TypeInv, TypeOK
<1>2. Truth(c, i)' <=> holds
  BY <1>1 DEF Put, Truth
<1>3. \A d \in Checks, j \in Ids : <<d, j>> # <<c, i>> => (Truth(d, j)' <=> Truth(d, j))
  BY <1>1 DEF Put, Truth
<1>4. \A d \in Checks, j \in Ids :
        IF <<d, j>> = <<c, i>> /\ Truth(c, i) # holds
        THEN since'[d][j] = 0 ELSE since'[d][j] = since[d][j]
  BY <1>1 DEF Put
<1>5. EntriesRecent'
  <2> SUFFICES ASSUME NEW d \in Checks, NEW j \in Ids
               PROVE  /\ cache[d][j].left <= TTL[d]
                      /\ cache[d][j].left > 0 /\ ~(cache[d][j].val <=> Truth(d, j)') =>
                            since'[d][j] + cache[d][j].left <= TTL[d] + 1
    <3>1. \A d \in Checks, j \in Ids : cache[d][j].val \in BOOLEAN
      BY <1>1 DEF Entry
    <3> QED BY <3>1 DEF EntriesRecent, Truth
  <2>1. cache[d][j].left <= TTL[d] /\ cache[d][j].left \in Nat /\ TTL[d] \in Nat
    BY <1>1, AccessAssumption DEF StaleInv, EntriesRecent, Entry
  <2>2. CASE <<d, j>> = <<c, i>> /\ Truth(c, i) # holds
    BY <1>4, <2>1, <2>2
  <2>3. CASE ~(<<d, j>> = <<c, i>> /\ Truth(c, i) # holds)
    <3>1. Truth(d, j)' <=> Truth(d, j)
      BY <1>2, <1>3, <2>3
    <3> QED BY <1>4, <2>1, <2>3, <3>1 DEF StaleInv, EntriesRecent
  <2> QED BY <2>2, <2>3
<1>6. FillsRecent'
  <2> SUFFICES ASSUME NEW w \in Workers, NEW d \in Checks, at'[w] = "fill", Due(w, d),
                      ~(got[w] <=> Truth(d, IdOf(msg[w], d))')
               PROVE  /\ w \in overtaken'
                      /\ since'[d][IdOf(msg[w], d)] <= (IF w \in aged THEN 1 ELSE 0)
    <3> SUFFICES ASSUME NEW w \in Workers, NEW d \in Checks, at'[w] = "fill", Due(w, d)',
                        got'[w] # Truth(d, IdOf(msg[w], d))'
                 PROVE  /\ w \in overtaken'
                        /\ since'[d][IdOf(msg[w], d)'] <= (IF w \in aged' THEN 1 ELSE 0)
      BY DEF FillsRecent, Truth
    <3>1. Due(w, d) /\ got'[w] = got[w] /\ IdOf(msg[w], d)' = IdOf(msg[w], d) /\ aged' = aged
      BY DueStays DEF FillsStay
    <3>2. ~(got[w] <=> Truth(d, IdOf(msg[w], d))')
      <4>1. got[w] \in BOOLEAN /\ got'[w] = got[w]
        BY <1>1, <3>1
      <4> QED BY <4>1 DEF Truth
    <3> QED BY <3>1, <3>2
  <2> DEFINE j == IdOf(msg[w], d)
  <2>1. at[w] = "fill" /\ j \in Ids /\ IdOf(msg[w], d)' = j
    BY DueIsAsked DEF FillsStay, StaleInv
  <2>2. CASE <<d, j>> = <<c, i>> /\ Truth(c, i) # holds
    <3>1. w \in overtaken'
      BY <2>1, <2>2 DEF Put
    <3> QED BY <1>4, <2>1, <2>2, <3>1
  <2>3. CASE ~(<<d, j>> = <<c, i>> /\ Truth(c, i) # holds)
    <3>1. Truth(d, j)' <=> Truth(d, j)
      BY <1>2, <1>3, <2>1, <2>3
    <3>2. w \in overtaken /\ since[d][j] <= (IF w \in aged THEN 1 ELSE 0)
      BY <2>1, <3>1 DEF StaleInv, FillsRecent, Truth
    <3> QED BY <1>4, <2>1, <2>3, <3>2 DEF Put
  <2> QED BY <2>2, <2>3
<1> QED BY <1>3, <1>5, <1>6

\* A change that has an invalidation to come, or an excuse.
LEMMA ExcusedPut ==
    ASSUME StaleInv, NEW c \in Checks, NEW i \in Ids, NEW holds \in BOOLEAN,
           Put(c, i, holds), FillsStay, PendingStay, UNCHANGED <<cache, aged>>,
           excused \subseteq excused',
           Pending(c, i)' \/ <<c, i>> \in excused'
    PROVE  FillsRecent' /\ EntriesRecent' /\ WrongOnlyByRace'
<1>1. FillsRecent' /\ EntriesRecent'
  BY PutStep
<1>2. \A d \in Checks, j \in Ids : <<d, j>> # <<c, i>> => (Truth(d, j)' <=> Truth(d, j))
  BY PutStep
<1>3. \A d \in Checks, j \in Ids : cache[d][j].val \in BOOLEAN
  BY DEF StaleInv, TypeInv, TypeOK, Entry
<1>4. WrongOnlyByRace'
  <2> SUFFICES ASSUME NEW d \in Checks, NEW j \in Ids,
                      cache[d][j].left > 0, cache[d][j].val # Truth(d, j)'
               PROVE  Pending(d, j)' \/ <<d, j>> \in excused'
    BY DEF WrongOnlyByRace, Truth
  <2>1. CASE <<d, j>> = <<c, i>>
    BY <2>1
  <2>2. CASE <<d, j>> # <<c, i>>
    <3>1. cache[d][j].val # Truth(d, j)
      BY <1>2, <1>3, <2>2 DEF Truth
    <3>2. Pending(d, j) \/ <<d, j>> \in excused
      BY <3>1 DEF StaleInv, WrongOnlyByRace
    <3> QED BY <3>2, PendingStays
  <2> QED BY <2>1, <2>2
<1> QED BY <1>1, <1>4

LEMMA CountStep ==
    ASSUME StaleInv, NEW w \in Workers, NEW c \in Checks, Count(w, c)
    PROVE  FillsRecent' /\ EntriesRecent' /\ WrongOnlyByRace'
<1>1. EntriesRecent' /\ WrongOnlyByRace'
  <2>1. PendingStay
    BY DEF StaleInv, TypeInv, TypeOK, Count, Become, PendingStay
  <2> QED BY <2>1, PendingStays DEF StaleInv, EntriesRecent, WrongOnlyByRace, Count, Truth, db, history
<1>2. FillsRecent'
  <2> SUFFICES ASSUME NEW v \in Workers, NEW d \in Checks, at'[v] = "fill", Due(v, d)',
                      got'[v] # Truth(d, IdOf(msg[v], d))'
               PROVE  /\ v \in overtaken'
                      /\ since'[d][IdOf(msg[v], d)'] <= (IF v \in aged' THEN 1 ELSE 0)
    BY DEF FillsRecent, Truth
  <2>1. /\ at' = [at EXCEPT ![w] = "fill"]
        /\ got' = [got EXCEPT ![w] = Truth(c, IdOf(msg[w], c))]
        /\ UNCHANGED <<rows, msg, ans, since, aged, overtaken>>
    BY DEF Count, Become, db, history
  <2>2. Due(v, d) /\ IdOf(msg[v], d)' = IdOf(msg[v], d)
    BY <2>1 DEF Due, Unasked
  <2>3. CASE v = w
    <3>1. d = c
      BY <2>2, <2>3 DEF Count, Due, Unasked, Asks, Checks, Rank
    <3>2. got'[v] = Truth(c, IdOf(msg[w], c))
      BY <2>1, <2>3 DEF StaleInv, TypeInv, TypeOK
    <3> QED BY <2>1, <2>2, <2>3, <3>1, <3>2 DEF Truth
  <2>4. CASE v # w
    <3>1. at[v] = "fill" /\ got'[v] = got[v]
      BY <2>1, <2>4 DEF StaleInv, TypeInv, TypeOK
    <3> QED BY <2>1, <2>2, <3>1 DEF StaleInv, FillsRecent, Truth
  <2> QED BY <2>3, <2>4
<1> QED BY <1>1, <1>2

LEMMA FillStep ==
    ASSUME StaleInv, NEW w \in Workers, NEW c \in Checks, Fill(w, c)
    PROVE  FillsRecent' /\ EntriesRecent' /\ WrongOnlyByRace'
<1> DEFINE i == IdOf(msg[w], c)
<1>1. /\ cache \in [Checks -> [Ids -> Entry]]
      /\ got \in [Workers -> BOOLEAN]
      /\ at \in [Workers -> {"idle", "look", "count", "fill", "handler", "write", "invalidate"}]
      /\ since \in [Checks -> [Ids -> 0 .. MaxAge]]
      /\ TTL \in [Checks -> Nat \ {0}]
  BY AccessAssumption DEF StaleInv, TypeInv, TypeOK
<1>2. i \in Ids
  BY DueIsAsked DEF Fill, StaleInv
<1>3. /\ at[w] = "fill" /\ Due(w, c)
      /\ cache' = [cache EXCEPT ![c][i] = [val |-> got[w], left |-> TTL[c]]]
      /\ excused' = IF w \in overtaken THEN excused \cup {<<c, i>>} ELSE excused \ {<<c, i>>}
      /\ UNCHANGED <<rows, since, msg, col>>
  BY DEF Fill, db
<1>4. got[w] # Truth(c, i) => w \in overtaken /\ since[c][i] <= 1
  BY <1>1, <1>2, <1>3 DEF StaleInv, FillsRecent
<1>5. \A d \in Checks, j \in Ids :
        IF <<d, j>> = <<c, i>> THEN cache'[d][j].val = got[w] /\ cache'[d][j].left = TTL[c]
                               ELSE cache'[d][j] = cache[d][j]
  BY <1>1, <1>3
<1>6. EntriesRecent'
  <2> SUFFICES ASSUME NEW d \in Checks, NEW j \in Ids
               PROVE  /\ cache'[d][j].left <= TTL[d]
                      /\ cache'[d][j].left > 0 /\ cache'[d][j].val # Truth(d, j) =>
                            since[d][j] + cache'[d][j].left <= TTL[d] + 1
    BY <1>3 DEF EntriesRecent, Truth
  <2>1. CASE <<d, j>> = <<c, i>>
    BY <1>1, <1>4, <1>5, <2>1
  <2>2. CASE <<d, j>> # <<c, i>>
    BY <1>5, <2>2 DEF StaleInv, EntriesRecent
  <2> QED BY <2>1, <2>2
<1>7. FillsRecent'
  <2>1. FillsStay /\ \A v \in Workers : at'[v] = "fill" => v # w
    BY <1>1 DEF Fill, Answer, Become, FillsStay, StaleInv, TypeInv, TypeOK
  <2>2. aged' = aged \ {w} /\ overtaken' = overtaken \ {w}
    BY DEF Fill
  <2> QED BY <1>3, <2>1, <2>2, DueStays DEF StaleInv, FillsRecent, FillsStay, Truth
<1>8. WrongOnlyByRace'
  <2>1. PendingStay
    BY <1>1 DEF Fill, Become, PendingStay
  <2> SUFFICES ASSUME NEW d \in Checks, NEW j \in Ids,
                      cache'[d][j].left > 0, cache'[d][j].val # Truth(d, j)
               PROVE  Pending(d, j)' \/ <<d, j>> \in excused'
    BY <1>3 DEF WrongOnlyByRace, Truth
  <2>2. CASE <<d, j>> = <<c, i>>
    BY <1>3, <1>4, <1>5, <2>2
  <2>3. CASE <<d, j>> # <<c, i>>
    <3>1. Pending(d, j) \/ <<d, j>> \in excused
      BY <1>5, <2>3 DEF StaleInv, WrongOnlyByRace
    <3> QED BY <1>3, <2>1, <2>3, <3>1, PendingStays
  <2> QED BY <2>2, <2>3
<1> QED BY <1>6, <1>7, <1>8

LEMMA FinishKeeps ==
    ASSUME TypeInv, NEW w \in Workers, Finish(w)
    PROVE  /\ FillsStay
           /\ at[w] # "invalidate" => PendingStay
           /\ \A v \in Workers \ {w} : at'[v] = at[v] /\ msg'[v] = msg[v] /\ col'[v] = col[v]
BY DEF TypeInv, TypeOK, Finish, FillsStay, PendingStay

LEMMA InvalidateStep ==
    ASSUME StaleInv, NEW w \in Workers, Invalidate(w)
    PROVE  FillsRecent' /\ EntriesRecent' /\ WrongOnlyByRace'
<1> DEFINE c == col[w]
           i == About(msg[w])
<1>1. /\ cache \in [Checks -> [Ids -> Entry]]
      /\ at \in [Workers -> {"idle", "look", "count", "fill", "handler", "write", "invalidate"}]
      /\ col \in [Workers -> Checks \cup {None}]
      /\ TTL \in [Checks -> Nat \ {0}]
  BY AccessAssumption DEF StaleInv, TypeInv, TypeOK
<1>2. /\ at[w] = "invalidate"
      /\ cache' = [cache EXCEPT ![c][i] = Absent]
      /\ excused' = excused \ {<<c, i>>}
      /\ UNCHANGED <<rows, since, aged, overtaken>>
  BY DEF Invalidate, db
<1>3. FillsStay /\ \A v \in Workers \ {w} : at'[v] = at[v] /\ msg'[v] = msg[v] /\ col'[v] = col[v]
  <2>1. CASE Finish(w)
    BY <2>1, FinishKeeps DEF StaleInv
  <2>2. CASE ~Finish(w)
    BY <1>1, <2>2 DEF Invalidate, Continue, Become, FillsStay
  <2> QED BY <2>1, <2>2
<1>4. \A d \in Checks, j \in Ids :
        IF <<d, j>> = <<c, i>> THEN cache'[d][j] = Absent ELSE cache'[d][j] = cache[d][j]
  BY <1>1, <1>2
<1>5. FillsRecent'
  BY <1>2, <1>3, DueStays DEF StaleInv, FillsRecent, FillsStay, Truth
<1>6. EntriesRecent'
  <2> SUFFICES ASSUME NEW d \in Checks, NEW j \in Ids
               PROVE  /\ cache'[d][j].left <= TTL[d]
                      /\ cache'[d][j].left > 0 /\ cache'[d][j].val # Truth(d, j) =>
                            since[d][j] + cache'[d][j].left <= TTL[d] + 1
    BY <1>2 DEF EntriesRecent, Truth
  <2>1. CASE <<d, j>> = <<c, i>>
    BY <1>1, <1>4, <2>1 DEF Absent
  <2>2. CASE <<d, j>> # <<c, i>>
    BY <1>4, <2>2 DEF StaleInv, EntriesRecent
  <2> QED BY <2>1, <2>2
<1>7. WrongOnlyByRace'
  <2> SUFFICES ASSUME NEW d \in Checks, NEW j \in Ids,
                      cache'[d][j].left > 0, cache'[d][j].val # Truth(d, j)
               PROVE  Pending(d, j)' \/ <<d, j>> \in excused'
    BY <1>2 DEF WrongOnlyByRace, Truth
  <2>1. <<d, j>> # <<c, i>>
    BY <1>4 DEF Absent
  <2>2. Pending(d, j) \/ <<d, j>> \in excused
    BY <1>4, <2>1 DEF StaleInv, WrongOnlyByRace
  <2>3. CASE Pending(d, j)
    <3>1. PICK v \in Workers : at[v] = "invalidate" /\ col[v] = d /\ About(msg[v]) = j
      BY <2>3 DEF Pending
    <3>2. v # w
      BY <2>1, <3>1
    <3> QED BY <1>3, <3>1, <3>2 DEF Pending
  <2> QED BY <1>2, <2>1, <2>2, <2>3
<1> QED BY <1>5, <1>6, <1>7

LEMMA TickStep ==
    ASSUME StaleInv, Tick
    PROVE  FillsRecent' /\ EntriesRecent' /\ WrongOnlyByRace'
<1>1. /\ \A c \in Checks, i \in Ids : cache[c][i] \in Entry /\ since[c][i] \in 0 .. MaxAge
      /\ TTL \in [Checks -> Nat \ {0}] /\ MaxAge \in Nat /\ \A c \in Checks : TTL[c] < MaxAge
  BY AccessAssumption DEF StaleInv, TypeInv, TypeOK
<1>2. /\ UNCHANGED <<rows, at, msg, ans, got, col, overtaken, excused>>
      /\ aged' = {w \in Workers : at[w] = "fill"}
      /\ \A w \in Workers : at[w] = "fill" => w \notin aged
  BY DEF Tick, db
<1>3. \A c \in Checks, i \in Ids :
        /\ since'[c][i] <= since[c][i] + 1
        /\ cache'[c][i].left > 0 => /\ cache'[c][i].val = cache[c][i].val
                                    /\ cache'[c][i].left = cache[c][i].left - 1
                                    /\ cache[c][i].left > 0
        /\ cache'[c][i].left <= cache[c][i].left
        /\ cache'[c][i].left \in Nat
  <2> TAKE c \in Checks, i \in Ids
  <2>1. since'[c][i] = IF since[c][i] < MaxAge THEN since[c][i] + 1 ELSE MaxAge
    BY DEF Tick
  <2>2. cache'[c][i] = IF cache[c][i].left <= 1 THEN Absent ELSE [cache[c][i] EXCEPT !.left = @ - 1]
    BY DEF Tick
  <2>3. PICK b \in BOOLEAN, n \in 0 .. MaxAge : cache[c][i] = [val |-> b, left |-> n]
    BY <1>1 DEF Entry
  <2>4. cache'[c][i] = IF n <= 1 THEN Absent ELSE [val |-> b, left |-> n - 1]
    BY <2>2, <2>3
  <2>5. since'[c][i] <= since[c][i] + 1
    BY <1>1, <2>1
  <2> QED BY <1>1, <2>3, <2>4, <2>5 DEF Absent
<1>4. \A c \in Checks, i \in Ids : cache[c][i].left \in Nat /\ since'[c][i] \in Nat
  <2>1. since' \in [Checks -> [Ids -> 0 .. MaxAge]]
    BY <1>1 DEF Tick
  <2> QED BY <1>1, <2>1 DEF Entry
<1>5. EntriesRecent'
  <2> SUFFICES ASSUME NEW c \in Checks, NEW i \in Ids
               PROVE  /\ cache'[c][i].left <= TTL[c]
                      /\ cache'[c][i].left > 0 /\ cache'[c][i].val # Truth(c, i) =>
                            since'[c][i] + cache'[c][i].left <= TTL[c] + 1
    BY <1>2 DEF EntriesRecent, Truth
  <2> QED BY <1>1, <1>3, <1>4 DEF StaleInv, EntriesRecent
<1>6. FillsRecent'
  <2> SUFFICES ASSUME NEW w \in Workers, NEW c \in Checks, at[w] = "fill", Due(w, c),
                      got[w] # Truth(c, IdOf(msg[w], c))
               PROVE  w \in overtaken /\ since'[c][IdOf(msg[w], c)] <= 1
    BY <1>2 DEF FillsRecent, Truth, Due, Unasked
  <2> DEFINE i == IdOf(msg[w], c)
  <2>1. i \in Ids
    BY DueIsAsked DEF StaleInv
  <2>2. w \in overtaken /\ since[c][i] <= 0
    BY <1>2 DEF StaleInv, FillsRecent
  <2> QED BY <1>1, <1>3, <1>4, <2>1, <2>2
<1>7. WrongOnlyByRace'
  BY <1>2, <1>3 DEF StaleInv, WrongOnlyByRace, Pending, Truth
<1> QED BY <1>5, <1>6, <1>7

LEMMA EvictStep ==
    ASSUME StaleInv, NEW c \in Checks, NEW i \in Ids, EvictEntry(c, i)
    PROVE  FillsRecent' /\ EntriesRecent' /\ WrongOnlyByRace'
<1>1. FillsStay /\ PendingStay /\ UNCHANGED <<rows, since, aged, overtaken, excused, at, msg, col, ans, got>>
  BY DEF EvictEntry, FillsStay, PendingStay, db, history
<1>2. \A d \in Checks, j \in Ids : cache'[d][j] = Absent \/ cache'[d][j] = cache[d][j]
  BY DEF EvictEntry, StaleInv, TypeInv, TypeOK
<1>3. TTL \in [Checks -> Nat \ {0}]
  BY AccessAssumption
<1>4. FillsRecent'
  BY <1>1, DueStays DEF StaleInv, FillsRecent, Truth
<1>5. EntriesRecent'
  BY <1>1, <1>2, <1>3 DEF StaleInv, EntriesRecent, Absent, Truth
<1>6. WrongOnlyByRace'
  BY <1>1, <1>2 DEF StaleInv, WrongOnlyByRace, Pending, Absent, Truth
<1> QED BY <1>4, <1>5, <1>6

LEMMA StaleStep == StaleInv /\ [Next]_vars => StaleInv'
<1> SUFFICES ASSUME StaleInv, [Next]_vars
             PROVE  FillsRecent' /\ EntriesRecent' /\ WrongOnlyByRace'
  BY TypeStep DEF StaleInv
<1> DEFINE Goal == FillsRecent' /\ EntriesRecent' /\ WrongOnlyByRace'
           Still == UNCHANGED <<rows, cache, since, aged, overtaken, excused>>
<1>1. /\ at \in [Workers -> {"idle", "look", "count", "fill", "handler", "write", "invalidate"}]
      /\ msg \in [Workers -> Inputs \cup {NoMessage}]
      /\ col \in [Workers -> Checks \cup {None}]
      /\ ans \in [Workers -> [Checks -> {None, "yes", "no", "error"}]]
  BY DEF StaleInv, TypeInv, TypeOK
<1>2. ASSUME NEW w \in Workers, Finish(w), at[w] # "invalidate", Still PROVE Goal
  BY <1>2, FinishKeeps, QuietStep DEF StaleInv
<1>3. ASSUME NEW w \in Workers, at[w] \in {"write", "invalidate"}
      PROVE  col[w] \in Checks /\ About(msg[w]) \in Ids /\ Adds(msg[w]) \in BOOLEAN
  <2>1. col[w] \in Checks /\ msg[w] \in Inputs
    BY <1>3 DEF StaleInv, TypeInv, TypeOK
  <2>2. OwnerOnly(msg[w]) \/ msg[w].kind = "activate"
    BY <1>3 DEF StaleInv, TypeInv, WritersWrite
  <2>3. About(msg[w]) \in Ids
    BY <2>1, <2>2, WrittenIsCheck
  <2> QED BY <2>1, <2>3 DEF Adds
<1>4. ASSUME NEW w \in Workers, Step(w) PROVE Goal
  <2>1. ASSUME NEW m \in Inputs, Receive(w, m) PROVE Goal
    <3>1. FillsStay /\ PendingStay
      BY <1>1, <2>1 DEF Receive, Become, FillsStay, PendingStay
    <3> QED BY <2>1, <3>1, QuietStep DEF Receive, db, history
  <2>2. ASSUME NEW c \in Checks, Hit(w, c) PROVE Goal
    <3>1. FillsStay /\ PendingStay
      BY <1>1, <2>2 DEF Hit, Answer, FillsStay, PendingStay
    <3> QED BY <2>2, <3>1, QuietStep DEF Hit, db, history
  <2>3. ASSUME NEW c \in Checks, Miss(w, c) \/ CountFails(w, c) PROVE Goal
    <3>1. FillsStay /\ PendingStay
      BY <1>1, <2>3 DEF Miss, CountFails, Become, FillsStay, PendingStay
    <3> QED BY <2>3, <3>1, QuietStep DEF Miss, CountFails, db, history
  <2>4. ASSUME NEW c \in Checks, Count(w, c) \/ Fill(w, c) PROVE Goal
    BY <2>4, CountStep, FillStep
  <2>5. CASE Refuse(w) \/ TurnAway(w) \/ Handle(w)
    BY <1>2, <2>5 DEF Refuse, TurnAway, Handle, db, history
  <2>6. ASSUME NEW t \in Tokens, PromptActivation(w, t) PROVE Goal
    BY <1>2, <2>6 DEF PromptActivation, history
  <2>7. CASE Admit(w)
    <3>1. FillsStay /\ PendingStay
      BY <1>1, <2>7 DEF Admit, Become, FillsStay, PendingStay
    <3> QED BY <2>7, <3>1, QuietStep DEF Admit, db, history
  <2>8. CASE Command(w)
    <3>1. FillsStay /\ PendingStay
      BY <1>1, <2>8 DEF Command, Become, FillsStay, PendingStay
    <3> QED BY <2>8, <3>1, QuietStep DEF Command, db, history
  <2>9. CASE ConsumeToken(w)
    <3>1. FillsStay /\ PendingStay
      BY <1>1, <2>9 DEF ConsumeToken, Become, FillsStay, PendingStay
    <3> QED BY <2>9, <3>1, QuietStep DEF ConsumeToken
  <2>10. CASE ConsumeFails(w)
    BY <1>2, <2>10 DEF ConsumeFails, history
  <2>11. CASE Write(w)
    <3> DEFINE c == col[w]
               i == About(msg[w])
    <3>1. c \in Checks /\ i \in Ids /\ Adds(msg[w]) \in BOOLEAN
      BY <1>3, <2>11 DEF Write
    <3>2. /\ Put(c, i, Adds(msg[w])) /\ at[w] = "write"
          /\ at' = [at EXCEPT ![w] = "invalidate"]
          /\ UNCHANGED <<cache, aged, excused, msg, ans, got, col>>
      BY <2>11 DEF Write, Become
    <3>3. FillsStay /\ PendingStay
      BY <1>1, <3>2 DEF FillsStay, PendingStay
    <3>4. Pending(c, i)'
      BY <1>1, <3>2 DEF Pending
    <3> QED BY <3>1, <3>2, <3>3, <3>4, ExcusedPut
  <2>12. CASE WriteFails(w)
    <3>1. FillsStay /\ PendingStay
      BY <2>12, FinishKeeps DEF WriteFails, StaleInv
    <3>2. CASE UNCHANGED <<rows, since, overtaken, excused>>
      BY <2>12, <3>1, <3>2, QuietStep DEF WriteFails
    <3>3. CASE /\ Put(col[w], About(msg[w]), Adds(msg[w]))
               /\ excused' = excused \cup {<<col[w], About(msg[w])>>}
      <4>1. col[w] \in Checks /\ About(msg[w]) \in Ids /\ Adds(msg[w]) \in BOOLEAN
        BY <1>3, <2>12 DEF WriteFails
      <4> QED BY <2>12, <3>1, <3>3, <4>1, ExcusedPut DEF WriteFails
    <3> QED BY <2>12, <3>2, <3>3 DEF WriteFails
  <2>13. CASE Invalidate(w)
    BY <2>13, InvalidateStep
  <2> QED BY <1>4, <2>1, <2>2, <2>3, <2>4, <2>5, <2>6, <2>7, <2>8, <2>9, <2>10, <2>11, <2>12, <2>13 DEF Step
<1>5. CASE Tick
  BY <1>5, TickStep
<1>6. ASSUME NEW c \in Checks, NEW i \in Ids, EvictEntry(c, i) PROVE Goal
  BY <1>6, EvictStep
<1>7. ASSUME NEW u \in Users \cup Owners, ActivationExpires(u) PROVE Goal
  <2>1. "activated" \in Checks /\ u \in Ids /\ FALSE \in BOOLEAN
    BY DEF Checks, Ids
  <2>2. FillsStay /\ PendingStay
    BY <1>7 DEF ActivationExpires, FillsStay, PendingStay
  <2> QED BY <1>7, <2>1, <2>2, ExcusedPut DEF ActivationExpires
<1>8. ASSUME NEW t \in Tokens, TokenExpires(t) PROVE Goal
  <2>1. FillsStay /\ PendingStay
    BY <1>8 DEF TokenExpires, FillsStay, PendingStay
  <2> QED BY <1>8, <2>1, QuietStep DEF TokenExpires, history
<1>9. CASE Restart
  <2>1. \A c \in Checks : TTL[c] \in Nat
    BY AccessAssumption
  <2> QED BY <1>9, <2>1 DEF Restart, FillsRecent, EntriesRecent, WrongOnlyByRace, Absent
<1>10. CASE UNCHANGED vars
  <2>1. FillsStay /\ PendingStay
    BY <1>10 DEF vars, FillsStay, PendingStay
  <2> QED BY <1>10, <2>1, QuietStep DEF vars, db, history
<1> QED BY <1>4, <1>5, <1>6, <1>7, <1>8, <1>9, <1>10 DEF Next

LEMMA StaleInit == Init => StaleInv
<1>1. \A c \in Checks : TTL[c] \in Nat
  BY AccessAssumption
<1> QED BY <1>1, TypeInit DEF Init, StaleInv, FillsRecent, EntriesRecent, WrongOnlyByRace, Absent

\* Invalidating after each write leaves no wrong entry but for the races named.
THEOREM InvalidationWorks == Spec => []WrongOnlyByRace
<1>1. StaleInv => WrongOnlyByRace
  BY DEF StaleInv
<1> QED BY <1>1, StaleInit, StaleStep, PTL DEF Spec

LEMMA AnswerRecent ==
    ASSUME StaleInv, [Next]_vars, NEW w \in Workers, NEW c \in Checks,
           ans[w][c] = None, ans'[w][c] \in {"yes", "no"}
    PROVE  \/ Truth(c, IdOf(msg[w], c)) <=> ans'[w][c] = "yes"
           \/ since[c][IdOf(msg[w], c)] <= TTL[c]
<1> DEFINE i == IdOf(msg[w], c)
           Goal == (Truth(c, i) <=> ans'[w][c] = "yes") \/ since[c][i] <= TTL[c]
<1>1. /\ ans \in [Workers -> [Checks -> {None, "yes", "no", "error"}]]
      /\ got \in [Workers -> BOOLEAN]
      /\ None \notin {"yes", "no", "error"}
      /\ \A d \in Checks, j \in Ids : /\ cache[d][j].val \in BOOLEAN
                                      /\ cache[d][j].left \in Nat /\ since[d][j] \in Nat
      /\ \A d \in Checks : TTL[d] \in Nat \ {0}
  BY AccessAssumption DEF StaleInv, TypeInv, TypeOK, Entry
<1>2. ans'[w] # ans[w]
  BY <1>1
<1>3. ASSUME NEW v \in Workers, Finish(v) PROVE FALSE
  BY <1>1, <1>3 DEF Finish, NoAnswers
<1>4. ASSUME NEW v \in Workers, NEW d \in Checks, NEW b \in BOOLEAN, Answer(v, d, b)
      PROVE  v = w /\ d = c /\ ((ans'[w][c] = "yes") <=> b)
  BY <1>1, <1>4 DEF Answer
<1>5. ASSUME NEW v \in Workers, NEW d \in Checks, Hit(v, d) PROVE Goal
  <2> DEFINE j == IdOf(msg[v], d)
  <2>1. j \in Ids
    BY <1>5, DueIsAsked DEF Hit, StaleInv
  <2>2. v = w /\ d = c /\ ((ans'[w][c] = "yes") <=> cache[c][i].val) /\ i \in Ids
    BY <1>1, <1>4, <1>5, <2>1 DEF Hit
  <2>3. cache[c][i].left > 0
    BY <1>5, <2>2 DEF Hit
  <2>4. CASE cache[c][i].val # Truth(c, i)
    BY <1>1, <2>2, <2>3, <2>4 DEF StaleInv, EntriesRecent
  <2>5. CASE cache[c][i].val = Truth(c, i)
    BY <1>1, <2>2, <2>5 DEF Truth
  <2> QED BY <2>4, <2>5
<1>6. ASSUME NEW v \in Workers, NEW d \in Checks, Fill(v, d) PROVE Goal
  <2> DEFINE j == IdOf(msg[v], d)
  <2>1. j \in Ids
    BY <1>6, DueIsAsked DEF Fill, StaleInv
  <2>2. v = w /\ d = c /\ ((ans'[w][c] = "yes") <=> got[w]) /\ i \in Ids
    BY <1>1, <1>4, <1>6, <2>1 DEF Fill
  <2>3. at[w] = "fill" /\ Due(w, c)
    BY <1>6, <2>2 DEF Fill
  <2>4. CASE got[w] # Truth(c, i)
    <3>1. since[c][i] <= 1
      BY <1>1, <2>2, <2>3, <2>4 DEF StaleInv, FillsRecent
    <3>2. since[c][i] \in Nat /\ TTL[c] \in Nat \ {0}
      BY <1>1, <2>2
    <3> QED BY <3>1, <3>2
  <2>5. CASE got[w] = Truth(c, i)
    BY <1>1, <2>2, <2>5 DEF Truth
  <2> QED BY <2>4, <2>5
<1>7. ASSUME NEW v \in Workers, Step(v) PROVE Goal
  <2>1. ASSUME NEW m \in Inputs, Receive(v, m) PROVE Goal
    BY <1>2, <2>1 DEF Receive
  <2>2. ASSUME NEW d \in Checks, Miss(v, d) \/ Count(v, d) PROVE Goal
    BY <1>2, <2>2 DEF Miss, Count
  <2>3. ASSUME NEW d \in Checks, CountFails(v, d) PROVE Goal
    BY <1>1, <2>3 DEF CountFails
  <2>4. CASE Refuse(v) \/ TurnAway(v) \/ Handle(v) \/ ConsumeFails(v) \/ WriteFails(v)
    BY <1>3, <2>4 DEF Refuse, TurnAway, Handle, ConsumeFails, WriteFails
  <2>5. ASSUME NEW t \in Tokens, PromptActivation(v, t) PROVE Goal
    BY <1>3, <2>5 DEF PromptActivation
  <2>6. CASE Admit(v) \/ Command(v) \/ ConsumeToken(v) \/ Write(v)
    BY <1>2, <2>6 DEF Admit, Command, ConsumeToken, Write
  <2>7. CASE Invalidate(v)
    BY <1>2, <1>3, <2>7 DEF Invalidate, Continue
  <2> QED BY <1>5, <1>6, <1>7, <2>1, <2>2, <2>3, <2>4, <2>5, <2>6, <2>7 DEF Step
<1>8. CASE Tick \/ (\E d \in Checks, j \in Ids : EvictEntry(d, j))
           \/ (\E u \in Users \cup Owners : ActivationExpires(u))
           \/ \E t \in Tokens : TokenExpires(t)
  BY <1>2, <1>8 DEF Tick, EvictEntry, ActivationExpires, TokenExpires
<1>9. CASE Restart
  BY <1>1, <1>9 DEF Restart, NoAnswers
<1>10. CASE UNCHANGED vars
  BY <1>2, <1>10 DEF vars
<1> QED BY <1>7, <1>8, <1>9, <1>10 DEF Next

\* No answer is older than an entry of its cache may be.
THEOREM ChecksAnswerRecently == Spec => AnswersAreRecent
<1>1. StaleInv /\ [Next]_vars =>
        [\A w \in Workers, c \in Checks :
           LET i == IdOf(msg[w], c) IN
           ans[w][c] = None /\ ans'[w][c] \in {"yes", "no"} =>
               \/ Truth(c, i) <=> ans'[w][c] = "yes"
               \/ since[c][i] <= TTL[c]]_vars
  BY AnswerRecent
<1> QED BY <1>1, StaleInit, StaleStep, PTL DEF Spec, AnswersAreRecent
=============================================================================
