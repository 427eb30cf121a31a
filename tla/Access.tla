------------------------------- MODULE Access -------------------------------
(***************************************************************************)
(* Who may use the bot: the pre-flight chain of internal/bot (dispatchAsync *)
(* and preflight), the read-through caches of internal/store it asks, the  *)
(* owner's commands that change the answers and the one-time activation    *)
(* tokens, each message in a goroutine of its own.                         *)
(*                                                                         *)
(* A check looks in its cache; on a miss it counts the documents of its    *)
(* collection and then fills the cache, two steps between which anything   *)
(* may happen.  A command writes its collection and then invalidates the   *)
(* cache.  Time passes in ticks of five minutes, the shortest lifetime of  *)
(* a cache entry; a count and the fill that follows it are given less time *)
(* than that by their contexts.                                            *)
(***************************************************************************)
EXTENDS Naturals

CONSTANTS
    Users,
    Owners,
    Chats,         \* groups and channels
    Tokens,        \* the activation tokens that may be made
    Workers,       \* the goroutines that handle messages
    Inputs,        \* the messages that may come
    TTL,           \* TTL[c]: how many ticks an entry of c's cache lasts
    PrivateMode,   \* TG_PRIVATE_MODE
    TokenEnabled,  \* TG_TOKEN_ENABLED
    Before,        \* what the collections may hold when the process is started
    Crowded,       \* the caches that other ids fill to their capacity
    ConfigBanned,  \* TG_BANNED_CHANNEL_IDS
    MaxMessages,   \* bound on the messages that come
    MaxAge,        \* ages are counted up to here
    None           \* no chat, no answer, no collection

\* The collections that are asked, each with its cache, in the chain's order.
Checks == {"bannedChats", "authorized", "banned", "activated"}

Rank == [bannedChats |-> 1, authorized |-> 2, banned |-> 3, activated |-> 4]

Ids == Users \cup Owners \cup Chats

\* A command's "to" is whom it is about, and an activation's is its token.
Messages ==
    [kind: {"start", "file"}, from: Users \cup Owners, chat: Chats \cup {None}, to: {None}]
    \cup [kind: {"activate"}, from: Users \cup Owners, chat: Chats \cup {None}, to: Tokens]
    \cup [kind: {"post"}, from: Chats, chat: Chats, to: {None}]
    \cup [kind: {"ban", "unban"}, from: Users \cup Owners, chat: Chats \cup {None}, to: Users \cup Chats]
    \cup [kind: {"authorize", "deauthorize"}, from: Users \cup Owners, chat: Chats \cup {None}, to: Users]

ASSUME AccessAssumption ==
    /\ Inputs \subseteq Messages
    /\ TTL \in [Checks -> Nat \ {0}]
    /\ PrivateMode \in BOOLEAN /\ TokenEnabled \in BOOLEAN
    /\ Before \subseteq [Checks -> SUBSET Ids]
    /\ Crowded \subseteq Checks
    /\ ConfigBanned \subseteq Chats
    /\ MaxMessages \in Nat
    /\ MaxAge \in Nat /\ \A c \in Checks : TTL[c] < MaxAge
    /\ Users \cap Owners = {} /\ Users \cap Chats = {} /\ Owners \cap Chats = {}
    /\ None \notin Ids \cup Tokens \cup Checks \cup {"yes", "no", "error"}

VARIABLES
    rows,      \* rows[c]: the ids collection c holds, the documents that count
    cache,     \* cache[c][i]: the cached answer and the ticks it has left, 0 if absent
    tokens,    \* tokens[t]: whether activation token t is yet to be made, stored, or gone
    at,        \* at[w]: where worker w stands
    msg,       \* msg[w]: the message it handles
    ans,       \* ans[w][c]: what check c answered
    got,       \* got[w]: the answer the database gave, not yet in the cache
    col,       \* col[w]: the collection w's handler writes
    received,  \* how many messages have come
    since,     \* history: since[c][i], the ticks since the answer for i last changed
    aged,      \* ... the workers that have seen a tick between the count and the fill
    overtaken, \* ... those whose answer has changed in between
    excused,   \* ... <<c, i>> if no invalidation could be expected of what is cached
    spent      \* ... spent[t]: how often token t let someone activate

db == <<rows, tokens>>
history == <<since, aged, overtaken, excused, spent>>
vars == <<rows, cache, tokens, at, msg, ans, got, col, received, history>>

NoMessage == [kind |-> "none", from |-> None, chat |-> None, to |-> None]

NoAnswers == [c \in Checks |-> None]

Entry == [val: BOOLEAN, left: 0 .. MaxAge]

Absent == [val |-> FALSE, left |-> 0]

TypeOK ==
    /\ rows \in [Checks -> SUBSET Ids]
    /\ cache \in [Checks -> [Ids -> Entry]]
    /\ tokens \in [Tokens -> {"unmade", "stored", "gone"}]
    /\ at \in [Workers -> {"idle", "look", "count", "fill", "handler", "write", "invalidate"}]
    /\ msg \in [Workers -> Inputs \cup {NoMessage}]
    /\ \A w \in Workers : at[w] # "idle" => msg[w] \in Inputs
    /\ ans \in [Workers -> [Checks -> {None, "yes", "no", "error"}]]
    /\ got \in [Workers -> BOOLEAN]
    /\ col \in [Workers -> Checks \cup {None}]
    /\ \A w \in Workers : at[w] \in {"write", "invalidate"} => col[w] \in Checks
    /\ received \in Nat
    /\ since \in [Checks -> [Ids -> 0 .. MaxAge]]
    /\ aged \subseteq Workers
    /\ overtaken \subseteq Workers
    /\ excused \subseteq Checks \X Ids
    /\ spent \in [Tokens -> Nat]

Init ==
    /\ rows \in Before
    /\ cache = [c \in Checks |-> [i \in Ids |-> Absent]]
    /\ tokens = [t \in Tokens |-> "unmade"]
    /\ at = [w \in Workers |-> "idle"]
    /\ msg = [w \in Workers |-> NoMessage]
    /\ ans = [w \in Workers |-> NoAnswers]
    /\ got = [w \in Workers |-> FALSE]
    /\ col = [w \in Workers |-> None]
    /\ received = 0
    /\ since = [c \in Checks |-> [i \in Ids |-> MaxAge]]
    /\ aged = {}
    /\ overtaken = {}
    /\ excused = {}
    /\ spent = [t \in Tokens |-> 0]

-----------------------------------------------------------------------------
(* The chain.                                                              *)

\* Owners, and posts of a channel, skip preflight.
Exempt(m) == m.from \in Owners \/ m.kind = "post"

IsStart(m) == m.kind \in {"start", "activate"}

Asks(m, a) ==
    {c \in Checks :
        \/ c = "bannedChats" /\ m.chat # None
        \/ c = "authorized"
        \/ c = "banned" /\ ~Exempt(m)
        \/ c = "activated" /\ TokenEnabled /\ ~Exempt(m) /\ ~IsStart(m) /\ a["authorized"] # "yes"}

\* Whom check c is about.
IdOf(m, c) == IF c = "bannedChats" THEN m.chat ELSE m.from

OwnerOnly(m) == m.kind \in {"ban", "unban", "authorize", "deauthorize"}

\* Mutant: a check that cannot be made is passed.
RefusedWithoutErrors(m, a) ==
    \/ a["bannedChats"] = "yes"
    \/ a["bannedChats"] = "no" /\ m.chat \in ConfigBanned
    \/ a["authorized"] # None /\ OwnerOnly(m) /\ m.from \notin Owners
    \/ a["banned"] = "yes"
    \/ a["banned"] = "no" /\ PrivateMode /\ a["authorized"] # "yes"
    \/ a["activated"] = "no"

\* What it has been told so far is enough to turn a message away.
Refused(m, a) ==
    \/ a["bannedChats"] \in {"yes", "error"}
    \/ a["bannedChats"] = "no" /\ m.chat \in ConfigBanned
    \/ a["authorized"] # None /\ OwnerOnly(m) /\ m.from \notin Owners
    \/ a["banned"] \in {"yes", "error"}
    \/ a["banned"] = "no" /\ PrivateMode /\ a["authorized"] # "yes"
    \/ a["activated"] \in {"no", "error"}

Unasked(w) == {c \in Asks(msg[w], ans[w]) : ans[w][c] = None}

\* The check w is at.
Due(w, c) == c \in Unasked(w) /\ \A d \in Unasked(w) : Rank[c] <= Rank[d]

Become(w, place) == at' = [at EXCEPT ![w] = place]

Finish(w) ==
    /\ at' = [at EXCEPT ![w] = "idle"]
    /\ msg' = [msg EXCEPT ![w] = NoMessage]
    /\ ans' = [ans EXCEPT ![w] = NoAnswers]
    /\ got' = [got EXCEPT ![w] = FALSE]
    /\ col' = [col EXCEPT ![w] = None]

Truth(c, i) == i \in rows[c]

Answer(w, c, yes) ==
    ans' = [ans EXCEPT ![w][c] = IF yes THEN "yes" ELSE "no"]

Receive(w, m) ==
    /\ at[w] = "idle"
    /\ received < MaxMessages
    /\ received' = received + 1
    /\ Become(w, "look")
    /\ msg' = [msg EXCEPT ![w] = m]
    /\ UNCHANGED <<db, cache, ans, got, col, history>>

Hit(w, c) ==
    LET i == IdOf(msg[w], c) IN
    /\ at[w] = "look" /\ ~Refused(msg[w], ans[w]) /\ Due(w, c)
    /\ cache[c][i].left > 0
    /\ Answer(w, c, cache[c][i].val)
    /\ UNCHANGED <<db, cache, at, msg, got, col, received, history>>

Miss(w, c) ==
    /\ at[w] = "look" /\ ~Refused(msg[w], ans[w]) /\ Due(w, c)
    /\ cache[c][IdOf(msg[w], c)].left = 0
    /\ Become(w, "count")
    /\ UNCHANGED <<db, cache, msg, ans, got, col, received, history>>

Count(w, c) ==
    /\ at[w] = "count" /\ Due(w, c)
    /\ got' = [got EXCEPT ![w] = Truth(c, IdOf(msg[w], c))]
    /\ Become(w, "fill")
    /\ UNCHANGED <<db, cache, msg, ans, col, received, history>>

CountFails(w, c) ==
    /\ at[w] = "count" /\ Due(w, c)
    /\ ans' = [ans EXCEPT ![w][c] = "error"]
    /\ Become(w, "look")
    /\ UNCHANGED <<db, cache, msg, got, col, received, history>>

Fill(w, c) ==
    LET i == IdOf(msg[w], c) IN
    /\ at[w] = "fill" /\ Due(w, c)
    /\ cache' = [cache EXCEPT ![c][i] = [val |-> got[w], left |-> TTL[c]]]
    /\ Answer(w, c, got[w])
    /\ got' = [got EXCEPT ![w] = FALSE]
    /\ Become(w, "look")
    /\ aged' = aged \ {w}
    /\ overtaken' = overtaken \ {w}
    /\ excused' = IF w \in overtaken THEN excused \cup {<<c, i>>} ELSE excused \ {<<c, i>>}
    /\ UNCHANGED <<db, msg, col, received, since, spent>>

\* A check refuses the message.
Refuse(w) ==
    /\ at[w] = "look" /\ Refused(msg[w], ans[w])
    /\ Finish(w)
    /\ UNCHANGED <<db, cache, received, history>>

\* promptActivation: the user is sent a token of their own.  It is stored even
\* if the answer to storing it is lost, and is then not sent.
PromptActivation(w, t) ==
    /\ at[w] = "look" /\ ans[w]["activated"] = "no"
    /\ tokens[t] = "unmade"
    /\ tokens' = [tokens EXCEPT ![t] = "stored"]
    /\ Finish(w)
    /\ UNCHANGED <<rows, cache, received, history>>

\* Force-subscription or a rate limit turns away who passed the checks.
TurnAway(w) ==
    /\ at[w] = "look" /\ ~Refused(msg[w], ans[w]) /\ Unasked(w) = {}
    /\ ~Exempt(msg[w])
    /\ ~IsStart(msg[w]) \/ ans[w]["authorized"] # "yes"
    /\ Finish(w)
    /\ UNCHANGED <<db, cache, received, history>>

Admit(w) ==
    /\ at[w] = "look" /\ ~Refused(msg[w], ans[w]) /\ Unasked(w) = {}
    /\ Become(w, "handler")
    /\ UNCHANGED <<db, cache, msg, ans, got, col, received, history>>

-----------------------------------------------------------------------------
(* The handlers.                                                           *)

\* What a handler writes first, about whom, and whether it adds or deletes.
Written(m) ==
    CHOOSE c \in Checks :
        \/ c = "activated" /\ m.kind = "activate"
        \/ c = "bannedChats" /\ m.kind \in {"ban", "unban"} /\ m.to \in Chats
        \/ c = "banned" /\ m.kind \in {"ban", "unban"} /\ m.to \notin Chats
        \/ c = "authorized" /\ m.kind \in {"authorize", "deauthorize"}

About(m) == IF m.kind = "activate" THEN m.from ELSE m.to

Adds(m) == m.kind \in {"ban", "authorize", "activate"}

\* A handler that leaves the collections alone, or gives up on its arguments.
Handle(w) ==
    /\ at[w] = "handler"
    /\ \/ msg[w].kind \in {"start", "file", "post", "authorize"}
       \/ msg[w].kind = "activate" /\ ~TokenEnabled
    /\ Finish(w)
    /\ UNCHANGED <<db, cache, received, history>>

\* An owner's command goes to work.
Command(w) ==
    /\ at[w] = "handler" /\ OwnerOnly(msg[w])
    /\ Become(w, "write")
    /\ col' = [col EXCEPT ![w] = Written(msg[w])]
    /\ UNCHANGED <<db, cache, msg, ans, got, received, history>>

\* Mutant: the token is looked up and left in place.
FindToken(w) ==
    /\ at[w] = "handler" /\ TokenEnabled /\ msg[w].kind = "activate"
    /\ tokens[msg[w].to] = "stored"
    /\ spent' = [spent EXCEPT ![msg[w].to] = @ + 1]
    /\ Become(w, "write")
    /\ col' = [col EXCEPT ![w] = Written(msg[w])]
    /\ UNCHANGED <<db, cache, msg, ans, got, received, since, aged, overtaken, excused>>

ConsumeToken(w) ==
    /\ at[w] = "handler" /\ TokenEnabled /\ msg[w].kind = "activate"
    /\ tokens[msg[w].to] = "stored"
    /\ tokens' = [tokens EXCEPT ![msg[w].to] = "gone"]
    /\ spent' = [spent EXCEPT ![msg[w].to] = @ + 1]
    /\ Become(w, "write")
    /\ col' = [col EXCEPT ![w] = Written(msg[w])]
    /\ UNCHANGED <<rows, cache, msg, ans, got, received, since, aged, overtaken, excused>>

\* The token is unknown or expired, or the call fails, perhaps with the token gone.
ConsumeFails(w) ==
    /\ at[w] = "handler" /\ TokenEnabled /\ msg[w].kind = "activate"
    /\ \/ UNCHANGED tokens
       \/ /\ tokens[msg[w].to] = "stored"
          /\ tokens' = [tokens EXCEPT ![msg[w].to] = "gone"]
    /\ Finish(w)
    /\ UNCHANGED <<rows, cache, received, history>>

\* Collection c comes to hold i, or not to hold it any more.
Put(c, i, holds) ==
    /\ rows' = [rows EXCEPT ![c] = IF holds THEN @ \cup {i} ELSE @ \ {i}]
    /\ since' = IF Truth(c, i) = holds THEN since ELSE [since EXCEPT ![c][i] = 0]
    /\ overtaken' = overtaken \cup {w \in Workers : /\ at[w] = "fill" /\ Due(w, c)
                                                   /\ IdOf(msg[w], c) = i
                                                   /\ Truth(c, i) # holds}

Write(w) ==
    /\ at[w] = "write"
    /\ Put(col[w], About(msg[w]), Adds(msg[w]))
    /\ Become(w, "invalidate")
    /\ UNCHANGED <<cache, tokens, msg, ans, got, col, received, aged, excused, spent>>

\* The write fails; it may have been done all the same, and nobody invalidates.
WriteFails(w) ==
    /\ at[w] = "write"
    /\ \/ UNCHANGED <<rows, since, overtaken, excused>>
       \/ /\ Put(col[w], About(msg[w]), Adds(msg[w]))
          /\ excused' = excused \cup {<<col[w], About(msg[w])>>}
    /\ Finish(w)
    /\ UNCHANGED <<cache, tokens, received, aged, spent>>

\* What is done once a collection and its cache are: /deauthorize goes on to
\* revoke the user's activation.
Continue(w) ==
    IF msg[w].kind = "deauthorize" /\ col[w] = "authorized" /\ TokenEnabled
    THEN /\ Become(w, "write")
         /\ col' = [col EXCEPT ![w] = "activated"]
         /\ UNCHANGED <<msg, ans, got>>
    ELSE Finish(w)

\* Mutant: the cache is told what was written.
SetInstead(w) ==
    LET i == About(msg[w]) IN
    /\ at[w] = "invalidate"
    /\ cache' = [cache EXCEPT ![col[w]][i] = [val |-> Adds(msg[w]), left |-> TTL[col[w]]]]
    /\ excused' = excused \ {<<col[w], i>>}
    /\ Continue(w)
    /\ UNCHANGED <<db, received, since, aged, overtaken, spent>>

Invalidate(w) ==
    LET i == About(msg[w]) IN
    /\ at[w] = "invalidate"
    /\ cache' = [cache EXCEPT ![col[w]][i] = Absent]
    /\ excused' = excused \ {<<col[w], i>>}
    /\ Continue(w)
    /\ UNCHANGED <<db, received, since, aged, overtaken, spent>>

-----------------------------------------------------------------------------
(* The environment.                                                        *)

\* Mutant: entries stay until something else removes them.
TickNoExpiry ==
    /\ \A w \in Workers : at[w] = "fill" => w \notin aged
    /\ since' = [c \in Checks |-> [i \in Ids |->
                    IF since[c][i] < MaxAge THEN since[c][i] + 1 ELSE MaxAge]]
    /\ aged' = {w \in Workers : at[w] = "fill"}
    /\ UNCHANGED <<db, cache, at, msg, ans, got, col, received, overtaken, excused, spent>>

\* Five minutes pass.
Tick ==
    /\ \A w \in Workers : at[w] = "fill" => w \notin aged
    /\ cache' = [c \in Checks |-> [i \in Ids |->
                    IF cache[c][i].left <= 1 THEN Absent
                    ELSE [cache[c][i] EXCEPT !.left = @ - 1]]]
    /\ since' = [c \in Checks |-> [i \in Ids |->
                    IF since[c][i] < MaxAge THEN since[c][i] + 1 ELSE MaxAge]]
    /\ aged' = {w \in Workers : at[w] = "fill"}
    /\ UNCHANGED <<db, at, msg, ans, got, col, received, overtaken, excused, spent>>

\* A full cache drops the entry that has been left alone for longest.
EvictEntry(c, i) ==
    /\ c \in Crowded
    /\ cache[c][i].left > 0
    /\ cache' = [cache EXCEPT ![c][i] = Absent]
    /\ UNCHANGED <<db, at, msg, ans, got, col, received, history>>

\* A user's activation expires ...
ActivationExpires(u) ==
    /\ u \in rows["activated"]
    /\ Put("activated", u, FALSE)
    /\ excused' = excused \cup {<<"activated", u>>}
    /\ UNCHANGED <<cache, tokens, at, msg, ans, got, col, received, aged, spent>>

\* ... and so does a token.
TokenExpires(t) ==
    /\ tokens[t] = "stored"
    /\ tokens' = [tokens EXCEPT ![t] = "gone"]
    /\ UNCHANGED <<rows, cache, at, msg, ans, got, col, received, history>>

\* The process ends and another is started: what is not in the database is lost.
Restart ==
    /\ cache' = [c \in Checks |-> [i \in Ids |-> Absent]]
    /\ at' = [w \in Workers |-> "idle"]
    /\ msg' = [w \in Workers |-> NoMessage]
    /\ ans' = [w \in Workers |-> NoAnswers]
    /\ got' = [w \in Workers |-> FALSE]
    /\ col' = [w \in Workers |-> None]
    /\ aged' = {} /\ overtaken' = {} /\ excused' = {}
    /\ UNCHANGED <<db, received, since, spent>>

-----------------------------------------------------------------------------

Step(w) ==
    \/ \E m \in Inputs : Receive(w, m)
    \/ \E c \in Checks : Hit(w, c) \/ Miss(w, c) \/ Count(w, c) \/ CountFails(w, c) \/ Fill(w, c)
    \/ Refuse(w)
    \/ \E t \in Tokens : PromptActivation(w, t)
    \/ TurnAway(w) \/ Admit(w) \/ Handle(w) \/ Command(w)
    \/ ConsumeToken(w) \/ ConsumeFails(w)
    \/ Write(w) \/ WriteFails(w) \/ Invalidate(w)

Next ==
    \/ \E w \in Workers : Step(w)
    \/ Tick
    \/ \E c \in Checks, i \in Ids : EvictEntry(c, i)
    \/ \E u \in Users \cup Owners : ActivationExpires(u)
    \/ \E t \in Tokens : TokenExpires(t)
    \/ Restart

Spec == Init /\ [][Next]_vars

-----------------------------------------------------------------------------
(* Properties.                                                             *)

\* store.go, the lifetimes of the caches; CONFIGURATION.md:207, "cache lag":
\* whatever a check answers was true no longer ago than its cache's lifetime,
\* however commands, misses and fills are ordered and however often it is asked.
AnswersAreRecent ==
    [][\A w \in Workers, c \in Checks :
         LET i == IdOf(msg[w], c) IN
         ans[w][c] = None /\ ans'[w][c] \in {"yes", "no"} =>
             \/ Truth(c, i) <=> ans'[w][c] = "yes"
             \/ since[c][i] <= TTL[c]]_vars

Pending(c, i) ==
    \E w \in Workers : at[w] = "invalidate" /\ col[w] = c /\ About(msg[w]) = i

\* store.go, "Invalidate (not set)": an entry is only ever wrong while the
\* invalidation is still to come, or if a count that the change overtook filled
\* it, or if nobody could tell that there was a change: a write whose answer
\* was lost, an activation that expired.
WrongOnlyByRace ==
    \A c \in Checks, i \in Ids :
        cache[c][i].left > 0 /\ cache[c][i].val # Truth(c, i) =>
            Pending(c, i) \/ <<c, i>> \in excused

\* The chain of bot.go, "fail closed on DB error": nobody's message gets to a
\* handler unless every check that stands in its way was made, and passed.
AdmittedByTheBook ==
    \A w \in Workers :
        LET m == msg[w]
            a == ans[w]
        IN  at[w] \in {"handler", "write", "invalidate"} =>
              /\ m.chat # None => a["bannedChats"] = "no" /\ m.chat \notin ConfigBanned
              /\ ~Exempt(m) =>
                   /\ a["banned"] = "no"
                   /\ PrivateMode => a["authorized"] = "yes"
                   /\ TokenEnabled /\ ~IsStart(m) => "yes" \in {a["authorized"], a["activated"]}
                   /\ ~OwnerOnly(m)

Activating(w) == at[w] \in {"write", "invalidate"} /\ msg[w].kind = "activate"

\* store.go:870-872, "two concurrent /start calls with the same token cannot
\* both succeed": whoever is being activated has used a token up, no token is
\* used up twice and none serves two of them.
OneTokenOneActivation ==
    /\ \A t \in Tokens : spent[t] <= 1
    /\ \A w \in Workers : Activating(w) => spent[msg[w].to] = 1
    /\ \A v, w \in Workers : Activating(v) /\ Activating(w) /\ msg[v].to = msg[w].to => v = w
=============================================================================
