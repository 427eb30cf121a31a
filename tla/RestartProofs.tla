--------------------------- MODULE RestartProofs ----------------------------
(* Theorems about Restart: the lives of the process, for any commands, any  *)
(* supervisor and any number of faults.                                     *)
EXTENDS Restart, FiniteSetTheorems, WellFoundedInduction, TLAPS

\* The greatest of some of the first n numbers: that of which fewest lie above.
LEMMA Greatest ==
    ASSUME NEW n \in Nat, NEW S \in SUBSET (1..n), S # {}
    PROVE  \E m \in S : \A k \in S : k <= m
<1> DEFINE Above(k) == {j \in S : j > k}
<1> DEFINE T == {Above(k) : k \in S}
<1>0. 1..n \subseteq Int /\ 1 \in Int /\ n \in Int
  OBVIOUS
<1>1. IsFiniteSet(S)
  <2>1. IsFiniteSet(1..n)
    BY <1>0, FS_Interval
  <2> QED BY <2>1, FS_Subset
<1>2. T \subseteq FiniteSubsetsOf(S) /\ T # {}
  <2>1. \A k \in S : Above(k) \in SUBSET S
    OBVIOUS
  <2>2. \A V \in SUBSET S : IsFiniteSet(V)
    BY <1>1, FS_Subset
  <2> QED BY <2>1, <2>2, Zenon DEF FiniteSubsetsOf
<1>3. PICK U \in T : \A V \in T : <<V, U>> \notin StrictSubsetOrdering(S)
  BY <1>2, FS_StrictSubsetOrderingWellFounded, WFMin
<1>4. PICK m \in S : U = Above(m)
  BY <1>3
<1>5. ASSUME NEW k \in S, k > m PROVE FALSE
  <2>1. Above(k) \subseteq Above(m) /\ k \in Above(m) /\ k \notin Above(k)
    <3>1. \A j \in S : j \in Int
      OBVIOUS
    <3>2. \A j \in S : j > k => j > m
      BY <1>5, <3>1
    <3>3. ~(k > k)
      BY <3>1
    <3> QED BY <1>5, <3>2, <3>3, Zenon
  <2>2. Above(k) \in T /\ Above(k) \in SUBSET S /\ Above(m) \in SUBSET S
    BY <1>5
  <2> QED BY <1>3, <1>4, <2>1, <2>2 DEF StrictSubsetOrdering
<1> QED BY <1>0, <1>5

\* What PopRestartMarker finds is one of the markers.
LEMMA NewestIsOne ==
    ASSUME TypeOK, Pending # {}
    PROVE  Chosen(Pending) \in Pending
<1> DEFINE P == Pending
<1> DEFINE D == {Dated(c) : c \in P}
<1>1. \A c \in P : Dated(c) \in 1..Len(asked)
  <2> SUFFICES ASSUME NEW c \in P PROVE Dated(c) \in 1..Len(asked)
    OBVIOUS
  <2>1. aged \in Nat /\ Len(asked) \in Nat
    BY DEF TypeOK
  <2>2. \E i \in 1..Len(asked) : asked[i] = c
    BY <2>1 DEF Pending, Young
  <2> QED BY <2>2 DEF Dated
<1>2. Len(asked) \in Nat
  BY DEF TypeOK
<1> HIDE DEF P
<1>3. D \in SUBSET (1..Len(asked)) /\ D # {}
  BY <1>1 DEF P
<1>4. PICK m \in D : \A k \in D : k <= m
  BY <1>2, <1>3, Greatest
<1>5. \E c \in P : \A d \in P : Dated(d) <= Dated(c)
  BY <1>4
<1>6. Newest(P) \in P
  BY <1>5 DEF Newest
<1> QED BY <1>6 DEF Chosen, P

\* The process' part of the types and the commands'.
ProcTypes ==
    /\ main \in Starting \cup {"down", "serving", "undo", "stopping"}
    /\ exit \in {"never", "clean", "failure"}
    /\ parts \subseteq AllParts
    /\ undo \in Seq(AllParts)
    /\ faults \in 0..MaxFaults

LookTypes == looker \in {"off", "pop", "edit", "done"} /\ popped \in Commands \cup {NoCommand}

CmdTypes ==
    /\ policy \in Policies /\ signals \in Platforms
    /\ cmd \in [Commands -> Working \cup {"unsent", "save", "signal", "over"}]
    /\ asked \in Seq(Commands) /\ aged \in 0..Len(asked)
    /\ markers \subseteq Commands
    /\ text \in [Commands -> {"none", "restarting", "failed", "success"}]
    /\ {built, aborted, early, spoilt} \subseteq SUBSET Commands

\* The goroutine that edits knows the command.
Looking == looker = "edit" => popped \in Commands

LEMMA RestartTypeParts == TypeOK <=> ProcTypes /\ LookTypes /\ CmdTypes
  BY DEF TypeOK, ProcTypes, LookTypes, CmdTypes

LEMMA RestartTypesKept ==
    ASSUME TypeOK, Looking, [Next]_vars
    PROVE  TypeOK' /\ Looking'
<1> USE DEF procVars, lookVars, cmdVars, histVars, Elsewhere
<1>0. ProcTypes /\ LookTypes /\ CmdTypes /\ MaxFaults \in Nat
  BY RestartTypeParts, RestartAssumption
<1> DEFINE Kept == ProcTypes' /\ LookTypes' /\ CmdTypes' /\ Looking'
<1> SUFFICES Kept
  BY DEF TypeOK, ProcTypes, LookTypes, CmdTypes
<1> HIDE DEF Kept
<1>1. ASSUME UNCHANGED Elsewhere PROVE CmdTypes'
  BY <1>0, <1>1 DEF CmdTypes
<1>2. ASSUME UNCHANGED lookVars PROVE LookTypes' /\ Looking'
  BY <1>0, <1>2 DEF LookTypes, Looking
<1>3. Fault => faults' \in 0..MaxFaults
  BY <1>0 DEF Fault, ProcTypes
<1>4. ASSUME NEW how \in {"clean", "failure"}, Die(how), Fault \/ UNCHANGED faults
      PROVE  Kept
  <2>1. ProcTypes'
    BY <1>0, <1>3, <1>4 DEF Die, ProcTypes
  <2>2. LookTypes' /\ Looking'
    BY <1>4 DEF Die, LookTypes, Looking
  <2>3. cmd' \in [Commands -> Working \cup {"unsent", "save", "signal", "over"}]
    BY <1>0, <1>4 DEF Die, CmdTypes
  <2>4. Taken \subseteq Commands
    BY DEF Taken, Looking
  <2>5. InProgress \subseteq Commands
    BY DEF InProgress
  <2>6. CmdTypes'
    BY <1>0, <1>4, <2>3, <2>4, <2>5 DEF Die, CmdTypes
  <2> QED BY <2>1, <2>2, <2>6 DEF Kept
<1>5. CASE Crash \/ ServerFails
  BY <1>4, <1>5 DEF Crash, ServerFails
<1>6. CASE Exit
  BY <1>4, <1>6 DEF Exit
\* The start, and the stop.
<1>7. ASSUME ProcTypes', UNCHANGED <<lookVars, Elsewhere>> PROVE Kept
  BY <1>1, <1>2, <1>7 DEF Kept
<1>8. ASSUME NEW step \in Starting \cup {"serving"}, Enter(step),
             parts' \subseteq AllParts, Fault \/ UNCHANGED faults
      PROVE  ProcTypes'
  BY <1>0, <1>3, <1>8 DEF Enter, ProcTypes
<1>9. ASSUME NEW order \in Seq(AllParts), GiveUp(order) PROVE Kept
  <2>1. ProcTypes'
    BY <1>0, <1>3, <1>9 DEF GiveUp, ProcTypes
  <2> QED BY <1>7, <1>9, <2>1 DEF GiveUp
<1>10. CASE Launch \/ OperatorLaunch
  <2>1. ProcTypes'
    BY <1>0, <1>8, <1>10 DEF Launch, OperatorLaunch, Starting, ProcTypes
  <2> QED BY <1>7, <1>10, <2>1 DEF Launch, OperatorLaunch
<1>11. ASSUME NEW step \in Starting \cup {"serving"}, Enter(step),
              parts' \subseteq AllParts, UNCHANGED faults,
              UNCHANGED Elsewhere, LookTypes', Looking'
       PROVE  Kept
  BY <1>1, <1>8, <1>11 DEF Kept
<1>12. /\ <<>> \in Seq(AllParts) /\ <<"touch", "store">> \in Seq(AllParts)
       /\ Everything \in Seq(AllParts)
       /\ <<"http">> \o Everything \in Seq(AllParts)
       /\ parts \subseteq AllParts
  BY <1>0 DEF AllParts, Everything, ProcTypes
<1>13. CASE Boot
  <2>1. OpenStore => Kept
    BY <1>2, <1>9, <1>11, <1>12 DEF OpenStore, Starting, AllParts
  <2>2. OpenPool => Kept
    BY <1>2, <1>9, <1>11, <1>12 DEF OpenPool, Starting, AllParts
  <2>3. StartBot => Kept
    BY <1>2, <1>9, <1>11, <1>12 DEF StartBot, Starting, AllParts
  <2>4. ListCommands => Kept
    BY <1>2, <1>11, <1>12 DEF ListCommands, Starting
  <2>5. ASSUME BuildServer PROVE Kept
    <3>1. CASE GiveUp(Everything)
      BY <1>9, <1>12, <3>1
    <3>2. CASE Enter("run") /\ looker' = "pop"
               /\ UNCHANGED <<parts, popped, Elsewhere, faults>>
      <4>1. LookTypes' /\ Looking'
        BY <1>0, <3>2 DEF LookTypes, Looking
      <4> QED BY <1>11, <1>12, <3>2, <4>1 DEF Starting
    <3> QED BY <2>5, <3>1, <3>2 DEF BuildServer
  <2>6. Serve => Kept
    BY <1>2, <1>11, <1>12 DEF Serve, AllParts
  <2> QED BY <1>13, <2>1, <2>2, <2>3, <2>4, <2>5, <2>6 DEF Boot
<1>14. ASSUME Hear, Fault \/ UNCHANGED faults PROVE ProcTypes'
  BY <1>0, <1>3, <1>12, <1>14 DEF Hear, ProcTypes
<1>15. CASE Terminate
  BY <1>7, <1>14, <1>15 DEF Terminate
<1>16. CASE StopNext
  <2>1. ProcTypes'
    BY <1>0, <1>16 DEF StopNext, ProcTypes
  <2> QED BY <1>7, <1>16, <2>1 DEF StopNext
\* The commands.
<1>17. ASSUME CmdTypes', UNCHANGED <<procVars, lookVars, faults>> PROVE Kept
  BY <1>0, <1>2, <1>17 DEF Kept, ProcTypes
<1>18. ASSUME NEW c \in Commands, NEW s \in Working \cup {"save", "signal", "over"},
              Step(c, s)
       PROVE  cmd' \in [Commands -> Working \cup {"unsent", "save", "signal", "over"}]
  BY <1>0, <1>18 DEF Step, CmdTypes
<1>19. ASSUME NEW c \in Commands, Ask(c) PROVE Kept
  <2>1. asked' \in Seq(Commands) /\ aged' \in 0..Len(asked')
    BY <1>0, <1>19 DEF Ask, CmdTypes
  <2>2. text' \in [Commands -> {"none", "restarting", "failed", "success"}]
    BY <1>0, <1>19 DEF Ask, CmdTypes
  <2>3. CmdTypes'
    BY <1>0, <1>18, <1>19, <2>1, <2>2 DEF Ask, CmdTypes
  <2> QED BY <1>17, <1>19, <2>3 DEF Ask
<1>20. ASSUME NEW c \in Commands, SaveMarker(c) PROVE Kept
  <2>1. cmd' \in [Commands -> Working \cup {"unsent", "save", "signal", "over"}]
    BY <1>18, <1>20 DEF SaveMarker, Working
  <2>2. markers' \subseteq Commands /\ early' \subseteq Commands
    BY <1>0, <1>20 DEF SaveMarker, CmdTypes
  <2>3. CmdTypes'
    BY <1>0, <1>20, <2>1, <2>2 DEF SaveMarker, CmdTypes
  <2> QED BY <1>17, <1>20, <2>3 DEF SaveMarker
<1>21. ASSUME NEW c \in Commands, Advance(c) PROVE Kept
  <2>1. After(cmd[c]) \in Working \cup {"signal"}
    BY <1>21 DEF Advance, After, Working
  <2>2. CmdTypes'
    BY <1>0, <1>18, <1>21, <2>1 DEF Advance, CmdTypes
  <2> QED BY <1>17, <1>21, <2>2 DEF Advance
<1>22. ASSUME NEW c \in Commands, Abort(c) PROVE Kept
  <2>1. CmdTypes'
    BY <1>0, <1>18, <1>22 DEF Abort, CmdTypes
  <2> QED BY <1>17, <1>22, <2>1 DEF Abort
<1>23. ASSUME NEW c \in Commands, Signal(c) PROVE Kept
  <2>1. ProcTypes'
    BY <1>14, <1>23 DEF Signal
  <2>2. CmdTypes'
    BY <1>0, <1>18, <1>23 DEF Signal, CmdTypes
  <2> QED BY <1>2, <1>23, <2>1, <2>2 DEF Signal, Kept
<1>24. ASSUME NEW c \in Commands, ExitInstead(c) PROVE Kept
  BY <1>4, <1>24 DEF ExitInstead
\* The marker.
<1>25. CASE Age
  <2>1. CmdTypes'
    BY <1>0, <1>25 DEF Age, CmdTypes
  <2> QED BY <1>17, <1>25, <2>1 DEF Age
<1>26. ASSUME LookTypes', Looking', CmdTypes', UNCHANGED <<procVars, faults>> PROVE Kept
  BY <1>0, <1>26 DEF Kept, ProcTypes
<1>27. CASE Pop
  <2> DEFINE c == Chosen(Pending)
  <2>1. Pending \subseteq Commands /\ (Pending # {} => c \in Commands)
    BY <1>0, NewestIsOne DEF Pending, CmdTypes
  <2>2. Before(c) \subseteq Commands
    BY <2>1 DEF Before
  <2>3. /\ UNCHANGED <<policy, signals, procVars, cmdVars, aged, faults, built,
                       aborted, early>>
        /\ markers' \subseteq markers
    BY <1>27 DEF Pop, Look
  <2>4. spoilt' \subseteq Commands
    BY <1>0, <1>27, <2>1, <2>2 DEF Pop, Look, CmdTypes
  <2>5. LookTypes' /\ Looking'
    BY <1>27, <2>1 DEF Pop, Look, LookTypes, Looking
  <2>6. CmdTypes'
    BY <1>0, <2>3, <2>4 DEF CmdTypes
  <2> QED BY <1>26, <2>3, <2>5, <2>6
<1>28. CASE Report
  <2>1. popped \in Commands
    BY <1>28 DEF Report, Looking
  <2>2. LookTypes' /\ Looking'
    BY <1>28 DEF Report, LookTypes, Looking
  <2>3. CmdTypes'
    BY <1>0, <1>28, <2>1 DEF Report, CmdTypes
  <2> QED BY <1>26, <1>28, <2>2, <2>3 DEF Report
<1>29. CASE UNCHANGED vars
  BY <1>0, <1>1, <1>2, <1>29 DEF vars, ProcTypes, Kept
<1> QED BY <1>5, <1>6, <1>10, <1>13, <1>15, <1>16, <1>19, <1>20, <1>21, <1>22, <1>23, <1>24,
           <1>25, <1>27, <1>28, <1>29 DEF Next, Command

\* What runs at each step of the start, and what a stop has still to end.
Unwinding ==
    \/ undo = <<>> /\ parts = {}
    \/ undo = <<"store">> /\ parts = {"store"}
    \/ undo = <<"touch", "store">> /\ parts = {"touch", "store"}
    \/ undo = <<"pool", "touch", "store">> /\ parts = {"pool", "touch", "store"}
    \/ undo = <<"bot", "pool", "touch", "store">> /\ parts \ {"bot"} = {"pool", "touch", "store"}
    \/ /\ undo = Everything
       /\ parts \ {"bot"} = {"sweeps", "pool", "touch", "store"}
    \/ undo = <<"http">> \o Everything /\ parts = AllParts

Stages ==
    /\ main \in {"down", "store"} => parts = {}
    /\ main = "pool" => parts = {"store", "touch"}
    /\ main = "start" => parts = {"store", "touch", "pool", "sweeps"}
    /\ main \in {"list", "http", "run"} => parts = AllParts \ {"http"}
    /\ main = "serving" => parts = AllParts
    /\ main \in {"undo", "stopping"} => Unwinding

LEMMA StagesKept ==
    ASSUME Stages, [Next]_vars
    PROVE  Stages'
<1> USE DEF procVars, Elsewhere
<1>1. ASSUME UNCHANGED <<main, parts, undo>> PROVE Stages'
  BY <1>1 DEF Stages, Unwinding
<1>2. ASSUME NEW how, Die(how) PROVE Stages'
  BY <1>2 DEF Die, Stages
<1>3. CASE Crash \/ ServerFails \/ Exit
  BY <1>2, <1>3 DEF Crash, ServerFails, Exit
<1>4. CASE Launch \/ OperatorLaunch
  BY <1>4 DEF Launch, OperatorLaunch, Enter, Stages
<1>5. CASE Boot
  <2>1. OpenStore => Stages'
    BY DEF OpenStore, Enter, GiveUp, Stages, Unwinding
  <2>2. OpenPool => Stages'
    BY DEF OpenPool, Enter, GiveUp, Stages, Unwinding
  <2>3. StartBot => Stages'
    BY DEF StartBot, Enter, GiveUp, AllParts, Stages, Unwinding
  <2>4. ListCommands => Stages'
    BY DEF ListCommands, Enter, Stages
  <2>5. BuildServer => Stages'
    BY DEF BuildServer, Enter, GiveUp, AllParts, Stages, Unwinding
  <2>6. Serve => Stages'
    BY DEF Serve, Enter, AllParts, Stages
  <2> QED BY <1>5, <2>1, <2>2, <2>3, <2>4, <2>5, <2>6 DEF Boot
<1>6. ASSUME Hear PROVE Stages'
  BY <1>1, <1>6 DEF Hear, Stages, Unwinding
<1>7. CASE Terminate
  BY <1>6, <1>7 DEF Terminate
<1>8. CASE StopNext
  <2>1. /\ Unwinding /\ undo # <<>> /\ main' = main /\ main \in {"undo", "stopping"}
        /\ parts' = parts \ {Head(undo)} /\ undo' = Tail(undo)
    BY <1>8 DEF StopNext, Stages
  <2>2. Unwinding'
    <3> USE DEF Unwinding, Everything, AllParts
    <3>1. CASE undo = <<"store">> /\ parts = {"store"}
      BY <2>1, <3>1
    <3>2. CASE undo = <<"touch", "store">> /\ parts = {"touch", "store"}
      BY <2>1, <3>2
    <3>3. CASE undo = <<"pool", "touch", "store">> /\ parts = {"pool", "touch", "store"}
      BY <2>1, <3>3
    <3>4. CASE /\ undo = <<"bot", "pool", "touch", "store">>
               /\ parts \ {"bot"} = {"pool", "touch", "store"}
      BY <2>1, <3>4
    <3>5. CASE /\ undo = Everything
               /\ parts \ {"bot"} = {"sweeps", "pool", "touch", "store"}
      BY <2>1, <3>5
    <3>6. CASE undo = <<"http">> \o Everything /\ parts = AllParts
      <4>1. Everything \in Seq(AllParts)
        OBVIOUS
      <4>2. Head(undo) = "http" /\ Tail(undo) = Everything
        <5> HIDE DEF Everything, AllParts
        <5> QED BY <3>6, <4>1
      <4>3. parts' \ {"bot"} = {"sweeps", "pool", "touch", "store"}
        BY <2>1, <3>6, <4>2
      <4> QED BY <2>1, <4>2, <4>3, Zenon
    <3> QED BY <2>1, <3>1, <3>2, <3>3, <3>4, <3>5, <3>6
  <2> QED BY <2>1, <2>2 DEF Stages
<1>9. ASSUME NEW c \in Commands, Ask(c) \/ Command(c) PROVE Stages'
  <2>1. Ask(c) \/ SaveMarker(c) \/ Advance(c) \/ Abort(c) => Stages'
    BY <1>1 DEF Ask, SaveMarker, Advance, Abort
  <2>2. Signal(c) => Stages'
    BY <1>6 DEF Signal
  <2>3. ExitInstead(c) => Stages'
    BY <1>2 DEF ExitInstead
  <2> QED BY <1>9, <2>1, <2>2, <2>3 DEF Command
<1>10. CASE Pop \/ Report \/ Age
  BY <1>1, <1>10 DEF Pop, Look, Report, Age
<1>11. CASE UNCHANGED vars
  BY <1>1, <1>11 DEF vars
<1> QED BY <1>3, <1>4, <1>5, <1>7, <1>8, <1>9, <1>10, <1>11 DEF Next

\* The builds that ended, the commands that did not, and those that came early.
Earned(c) == c \in built \cup aborted \cup early

\* The process has not come to leave the marker to a goroutine.
BeforeRun == {"down", "store", "pool", "start", "list", "http"}

\* A marker that a start may take is that of such a command: until the goroutine has
\* looked the commands of this process are early, and with the process' end those at
\* work are cut off.
Marked ==
    /\ main \in BeforeRun => looker = "off"
    /\ \A c \in Commands : cmd[c] = "signal" => c \in built
    /\ \A c \in markers :
          Earned(c) \/ (cmd[c] \in Working /\ looker \in {"edit", "done"})
    /\ looker = "edit" => Earned(popped)
    /\ \A c \in Commands : text[c] = "success" => Earned(c)

LEMMA MarkedKept ==
    ASSUME TypeOK, Looking, Marked, [Next]_vars
    PROVE  Marked'
<1> USE DEF procVars, lookVars, cmdVars, histVars, Elsewhere,
            Earned, BeforeRun
<1>0. /\ cmd \in [Commands -> Working \cup {"unsent", "save", "signal", "over"}]
      /\ markers \subseteq Commands
      /\ text \in [Commands -> {"none", "restarting", "failed", "success"}]
  BY DEF TypeOK
\* The process goes on starting, or serves, and nothing else happens.
<1>1. ASSUME UNCHANGED <<lookVars, Elsewhere>>,
             main' \in BeforeRun => main \in BeforeRun
      PROVE  Marked'
  BY <1>1 DEF Marked
<1>2. ASSUME NEW how, Die(how) PROVE Marked'
  <2>1. /\ main' = "down" /\ looker' = "off"
        /\ cmd' = [c \in Commands |-> IF c \in InProgress THEN "over" ELSE cmd[c]]
        /\ aborted' = aborted \cup (InProgress \ built)
        /\ UNCHANGED <<built, early, markers, text>>
    BY <1>2 DEF Die
  <2>2. \A c \in Commands : cmd'[c] # "signal"
    BY <2>1 DEF InProgress
  <2>3. \A c \in markers : cmd[c] \in Working => c \in InProgress
    BY <1>0 DEF InProgress, Working
  <2>4. \A c \in markers' : Earned(c)'
    BY <2>1, <2>3 DEF Marked
  <2>5. \A c \in Commands : text'[c] = "success" => Earned(c)'
    BY <2>1 DEF Marked
  <2> QED BY <2>1, <2>2, <2>4, <2>5 DEF Marked
<1>3. CASE Crash \/ ServerFails \/ Exit
  BY <1>2, <1>3 DEF Crash, ServerFails, Exit
<1>4. CASE Launch \/ OperatorLaunch
  BY <1>1, <1>4 DEF Launch, OperatorLaunch, Enter
<1>5. CASE Boot
  <2> USE DEF Enter, GiveUp, Starting
  <2>1. CASE OpenStore \/ OpenPool \/ StartBot \/ ListCommands
    BY <1>1, <2>1 DEF OpenStore, OpenPool, StartBot, ListCommands
  <2>2. CASE BuildServer
    <3>1. CASE GiveUp(Everything)
      BY <1>1, <3>1
    <3>2. CASE Enter("run") /\ looker' = "pop"
               /\ UNCHANGED <<parts, popped, Elsewhere, faults>>
      <4>1. looker = "off"
        BY <2>2 DEF BuildServer, Marked
      <4> QED BY <3>2, <4>1 DEF Marked
    <3> QED BY <2>2, <3>1, <3>2 DEF BuildServer
  <2>3. CASE Serve
    BY <1>1, <2>3 DEF Serve
  <2> QED BY <1>5, <2>1, <2>2, <2>3 DEF Boot
<1>6. Hear =>
         (main' \in BeforeRun => main \in BeforeRun)
  BY DEF Hear, Starting
<1>7. CASE Terminate \/ StopNext
  BY <1>1, <1>6, <1>7 DEF Terminate, StopNext
\* A command's step.
<1>8. ASSUME NEW c \in Commands, NEW s, Step(c, s)
      PROVE  cmd'[c] = s /\ \A d \in Commands \ {c} : cmd'[d] = cmd[d]
  BY <1>0, <1>8 DEF Step
<1>9. ASSUME NEW c \in Commands, Ask(c) PROVE Marked'
  <2>1. /\ cmd[c] = "unsent" /\ cmd'[c] = "save" /\ \A d \in Commands \ {c} : cmd'[d] = cmd[d]
        /\ text'[c] = "restarting" /\ \A d \in Commands \ {c} : text'[d] = text[d]
        /\ UNCHANGED <<main, lookVars, markers, histVars>>
    BY <1>0, <1>8, <1>9 DEF Ask
  <2> QED BY <1>0, <2>1 DEF Marked, Working
<1>10. ASSUME NEW c \in Commands, SaveMarker(c) PROVE Marked'
  <2>1. /\ cmd[c] = "save" /\ cmd'[c] = "pull" /\ \A d \in Commands \ {c} : cmd'[d] = cmd[d]
        /\ UNCHANGED <<main, lookVars, text, built, aborted>>
        /\ early \subseteq early'
    BY <1>8, <1>10 DEF SaveMarker
  <2>2. \/ /\ markers' = markers \cup {c}
           /\ c \in early' \/ looker \notin {"off", "pop"}
        \/ markers' = markers
    BY <1>10 DEF SaveMarker
  <2>3. looker \in {"off", "pop", "edit", "done"}
    BY DEF TypeOK
  <2>4. \A d \in markers' : Earned(d)' \/ (cmd'[d] \in Working /\ looker' \in {"edit", "done"})
    BY <1>0, <2>1, <2>2, <2>3 DEF Marked, Working
  <2> QED BY <1>0, <2>1, <2>4 DEF Marked
<1>11. ASSUME NEW c \in Commands, Advance(c) PROVE Marked'
  <2>1. /\ cmd[c] \in Working /\ cmd'[c] = After(cmd[c])
        /\ \A d \in Commands \ {c} : cmd'[d] = cmd[d]
        /\ built' = IF cmd[c] = "build" THEN built \cup {c} ELSE built
        /\ UNCHANGED <<main, lookVars, text, markers, aborted, early>>
    BY <1>8, <1>11 DEF Advance
  <2>2. cmd'[c] \in Working \/ (cmd'[c] = "signal" /\ c \in built')
    BY <2>1 DEF After, Working
  <2> QED BY <1>0, <2>1, <2>2 DEF Marked, Working
<1>12. ASSUME NEW c \in Commands, Abort(c) PROVE Marked'
  <2>1. /\ cmd'[c] = "over" /\ \A d \in Commands \ {c} : cmd'[d] = cmd[d]
        /\ aborted' = aborted \cup {c}
        /\ UNCHANGED <<main, lookVars, markers, built, early>>
    BY <1>8, <1>12 DEF Abort
  <2>2. \A d \in Commands : text'[d] = "success" => text[d] = "success"
    BY <1>0, <1>12 DEF Abort
  <2> QED BY <1>0, <2>1, <2>2 DEF Marked
<1>13. ASSUME NEW c \in Commands, Signal(c) PROVE Marked'
  <2>1. /\ cmd[c] = "signal" /\ cmd'[c] = "over" /\ \A d \in Commands \ {c} : cmd'[d] = cmd[d]
        /\ UNCHANGED <<lookVars, text, markers, built, aborted, early>>
    BY <1>8, <1>13 DEF Signal
  <2> QED BY <1>0, <1>6, <1>13, <2>1 DEF Marked, Signal, Working
<1>14. ASSUME NEW c \in Commands, ExitInstead(c) PROVE Marked'
  BY <1>2, <1>14 DEF ExitInstead
\* The marker's goroutine.
<1>15. CASE Pop
  <2>1. /\ looker = "pop" /\ UNCHANGED <<main, cmd, text, built, aborted, early>>
        /\ markers' \subseteq markers
        /\ \/ looker' = "done"
           \/ /\ looker' = "edit" /\ popped' = Chosen(Pending)
              /\ Pending # {}
    BY <1>15 DEF Pop, Look
  <2>2. \A c \in markers : Earned(c)
    BY <2>1 DEF Marked
  <2>3. Pending # {} => Chosen(Pending) \in markers
    BY NewestIsOne DEF Pending
  <2>4. main \notin BeforeRun
    BY <2>1 DEF Marked
  <2> QED BY <2>1, <2>2, <2>3, <2>4 DEF Marked
<1>16. CASE Report
  <2>1. /\ looker = "edit" /\ looker' = "done"
        /\ UNCHANGED <<main, cmd, markers, built, aborted, early>>
    BY <1>16 DEF Report
  <2>2. \A c \in Commands : text'[c] = "success" => text[c] = "success" \/ c = popped
    BY <1>0, <1>16 DEF Report
  <2> QED BY <2>1, <2>2 DEF Marked
<1>17. CASE Age
  BY <1>17 DEF Age, Marked
<1>18. CASE UNCHANGED vars
  BY <1>1, <1>18 DEF vars
<1> QED BY <1>3, <1>4, <1>5, <1>7, <1>9, <1>10, <1>11, <1>12, <1>13, <1>14, <1>15, <1>16, <1>17,
           <1>18 DEF Next, Command

\* What holds of every life of the process.
LivesInv == TypeOK /\ Looking /\ Stages /\ Marked

\* The base of the theorems about the lives of the process: the types, what runs at
\* each step of the start and of the stop, and whose markers are in the store.
THEOREM RestartInvariant == Spec => []LivesInv
<1>1. Init => LivesInv
  <2> SUFFICES ASSUME Init PROVE LivesInv
    OBVIOUS
  <2> USE RestartAssumption DEF Init
  <2>1. TypeOK
    BY DEF TypeOK
  <2>2. Looking /\ Stages /\ Marked
    BY DEF Looking, Stages, Marked
  <2> QED BY <2>1, <2>2 DEF LivesInv
<1>2. LivesInv /\ [Next]_vars => LivesInv'
  BY RestartTypesKept, StagesKept, MarkedKept DEF LivesInv
<1> QED BY <1>1, <1>2, PTL DEF Spec

\* The types of the lives of the process: parts, markers, commands and their histories.
THEOREM RestartTypeCorrect == Spec => []TypeOK
<1>1. LivesInv => TypeOK
  BY DEF LivesInv
<1> QED BY <1>1, RestartInvariant, PTL

\* "Restart Successful" appears under no command that is still at work, but for one
\* handled before its own process looked for a marker: the newest marker that a start
\* takes is one that an earlier process left (handleRestart, PopRestartMarker and
\* EditRestartMarkerIfPending).
THEOREM SuccessIsAlwaysEarned == Spec => []SuccessIsEarned
<1>1. LivesInv => SuccessIsEarned
  BY DEF LivesInv, Marked, Earned, SuccessIsEarned
<1> QED BY <1>1, RestartInvariant, PTL

\* Whichever step of New fails, and in Run, no part is left without what it uses and
\* none is left behind (the clean-ups of New, the end of Run).
THEOREM StopsInReverse == Spec => []StoppedInReverse
<1>1. LivesInv => StoppedInReverse
  <2> SUFFICES ASSUME TypeOK, Stages PROVE StoppedInReverse
    BY DEF LivesInv
  <2>1. CASE main \in {"undo", "stopping"}
    BY <2>1 DEF Stages, Unwinding, StoppedInReverse, Everything, AllParts
  <2>2. CASE main \notin {"undo", "stopping"}
    BY <2>2 DEF Stages, StoppedInReverse, AllParts, Starting, TypeOK
  <2> QED BY <2>1, <2>2
<1> QED BY <1>1, RestartInvariant, PTL
=============================================================================
