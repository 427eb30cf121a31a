------------------------------- MODULE Restart -------------------------------
(***************************************************************************)
(* The lives of the process: its start, step by step (main of              *)
(* cmd/thundergo/main.go, New and Run of internal/app/app.go), with what   *)
(* each failing step stops again; /restart (handleRestart of               *)
(* bot/handlers_owner.go), which leaves a marker in the store, rebuilds    *)
(* the binary and signals its own process; the supervisor; and the next    *)
(* start, which takes the marker and reports the success                   *)
(* (bot/restart.go).                                                       *)
(*                                                                         *)
(* The shutdown appears as the order in which parts stop; Lifecycle has    *)
(* its deadlines and what runs beside it.                                  *)
(***************************************************************************)
EXTENDS Integers, Sequences, FiniteSets

CONSTANTS
    Commands,   \* the /restart commands the owner sends
    Policies,   \* restart policies of the supervisor: "always", "on-failure"
    Platforms,  \* whether the process can signal itself (FALSE on Windows)
    MaxFaults,  \* bound on crashes, failing starts and servers, outside signals
    NoCommand

ASSUME RestartAssumption ==
    /\ NoCommand \notin Commands
    /\ Policies \subseteq {"always", "on-failure"}
    /\ Platforms \subseteq BOOLEAN
    /\ MaxFaults \in Nat

VARIABLES
    policy,    \* what the supervisor does when the process has ended
    signals,   \* p.Signal works here
    main,      \* what the process' main goroutine is doing
    exit,      \* how the last process ended
    parts,     \* what runs in the process
    undo,      \* what is still to be stopped, in order
    looker,    \* the goroutine of EditRestartMarkerIfPending
    popped,    \* the command whose marker it took
    cmd,       \* how far each command is
    asked,     \* the commands in the order of their markers' created_at
    aged,      \* how many of these markers are more than an hour old
    markers,   \* the restart collection
    text,      \* what each command's status message says
    faults

\* History, read by the properties alone.
VARIABLES
    built,     \* commands whose build has ended well
    aborted,   \* commands that failed, or were cut off by the process' end
    early,     \* commands that left a marker before this start had looked for one
    spoilt     \* commands whose report or whose signal has been lost

procVars == <<main, exit, parts, undo>>
lookVars == <<looker, popped>>
cmdVars == <<cmd, asked, text>>
histVars == <<built, aborted, early, spoilt>>
vars == <<policy, signals, procVars, lookVars, cmdVars, aged, markers, faults, histVars>>

AllParts == {"store", "touch", "pool", "sweeps", "bot", "http"}
Starting == {"store", "pool", "start", "list", "http", "run"}
Working == {"pull", "verify", "build"}

TypeOK ==
    /\ policy \in Policies
    /\ signals \in Platforms
    /\ main \in Starting \cup {"down", "serving", "undo", "stopping"}
    /\ exit \in {"never", "clean", "failure"}
    /\ parts \subseteq AllParts
    /\ undo \in Seq(AllParts)
    /\ looker \in {"off", "pop", "edit", "done"}
    /\ popped \in Commands \cup {NoCommand}
    /\ cmd \in [Commands -> Working \cup {"unsent", "save", "signal", "over"}]
    /\ asked \in Seq(Commands)
    /\ aged \in 0..Len(asked)
    /\ markers \subseteq Commands
    /\ text \in [Commands -> {"none", "restarting", "failed", "success"}]
    /\ faults \in 0..MaxFaults
    /\ {built, aborted, early, spoilt} \subseteq SUBSET Commands

Init ==
    /\ policy \in Policies
    /\ signals \in Platforms
    /\ main = "down" /\ exit = "never" /\ parts = {} /\ undo = << >>
    /\ looker = "off" /\ popped = NoCommand
    /\ cmd = [c \in Commands |-> "unsent"]
    /\ asked = << >> /\ aged = 0 /\ markers = {}
    /\ text = [c \in Commands |-> "none"]
    /\ faults = 0
    /\ built = {} /\ aborted = {} /\ early = {} /\ spoilt = {}

-----------------------------------------------------------------------------
(* The process' end. Whatever ran in it is gone.                           *)

InProgress == {c \in Commands : cmd[c] \notin {"unsent", "over"}}

Taken == IF looker = "edit" THEN {popped} ELSE {}

Die(how) ==
    /\ main' = "down" /\ exit' = how /\ parts' = {} /\ undo' = << >>
    /\ looker' = "off" /\ popped' = NoCommand
    /\ cmd' = [c \in Commands |-> IF c \in InProgress THEN "over" ELSE cmd[c]]
    /\ aborted' = aborted \cup (InProgress \ built)
    /\ spoilt' = spoilt \cup Taken
    /\ UNCHANGED <<policy, signals, asked, text, aged, markers, built, early>>

Fault == faults < MaxFaults /\ faults' = faults + 1

\* A kill, a panic, the machine.
Crash ==
    /\ main # "down"
    /\ Fault
    /\ Die("failure")

-----------------------------------------------------------------------------
(* The start: main, New and the first lines of Run.                        *)

Elsewhere == <<policy, signals, cmdVars, aged, markers, histVars>>

Enter(step) == main' = step /\ UNCHANGED <<exit, undo>>

\* New gives up: it stops the named parts, in this order, and returns an error.
GiveUp(order) ==
    /\ Fault
    /\ main' = "undo" /\ undo' = order
    /\ UNCHANGED <<exit, parts, lookVars, Elsewhere>>

\* The supervisor starts the process again, or the operator for the first time.
Launch ==
    /\ main = "down"
    /\ exit = "clean" => policy = "always"
    /\ Enter("store")
    /\ UNCHANGED <<parts, lookVars, Elsewhere, faults>>

\* The operator starts a process the supervisor has left down.
OperatorLaunch ==
    /\ main = "down" /\ exit = "clean" /\ policy = "on-failure"
    /\ Fault
    /\ Enter("store")
    /\ UNCHANGED <<parts, lookVars, Elsewhere>>

OpenStore ==
    /\ main = "store"
    /\ \/ /\ Enter("pool")
          /\ parts' = {"store", "touch"}
          /\ UNCHANGED <<lookVars, Elsewhere, faults>>
       \/ GiveUp(<< >>)

\* Mutant: without the touch buffer's stop, whose flush goroutine then outlives
\* the store.
OpenPoolLeavesTouch ==
    /\ main = "pool"
    /\ \/ /\ Enter("start")
          /\ parts' = parts \cup {"pool", "sweeps"}
          /\ UNCHANGED <<lookVars, Elsewhere, faults>>
       \/ GiveUp(<<"store">>)

\* pool.New, and the sweeps that start behind it.
OpenPool ==
    /\ main = "pool"
    /\ \/ /\ Enter("start")
          /\ parts' = parts \cup {"pool", "sweeps"}
          /\ UNCHANGED <<lookVars, Elsewhere, faults>>
       \/ GiveUp(<<"touch", "store">>)

Everything == <<"sweeps", "bot", "pool", "touch", "store">>

\* Bot.Start: from here on messages are handled.
StartBot ==
    /\ main = "start"
    /\ \/ /\ Enter("list")
          /\ parts' = parts \cup {"bot"}
          /\ UNCHANGED <<lookVars, Elsewhere, faults>>
       \/ GiveUp(Everything)

\* Bot.Start's registerCommandList, whose failure is only logged.
ListCommands ==
    /\ main = "list"
    /\ Enter("http")
    /\ UNCHANGED <<parts, lookVars, Elsewhere, faults>>

\* tghttp.New; then New leaves the marker to a goroutine and returns.
BuildServer ==
    /\ main = "http"
    /\ \/ /\ Enter("run")
          /\ looker' = "pop"
          /\ UNCHANGED <<parts, popped, Elsewhere, faults>>
       \/ GiveUp(Everything)

\* Run: signal.Notify, and the server in a goroutine.
Serve ==
    /\ main = "run"
    /\ Enter("serving")
    /\ parts' = parts \cup {"http"}
    /\ UNCHANGED <<lookVars, Elsewhere, faults>>

\* The server fails: Run returns its error and main exits.
ServerFails ==
    /\ main = "serving"
    /\ Fault
    /\ Die("failure")

\* SIGTERM reaches Run once it has called Notify. Before that, NotifyContext
\* of main takes it, whose context nobody looks at until Run has returned.
Hear ==
    IF main = "serving"
    THEN main' = "stopping" /\ undo' = <<"http">> \o Everything /\ UNCHANGED <<exit, parts>>
    ELSE UNCHANGED procVars

Terminate ==
    /\ main # "down"
    /\ Fault
    /\ Hear
    /\ UNCHANGED <<lookVars, Elsewhere>>

\* The next part is stopped. Bot.Stop waits for the handlers; in Run only up
\* to the deadline. Run has waited for the marker's goroutine before.
StopNext ==
    /\ main \in {"undo", "stopping"}
    /\ undo # << >>
    /\ main = "stopping" => looker = "done"
    /\ main = "undo" /\ Head(undo) = "bot" => \A c \in Commands : cmd[c] # "save"
    /\ parts' = parts \ {Head(undo)}
    /\ undo' = Tail(undo)
    /\ UNCHANGED <<main, exit, lookVars, Elsewhere, faults>>

Exit ==
    /\ main \in {"undo", "stopping"}
    /\ undo = << >>
    /\ Die(IF main = "undo" THEN "failure" ELSE "clean")
    /\ UNCHANGED faults

-----------------------------------------------------------------------------
(* /restart.                                                               *)

Alive == main # "down"
Step(c, s) == cmd' = [cmd EXCEPT ![c] = s]

\* b.baseCtx, which Bot.Stop cancels.
BaseCtxDone == "bot" \notin parts

\* The command arrives, the status message is posted and the marker is dated.
\* Without a status message (the reply failed) nothing happens at all.
Ask(c) ==
    /\ "bot" \in parts
    /\ cmd[c] = "unsent"
    /\ Step(c, "save")
    /\ text' = [text EXCEPT ![c] = "restarting"]
    /\ asked' = Append(asked, c)
    /\ UNCHANGED <<policy, signals, procVars, lookVars, aged, markers, faults, histVars>>

\* SaveRestartMarker, whose failure is only logged, with or without the marker
\* inserted; the handler returns and the rest is a goroutine's.
SaveMarker(c) ==
    /\ Alive
    /\ cmd[c] = "save"
    /\ Step(c, "pull")
    /\ \/ /\ "store" \in parts
          /\ markers' = markers \cup {c}
          /\ early' = IF looker \in {"off", "pop"} THEN early \cup {c} ELSE early
       \/ UNCHANGED <<markers, early>>
    /\ UNCHANGED <<policy, signals, procVars, lookVars, asked, text, aged, faults,
                   built, aborted, spoilt>>

After(s) == CASE s = "pull" -> "verify" [] s = "verify" -> "build" [] s = "build" -> "signal"

\* git pull, go mod verify or go build ends well.
Advance(c) ==
    /\ Alive /\ ~BaseCtxDone
    /\ cmd[c] \in Working
    /\ Step(c, After(cmd[c]))
    /\ built' = IF cmd[c] = "build" THEN built \cup {c} ELSE built
    /\ UNCHANGED <<policy, signals, procVars, lookVars, asked, text, aged, markers, faults,
                   aborted, early, spoilt>>

\* It fails, runs into its deadline or is killed with the base context:
\* editRestartError says so, if it can. The marker stays.
Abort(c) ==
    /\ Alive
    /\ cmd[c] \in Working
    /\ Step(c, "over")
    /\ \/ "pool" \in parts /\ text' = [text EXCEPT ![c] = "failed"]
       \/ UNCHANGED text
    /\ aborted' = aborted \cup {c}
    /\ UNCHANGED <<policy, signals, procVars, lookVars, asked, aged, markers, faults,
                   built, early, spoilt>>

\* The process signals itself.
Signal(c) ==
    /\ Alive /\ signals
    /\ cmd[c] = "signal"
    /\ Step(c, "over")
    /\ Hear
    /\ spoilt' = IF main \in Starting THEN spoilt \cup {c} ELSE spoilt
    /\ UNCHANGED <<policy, signals, lookVars, asked, text, aged, markers, faults,
                   built, aborted, early>>

\* It cannot: Bot.Stop, which waits for the handlers, then os.Exit(1).
ExitInstead(c) ==
    /\ Alive /\ ~signals
    /\ cmd[c] = "signal"
    /\ \A d \in Commands : cmd[d] # "save"
    /\ Die("failure")
    /\ UNCHANGED faults

-----------------------------------------------------------------------------
(* EditRestartMarkerIfPending.                                             *)

Dated(c) == CHOOSE i \in 1..Len(asked) : asked[i] = c

\* The marker of c is less than an hour old.
Young(c) == \E i \in (aged + 1)..Len(asked) : asked[i] = c

Age ==
    /\ aged < Len(asked)
    /\ aged' = aged + 1
    /\ UNCHANGED <<policy, signals, procVars, lookVars, cmdVars, markers, faults, histVars>>

Pending == {c \in markers : Young(c)}

Newest(S) == CHOOSE c \in S : \A d \in S : Dated(d) <= Dated(c)

\* Mutant: an ascending sort takes the oldest marker.
OldestFirst(S) == CHOOSE c \in S : \A d \in S : Dated(c) <= Dated(d)

\* The older markers stay for a start to come.
Before(c) == {d \in Pending : Dated(d) < Dated(c)}

\* PopRestartMarker's sort.
Chosen(S) == Newest(S)

Look(step, c) ==
    /\ looker' = step /\ popped' = c
    /\ UNCHANGED <<policy, signals, procVars, cmdVars, aged, faults, built, aborted, early>>

\* The newest young marker is found and deleted at once, and the answer may be
\* lost; or there is none, or the store fails, or Run's restartCancel is first.
Pop ==
    /\ looker = "pop"
    /\ LET c == Chosen(Pending) IN
       \/ /\ Pending # {}
          /\ markers' = markers \ {c}
          /\ \/ Look("edit", c) /\ spoilt' = spoilt \cup Before(c)
             \/ Look("done", NoCommand) /\ spoilt' = spoilt \cup Before(c) \cup {c}
       \/ /\ Look("done", NoCommand)
          /\ spoilt' = spoilt \cup Pending
          /\ UNCHANGED markers

\* Mutant: after an edit that failed the goroutine looks again.
LookAgain ==
    /\ looker = "edit"
    /\ UNCHANGED <<policy, signals, procVars, cmd, asked, aged, markers, faults,
                   built, aborted, early>>
    /\ \/ /\ Young(popped)
          /\ text' = [text EXCEPT ![popped] = "success"]
          /\ looker' = "done" /\ popped' = NoCommand
          /\ UNCHANGED spoilt
       \/ /\ spoilt' = spoilt \cup {popped}
          /\ looker' = "pop" /\ popped' = NoCommand
          /\ UNCHANGED text

\* The status message is edited, if the marker is still young; the edit may fail.
Report ==
    /\ looker = "edit"
    /\ looker' = "done" /\ popped' = NoCommand
    /\ \/ /\ Young(popped)
          /\ text' = [text EXCEPT ![popped] = "success"]
          /\ UNCHANGED spoilt
       \/ /\ spoilt' = spoilt \cup {popped}
          /\ UNCHANGED text
    /\ UNCHANGED <<policy, signals, procVars, cmd, asked, aged, markers, faults,
                   built, aborted, early>>

-----------------------------------------------------------------------------
Boot == OpenStore \/ OpenPool \/ StartBot \/ ListCommands \/ BuildServer \/ Serve

Command(c) == SaveMarker(c) \/ Advance(c) \/ Abort(c) \/ Signal(c) \/ ExitInstead(c)

Next ==
    \/ Launch \/ OperatorLaunch \/ Boot \/ StopNext \/ Exit
    \/ Crash \/ ServerFails \/ Terminate
    \/ Pop \/ Report \/ Age
    \/ \E c \in Commands : Ask(c) \/ Command(c)

Spec == Init /\ [][Next]_vars

(***************************************************************************)
(* The main goroutine, the marker's goroutine and the commands' keep       *)
(* running (each external command has a deadline, the store and the client *)
(* answer or fail), and the supervisor starts what it is told to. Nobody   *)
(* has to send commands, signals or faults, nor to start by hand.          *)
(***************************************************************************)
FairSpec ==
    /\ Spec
    /\ WF_vars(Launch) /\ WF_vars(Boot) /\ WF_vars(StopNext) /\ WF_vars(Exit)
    /\ WF_vars(Pop) /\ WF_vars(Report)
    /\ \A c \in Commands : WF_vars(Command(c))

-----------------------------------------------------------------------------
(***************************************************************************)
(* "Restart Successful" appears only under a command whose build ended     *)
(* well, or that had failed or been cut off, its marker left to a later    *)
(* start, or that was handled before its own process had looked for a      *)
(* marker: never under one that is still at work for any other reason      *)
(* (restart.go, PopRestartMarker, handleRestart).                          *)
(***************************************************************************)
SuccessIsEarned ==
    \A c \in Commands : text[c] = "success" => c \in built \cup aborted \cup early

\* handlers_owner.go:644, "on next startup, marker -> Restart Successful": a
\* command that is still at work is never reported. It can be: messages are
\* handled from Bot.Start on, before New looks for a marker.
SuccessByTheNextStart ==
    \A c \in Commands : text[c] = "success" => c \in built \cup aborted

(***************************************************************************)
(* Whatever step of New fails, and in Run, parts stop in an order that     *)
(* leaves none without what it uses, and all have been stopped when the    *)
(* process goes (the clean-ups of New, the end of Run).                    *)
(***************************************************************************)
StoppedInReverse ==
    /\ "bot" \in parts \/ "sweeps" \in parts => "pool" \in parts
    /\ "pool" \in parts => "touch" \in parts
    /\ "touch" \in parts => "store" \in parts
    /\ main \in {"undo", "stopping"} /\ undo = << >> => parts = {}

\* What keeps the report of c back: a start looked for its marker in vain or
\* could not show what it found or found a newer one, its signal came before Run
\* listened, the marker is too old, or the supervisor does not restart a process
\* that ended cleanly.
Excused(c) ==
    \/ c \in spoilt
    \/ ~Young(c)
    \/ main = "down" /\ exit = "clean" /\ policy = "on-failure"

(***************************************************************************)
(* A restart that was built and whose marker is in the store is reported   *)
(* by the next start, unless something of Excused came in between          *)
(* (handleRestart, Run, main, EditRestartMarkerIfPending).                 *)
(***************************************************************************)
EveryRestartIsReported ==
    \A c \in Commands : (c \in built /\ c \in markers) ~> (text[c] = "success" \/ Excused(c))

=============================================================================
