---------------------------- MODULE TerminalProcs ----------------------------
(***************************************************************************)
(* internal/tools/terminal_command: the shell commands of the agents of    *)
(* one process.  Two package variables are shared by every tool instance:  *)
(* activeProc, the slot of the foreground command, and backgroundProcs,    *)
(* the commands that run on their own.  Each has a mutex; what spans two   *)
(* critical sections is two actions here.                                  *)
(*                                                                         *)
(* A command is                                                            *)
(*   admitted    past the test of the slot, not started yet                *)
(*   foreground  started, Execute waits for it                             *)
(*   detaching   marked as background after four seconds, not in the table *)
(*   detached    in the table, Execute has returned                        *)
(*   left        the caller has cancelled the context of the call          *)
(*   background  started with background = true                            *)
(*   over        Execute, and the goroutine that waits for it, have ended  *)
(***************************************************************************)

CONSTANTS Cmd,        \* the commands the agents run
          BgId,       \* the ids generateBgID can make
          Workspace,  \* workspaces
          Home,       \* the workspace each command runs in
          None        \* no command, no id

VARIABLES activeProc,      \* the slot
          backgroundProcs, \* the table: the command known under each id
          stage,           \* where each command is
          id,              \* the id it was given, None before
          running,         \* commands whose process lives
          reader,          \* the reading goroutine: reading, delivered or gone
          released,        \* commands whose procCtx was cancelled
          killing,         \* the id whose process "kill" has just killed
          killed,          \* history: commands the agent killed
          reported,        \* history: commands onBackgroundExit told of
          reused,          \* history: ids given to a second command
          raced            \* history: two commands passed the test together

vars == <<activeProc, backgroundProcs, stage, id, running, reader, released,
              killing, killed, reported, reused, raced>>

Foreground == {c \in Cmd : stage[c] \in {"foreground", "detaching"}}

Init ==
    /\ activeProc = None
    /\ backgroundProcs = [i \in BgId |-> None]
    /\ stage = [c \in Cmd |-> "unused"]
    /\ id = [c \in Cmd |-> None]
    /\ running = {}
    /\ reader = [c \in Cmd |-> "none"]
    /\ released = {}
    /\ killing = None
    /\ killed = {}
    /\ reported = {}
    /\ reused = {}
    /\ raced = FALSE

To(c, s) == stage' = [stage EXCEPT ![c] = s]

Named(c, i) ==
    /\ id' = [id EXCEPT ![c] = i]
    /\ reused' = IF \E d \in Cmd : id[d] = i THEN reused \cup {i} ELSE reused

history == <<killed, reported, reused, raced>>

-----------------------------------------------------------------------------
(* Foreground commands.                                                    *)

(* The slot is empty; it is taken only after the process has started.      *)
Admit(c) ==
    /\ stage[c] = "unused"
    /\ activeProc = None
    /\ To(c, "admitted")
    /\ raced' = (raced \/ \E d \in Cmd : stage[d] = "admitted")
    /\ UNCHANGED <<activeProc, backgroundProcs, id, running, reader, released, killing,
                   killed, reported, reused>>

StartForeground(c, i) ==
    /\ stage[c] = "admitted"
    /\ To(c, "foreground")
    /\ Named(c, i)
    /\ running' = running \cup {c}
    /\ reader' = [reader EXCEPT ![c] = "reading"]
    /\ activeProc' = c
    /\ UNCHANGED <<backgroundProcs, released, killing, killed, reported, raced>>

StartFails(c) ==
    /\ stage[c] = "admitted"
    /\ To(c, "over")
    /\ UNCHANGED <<activeProc, backgroundProcs, id, running, reader, released, killing, history>>

(* The process ends by itself, or a watchdog or the one-hour limit ends it. *)
ProcessExits(c) ==
    /\ c \in running
    /\ running' = running \ {c}
    /\ UNCHANGED <<activeProc, backgroundProcs, stage, id, reader, released, killing, history>>

Detached(c) == stage[c] \in {"detaching", "detached", "left"}

(* The reader meets the end of a foreground command and hands the output on. *)
ReaderDelivers(c) ==
    /\ reader[c] = "reading"
    /\ c \notin running
    /\ ~Detached(c)
    /\ reader' = [reader EXCEPT ![c] = "delivered"]
    /\ UNCHANGED <<activeProc, backgroundProcs, stage, id, running, released, killing, history>>

Known(i) == backgroundProcs[i] # None

(* Whoever the table has under the id is removed; somebody is told if the  *)
(* table had anyone.                                                       *)
Retire(c) ==
    /\ backgroundProcs' = [backgroundProcs EXCEPT ![id[c]] = None]
    /\ reported' = IF Known(id[c]) THEN reported \cup {c} ELSE reported

(* The reader meets the end of a detached command.                         *)
ReaderReports(c) ==
    /\ reader[c] = "reading"
    /\ c \notin running
    /\ Detached(c)
    /\ reader' = [reader EXCEPT ![c] = "gone"]
    /\ Retire(c)
    /\ UNCHANGED <<activeProc, stage, id, running, released, killing, killed, reused, raced>>

(* The reader looks at its context first: it leaves and tidies nothing.    *)
ReaderQuits(c) ==
    /\ reader[c] = "reading"
    /\ c \in released
    /\ reader' = [reader EXCEPT ![c] = "gone"]
    /\ UNCHANGED <<activeProc, backgroundProcs, stage, id, running, released, killing, history>>

(* More than fifty megabytes of output: the reader ends the command.       *)
ReaderAborts(c) ==
    /\ reader[c] = "reading"
    /\ c \in running
    /\ reader' = [reader EXCEPT ![c] = "gone"]
    /\ running' = running \ {c}
    /\ released' = released \cup {c}
    /\ UNCHANGED <<activeProc, backgroundProcs, stage, id, killing, history>>

(* The deferred function empties the slot, whoever is in it.               *)
Complete(c) ==
    /\ stage[c] = "foreground"
    /\ reader[c] = "delivered"
    /\ To(c, "over")
    /\ activeProc' = None
    /\ released' = released \cup {c}
    /\ UNCHANGED <<backgroundProcs, id, running, reader, killing, history>>

(* The context of the call ends (a stop, the tool timeout), or "interrupt" *)
(* has cancelled the command's own.                                        *)
Abandon(c) ==
    /\ stage[c] = "foreground"
    /\ To(c, "over")
    /\ running' = running \ {c}
    /\ activeProc' = None
    /\ released' = released \cup {c}
    /\ UNCHANGED <<backgroundProcs, id, reader, killing, history>>

Interrupt ==
    /\ activeProc # None
    /\ released' = released \cup {activeProc}
    /\ UNCHANGED <<activeProc, backgroundProcs, stage, id, running, reader, killing, history>>

(* Four seconds have passed: first the mark, then the entry in the table.  *)
Detach(c) ==
    /\ stage[c] = "foreground"
    /\ To(c, "detaching")
    /\ UNCHANGED <<activeProc, backgroundProcs, id, running, reader, released, killing, history>>

Tabulate(c) ==
    /\ stage[c] = "detaching"
    /\ To(c, "detached")
    /\ backgroundProcs' = [backgroundProcs EXCEPT ![id[c]] = c]
    /\ activeProc' = None
    /\ UNCHANGED <<id, running, reader, released, killing, history>>

(* The loop cancels the context of a tool call that has returned; os/exec   *)
(* then kills the command that was made with it.                           *)
CallEnds(c) ==
    /\ stage[c] = "detached"
    /\ To(c, "left")
    /\ running' = running \ {c}
    /\ released' = released \cup {c}
    /\ UNCHANGED <<activeProc, backgroundProcs, id, reader, killing, history>>

-----------------------------------------------------------------------------
(* Background commands.                                                    *)

StartBackground(c, i) ==
    /\ stage[c] = "unused"
    /\ To(c, "background")
    /\ Named(c, i)
    /\ running' = running \cup {c}
    /\ backgroundProcs' = [backgroundProcs EXCEPT ![i] = c]
    /\ UNCHANGED <<activeProc, reader, released, killing, killed, reported, raced>>

(* Deviation: the waiting goroutine tells of the end and keeps the entry.  *)
ReapKeeping(c) ==
    /\ stage[c] = "background"
    /\ c \notin running
    /\ To(c, "over")
    /\ reported' = reported \cup {c}
    /\ UNCHANGED <<activeProc, backgroundProcs, id, running, reader, released, killing,
                   killed, reused, raced>>

(* The goroutine that waits for the pipes and the process.                 *)
Reap(c) ==
    /\ stage[c] = "background"
    /\ c \notin running
    /\ To(c, "over")
    /\ Retire(c)
    /\ UNCHANGED <<activeProc, id, running, reader, released, killing, killed, reused, raced>>

(* "kill": look-up and kill, then the removal in a second critical section. *)
Kill(i) ==
    /\ killing = None
    /\ Known(i)
    /\ running' = running \ {backgroundProcs[i]}
    /\ killed' = killed \cup {backgroundProcs[i]}
    /\ killing' = i
    /\ UNCHANGED <<activeProc, backgroundProcs, stage, id, reader, released, reported,
                   reused, raced>>

Forget ==
    /\ killing # None
    /\ backgroundProcs' = [backgroundProcs EXCEPT ![killing] = None]
    /\ killing' = None
    /\ UNCHANGED <<activeProc, stage, id, running, reader, released, history>>

(* Deviation: the processes of other workspaces are forgotten with them.   *)
KillAllTables(w) ==
    LET mine == {c \in Cmd : Home[c] = w /\ \E i \in BgId : backgroundProcs[i] = c} IN
    /\ mine # {}
    /\ running' = running \ mine
    /\ killed' = killed \cup mine
    /\ backgroundProcs' = [i \in BgId |-> None]
    /\ UNCHANGED <<activeProc, stage, id, reader, released, killing, reported, reused, raced>>

(* KillAllBackgroundProcesses, when an agent is stopped.                   *)
KillAll(w) ==
    LET mine == {c \in Cmd : Home[c] = w /\ \E i \in BgId : backgroundProcs[i] = c} IN
    /\ mine # {}
    /\ running' = running \ mine
    /\ killed' = killed \cup mine
    /\ backgroundProcs' = [i \in BgId |-> IF backgroundProcs[i] \in mine THEN None
                                          ELSE backgroundProcs[i]]
    /\ UNCHANGED <<activeProc, stage, id, reader, released, killing, reported, reused, raced>>

-----------------------------------------------------------------------------
Reading(c) == ReaderDelivers(c) \/ ReaderReports(c) \/ ReaderQuits(c) \/ ReaderAborts(c)

Waiting(c) == Complete(c) \/ Abandon(c) \/ Detach(c) \/ Tabulate(c) \/ CallEnds(c)

Next == \/ \E c \in Cmd : \/ Admit(c) \/ StartFails(c) \/ ProcessExits(c)
                          \/ Reading(c) \/ Waiting(c) \/ Reap(c)
        \/ \E c \in Cmd, i \in BgId : StartForeground(c, i) \/ StartBackground(c, i)
        \/ Interrupt
        \/ \E i \in BgId : Kill(i)
        \/ Forget
        \/ \E w \in Workspace : KillAll(w)

Spec == Init /\ [][Next]_vars

-----------------------------------------------------------------------------
TypeOK ==
    /\ activeProc \in Cmd \cup {None}
    /\ backgroundProcs \in [BgId -> Cmd \cup {None}]
    /\ stage \in [Cmd -> {"unused", "admitted", "foreground", "detaching", "detached",
                          "left", "background", "over"}]
    /\ id \in [Cmd -> BgId \cup {None}]
    /\ reader \in [Cmd -> {"none", "reading", "delivered", "gone"}]
    /\ running \subseteq Cmd /\ released \subseteq Cmd
    /\ killed \subseteq Cmd /\ reported \subseteq Cmd
    /\ reused \subseteq BgId
    /\ killing \in BgId \cup {None}
    /\ raced \in BOOLEAN

(* Unless two commands passed the test of the slot together, one command   *)
(* at most is in the foreground and the slot holds it, so that "interrupt"  *)
(* reaches the command that runs.                                          *)
SlotIsTheForeground ==
    ~raced => \A c \in Foreground : activeProc = c /\ Foreground = {c}

(* A process that outlives the call that started it can be found: no       *)
(* command but a waited-for one runs without an entry, away from ids that  *)
(* were given twice.                                                       *)
NoProcessForgotten ==
    \A c \in running \ Foreground : id[c] \notin reused => backgroundProcs[id[c]] = c

(* The agent is told of the end of each background command it did not kill. *)
EndIsReported ==
    \A c \in Cmd : stage[c] = "over" /\ reader[c] = "none" /\ id[c] \notin reused \cup {None}
                       => c \in reported \cup killed

(* What has been started is known, or its end has been told.               *)
CommandsAccounted == TypeOK /\ NoProcessForgotten /\ EndIsReported

(* The entry of a background command goes when its process has ended.      *)
DeadEntryLeaves ==
    \A c \in Cmd : (stage[c] = "background" /\ c \notin running)
                       ~> (\A i \in BgId : backgroundProcs[i] # c)
=============================================================================
