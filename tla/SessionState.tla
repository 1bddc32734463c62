---------------------------- MODULE SessionState ----------------------------
(***************************************************************************)
(* internal/state/manager.go: the state of a session.  A StateManager      *)
(* keeps it in memory; each setter changes a field and saves all of it     *)
(* before it gives the mutex back: a temporary file beside the session     *)
(* file is truncated and filled, then renamed over it, and a copy of the   *)
(* same data is written in place at the root of the workspace.  Two        *)
(* managers (the daemon and a command line) may have one session open:     *)
(* the two mutexes are different, the three files are the same.            *)
(***************************************************************************)
EXTENDS Naturals

CONSTANTS Manager,   \* one StateManager per process
          Field,     \* fields of AgentState with setters of their own
          Summary,   \* the field UpdateSummaryForAgent changes
          NoFile,    \* the file does not exist
          Empty,     \* a file just truncated
          Torn,      \* a file that does not parse
          MaxWrites, \* bound: changes of a field
          MaxCrashes \* bound: deaths of a process

VARIABLES mem,        \* the state each manager has in memory
          phase,      \* how far its save has come
          copy,       \* the data it is saving
          fd,         \* where the file it opened as the temporary one is now
          due,        \* managers whose changed summary is not being saved yet
          tmp, main, unified, \* the three files
          writes,     \* changes so far
          crashes,    \* deaths so far
          acked,      \* history: the last change of each field whose setter returned nil
          overlapped, \* history: two saves, or two managers, met
          broken      \* history: a death left the unified file behind

vars == <<mem, phase, copy, fd, due, tmp, main, unified, writes, crashes, acked,
          overlapped, broken>>

Fields == Field \cup {Summary}
newDefaultState == [f \in Fields |-> 0]
Whole(file) == file \notin {Empty, Torn}
Saving(m) == phase[m] \in {"opened", "filled", "renamed", "exporting"}

Init ==
    /\ mem = [m \in Manager |-> newDefaultState]
    /\ phase = [m \in Manager |-> "down"]
    /\ copy = [m \in Manager |-> newDefaultState]
    /\ fd = [m \in Manager |-> "tmp"]
    /\ due = {}
    /\ tmp = NoFile /\ main = NoFile /\ unified = NoFile
    /\ writes = 0 /\ crashes = 0
    /\ acked = newDefaultState
    /\ overlapped = FALSE
    /\ broken = FALSE

filesUnchanged == UNCHANGED <<tmp, main, unified>>

-----------------------------------------------------------------------------
(* Deviation: a manager starts from the default state.                     *)
LoadNothing(m) ==
    /\ mem' = [mem EXCEPT ![m] = newDefaultState]
    /\ copy' = [copy EXCEPT ![m] = newDefaultState]
    /\ phase' = [phase EXCEPT ![m] = "idle"]

(* A missing file is saved from the default state at once; one that does   *)
(* not parse is an error, and the manager works on from the default state. *)
Load(m) ==
    /\ mem' = [mem EXCEPT ![m] = IF main = NoFile \/ ~Whole(main) THEN newDefaultState ELSE main]
    /\ copy' = [copy EXCEPT ![m] = newDefaultState]
    /\ phase' = [phase EXCEPT ![m] = IF main = NoFile THEN "marshalled" ELSE "idle"]

LoadState(m) ==
    /\ phase[m] = "down"
    /\ Load(m)
    /\ overlapped' = (overlapped \/ \E o \in Manager \ {m} : phase[o] # "down")
    /\ UNCHANGED <<fd, due, writes, crashes, acked, broken>>
    /\ filesUnchanged

(* A setter: the change and the marshalling, under the mutex.              *)
SetField(m, f) ==
    LET now == [mem[m] EXCEPT ![f] = writes + 1] IN
    /\ phase[m] = "idle"
    /\ writes < MaxWrites
    /\ writes' = writes + 1
    /\ mem' = [mem EXCEPT ![m] = now]
    /\ copy' = [copy EXCEPT ![m] = now]
    /\ phase' = [phase EXCEPT ![m] = "marshalled"]
    /\ UNCHANGED <<fd, due, crashes, acked, overlapped, broken>>
    /\ filesUnchanged

(* The summary of a subagent is changed in one critical section and saved  *)
(* in the next: another setter may come in between, and saves it too.      *)
UpdateSummaryForAgent(m) ==
    /\ phase[m] = "idle"
    /\ writes < MaxWrites
    /\ writes' = writes + 1
    /\ mem' = [mem EXCEPT ![m][Summary] = writes + 1]
    /\ due' = due \cup {m}
    /\ UNCHANGED <<phase, copy, fd, crashes, acked, overlapped, broken>>
    /\ filesUnchanged

SaveState(m) ==
    /\ phase[m] = "idle"
    /\ m \in due
    /\ due' = due \ {m}
    /\ copy' = [copy EXCEPT ![m] = mem[m]]
    /\ phase' = [phase EXCEPT ![m] = "marshalled"]
    /\ UNCHANGED <<mem, fd, writes, crashes, acked, overlapped, broken>>
    /\ filesUnchanged

-----------------------------------------------------------------------------
(* saveStateLocked.  Data written over a file another process has written  *)
(* since it was truncated may leave a mixture.                             *)
Filled(file, data) == IF file = Empty THEN {data} ELSE {data, Torn}

OpenTmp(m) ==
    /\ phase[m] = "marshalled"
    /\ phase' = [phase EXCEPT ![m] = "opened"]
    /\ fd' = [fd EXCEPT ![m] = "tmp"]
    /\ tmp' = Empty
    /\ overlapped' = (overlapped \/ \E o \in Manager \ {m} : Saving(o))
    /\ UNCHANGED <<mem, copy, due, main, unified, writes, crashes, acked, broken>>

FillTmp(m) ==
    /\ phase[m] = "opened"
    /\ phase' = [phase EXCEPT ![m] = "filled"]
    /\ IF fd[m] = "tmp" THEN tmp' \in Filled(tmp, copy[m]) /\ UNCHANGED main
                        ELSE main' \in Filled(main, copy[m]) /\ UNCHANGED tmp
    /\ UNCHANGED <<mem, copy, fd, due, unified, writes, crashes, acked, overlapped, broken>>

(* The disk is full, say: an error, and the change stays in memory.        *)
WriteFails(m) ==
    /\ phase[m] = "opened"
    /\ phase' = [phase EXCEPT ![m] = "idle"]
    /\ IF fd[m] = "tmp" THEN tmp' = Torn /\ UNCHANGED main
                        ELSE main' = Torn /\ UNCHANGED tmp
    /\ UNCHANGED <<mem, copy, fd, due, unified, writes, crashes, acked, overlapped, broken>>

(* A file another process has just renamed away cannot be renamed again.   *)
Rename(m) ==
    /\ phase[m] = "filled"
    /\ IF tmp = NoFile
          THEN /\ phase' = [phase EXCEPT ![m] = "idle"]
               /\ UNCHANGED <<fd, tmp, main>>
          ELSE /\ phase' = [phase EXCEPT ![m] = "renamed"]
               /\ main' = tmp
               /\ tmp' = NoFile
               /\ fd' = [o \in Manager |-> "main"]
    /\ UNCHANGED <<mem, copy, due, unified, writes, crashes, acked, overlapped, broken>>

OpenUnified(m) ==
    /\ phase[m] = "renamed"
    /\ phase' = [phase EXCEPT ![m] = "exporting"]
    /\ unified' = Empty
    /\ UNCHANGED <<mem, copy, fd, due, tmp, main, writes, crashes, acked, overlapped, broken>>

FillUnified(m) ==
    /\ phase[m] = "exporting"
    /\ phase' = [phase EXCEPT ![m] = "idle"]
    /\ unified' \in Filled(unified, copy[m])
    /\ acked' = [f \in Fields |-> IF copy[m][f] > acked[f] THEN copy[m][f] ELSE acked[f]]
    /\ broken' = FALSE
    /\ UNCHANGED <<mem, copy, fd, due, tmp, main, writes, crashes, overlapped>>

-----------------------------------------------------------------------------
(* The process dies; what it was writing may be written in part.           *)
Torned(p, m, file) == IF phase[m] = p THEN {file, Torn} ELSE {file}

Crash(m) ==
    /\ phase[m] # "down"
    /\ crashes < MaxCrashes
    /\ crashes' = crashes + 1
    /\ phase' = [phase EXCEPT ![m] = "down"]
    /\ due' = due \ {m}
    /\ IF fd[m] = "tmp" THEN tmp' \in Torned("opened", m, tmp) /\ UNCHANGED main
                        ELSE main' \in Torned("opened", m, main) /\ UNCHANGED tmp
    /\ unified' \in Torned("exporting", m, unified)
    /\ broken' = (broken \/ phase[m] \in {"renamed", "exporting"})
    /\ UNCHANGED <<mem, copy, fd, writes, acked, overlapped>>

-----------------------------------------------------------------------------
Next == \E m \in Manager : \/ LoadState(m) \/ UpdateSummaryForAgent(m) \/ SaveState(m)
                           \/ \E f \in Field : SetField(m, f)
                           \/ OpenTmp(m) \/ FillTmp(m) \/ WriteFails(m) \/ Rename(m)
                           \/ OpenUnified(m) \/ FillUnified(m)
                           \/ Crash(m)

Spec == Init /\ [][Next]_vars

-----------------------------------------------------------------------------
File == [Fields -> 0..MaxWrites] \cup {NoFile, Empty, Torn}

TypeOK ==
    /\ mem \in [Manager -> [Fields -> 0..MaxWrites]]
    /\ copy \in [Manager -> [Fields -> 0..MaxWrites]]
    /\ phase \in [Manager -> {"down", "idle", "marshalled", "opened", "filled", "renamed",
                              "exporting"}]
    /\ fd \in [Manager -> {"tmp", "main"}]
    /\ due \subseteq Manager
    /\ tmp \in File /\ main \in File /\ unified \in File
    /\ writes \in 0..MaxWrites /\ crashes \in 0..MaxCrashes
    /\ acked \in [Fields -> 0..MaxWrites]
    /\ overlapped \in BOOLEAN /\ broken \in BOOLEAN

(* With one manager at a time the session file always parses, wherever a   *)
(* process dies, and has every change whose setter reported success.       *)
SavedIsKept ==
    ~overlapped => /\ Whole(main)
                   /\ main # NoFile => \A f \in Fields : main[f] >= acked[f]
                   /\ main = NoFile => acked = newDefaultState

(* The unified file is the session file, but during a save and, after a    *)
(* death, until the next save.                                             *)
UnifiedFollows ==
    ~overlapped /\ ~broken /\ (\A m \in Manager : phase[m] \notin {"renamed", "exporting"})
        => unified = main

(* The session survives its saves and the deaths of its process.           *)
SessionKept == TypeOK /\ SavedIsKept /\ UnifiedFollows
=============================================================================
