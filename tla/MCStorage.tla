------------------------------ MODULE MCStorage ------------------------------
(***************************************************************************)
(* The files and tables the parts of the program keep, for TLC: sessions,  *)
(* workspaces, the schedule, agents' locks, checkpoints, memory, media,    *)
(* edited files, settings and grants.  They share no mutex, so their       *)
(* interleavings show nothing that each alone does not: "part" says which  *)
(* of them moves.                                                          *)
(***************************************************************************)
EXTENDS EditParams, GrantParams, Sequences, TLC

CONSTANTS NoFile, Empty,
          SessionManager, SessionCrashes, Field, Summary, MaxWrites,
          RegRequest, Name, Dir,
          JobRequest, Task, MaxRestarts,
          Agent, OwnerOf, a1, a2, a3, o1, o2, LockPath, Default, NoOwner, LockTTL, MaxAge,
          CpName, Within, NoMsgs, MaxEdits,
          Writer, MaxFacts, MaxCore, MaxText, MaxRuns,
          Kind, MediaRequest, NoTake, MaxTakes,
          good1, good2, bad1, bad2,
          gitStar, gitPush, writeFile, daemon, cli, batch,
          SetCommand, SetRun, Key, Copied, Own, Flagged, Secret, Given, Unset, Blank,
          g1, l1, e1, f1

VARIABLES part,
          mem, phase, sesCopy, fd, due, tmp, main, unified, writes,
          sesCrashes, acked, overlapped, broken, workspaces, regAt, regList,
          asked, registered, regMet, tasks, entries, jobAt, jobList, wants,
          target, jobRestarts, gone, ghosts, half, jobMet, locks, age, holds,
          expired, ousted, isGit, inPlace, ignored, tree, messages, stash,
          stored, edits, created, clean, told, sqlite, data, memFile, memAt,
          left, memCopy, core, runs, enabled, memMet, cmd, recorder, recFile,
          takes, recRestarts, orphans, given, recAt, recKeys, temp, recHeard,
          recMet, editFile, bak, editPc, kept, failures, before, blind,
          outdated, editCrashes, setFile, job, todo, held, seen, setKeys,
          said, setHeard, clash, died, permFile, torn, grants, permPc,
          request, verdict, remembered, permCrashes, interrupted

(* a1 and a2 act under names of their own, a3 has none.                    *)
SomeOwners == (a1 :> o1) @@ (a2 :> o2) @@ (a3 :> Default)
(* One checkpoint's name begins with the other's.                          *)
TwoNames == {"cp_1", "cp_12"}
NamesWithin == [n \in TwoNames |-> IF n = "cp_1" THEN TwoNames ELSE {n}]
(* Two contents that are found valid and two that are not.                 *)
GoodContent == {good1, good2}
SomeContent == GoodContent \cup {bad1, bad2}
(* A target is also a pattern: "git *" covers "git push" and itself.       *)
SomeTargets == {gitStar, gitPush, writeFile}
GitStarMatches == {<<t, t>> : t \in SomeTargets} \cup {<<gitStar, gitPush>>}
(* What a user gives tells where it was given.                             *)
ValueOfEach == [global |-> g1, local |-> l1, env |-> e1, flag |-> f1]
EveryMode == (daemon :> "scoped") @@ (cli :> "ask_every_time") @@ (batch :> "total_access")

Session == INSTANCE SessionState WITH
    Manager <- SessionManager, MaxCrashes <- SessionCrashes, copy <- sesCopy,
    crashes <- sesCrashes
Registry == INSTANCE WorkspaceRegistry WITH
    Request <- RegRequest, Path <- Dir, at <- regAt, list <- regList,
    met <- regMet
Schedule == INSTANCE ScheduleStore WITH
    Request <- JobRequest, at <- jobAt, list <- jobList,
    restarts <- jobRestarts, met <- jobMet
Locks == INSTANCE ConcurrencyLock WITH
    Path <- LockPath
Checks == INSTANCE Checkpoints
Memory == INSTANCE AgentMemory WITH
    file <- memFile, at <- memAt, copy <- memCopy, met <- memMet
Media == INSTANCE Recordings WITH
    Request <- MediaRequest, file <- recFile, restarts <- recRestarts,
    at <- recAt, keys <- recKeys, heard <- recHeard, met <- recMet
Edit == INSTANCE EditRollback WITH
    file <- editFile, pc <- editPc, crashes <- editCrashes
Config == INSTANCE Settings WITH
    Command <- SetCommand, Run <- SetRun, file <- setFile, keys <- setKeys,
    heard <- setHeard
Grants == INSTANCE PermissionManager WITH
    file <- permFile, pc <- permPc, crashes <- permCrashes

sessionVars == <<mem, phase, sesCopy, fd, due, tmp, main, unified, writes,
                 sesCrashes, acked, overlapped, broken>>
registryVars == <<workspaces, regAt, regList, asked, registered, regMet>>
scheduleVars == <<tasks, entries, jobAt, jobList, wants, target, jobRestarts,
                  gone, ghosts, half, jobMet>>
locksVars == <<locks, age, holds, expired, ousted>>
checksVars == <<isGit, inPlace, ignored, tree, messages, stash, stored, edits,
                created, clean, told>>
memoryVars == <<sqlite, data, memFile, memAt, left, memCopy, core, runs,
                enabled, memMet>>
mediaVars == <<cmd, recorder, recFile, takes, recRestarts, orphans, given,
               recAt, recKeys, temp, recHeard, recMet>>
editVars == <<editFile, bak, editPc, kept, failures, before, blind, outdated,
              editCrashes>>
configVars == <<setFile, job, todo, held, seen, setKeys, said, setHeard,
                clash, died>>
grantsVars == <<permFile, torn, grants, permPc, request, verdict, remembered,
                permCrashes, interrupted>>
vars == <<part, sessionVars, registryVars, scheduleVars, locksVars, checksVars,
        memoryVars, mediaVars, editVars, configVars, grantsVars>>

(* The settings' job while another part moves.                             *)
AnyJob == [p \in SetCommand \cup SetRun |->
              IF p \in SetCommand THEN [on |-> "env", key |-> CHOOSE s \in Secret : TRUE]
              ELSE [daemon |-> FALSE, flags |-> Config!Nothing, project |-> Config!NoSecrets]]

(* The marks of what is not there are no data, the bounds are numbers, and *)
(* no agent has the name of nobody.                                        *)
SessionMarksAreApart ==
    /\ MaxWrites \in Nat /\ SessionCrashes \in Nat
    /\ \A x \in {NoFile, Empty, Torn} : x \notin [Session!Fields -> Nat]
    /\ NoFile # Empty /\ NoFile # Torn
RegistryApart ==
    /\ \A S \in SUBSET Registry!Entry : S \notin {NoFile, Empty, Torn}
    /\ NoFile # Empty /\ NoFile # Torn /\ Empty # Torn
ScheduleApart ==
    /\ \A S \in SUBSET Task : S \notin {NoFile, Empty, Torn}
    /\ NoFile # Empty /\ NoFile # Torn /\ Empty # Torn
    /\ "none" \notin Task
    /\ MaxRestarts \in Nat
LockNamed == MaxAge \in Nat /\ \A a \in Agent : OwnerOf[a] # NoOwner
CheckApart ==
    /\ \A n \in CpName : n \in Within[n]
    /\ MaxEdits \in Nat /\ NoMsgs \notin 0..MaxEdits
MemoryApart == Empty \notin Seq(Writer) /\ Torn \notin Seq(Writer) /\ Empty # Torn
MemoryBounds ==
    /\ MaxFacts \in Nat /\ MaxText \in Nat /\ MaxCore \in 0..MaxText
    /\ MaxRuns \in Nat \ {0}
MediaBounds == MaxTakes \in Nat
ConfigValue == {Unset, Blank, Default, Given["global"], Given["local"], Given["env"]}
ConfigApart ==
    /\ Absent # Torn /\ SetCommand \cap SetRun = {}
    /\ \A f \in Config!File : Given[f] # Unset
    /\ \A x \in {Absent, Torn} :
          x \notin [Key -> ConfigValue] /\ x \notin [Secret -> ConfigValue]

ASSUME StorageAssumption ==
    /\ SessionMarksAreApart /\ RegistryApart /\ ScheduleApart /\ LockNamed
    /\ CheckApart /\ MemoryApart /\ MemoryBounds /\ MediaBounds /\ ConfigApart

Init == /\ part \in {"session", "registry", "schedule", "locks",
                      "checkpoints", "memory", "media", "edit", "settings",
                      "grants"}
        /\ part # "checkpoints" => isGit = TRUE /\ inPlace = TRUE /\ ignored = TRUE
        /\ part # "memory" => sqlite = TRUE
        /\ part # "media" => recKeys = [r \in MediaRequest |-> TRUE]
        /\ part # "edit" => editFile = Absent
        /\ part # "settings" => job = AnyJob
        /\ Session!Init
        /\ Registry!Init
        /\ Schedule!Init
        /\ Locks!Init
        /\ Checks!Init
        /\ Memory!Init
        /\ Media!Init
        /\ Edit!Init
        /\ Config!Init
        /\ Grants!Init

InSession(A) == /\ part = "session" /\ A
                /\ UNCHANGED <<part, registryVars, scheduleVars, locksVars,
                               checksVars, memoryVars, mediaVars, editVars,
                               configVars, grantsVars>>
InRegistry(A) == /\ part = "registry" /\ A
                 /\ UNCHANGED <<part, sessionVars, scheduleVars, locksVars,
                                checksVars, memoryVars, mediaVars, editVars,
                                configVars, grantsVars>>
InSchedule(A) == /\ part = "schedule" /\ A
                 /\ UNCHANGED <<part, sessionVars, registryVars, locksVars,
                                checksVars, memoryVars, mediaVars, editVars,
                                configVars, grantsVars>>
InLocks(A) == /\ part = "locks" /\ A
              /\ UNCHANGED <<part, sessionVars, registryVars, scheduleVars,
                             checksVars, memoryVars, mediaVars, editVars,
                             configVars, grantsVars>>
InChecks(A) == /\ part = "checkpoints" /\ A
               /\ UNCHANGED <<part, sessionVars, registryVars, scheduleVars,
                              locksVars, memoryVars, mediaVars, editVars,
                              configVars, grantsVars>>
InMemory(A) == /\ part = "memory" /\ A
               /\ UNCHANGED <<part, sessionVars, registryVars, scheduleVars,
                              locksVars, checksVars, mediaVars, editVars,
                              configVars, grantsVars>>
InMedia(A) == /\ part = "media" /\ A
              /\ UNCHANGED <<part, sessionVars, registryVars, scheduleVars,
                             locksVars, checksVars, memoryVars, editVars,
                             configVars, grantsVars>>
InEdit(A) == /\ part = "edit" /\ A
             /\ UNCHANGED <<part, sessionVars, registryVars, scheduleVars,
                            locksVars, checksVars, memoryVars, mediaVars,
                            configVars, grantsVars>>
InConfig(A) == /\ part = "settings" /\ A
               /\ UNCHANGED <<part, sessionVars, registryVars, scheduleVars,
                              locksVars, checksVars, memoryVars, mediaVars,
                              editVars, grantsVars>>
InGrants(A) == /\ part = "grants" /\ A
               /\ UNCHANGED <<part, sessionVars, registryVars, scheduleVars,
                              locksVars, checksVars, memoryVars, mediaVars,
                              editVars, configVars>>

Next == \/ InSession(Session!Next)
        \/ InRegistry(Registry!Next)
        \/ InSchedule(Schedule!Next)
        \/ InLocks(Locks!Next)
        \/ InChecks(Checks!Next)
        \/ InMemory(Memory!Next)
        \/ InMedia(Media!Next)
        \/ InEdit(Edit!Next)
        \/ InConfig(Config!Next)
        \/ InGrants(Grants!Next)

Spec == Init /\ [][Next]_vars

(* The commands that change settings differ in nothing.                    *)
CommandsAlike == Permutations(SetCommand)

(* SessionState: a session survives its saves and the deaths of a process. *)
SessionKept == Session!SessionKept
(* WorkspaceRegistry, ScheduleStore, AgentMemory: the three lists that are *)
(* saved whole and in place keep what their users were told.               *)
ListsKept == Registry!RegistrySound /\ Schedule!ScheduleSound /\ Memory!GraphOnDisk
(* ConcurrencyLock: a lock is lost only to the sweep or the default owner. *)
LockExcludes == Locks!LockExcludes
(* Checkpoints: where it can be, what is restored is what was kept.        *)
RestoreIsExact == Checks!RestoreIsExact
(* Recordings: a request gets the sound or the picture it asked for.       *)
MediaIsOwn == Media!MediaIsOwn
(* EditRollback: an undo takes back the last edit.                         *)
UndoTakesBackOneEdit == Edit!UndoTakesBackOneEdit
(* EditRollback: a rollback takes back the attempt that caused it.         *)
RollbackUndoesSeenAttempt == Edit!RollbackUndoesSeenAttempt
(* Settings: runs, files and values agree with what the users gave.        *)
SettingsSound == Config!SettingsSound
(* PermissionManager: who is granted something was allowed it, and what    *)
(* the user said to remember is in the file and is not asked again.        *)
GrantsSound == Grants!GrantsSound
=============================================================================
