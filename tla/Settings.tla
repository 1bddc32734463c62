------------------------------- MODULE Settings -------------------------------
(***************************************************************************)
(* internal/config/config.go and the commands that change it               *)
(* (internal/cli/config.go): the global and the workspace settings, each a *)
(* JSON file that is made when it is first loaded, and the secrets of the  *)
(* global .env.  A command loads its file, changes one value and writes    *)
(* the file whole; a run loads the three, resolves and starts.  Each may   *)
(* die while it writes.                                                    *)
(***************************************************************************)
EXTENDS Sequences

CONSTANTS Command, Run, \* processes: those that change a value and those that run
          Key,          \* settings
          Copied,       \* those a new workspace takes from the global file
          Own,          \* those only a workspace has
          Flagged,      \* those with a flag of the command line
          Secret,       \* variables of the .env files
          Given,        \* where ("global", "local", "env", "flag") -> a value given there
          Default,      \* the value of the program
          Unset,        \* no value
          Blank,        \* a variable set to nothing
          Absent, Torn  \* no file; a file opened for writing and not filled

VARIABLES file,  \* "global", "local", "env": the files
          job,   \* process -> what it does
          todo,  \* process -> the steps it has left
          held,  \* process, file -> what it has read there
          seen,  \* process -> the settings its run goes by
          keys,  \* process -> the secrets of its run
          said,  \* history: the values given to each file
          heard, \* process -> history: what had been said when it read
          clash, \* files a process read or changed while another changed them
          died   \* files a process died over

vars == <<file, job, todo, held, seen, keys, said, heard, clash, died>>

Process == Command \cup Run
File == {"global", "local", "env"}
Nothing == [k \in Key |-> Unset]
NoSecrets == [s \in Secret |-> Unset]
NothingSet == [f \in File |-> IF f = "env" THEN NoSecrets ELSE Nothing]
Over(old, new) == [x \in DOMAIN old |-> IF new[x] # Unset THEN new[x] ELSE old[x]]

DefaultGlobalConfig == [k \in Key |-> IF k \in Own THEN Unset ELSE Default]
DefaultWorkspaceConfig(global) ==
    [k \in Key |-> IF k \in Own THEN Default ELSE IF k \in Copied THEN global[k] ELSE Unset]

(* A run from the command line may have flags, one here, and reads no .env *)
(* of the project; the daemon's run has no flags and does.                 *)
GlobalSets == [on : {"global"}, key : Key \ Own]
WorkspaceSets == [on : {"local"}, key : Key]
EnvSets == [on : {"env"}, key : Secret]
CLIFlags == {Nothing} \cup {[Nothing EXCEPT ![k] = Given["flag"]] : k \in Flagged}
Runs == [daemon : {FALSE}, flags : CLIFlags, project : {NoSecrets}]
        \cup [daemon : {TRUE}, flags : {Nothing}, project : [Secret -> {Unset, Blank, Default}]]

(* A step: a file to load, to open for writing or to fill with "what",     *)
(* after which "as" is what has been said to it.                           *)
Do(what, f) == [do |-> what, on |-> f]
Write(f, what, as) == <<[do |-> "open", on |-> f, what |-> what, as |-> as],
                        [do |-> "fill", on |-> f, what |-> what, as |-> as]>>

Init ==
    /\ file = [f \in File |-> IF f = "env" THEN NoSecrets ELSE Absent]
    /\ \E c \in [Command -> GlobalSets \cup WorkspaceSets \cup EnvSets], r \in [Run -> Runs] :
          job = [p \in Process |-> IF p \in Command THEN c[p] ELSE r[p]]
    /\ todo = [p \in Process |->
                  IF p \in Command THEN <<Do("load", job[p].on)>>
                  ELSE <<Do("load", "global"), Do("load", "env"), Do("load", "local"),
                         Do("resolve", "global")>>]
    /\ held = [p \in Process |-> NothingSet]
    /\ seen = [p \in Process |-> Nothing]
    /\ keys = [p \in Process |-> NoSecrets]
    /\ said = NothingSet
    /\ heard = held
    /\ clash = {} /\ died = {}

-----------------------------------------------------------------------------
At(p, what, f) == /\ todo[p] # <<>>
                  /\ Head(todo[p]).do = what /\ Head(todo[p]).on = f
Changing(q, f) == \E n \in DOMAIN todo[q] : todo[q][n].do = "fill" /\ todo[q][n].on = f
Busy(p, f) == \E q \in Process \ {p} : Changing(q, f)

(* p has read f and has these steps before the rest.                       *)
Read(p, f, what, as, steps) ==
    /\ held' = [held EXCEPT ![p][f] = what]
    /\ heard' = [heard EXCEPT ![p][f] = as]
    /\ todo' = [todo EXCEPT ![p] = steps \o Tail(@)]
    /\ clash' = IF Busy(p, f) THEN clash \cup {f} ELSE clash
    /\ UNCHANGED <<file, job, seen, keys, said, died>>
(* A command that has read its file writes it with the value it gives.     *)
Change(p, f, what, as) ==
    IF p \in Run THEN <<>>
    ELSE Write(f, [what EXCEPT ![job[p].key] = Given[f]], [as EXCEPT ![job[p].key] = Given[f]])

(* A file that cannot be read ends the command, or the run.                *)
Refuse(p, f) ==
    /\ At(p, "load", f) /\ file[f] = Torn
    /\ todo' = [todo EXCEPT ![p] = <<>>]
    /\ UNCHANGED <<file, job, held, seen, keys, said, heard, clash, died>>

(* A file that is not there is made, with the defaults.                    *)
NewGlobal(p, rest) == Read(p, "global", DefaultGlobalConfig, said["global"],
                           Write("global", DefaultGlobalConfig, Nothing) \o rest)

(* Deviation: a file that cannot be read counts as none.                   *)
ForgivingGlobalConfig(p) ==
    /\ At(p, "load", "global")
    /\ IF file["global"] \in {Absent, Torn}
          THEN NewGlobal(p, Change(p, "global", DefaultGlobalConfig, Nothing))
          ELSE Read(p, "global", file["global"], said["global"],
                    Change(p, "global", file["global"], said["global"]))

LoadGlobalConfig(p) ==
    /\ At(p, "load", "global") /\ file["global"] # Torn
    /\ IF file["global"] = Absent
          THEN NewGlobal(p, Change(p, "global", DefaultGlobalConfig, Nothing))
          ELSE Read(p, "global", file["global"], said["global"],
                    Change(p, "global", file["global"], said["global"]))

LoadEnvVars(p) ==
    /\ At(p, "load", "env")
    /\ Read(p, "env", file["env"], said["env"], Change(p, "env", file["env"], said["env"]))

(* To make a workspace's file the global one is loaded, made if need be,   *)
(* and done without if it cannot be read.                                  *)
LoadWorkspaceConfig(p) ==
    /\ At(p, "load", "local")
    /\ \/ /\ file["local"] \notin {Absent, Torn}
          /\ Read(p, "local", file["local"], said["local"],
                  Change(p, "local", file["local"], said["local"]))
       \/ /\ file["local"] = Absent
          /\ LET global == CASE file["global"] = Torn -> Nothing
                             [] file["global"] = Absent -> DefaultGlobalConfig
                             [] OTHER -> file["global"]
                 new == DefaultWorkspaceConfig(global)
                 as == [k \in Key |-> IF k \in Copied THEN new[k] ELSE Unset]
             IN Read(p, "local", new, as,
                     (IF file["global"] = Absent
                         THEN Write("global", DefaultGlobalConfig, Nothing) ELSE <<>>)
                     \o Write("local", new, as) \o Change(p, "local", new, as))

(* os.WriteFile: the file is emptied, then filled.                         *)
Open(p, f) ==
    /\ At(p, "open", f)
    /\ file' = [file EXCEPT ![f] = IF f = "env" THEN NoSecrets ELSE Torn]
    /\ todo' = [todo EXCEPT ![p] = Tail(@)]
    /\ clash' = IF Busy(p, f) THEN clash \cup {f} ELSE clash
    /\ UNCHANGED <<job, held, seen, keys, said, heard, died>>

(* Two that fill it at a time may leave a mixture.                         *)
Fill(p, f) ==
    /\ At(p, "fill", f)
    /\ \E left \in {Head(todo[p]).what}
                   \cup (IF Busy(p, f) /\ f # "env" THEN {Torn} ELSE {}) :
          file' = [file EXCEPT ![f] = left]
    /\ said' = [said EXCEPT ![f] = Head(todo[p]).as]
    /\ todo' = [todo EXCEPT ![p] = Tail(@)]
    /\ UNCHANGED <<job, held, seen, keys, heard, clash, died>>

(* Of an .env that was being written some lines may be there.              *)
Die(p, f) ==
    /\ At(p, "fill", f)
    /\ todo' = [todo EXCEPT ![p] = <<>>]
    /\ died' = died \cup {f}
    /\ \/ UNCHANGED file
       \/ /\ f = "env"
          /\ \E some \in SUBSET Secret :
                file' = [file EXCEPT !["env"] =
                            [s \in Secret |-> IF s \in some THEN Head(todo[p]).what[s] ELSE Unset]]
    /\ UNCHANGED <<job, held, seen, keys, said, heard, clash>>

(* Flags come before the workspace, it before the global file, and that    *)
(* before the program's values.                                            *)
Base(global) == Over([k \in Key |-> Default], global)
WithWorkspace(base, local) == Over(base, local)
WithFlags(base, flags) == Over(base, flags)
Layers(p, global, local) == WithFlags(WithWorkspace(Base(global), local), job[p].flags)
(* The project's variables replace the global ones; of what neither gives  *)
(* a value the environment's is taken, Default here.                       *)
Get(p, env) == LET mine == Over(env, job[p].project)
               IN [s \in Secret |-> IF mine[s] \in {Unset, Blank} THEN Default ELSE mine[s]]

Resolve(p) ==
    /\ At(p, "resolve", "global")
    /\ seen' = [seen EXCEPT ![p] = Layers(p, held[p]["global"], held[p]["local"])]
    /\ keys' = [keys EXCEPT ![p] = Get(p, held[p]["env"])]
    /\ todo' = [todo EXCEPT ![p] = <<>>]
    /\ UNCHANGED <<file, job, held, said, heard, clash, died>>

Next == \E p \in Process :
    \/ LoadGlobalConfig(p) \/ LoadEnvVars(p) \/ LoadWorkspaceConfig(p)
    \/ \E f \in File : Refuse(p, f) \/ Open(p, f) \/ Fill(p, f) \/ Die(p, f)
    \/ Resolve(p)

Spec == Init /\ [][Next]_vars

-----------------------------------------------------------------------------
Started(p) == p \in Run /\ seen[p] # Nothing

(* Types.                                                                  *)
TypeOK == /\ \A f \in File : file[f] \in {Absent, Torn} \/ DOMAIN file[f] \in {Key, Secret}
          /\ \A p \in Process : DOMAIN seen[p] = Key /\ DOMAIN keys[p] = Secret
          /\ clash \in SUBSET File /\ died \in SUBSET File

(* A run that met nobody changing a file goes by what the users had said   *)
(* when it read, whoever died before: a file that a death left unfinished  *)
(* ends runs and is never taken for an empty one.  Of .env this holds only *)
(* while no one has died over it.                                          *)
RunsGoByWhatWasSaid ==
    \A p \in Run : Started(p) /\ clash = {} =>
        /\ seen[p] = Layers(p, heard[p]["global"], heard[p]["local"])
        /\ "env" \notin died => keys[p] = Get(p, heard[p]["env"])

(* A file that cannot be read is being written, was being written when a   *)
(* process died, or was written by two at a time.                          *)
TornHasACause == \A f \in File : file[f] = Torn =>
    (\E p \in Process : At(p, "fill", f)) \/ f \in died \/ f \in clash

(* What a death left unfinished is not taken for no file and overwritten:  *)
(* the user may still save of it what there is.                            *)
TornStaysTorn == \A f \in died \ ({"env"} \cup clash) : file[f] = Torn

(* With no death and no two at a time a file says what was given last.     *)
FilesSayWhatWasSaid ==
    \A f \in File : f \notin died \cup clash /\ file[f] \notin {Absent, Torn}
                    /\ (\A p \in Process : ~ At(p, "fill", f)) =>
        file[f] = Over(IF f = "global" THEN DefaultGlobalConfig
                       ELSE IF f = "local" THEN DefaultWorkspaceConfig(Nothing)
                       ELSE NoSecrets, said[f])

(* The settings: runs, files and values agree with what was said.          *)
SettingsSound == TypeOK /\ RunsGoByWhatWasSaid /\ TornHasACause /\ TornStaysTorn
                 /\ FilesSayWhatWasSaid
=============================================================================
