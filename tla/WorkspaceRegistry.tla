-------------------------- MODULE WorkspaceRegistry --------------------------
(***************************************************************************)
(* internal/orchestrator/manager.go: the workspaces registered in the      *)
(* global workspaces.json.  AddWorkspace and RemoveWorkspace load the      *)
(* list, change it and write all of it back in place, with no lock: the    *)
(* requests of the daemon's clients and the command lines interleave.      *)
(***************************************************************************)
EXTENDS Naturals

CONSTANTS Request, \* calls of AddWorkspace and RemoveWorkspace, one each
          Name,    \* names of workspaces
          Path,    \* directories
          NoFile, Empty, Torn \* no file, just truncated, does not parse

VARIABLES workspaces, \* the file: a set of entries, or one of the three above
          at,         \* new, loaded, opened, done or refused, per request
          list,       \* the list a request is about to write
          asked,      \* history: the entries it adds, the names it removes
          registered, \* history: the entries as the answers of the requests tell
          met         \* history: two requests were between load and save together

vars == <<workspaces, at, list, asked, registered, met>>

Entry == [name : Name, path : Path]
Whole == workspaces \notin {Empty, Torn}
LoadWorkspaces == IF workspaces = NoFile THEN {} ELSE workspaces
Busy(r) == at[r] \in {"loaded", "opened"}

Init ==
    /\ workspaces = NoFile
    /\ at = [r \in Request |-> "new"]
    /\ list = [r \in Request |-> {}]
    /\ asked = [r \in Request |-> [adds |-> {}, drops |-> {}]]
    /\ registered = {}
    /\ met = FALSE

-----------------------------------------------------------------------------
Changed(entries, adds, drops) == {w \in entries : w.name \notin drops} \cup adds

(* An error of the load, a duplicate or an unknown name ends the request.  *)
Refuse(r) ==
    /\ at' = [at EXCEPT ![r] = "refused"]
    /\ UNCHANGED <<workspaces, list, asked, registered, met>>

Keep(r, adds, drops) ==
    /\ at' = [at EXCEPT ![r] = "loaded"]
    /\ list' = [list EXCEPT ![r] = Changed(LoadWorkspaces, adds, drops)]
    /\ asked' = [asked EXCEPT ![r] = [adds |-> adds, drops |-> drops]]
    /\ met' = (met \/ \E o \in Request : Busy(o))
    /\ UNCHANGED <<workspaces, registered>>

(* Deviation: only the names are compared.                                 *)
AddByName(r, n, p) ==
    /\ at[r] = "new"
    /\ IF Whole /\ ~\E w \in LoadWorkspaces : w.name = n
          THEN Keep(r, {[name |-> n, path |-> p]}, {})
          ELSE Refuse(r)

AddWorkspace(r, n, p) ==
    /\ at[r] = "new"
    /\ IF Whole /\ ~\E w \in LoadWorkspaces : w.name = n \/ w.path = p
          THEN Keep(r, {[name |-> n, path |-> p]}, {})
          ELSE Refuse(r)

RemoveWorkspace(r, n) ==
    /\ at[r] = "new"
    /\ IF Whole /\ \E w \in LoadWorkspaces : w.name = n
          THEN Keep(r, {}, {n})
          ELSE Refuse(r)

(* SaveWorkspaces: os.WriteFile truncates, then writes.                    *)
Truncate(r) ==
    /\ at[r] = "loaded"
    /\ at' = [at EXCEPT ![r] = "opened"]
    /\ workspaces' = Empty
    /\ UNCHANGED <<list, asked, registered, met>>

SaveWorkspaces(r) ==
    /\ at[r] = "opened"
    /\ at' = [at EXCEPT ![r] = "done"]
    /\ workspaces' \in IF workspaces = Empty THEN {list[r]} ELSE {list[r], Torn}
    /\ registered' = Changed(registered, asked[r].adds, asked[r].drops)
    /\ UNCHANGED <<list, asked, met>>

(* The process dies, or the disk is full.                                  *)
SaveFails(r) ==
    /\ Busy(r)
    /\ at' = [at EXCEPT ![r] = "refused"]
    /\ workspaces' \in IF at[r] = "opened" THEN {workspaces, Torn} ELSE {workspaces}
    /\ UNCHANGED <<list, asked, registered, met>>

Next == \E r \in Request : \/ \E n \in Name, p \in Path : AddWorkspace(r, n, p)
                           \/ \E n \in Name : RemoveWorkspace(r, n)
                           \/ Truncate(r) \/ SaveWorkspaces(r) \/ SaveFails(r)

Spec == Init /\ [][Next]_vars

-----------------------------------------------------------------------------
TypeOK ==
    /\ workspaces \in (SUBSET Entry) \cup {NoFile, Empty, Torn}
    /\ at \in [Request -> {"new", "loaded", "opened", "done", "refused"}]
    /\ list \in [Request -> SUBSET Entry]
    /\ asked \in [Request -> [adds : SUBSET Entry, drops : SUBSET Name]]
    /\ registered \subseteq Entry
    /\ met \in BOOLEAN

(* However the requests interleave, a file that parses never has a name or *)
(* a directory twice.                                                      *)
EntriesUnique ==
    Whole => \A v, w \in LoadWorkspaces : v.name = w.name \/ v.path = w.path => v = w

(* Requests one after the other: the file has what the answers promised.   *)
RegistryKept ==
    ~met /\ Whole => LoadWorkspaces = registered

(* workspaces.json under the requests that rewrite it.                     *)
RegistrySound == TypeOK /\ EntriesUnique /\ RegistryKept
=============================================================================
