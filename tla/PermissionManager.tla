-------------------------- MODULE PermissionManager --------------------------
(***************************************************************************)
(* internal/permission/manager.go: Authorize, the grants it keeps in       *)
(* .crom/permissions.json and the three modes that consult them or the     *)
(* user.  Several PermissionManagers may share one workspace's file: the   *)
(* daemon's agent, the CLI's, an agent started after a stopped one.  Each  *)
(* is serialized by its own mutex, held while the user thinks; nothing     *)
(* serializes the file.                                                    *)
(***************************************************************************)
EXTENDS GrantParams, Naturals, FiniteSets

VARIABLES file,       \* the grants in permissions.json
          torn,       \* whether it is empty or garbled: not valid JSON
          grants,     \* pm.grants
          pc,         \* idle, asking (inside askFunc) or saving, per manager
          request,    \* the target being authorized
          verdict,    \* the last answer of Authorize of each manager
          remembered, \* history: what the user said to remember
          crashes,    \* process deaths so far
          interrupted \* history: one of them was in the middle of a save

deaths == <<crashes, interrupted>>
vars == <<file, torn, grants, pc, request, verdict, remembered, deaths>>

Covered(G, t) == \E g \in G : <<g, t>> \in Matches

Verdict == [target : Target \cup {NoTarget}, approved : BOOLEAN,
            by : {"nobody", "mode", "grant", "user"}]

NoVerdict == [target |-> NoTarget, approved |-> FALSE, by |-> "nobody"]

Init ==
    /\ file = {}
    /\ torn = FALSE
    /\ grants = [m \in Manager |-> {}]
    /\ pc = [m \in Manager |-> "idle"]
    /\ request = [m \in Manager |-> NoTarget]
    /\ verdict = [m \in Manager |-> NoVerdict]
    /\ remembered = {}
    /\ crashes = 0
    /\ interrupted = FALSE

Conclude(m, t, approved, by) ==
    verdict' = [verdict EXCEPT ![m] = [target |-> t, approved |-> approved, by |-> by]]

-----------------------------------------------------------------------------
(* Deviation: the grants are read once and for all.                        *)
LoadedOnce(m) == grants[m]

(* loadGrantsLocked: an unreadable file leaves pm.grants as it was.        *)
Loaded(m) == IF torn THEN grants[m] ELSE file

AuthorizeFreely(m, t) ==
    /\ pc[m] = "idle"
    /\ Mode[m] = "total_access"
    /\ Conclude(m, t, TRUE, "mode")
    /\ UNCHANGED <<file, torn, grants, pc, request, remembered, deaths>>

(* The saved grants are consulted before the mode is.                      *)
AuthorizeByGrant(m, t) ==
    /\ pc[m] = "idle"
    /\ Mode[m] # "total_access"
    /\ Covered(Loaded(m), t)
    /\ grants' = [grants EXCEPT ![m] = Loaded(m)]
    /\ Conclude(m, t, TRUE, "grant")
    /\ UNCHANGED <<file, torn, pc, request, remembered, deaths>>

Ask(m, t) ==
    /\ pc[m] = "idle"
    /\ Mode[m] # "total_access"
    /\ ~Covered(Loaded(m), t)
    /\ grants' = [grants EXCEPT ![m] = Loaded(m)]
    /\ request' = [request EXCEPT ![m] = t]
    /\ pc' = [pc EXCEPT ![m] = "asking"]
    /\ UNCHANGED <<file, torn, verdict, remembered, deaths>>

Save(m, approved, remember) == Mode[m] = "scoped" /\ approved /\ remember

(* The user answers; os.WriteFile truncates the file first.                *)
Answer(m, approved, remember) ==
    /\ pc[m] = "asking"
    /\ Conclude(m, request[m], approved, "user")
    /\ IF Save(m, approved, remember)
       THEN /\ grants' = [grants EXCEPT ![m] = @ \cup {request[m]}]
            /\ pc' = [pc EXCEPT ![m] = "saving"]
            /\ torn' = TRUE
       ELSE /\ pc' = [pc EXCEPT ![m] = "idle"]
            /\ UNCHANGED <<grants, torn>>
    /\ remembered' = IF Mode[m] = "scoped" /\ approved /\ remember
                     THEN remembered \cup {request[m]} ELSE remembered
    /\ request' = [request EXCEPT ![m] = NoTarget]
    /\ UNCHANGED <<file, deaths>>

(* saveGrantsLocked writes what this manager believes the grants are.  If  *)
(* another one wrote since the truncation, what is longer of the two       *)
(* remains beyond the end of the shorter.                                  *)
Saved(m) ==
    /\ pc[m] = "saving"
    /\ \/ file' = grants[m] /\ torn' = FALSE
       \/ ~torn /\ torn' = TRUE /\ UNCHANGED file
    /\ pc' = [pc EXCEPT ![m] = "idle"]
    /\ UNCHANGED <<grants, request, verdict, remembered, deaths>>

Forget(m) ==
    /\ grants' = [grants EXCEPT ![m] = {}]
    /\ pc' = [pc EXCEPT ![m] = "idle"]
    /\ request' = [request EXCEPT ![m] = NoTarget]
    /\ verdict' = [verdict EXCEPT ![m] = NoVerdict]
    /\ UNCHANGED <<file, torn, remembered>>

(* NewPermissionManager for the next agent: it starts with no grants.      *)
Recreate(m) == pc[m] = "idle" /\ Forget(m) /\ UNCHANGED deaths

(* The process dies, in the middle of a write perhaps.                     *)
Crash(m) == /\ crashes < MaxDeaths
            /\ crashes' = crashes + 1
            /\ interrupted' = (interrupted \/ pc[m] = "saving")
            /\ Forget(m)

Next == \E m \in Manager :
           \/ \E t \in Target : AuthorizeFreely(m, t) \/ AuthorizeByGrant(m, t) \/ Ask(m, t)
           \/ \E approved, remember \in BOOLEAN : Answer(m, approved, remember)
           \/ Saved(m)
           \/ Recreate(m)
           \/ Crash(m)

Spec == Init /\ [][Next]_vars

-----------------------------------------------------------------------------
(* Properties.                                                             *)

(* Every variable has its type.                                            *)
TypeOK ==
    /\ file \subseteq Target
    /\ torn \in BOOLEAN
    /\ grants \in [Manager -> SUBSET Target]
    /\ pc \in [Manager -> {"idle", "asking", "saving"}]
    /\ request \in [Manager -> Target \cup {NoTarget}]
    /\ \A m \in Manager : pc[m] = "asking" => request[m] # NoTarget
    /\ verdict \in [Manager -> Verdict]
    /\ remembered \subseteq Target
    /\ crashes \in Nat
    /\ interrupted \in BOOLEAN

(* No grant comes from anywhere but the user's "remember": not from a      *)
(* stale copy, a torn file or another manager.  So an action that runs by  *)
(* a grant is one the user agreed to.                                      *)
ConsentBehindEveryGrant ==
    /\ file \cup UNION {grants[m] : m \in Manager} \subseteq remembered
    /\ \A m \in Manager : verdict[m].by = "grant" => Covered(remembered, verdict[m].target)

(* "O agente não voltará a perguntar para alvos que batam com esse         *)
(* padrão": where no save was interrupted, a manager that remembers does   *)
(* not ask about what a remembered answer covers.                          *)
NeverAskedAgain ==
    interrupted \/ \A m \in Manager : Mode[m] = "scoped" /\ pc[m] = "asking"
                                        => ~Covered(remembered, request[m])

Kept == ~torn /\ remembered \subseteq file

AllIdle == \A m \in Manager : pc[m] = "idle"

(* "O orquestrador salva esse grant em .crom/permissions.json": once       *)
(* nobody asks or saves, every remembered answer is in a readable file,    *)
(* whoever died meanwhile, as long as it was not within a save.            *)
RememberedIsKept == AllIdle /\ ~interrupted => Kept

(* Who is granted something was allowed it, and what the user said to      *)
(* remember is in the file and is not asked again.                         *)
GrantsSound == ConsentBehindEveryGrant /\ NeverAskedAgain /\ RememberedIsKept

(* The same sentence, for every death of a process.                        *)
RememberedSurvives == AllIdle => Kept
=============================================================================
