--------------------------- MODULE WorkspaceLease ---------------------------
(***************************************************************************)
(* What the orchestrator promises about a workspace, without saying how:   *)
(* a run that starts in a workspace holds it exclusively until the run is  *)
(* over.  AgentLifecycle implements it as long as nobody stops an agent,   *)
(* and it is what ApprovalRouting takes the orchestrator to do; see        *)
(* LeaseRefinement and Lease there.                                        *)
(***************************************************************************)
CONSTANTS Workspace, Run, None

VARIABLE holder   \* the run that may touch each workspace, or None

Init == holder = [w \in Workspace |-> None]

Acquire(w, r) ==
    /\ holder[w] = None
    /\ holder' = [holder EXCEPT ![w] = r]

Release(w) ==
    /\ holder[w] # None
    /\ holder' = [holder EXCEPT ![w] = None]

Next == \E w \in Workspace : \/ \E r \in Run : Acquire(w, r)
                             \/ Release(w)

Spec == Init /\ [][Next]_holder
=============================================================================
