----------------------------- MODULE GrantParams ------------------------------
(* The parameters of PermissionManager.                                    *)
EXTENDS Naturals, FiniteSets

CONSTANTS Manager,    \* PermissionManagers on the workspace
          Mode,       \* the mode each was created with
          Target,     \* (action, target) pairs
          Matches,    \* matchTarget: pairs <<granted, requested>>
          NoTarget,   \* no request
          MaxDeaths   \* bound: process deaths in a behaviour

ASSUME ManagerAssumption ==
    /\ Mode \in [Manager -> {"total_access", "ask_every_time", "scoped"}]
    /\ Matches \subseteq Target \X Target
    /\ \A t \in Target : <<t, t>> \in Matches
    /\ NoTarget \notin Target
    /\ MaxDeaths \in Nat
===============================================================================
