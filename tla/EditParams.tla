------------------------------ MODULE EditParams ------------------------------
(* The parameters of EditRollback.                                         *)
EXTENDS Naturals

CONSTANTS Content,    \* what a file may hold
          Valid,      \* the contents ValidateCreatedFile accepts
          Absent,     \* no such file
          Torn,       \* the rest of an interrupted write
          MaxCrashes  \* bound: deaths of the process

ASSUME EditAssumption ==
    /\ Valid \subseteq Content /\ Absent \notin Content /\ Torn \notin Content /\ Torn # Absent
    /\ MaxCrashes \in Nat
===============================================================================
