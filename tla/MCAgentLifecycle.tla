-------------------------- MODULE MCAgentLifecycle --------------------------
(***************************************************************************)
(* AgentLifecycle for TLC.  A bound: of three runs the third is only       *)
(* started where no message was injected, and none is injected after it.   *)
(* Nobody is obliged to start a run or to send, so fairness is not         *)
(* touched.                                                                *)
(***************************************************************************)
EXTENDS AgentLifecycle

MaxUsedWithMsgs == 2

Used == {r \in Run : pc[r] # "unused"}

BoundedNext == Next /\ (sent' > 0 => Cardinality(Used') <= MaxUsedWithMsgs)

BoundedSpec == /\ Init /\ [][BoundedNext]_vars
               /\ \A r \in Run : WF_vars(Loop(r))
               /\ WF_vars(HeartbeatCleanup)
=============================================================================
