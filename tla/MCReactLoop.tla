----------------------------- MODULE MCReactLoop -----------------------------
(***************************************************************************)
(* ReactLoop for TLC, with two configurations of the program: "limited",   *)
(* the constants of the .cfg, and "default", where neither iterations nor  *)
(* retries have a limit and the variables are those with d.  One of them   *)
(* runs; meanwhile the other's run is over, or has not begun.              *)
(***************************************************************************)
EXTENDS ReactLoop

VARIABLES setup,
          dPc, dIter, dLimit, dNoTool, dReadOnly, dWarnings, dFailures,
          dRetries, dTimer, dAsked, dFailed, dTodo, dRepeat, dOpen, dSaved,
          dPlan, dBreaker, dCost, dStatus, dCancelled, dResult, dTurns,
          dWaits, dSince, dBrakeAt

D == INSTANCE ReactLoop WITH
    MaxIterations <- 0, Unlimited <- 6, RetryLimit <- 0, CostLimit <- FALSE,
    RequiresFiles <- FALSE, AntiBypass <- TRUE, MaxCalls <- 1, MaxCount <- 1,
    pc <- dPc, iter <- dIter, limit <- dLimit, noTool <- dNoTool,
    readOnly <- dReadOnly, warnings <- dWarnings, failures <- dFailures,
    retries <- dRetries, timer <- dTimer, asked <- dAsked, failed <- dFailed,
    todo <- dTodo, repeat <- dRepeat, open <- dOpen, saved <- dSaved,
    plan <- dPlan, breaker <- dBreaker, cost <- dCost, status <- dStatus,
    cancelled <- dCancelled, result <- dResult, turns <- dTurns,
    waits <- dWaits, since <- dSince, brakeAt <- dBrakeAt

ASSUME DefaultAssumption == D!LoopAssumption

defaultVars == <<dPc, dIter, dLimit, dNoTool, dReadOnly, dWarnings, dFailures,
                 dRetries, dTimer, dAsked, dFailed, dTodo, dRepeat, dOpen,
                 dSaved, dPlan, dBreaker, dCost, dStatus, dCancelled, dResult,
                 dTurns, dWaits, dSince, dBrakeAt>>

(* While one runs the other stays where it begins.                         *)
BothInit ==
    /\ setup \in {"limited", "default"}
    /\ setup = "default" => plan = FALSE /\ cost = 0
    /\ setup = "limited" => dPlan = FALSE
    /\ Init /\ D!Init

Limited(A) == setup = "limited" /\ A /\ UNCHANGED <<setup, defaultVars>>
Unbounded(A) == setup = "default" /\ A /\ UNCHANGED <<setup, vars>>

BothNext == Limited(Next) \/ Unbounded(D!Next)

BothSpec == /\ BothInit /\ [][BothNext]_<<setup, vars, defaultVars>>
            /\ WF_<<setup, vars, defaultVars>>(Limited(Loop))
            /\ WF_<<setup, vars, defaultVars>>(Unbounded(D!Loop))

(* A run ends: within its limits, whatever the LLM and the tools answer,   *)
(* and without any limit once it is cancelled.                             *)
RunEnds == /\ setup = "limited" => Termination
           /\ D!CancelledRunEnds
=============================================================================
