------------------------------ MODULE ReactLoop ------------------------------
(***************************************************************************)
(* One run of executeCoreLoop (internal/loop/agentic/core): an iteration   *)
(* checks the limits and the context, asks the LLM, and either runs the    *)
(* tool calls of the reply or decides whether a reply without calls ends   *)
(* the run.  What a message says is left out; what is kept is which of the *)
(* loop's branches it takes, the counters they share, the calls that wait  *)
(* for their answers in the history, and what is saved when the run ends.  *)
(*                                                                         *)
(* pc: top (of an iteration), llm, tools, delay and toolDelay (before a    *)
(* retry), quota (the disk quota, after the tools), over                   *)
(***************************************************************************)
EXTENDS Integers, FiniteSets

CONSTANTS MaxIterations,      \* configured; 0 means Unlimited
          Unlimited,          \* 999999 in the code
          MaxConsecutiveFail, \* configured
          FailureRetry,       \* ConsecutiveFailureRetry
          RetryLimit,         \* ConsecutiveFailureRetryLimit; 0 is no limit
          CostLimit,          \* EnableCostLimit
          MediumLimit,        \* 30 in the code: iterations above 0.15 dollars
          HighGrace,          \* 3 in the code: iterations above 0.30 dollars
          RequiresFiles,      \* taskRequiresFiles(intent)
          AntiBypass,         \* the intent forbids answering without a tool
          MaxCalls,           \* bound: tool calls in a reply
          MaxCount            \* bound: where the unbounded counters stop

IterationLimit == IF MaxIterations > 0 THEN MaxIterations ELSE Unlimited

ASSUME LoopAssumption ==
    /\ MaxIterations \in Nat /\ Unlimited \in Nat /\ IterationLimit <= Unlimited
    /\ MaxConsecutiveFail \in Nat /\ RetryLimit \in Nat
    /\ FailureRetry \in BOOLEAN /\ CostLimit \in BOOLEAN
    /\ RequiresFiles \in BOOLEAN /\ AntiBypass \in BOOLEAN
    /\ MediumLimit \in Nat /\ HighGrace \in Nat /\ MaxCalls \in Nat
    /\ MaxCount \in Nat /\ RetryLimit <= MaxCount

(* Turns without tool calls before the inactivity warning; zero is         *)
(* "Unlimited" here.                                                       *)
Threshold == IF MaxConsecutiveFail > 0 THEN MaxConsecutiveFail ELSE Unlimited

ToolKind == {"plain", "schedule_timer", "ask_user", "manage_plan"}

RepeatWarning == 3
RepeatStop == 5
ReadOnlyTurns == 5
PlanWarnings == 5

VARIABLES pc,
          iter,       \* i; -1 while iteration 0 is about to be retried
          limit,      \* maxIterations
          noTool,     \* consecutiveNoToolCallTurns
          readOnly,   \* consecutiveReadOnlyTurns
          warnings,   \* pendingWarningCount
          failures,   \* consecutiveFailures
          retries,    \* consecutiveRetryCount
          timer,      \* timerScheduled
          asked,      \* askUserCalled
          failed,     \* iterationHasFailure
          todo,       \* calls of the last reply not answered yet
          repeat,     \* toolRepeatCount
          open,       \* messages hold a call that is never answered
          saved,      \* the saved history holds a call without its answer
          plan,       \* the plan has a task pending or in progress
          breaker,    \* CircuitBreakerTriggered
          cost,       \* 0, 1 above 0.15, 2 above 0.30 dollars
          status,     \* the persisted StatusOperacional
          cancelled,  \* the context is done
          result,     \* how the run ended
          turns,      \* history: LLM replies
          waits,      \* history: retries in the whole run
          since,      \* history: failed iterations since one that succeeded
          brakeAt     \* history: first iteration begun above 0.30 dollars

counters == <<noTool, readOnly, warnings>>
failing == <<failures, retries, since>>
calls == <<timer, asked, failed, todo, repeat>>
spending == <<limit, cost, brakeAt>>
history == <<open, saved>>
kept == <<plan, breaker, status>>
vars == <<pc, iter, counters, failing, calls, spending, history, kept,
          cancelled, result, turns, waits>>

Result == {"none", "spent", "max_iterations", "cancelled", "loop", "llm_error",
           "failures", "suspended", "completed", "tool_repeat", "waiting", "quota"}

(* SetActiveTask saves the status "thinking" before the first iteration.   *)
Init ==
    /\ pc = "top" /\ iter = 0 /\ limit = IterationLimit
    /\ noTool = 0 /\ readOnly = 0 /\ warnings = 0
    /\ failures = 0 /\ retries = 0 /\ since = 0
    /\ timer = FALSE /\ asked = FALSE /\ failed = FALSE /\ todo = 0 /\ repeat = 0
    /\ open = FALSE /\ saved = FALSE
    /\ plan \in BOOLEAN /\ breaker = FALSE /\ status = "thinking"
    /\ cost \in (IF CostLimit THEN 0..2 ELSE {0}) /\ brakeAt = Unlimited
    /\ cancelled = FALSE /\ result = "none" /\ turns = 0 /\ waits = 0

Counted(n) == IF n < MaxCount THEN n + 1 ELSE n
UpTo(n, bound) == IF n < bound THEN n + 1 ELSE n

Stop(reason) == pc' = "over" /\ result' = reason /\ UNCHANGED iter
GoTo(label) == pc' = label /\ UNCHANGED <<iter, result>>
NextIteration == pc' = "top" /\ iter' = iter + 1 /\ UNCHANGED result

-----------------------------------------------------------------------------
(* The top of an iteration.                                                *)

(* Deviation: every iteration grants the grace anew.                       *)
RollingLimit ==
    IF cost = 2 THEN iter + HighGrace
    ELSE IF cost = 1 /\ limit > MediumLimit THEN MediumLimit ELSE limit

LimitNow ==
    IF cost = 2 /\ limit > iter + HighGrace THEN iter + HighGrace
    ELSE IF cost >= 1 /\ limit > MediumLimit THEN MediumLimit ELSE limit

AtTop == /\ pc = "top"
         /\ UNCHANGED <<counters, failing, calls, history, kept, cancelled, turns, waits, cost>>

(* The token cap, or one dollar.  The loop ends as soon as it sees the     *)
(* total above its cap, so the totals need no variable.                    *)
StopForSpending == AtTop /\ Stop("spent") /\ UNCHANGED <<limit, brakeAt>>

StopAtLimit == /\ AtTop
               /\ iter >= LimitNow
               /\ limit' = LimitNow
               /\ Stop("max_iterations")
               /\ UNCHANGED brakeAt

(* Deviation: the context is not looked at.                                *)
BeginIterationDeaf ==
    /\ AtTop
    /\ iter < LimitNow
    /\ limit' = LimitNow
    /\ brakeAt' = IF cost = 2 /\ brakeAt = Unlimited THEN iter ELSE brakeAt
    /\ (turns > 0 /\ Stop("loop")) \/ GoTo("llm")

(* The context, then the three loop detectors, which look at the replies   *)
(* of this run only; then the LLM is called.                               *)
BeginIteration ==
    /\ AtTop
    /\ iter < LimitNow
    /\ limit' = LimitNow
    /\ brakeAt' = IF cost = 2 /\ brakeAt = Unlimited THEN iter ELSE brakeAt
    /\ \/ cancelled /\ Stop("cancelled")
       \/ ~cancelled /\ turns > 0 /\ Stop("loop")
       \/ ~cancelled /\ GoTo("llm")

-----------------------------------------------------------------------------
(* Failed iterations: the common end of an empty reply and of a message    *)
(* with a failed call.                                                     *)

TooManyFailures == failures + 1 >= MaxConsecutiveFail

Exhausted == ~FailureRetry \/ (RetryLimit > 0 /\ retries >= RetryLimit)

CountFailure == /\ failures' = failures + 1
                /\ since' = UpTo(since, MaxConsecutiveFail)

Aborts == TooManyFailures /\ Exhausted /\ Stop("failures") /\ UNCHANGED <<retries, waits>>

(* Deviation: the retry is not counted.                                    *)
FailedUncounted(delay) ==
    /\ CountFailure
    /\ \/ Aborts
       \/ /\ TooManyFailures /\ ~Exhausted
          /\ waits' = Counted(waits)
          /\ GoTo(delay)
          /\ UNCHANGED retries

(* The last failure allowed: the run aborts, or waits before a retry.      *)
FailedTooOften(delay) ==
    /\ CountFailure
    /\ \/ Aborts
       \/ /\ TooManyFailures /\ ~Exhausted
          /\ retries' = Counted(retries) /\ waits' = Counted(waits)
          /\ GoTo(delay)

Forgivable == ~TooManyFailures /\ CountFailure /\ UNCHANGED <<retries, waits>>

(* select on the context and the delay.  i is decremented, so the          *)
(* iteration is done again; consecutiveFailures is one short of its limit. *)
Wait == /\ pc \in {"delay", "toolDelay"}
        /\ \/ cancelled /\ Stop("cancelled") /\ UNCHANGED failures
           \/ /\ failures' = MaxConsecutiveFail - 1
              /\ IF pc = "delay" THEN GoTo("top")
                 ELSE pc' = "quota" /\ iter' = iter - 1 /\ UNCHANGED result
        /\ UNCHANGED <<counters, retries, since, calls, spending, history, kept,
                       cancelled, turns, waits>>

-----------------------------------------------------------------------------
(* Replies.                                                                *)

Reply == /\ pc = "llm"
         /\ turns' = Counted(turns)
         /\ cost' \in (IF CostLimit THEN cost..2 ELSE {cost})
         /\ UNCHANGED <<limit, brakeAt, cancelled, timer, repeat>>

LlmFails == /\ pc = "llm" /\ Stop("llm_error")
            /\ UNCHANGED <<counters, failing, calls, spending, history, kept,
                           cancelled, turns, waits>>

(* A refusal is answered with an override; the calls it may carry are      *)
(* stored with it and nobody runs them.                                    *)
Refuse(n) == /\ Reply
             /\ open' = (open \/ n > 0)
             /\ saved' = open'
             /\ NextIteration
             /\ UNCHANGED <<counters, failing, asked, failed, todo, kept, waits>>

Inactive == UpTo(noTool, Threshold) >= Threshold /\ RequiresFiles

(* A reply with neither calls nor a refusal; history is saved with it.     *)
WithoutCalls == /\ Reply
                /\ readOnly' = UpTo(readOnly, ReadOnlyTurns)
                /\ saved' = open
                /\ UNCHANGED <<open, asked, failed, todo>>

(* The inactivity circuit breaker warns and goes on.                       *)
Idle == /\ WithoutCalls
        /\ Inactive
        /\ noTool' = 0
        /\ breaker' = TRUE
        /\ NextIteration
        /\ UNCHANGED <<warnings, failing, plan, status, waits>>

Spoken == /\ WithoutCalls
          /\ ~Inactive
          /\ noTool' = UpTo(noTool, Threshold)
          /\ UNCHANGED breaker

Empty == /\ Spoken
         /\ (Forgivable /\ NextIteration) \/ FailedTooOften("delay")
         /\ UNCHANGED <<warnings, plan, status>>

(* What a text may be told instead of ending the run: that a tool is       *)
(* required, or that it only mentions tools.                               *)
Corrected == /\ Spoken
             /\ plan' \in BOOLEAN
             /\ NextIteration
             /\ UNCHANGED <<warnings, failing, status, waits>>

(* The plan the text leaves has open tasks: the agent is told to go on.    *)
Reminded == /\ Spoken
            /\ ~(AntiBypass /\ iter = 0) /\ ~timer
            /\ plan' = TRUE
            /\ warnings + 1 < PlanWarnings
            /\ warnings' = warnings + 1
            /\ NextIteration
            /\ UNCHANGED <<failing, status, waits>>

(* timerScheduled is never reset: any later text suspends the run.         *)
Suspended == /\ Spoken
             /\ ~(AntiBypass /\ iter = 0) /\ timer
             /\ plan' \in BOOLEAN
             /\ status' = "idle"
             /\ Stop("suspended")
             /\ UNCHANGED <<warnings, failing, waits>>

(* The plan has no open task, or loses them: the text is conversational or *)
(* a conclusion, or has been warned often enough.  verifyWorkspaceState    *)
(* may still send the agent back, with a new task when the tests fail.     *)
DropsPlan == warnings' = warnings \/ (warnings + 1 >= PlanWarnings /\ warnings' = 0)

SentBack == /\ Spoken
            /\ ~(AntiBypass /\ iter = 0) /\ ~timer
            /\ DropsPlan
            /\ plan' \in BOOLEAN
            /\ NextIteration
            /\ UNCHANGED <<failing, status, waits>>

Finish == /\ Spoken
          /\ ~(AntiBypass /\ iter = 0) /\ ~timer
          /\ DropsPlan
          /\ plan' = FALSE
          /\ status' = "idle"
          /\ Stop("completed")
          /\ UNCHANGED <<failing, waits>>

(* The reply carries n calls; it is saved before they run.                 *)
CallTools(n, writes) ==
    /\ Reply
    /\ noTool' = 0
    /\ warnings' = 0
    /\ readOnly' = IF writes THEN 0 ELSE UpTo(readOnly, ReadOnlyTurns)
    /\ plan' \in BOOLEAN
    /\ todo' = n
    /\ asked' = FALSE
    /\ failed' = FALSE
    /\ saved' = TRUE
    /\ pc' = "tools"
    /\ UNCHANGED <<iter, result, failing, open, breaker, status, waits>>

-----------------------------------------------------------------------------
(* The calls of a reply, one after the other; each adds its answer.        *)

RunningCall == /\ pc = "tools"
               /\ todo > 0
               /\ todo' = todo - 1
               /\ UNCHANGED <<iter, counters, failing, spending, breaker, status,
                              cancelled, turns, waits>>

(* Unknown tool, read-only session, denied, failed, or rejected by the     *)
(* validation of the file it wrote; failed tests add a task to the plan.   *)
ToolFails ==
    /\ RunningCall
    /\ failed' = TRUE
    /\ plan' \in {plan, TRUE}
    /\ UNCHANGED <<pc, result, timer, asked, repeat, history>>

(* The flags the loop keeps of a successful call.                          *)
Noted(kind) == /\ timer' = (timer \/ kind = "schedule_timer")
               /\ asked' = (asked \/ kind = "ask_user")
               /\ plan' \in (IF kind = "manage_plan" THEN BOOLEAN ELSE {plan})

Repeated(same) == /\ same => repeat > 0
                  /\ repeat' = IF same THEN repeat + 1 ELSE 1
                  /\ saved' = IF repeat' = RepeatWarning THEN open \/ todo' > 0 ELSE saved

(* A result equal to the previous success's counts; at the third the       *)
(* history is saved with a warning, at the fifth the run is over, its last *)
(* answers unsaved and its remaining calls unanswered.                     *)
ToolSucceeds(same, kind) ==
    /\ RunningCall
    /\ Noted(kind)
    /\ Repeated(same)
    /\ IF repeat' >= RepeatStop THEN pc' = "over" /\ result' = "tool_repeat"
                                ELSE UNCHANGED <<pc, result>>
    /\ UNCHANGED <<failed, open>>

(* Deviation: the answers are not saved.                                   *)
AnsweredUnsaved ==
    /\ pc = "tools"
    /\ todo = 0
    /\ breaker' = (breaker \/ (readOnly >= ReadOnlyTurns /\ RequiresFiles))
    /\ readOnly' = IF readOnly >= ReadOnlyTurns /\ RequiresFiles THEN 0 ELSE readOnly
    /\ UNCHANGED <<noTool, warnings, calls, spending, history, plan, cancelled, turns>>

(* After the calls: save, the read-only warning, ask_user.                 *)
Answered == /\ pc = "tools"
            /\ todo = 0
            /\ saved' = open
            /\ breaker' = (breaker \/ (readOnly >= ReadOnlyTurns /\ RequiresFiles))
            /\ readOnly' = IF readOnly >= ReadOnlyTurns /\ RequiresFiles THEN 0 ELSE readOnly
            /\ UNCHANGED <<noTool, warnings, calls, spending, open, plan, cancelled, turns>>

AskUser == /\ Answered
           /\ asked
           /\ status' = "waiting_user_input"
           /\ Stop("waiting")
           /\ UNCHANGED <<failing, waits>>

EndFailed == /\ Answered
             /\ ~asked /\ failed
             /\ (Forgivable /\ GoTo("quota")) \/ FailedTooOften("toolDelay")
             /\ UNCHANGED status

(* Deviation: a success does not forgive the failures before it.           *)
EndSucceededGrudging ==
    /\ Answered
    /\ ~asked /\ ~failed
    /\ since' = 0
    /\ GoTo("quota")
    /\ UNCHANGED <<failures, retries, status, waits>>

EndSucceeded == /\ Answered
                /\ ~asked /\ ~failed
                /\ failures' = 0 /\ retries' = 0 /\ since' = 0
                /\ GoTo("quota")
                /\ UNCHANGED <<status, waits>>

CheckQuota == /\ pc = "quota"
              /\ Stop("quota") \/ NextIteration
              /\ UNCHANGED <<counters, failing, calls, spending, history, kept,
                             cancelled, turns, waits>>

-----------------------------------------------------------------------------
(* Somebody cancels the context, or its twenty minutes are over.           *)
Cancel == /\ pc # "over" /\ ~cancelled
          /\ cancelled' = TRUE
          /\ UNCHANGED <<pc, iter, counters, failing, calls, spending, history, kept,
                         result, turns, waits>>

Loop == \/ StopForSpending \/ StopAtLimit \/ BeginIteration \/ LlmFails
        \/ \E n \in 0..MaxCalls : Refuse(n)
        \/ Idle \/ Empty \/ Corrected \/ Reminded \/ Suspended \/ SentBack \/ Finish
        \/ \E n \in 1..MaxCalls, writes \in BOOLEAN : CallTools(n, writes)
        \/ ToolFails
        \/ \E same \in BOOLEAN, kind \in ToolKind : ToolSucceeds(same, kind)
        \/ AskUser \/ EndFailed \/ EndSucceeded \/ CheckQuota
        \/ Wait

Next == Loop \/ Cancel

Spec == Init /\ [][Next]_vars

(* The goroutine keeps running: LLM calls and tools return, by themselves  *)
(* or by their timeouts, and the delay of a retry elapses.                 *)
FairSpec == Spec /\ WF_vars(Loop)

-----------------------------------------------------------------------------
(* Properties.                                                             *)

Numbers ==
    /\ pc \in {"top", "llm", "tools", "delay", "toolDelay", "quota", "over"}
    /\ iter \in -1..IterationLimit /\ (iter = -1 => pc = "quota" \/ result = "quota")
    /\ limit \in 0..IterationLimit
    /\ noTool \in 0..Threshold /\ readOnly \in 0..ReadOnlyTurns /\ warnings \in 0..PlanWarnings-1
    /\ failures \in -1..(MaxConsecutiveFail + 1) /\ retries \in 0..MaxCount
    /\ since \in 0..MaxConsecutiveFail
    /\ todo \in 0..MaxCalls /\ repeat \in 0..RepeatStop
    /\ cost \in 0..2 /\ brakeAt \in 0..Unlimited
    /\ turns \in 0..MaxCount /\ waits \in 0..MaxCount

Flags ==
    /\ timer \in BOOLEAN /\ asked \in BOOLEAN /\ failed \in BOOLEAN
    /\ open \in BOOLEAN /\ saved \in BOOLEAN /\ plan \in BOOLEAN
    /\ breaker \in BOOLEAN /\ cancelled \in BOOLEAN
    /\ status \in {"thinking", "idle", "waiting_user_input"}
    /\ result \in Result /\ (pc = "over" <=> result # "none")

(* Every variable has its type and stays within its bound.                 *)
TypeOK == Numbers /\ Flags

(* Retrying repeats an iteration without counting it.  Still, where        *)
(* retries have a limit, a run asks the LLM at most so often.              *)
RetriesAreLimited == ~FailureRetry \/ RetryLimit > 0
RetryBudget == IF FailureRetry THEN RetryLimit ELSE 0
TurnsBounded ==
    RetriesAreLimited => turns <= (RetryBudget + 1) * (IterationLimit + 1)

(* Once an iteration begins above 0.30 dollars, at most HighGrace          *)
(* iterations end before the run does, whatever the configured limit.      *)
BrakeHolds == iter <= brakeAt + HighGrace

(* A run is aborted for failures only after MaxConsecutiveFail failed      *)
(* iterations without a successful one between them and, with a limit on   *)
(* retries, only when they are used up.                                    *)
AbortIsDeserved ==
    result = "failures" => /\ since >= MaxConsecutiveFail
                           /\ FailureRetry => RetryLimit > 0 /\ retries >= RetryLimit

(* In the history of a run, every call has its answer before the LLM is    *)
(* asked again, and in the saved one when the run is over; only a refusal  *)
(* that carries calls and the stop of a repeated call break this.          *)
CallsAnswered ==
    /\ pc # "tools" /\ result # "tool_repeat" => saved = open
    /\ pc # "tools" /\ result # "tool_repeat" => todo = 0

(* Nothing but a refusal leaves a call without an answer.                  *)
OnlyRefusalsOpen == [][open' /\ ~open => pc = "llm" /\ pc' = "top"]_vars

(* A run ends: within its limits, whatever the LLM and the tools answer.   *)
Termination == <>(pc = "over")

(* A cancelled run ends, even one without any limit.                       *)
CancelledRunEnds == cancelled ~> pc = "over"
=============================================================================
