-------------------------- MODULE ReactLoop_proofs --------------------------
(***************************************************************************)
(* For any configuration of the loop: types, the number of LLM calls, the  *)
(* reasons of an abort, the pairing of calls and answers, the cost brake,  *)
(* and that a run completes with no task open.                             *)
(*                                                                         *)
(* Each result has its own strengthening.  All of them rest on Position:   *)
(* where in an iteration the loop is, relative to its limits.              *)
(***************************************************************************)
EXTENDS ReactLoop, TLAPS

Position ==
    /\ pc = "top" => iter \in Nat /\ iter <= limit
    /\ pc \in {"llm", "tools", "delay", "toolDelay"} => iter \in Nat /\ iter < limit
    /\ pc = "quota" => iter < limit
    /\ pc # "over" => repeat < RepeatStop
    /\ pc \in {"top", "llm", "tools", "quota"} => failures <= MaxConsecutiveFail

LEMMA Limits == /\ IterationLimit \in Nat /\ Unlimited \in Nat /\ Threshold \in Nat
                /\ IterationLimit <= Unlimited
  BY LoopAssumption DEF IterationLimit, Threshold

-----------------------------------------------------------------------------
(* Types.                                                                  *)

LEMMA InitNumbers == Init => Numbers /\ Position
<1> SUFFICES ASSUME Init
             PROVE  Numbers /\ Position
  OBVIOUS
<1>1. QED
  BY LoopAssumption, Limits
     DEF Init, Numbers, Position, RepeatStop, ReadOnlyTurns, PlanWarnings

LEMMA NextNumbers == TypeOK /\ Position /\ [Next]_vars => Numbers' /\ Position'
<1> SUFFICES ASSUME TypeOK, Position, [Next]_vars
             PROVE  Numbers' /\ Position'
  OBVIOUS
<1> USE LoopAssumption, Limits
    DEF TypeOK, Numbers, Flags, Position, RepeatStop, RepeatWarning, ReadOnlyTurns,
        PlanWarnings, Counted, UpTo, Stop, GoTo, NextIteration,
        counters, failing, calls, spending, history, kept
<1>1. CASE StopForSpending
  BY <1>1 DEF StopForSpending, AtTop
<1>2. CASE StopAtLimit
  BY <1>2 DEF StopAtLimit, AtTop, LimitNow
<1>3. CASE BeginIteration
  BY <1>3 DEF BeginIteration, AtTop, LimitNow
<1>4. CASE LlmFails
  BY <1>4 DEF LlmFails
<1>5. ASSUME NEW n \in 0..MaxCalls,
             Refuse(n)
      PROVE  Numbers' /\ Position'
  BY <1>5 DEF Refuse, Reply
<1>6. CASE Idle
  BY <1>6 DEF Idle, WithoutCalls, Reply
<1>7. CASE Empty
  BY <1>7
     DEF Empty, Spoken, WithoutCalls, Reply, Forgivable,
         FailedTooOften, CountFailure, Aborts, TooManyFailures
<1>8. CASE Corrected
  BY <1>8 DEF Corrected, Spoken, WithoutCalls, Reply
<1>9. CASE Reminded
  BY <1>9 DEF Reminded, Spoken, WithoutCalls, Reply
<1>10. CASE Suspended
  BY <1>10 DEF Suspended, Spoken, WithoutCalls, Reply
<1>11. CASE SentBack
  BY <1>11 DEF SentBack, Spoken, WithoutCalls, Reply, DropsPlan
<1>12. CASE Finish
  BY <1>12 DEF Finish, Spoken, WithoutCalls, Reply, DropsPlan
<1>13. ASSUME NEW n \in 1..MaxCalls, NEW writes \in BOOLEAN,
             CallTools(n, writes)
      PROVE  Numbers' /\ Position'
  BY <1>13 DEF CallTools, Reply
<1>14. CASE ToolFails
  BY <1>14 DEF ToolFails, RunningCall
<1>15. ASSUME NEW same \in BOOLEAN, NEW kind \in ToolKind,
             ToolSucceeds(same, kind)
      PROVE  Numbers' /\ Position'
  BY <1>15 DEF ToolSucceeds, RunningCall, Noted, Repeated
<1>16. CASE AskUser
  BY <1>16 DEF AskUser, Answered
<1>17. CASE EndFailed
  BY <1>17
     DEF EndFailed, Answered, Forgivable, FailedTooOften,
         CountFailure, Aborts, TooManyFailures
<1>18. CASE EndSucceeded
  BY <1>18 DEF EndSucceeded, Answered
<1>19. CASE CheckQuota
  BY <1>19 DEF CheckQuota
<1>20. CASE Wait
  BY <1>20 DEF Wait
<1>21. CASE Cancel
  BY <1>21 DEF Cancel
<1>22. CASE UNCHANGED vars
  BY <1>22 DEF vars
<1>23. QED
  BY <1>1, <1>2, <1>3, <1>4, <1>5, <1>6, <1>7, <1>8, <1>9, <1>10, <1>11,
     <1>12, <1>13, <1>14, <1>15, <1>16, <1>17, <1>18, <1>19, <1>20, <1>21, <1>22
     DEF Next, Loop

(* The reason of the end is known exactly when the run is over.            *)
LEMMA InitFlags == Init => Flags
  BY DEF Init, Flags, Result

LEMMA NextFlags == TypeOK /\ Position /\ [Next]_vars => Flags'
<1> SUFFICES ASSUME TypeOK, Position, [Next]_vars
             PROVE  Flags'
  OBVIOUS
<1> USE DEF TypeOK, Numbers, Flags, Position, Result, Stop, GoTo, NextIteration,
        counters, failing, calls, spending, history, kept
<1>1. CASE StopForSpending
  BY <1>1 DEF StopForSpending, AtTop
<1>2. CASE StopAtLimit
  BY <1>2 DEF StopAtLimit, AtTop, LimitNow
<1>3. CASE BeginIteration
  BY <1>3 DEF BeginIteration, AtTop, LimitNow
<1>4. CASE LlmFails
  BY <1>4 DEF LlmFails
<1>5. ASSUME NEW n \in 0..MaxCalls,
             Refuse(n)
      PROVE  Flags'
  BY <1>5 DEF Refuse, Reply
<1>6. CASE Idle
  BY <1>6 DEF Idle, WithoutCalls, Reply
<1>7. CASE Empty
  BY <1>7
     DEF Empty, Spoken, WithoutCalls, Reply, Forgivable,
         FailedTooOften, CountFailure, Aborts, TooManyFailures
<1>8. CASE Corrected
  BY <1>8 DEF Corrected, Spoken, WithoutCalls, Reply
<1>9. CASE Reminded
  BY <1>9 DEF Reminded, Spoken, WithoutCalls, Reply
<1>10. CASE Suspended
  BY <1>10 DEF Suspended, Spoken, WithoutCalls, Reply
<1>11. CASE SentBack
  BY <1>11 DEF SentBack, Spoken, WithoutCalls, Reply, DropsPlan
<1>12. CASE Finish
  BY <1>12 DEF Finish, Spoken, WithoutCalls, Reply, DropsPlan
<1>13. ASSUME NEW n \in 1..MaxCalls, NEW writes \in BOOLEAN,
             CallTools(n, writes)
      PROVE  Flags'
  BY <1>13 DEF CallTools, Reply
<1>14. CASE ToolFails
  BY <1>14 DEF ToolFails, RunningCall
<1>15. ASSUME NEW same \in BOOLEAN, NEW kind \in ToolKind,
             ToolSucceeds(same, kind)
      PROVE  Flags'
  BY <1>15 DEF ToolSucceeds, RunningCall, Noted, Repeated
<1>16. CASE AskUser
  BY <1>16 DEF AskUser, Answered
<1>17. CASE EndFailed
  BY <1>17
     DEF EndFailed, Answered, Forgivable, FailedTooOften,
         CountFailure, Aborts, TooManyFailures
<1>18. CASE EndSucceeded
  BY <1>18 DEF EndSucceeded, Answered
<1>19. CASE CheckQuota
  BY <1>19 DEF CheckQuota
<1>20. CASE Wait
  BY <1>20 DEF Wait
<1>21. CASE Cancel
  BY <1>21 DEF Cancel
<1>22. CASE UNCHANGED vars
  BY <1>22 DEF vars
<1>23. QED
  BY <1>1, <1>2, <1>3, <1>4, <1>5, <1>6, <1>7, <1>8, <1>9, <1>10, <1>11,
     <1>12, <1>13, <1>14, <1>15, <1>16, <1>17, <1>18, <1>19, <1>20, <1>21, <1>22
     DEF Next, Loop

Located == TypeOK /\ Position

LEMMA AlwaysLocated == Spec => []Located
<1>1. Init => Located
  BY InitNumbers, InitFlags DEF Located, TypeOK
<1>2. Located /\ [Next]_vars => Located'
  BY NextNumbers, NextFlags DEF Located, TypeOK
<1>3. QED
  BY <1>1, <1>2, PTL DEF Spec

(* Every variable of a run has its type, whatever the configuration: no    *)
(* counter of executeCoreLoop leaves its range, the retried iteration      *)
(* counter included.                                                       *)
THEOREM TypeCorrect == Spec => []TypeOK
  BY AlwaysLocated, PTL DEF Located

-----------------------------------------------------------------------------
(* The number of LLM calls.  Each call is paid for by an iteration that    *)
(* counts or by a retry, and each retry by the retries of its failure      *)
(* streak, which only a successful iteration renews.                       *)

(* What a run that is about to begin iteration i has spent.                *)
Paid(i) == turns <= waits + i /\ waits <= RetryBudget * i + retries

Budget == /\ retries <= RetryBudget
          /\ pc \in {"top", "llm", "delay", "toolDelay"} => Paid(iter)
          /\ pc = "tools" => turns <= waits + iter + 1 /\ waits <= RetryBudget * iter + retries
          /\ pc = "quota" => Paid(iter + 1)

LEMMA BudgetNat == RetryBudget \in Nat
  BY LoopAssumption DEF RetryBudget

LEMMA Products == \A i \in Int : /\ RetryBudget * i \in Int
                                 /\ RetryBudget * (i + 1) = RetryBudget * i + RetryBudget
  BY BudgetNat

LEMMA Growing == \A i, j \in Int : i <= j => RetryBudget * i <= RetryBudget * j
<1> SUFFICES ASSUME NEW i \in Int, NEW j \in Int, i <= j
             PROVE  RetryBudget * i <= RetryBudget * j
  OBVIOUS
<1>1. RetryBudget * (j - i) \in Nat
  BY BudgetNat
<1>2. RetryBudget * j = RetryBudget * i + RetryBudget * (j - i)
  BY BudgetNat
<1>3. QED
  BY <1>1, <1>2, Products

(* t calls and w retries, of which r in the current streak, before         *)
(* iteration i.                                                            *)
LEMMA Affordable ==
    ASSUME NEW t \in Nat, NEW w \in Nat, NEW r \in Nat, NEW i \in Nat,
           i <= IterationLimit, r <= RetryBudget,
           t <= w + i, w <= RetryBudget * i + r
    PROVE  t <= (RetryBudget + 1) * (IterationLimit + 1)
<1>1. RetryBudget * i <= RetryBudget * IterationLimit
  BY Growing, Limits
<1>2. (RetryBudget + 1) * (IterationLimit + 1)
        = RetryBudget * IterationLimit + RetryBudget + IterationLimit + 1
  BY BudgetNat, Limits
<1>3. QED
  BY <1>1, <1>2, Products, BudgetNat, Limits

LEMMA InitBudget == Init => Budget /\ TurnsBounded
<1> SUFFICES ASSUME Init
             PROVE  Budget /\ TurnsBounded
  OBVIOUS
<1>1. Paid(iter) /\ retries <= RetryBudget
  BY BudgetNat, Products DEF Init, Paid
<1>2. TurnsBounded
  <2>1. 0 <= (RetryBudget + 1) * (IterationLimit + 1)
    BY BudgetNat, Limits
  <2>2. QED
    BY <2>1 DEF Init, TurnsBounded
<1>3. QED
  BY <1>1, <1>2 DEF Init, Budget

(* Only a reply adds a call, and the iteration it belongs to pays for it.  *)
LEMMA NextTurnsBounded ==
    Located /\ (RetriesAreLimited => Budget) /\ TurnsBounded /\ [Next]_vars => TurnsBounded'
<1> SUFFICES ASSUME Located, RetriesAreLimited, Budget, TurnsBounded, [Next]_vars
             PROVE  TurnsBounded'
  BY DEF TurnsBounded
<1>1. CASE turns' = turns
  BY <1>1 DEF TurnsBounded
<1>2. CASE Reply
  <2>1. pc = "llm" /\ turns' = Counted(turns)
    BY <1>2 DEF Reply
  <2>2. turns \in Nat /\ waits \in Nat /\ retries \in Nat /\ iter \in Nat
    BY <2>1, LoopAssumption DEF Located, TypeOK, Numbers, Position
  <2>3. iter + 1 <= IterationLimit
    BY <2>1, <2>2, Limits DEF Located, TypeOK, Numbers, Position
  <2>4. turns' \in Nat /\ turns' <= turns + 1
    BY <2>1, <2>2, LoopAssumption DEF Counted
  <2>5. turns' <= waits + (iter + 1) /\ waits <= RetryBudget * (iter + 1) + retries
    BY <2>1, <2>2, <2>4, Products, BudgetNat DEF Budget, Paid
  <2>6. turns' <= (RetryBudget + 1) * (IterationLimit + 1)
    BY <2>2, <2>3, <2>4, <2>5, Affordable DEF Budget
  <2>7. QED
    BY <2>6 DEF TurnsBounded
<1>3. turns' = turns \/ Reply
  BY DEF Next, Loop, StopForSpending, StopAtLimit, BeginIteration, AtTop, LlmFails, Refuse,
         Idle, Empty, Corrected, Reminded, Suspended, SentBack, Finish, Spoken,
         WithoutCalls, CallTools, ToolFails, ToolSucceeds, RunningCall, AskUser,
         EndFailed, EndSucceeded, Answered, CheckQuota, Wait, Cancel, vars
<1>4. QED
  BY <1>1, <1>2, <1>3

LEMMA NextBudget == Located /\ RetriesAreLimited /\ Budget /\ [Next]_vars => Budget'
<1> SUFFICES ASSUME Located, RetriesAreLimited, Budget, [Next]_vars
             PROVE  Budget'
  OBVIOUS
<1>a. /\ iter \in Int /\ turns \in 0..MaxCount /\ waits \in 0..MaxCount
      /\ retries \in Nat
      /\ pc \in {"top", "llm", "tools", "delay", "toolDelay", "quota", "over"}
      /\ pc \in {"top", "llm", "tools", "delay", "toolDelay"} => iter \in Nat
  BY LoopAssumption, Limits DEF Located, TypeOK, Numbers, Position
<1>b. /\ RetryBudget * iter \in Int
      /\ RetryBudget * (iter + 1) = RetryBudget * iter + RetryBudget
  BY <1>a, Products
<1>c. ~Exhausted => retries + 1 <= RetryBudget /\ RetryBudget <= MaxCount
  BY <1>a, LoopAssumption DEF RetriesAreLimited, Exhausted, RetryBudget
<1> USE <1>a, <1>b, BudgetNat, LoopAssumption
    DEF Budget, Paid, Counted, Stop, GoTo, NextIteration,
        counters, failing, calls, spending, history, kept
<1>1. CASE StopForSpending
  BY <1>1 DEF StopForSpending, AtTop
<1>2. CASE StopAtLimit
  BY <1>2 DEF StopAtLimit, AtTop, LimitNow
<1>3. CASE BeginIteration
  BY <1>3 DEF BeginIteration, AtTop, LimitNow
<1>4. CASE LlmFails
  BY <1>4 DEF LlmFails
<1>5. ASSUME NEW n \in 0..MaxCalls,
             Refuse(n)
      PROVE  Budget'
  BY <1>5 DEF Refuse, Reply
<1>6. CASE Idle
  BY <1>6 DEF Idle, WithoutCalls, Reply
<1>7. CASE Empty
  BY <1>7, <1>c
     DEF Empty, Spoken, WithoutCalls, Reply, Forgivable,
         FailedTooOften, CountFailure, Aborts, TooManyFailures
<1>8. CASE Corrected
  BY <1>8 DEF Corrected, Spoken, WithoutCalls, Reply
<1>9. CASE Reminded
  BY <1>9 DEF Reminded, Spoken, WithoutCalls, Reply
<1>10. CASE Suspended
  BY <1>10 DEF Suspended, Spoken, WithoutCalls, Reply
<1>11. CASE SentBack
  BY <1>11 DEF SentBack, Spoken, WithoutCalls, Reply, DropsPlan
<1>12. CASE Finish
  BY <1>12 DEF Finish, Spoken, WithoutCalls, Reply, DropsPlan
<1>13. ASSUME NEW n \in 1..MaxCalls, NEW writes \in BOOLEAN,
             CallTools(n, writes)
      PROVE  Budget'
  BY <1>13 DEF CallTools, Reply
<1>14. CASE ToolFails
  BY <1>14 DEF ToolFails, RunningCall
<1>15. ASSUME NEW same \in BOOLEAN, NEW kind \in ToolKind,
             ToolSucceeds(same, kind)
      PROVE  Budget'
  BY <1>15 DEF ToolSucceeds, RunningCall, Noted, Repeated
<1>16. CASE AskUser
  BY <1>16 DEF AskUser, Answered
<1>17. CASE EndFailed
  BY <1>17, <1>c
     DEF EndFailed, Answered, Forgivable, FailedTooOften,
         CountFailure, Aborts, TooManyFailures
<1>18. CASE EndSucceeded
  BY <1>18 DEF EndSucceeded, Answered
<1>19. CASE CheckQuota
  BY <1>19 DEF CheckQuota
<1>20. CASE Wait
  BY <1>20 DEF Wait
<1>21. CASE Cancel
  BY <1>21 DEF Cancel
<1>22. CASE UNCHANGED vars
  BY <1>22 DEF vars
<1>23. QED
  BY <1>1, <1>2, <1>3, <1>4, <1>5, <1>6, <1>7, <1>8, <1>9, <1>10, <1>11,
     <1>12, <1>13, <1>14, <1>15, <1>16, <1>17, <1>18, <1>19, <1>20, <1>21, <1>22
     DEF Next, Loop

Afforded == Located /\ (RetriesAreLimited => Budget) /\ TurnsBounded

(* Where the retries of failed iterations have a limit, executeCoreLoop    *)
(* asks the LLM at most (retries + 1) * (iterations + 1) times, although   *)
(* a retry takes back the count of its iteration.                          *)
THEOREM CallsAreBounded == Spec => []TurnsBounded
<1>1. Init => Afforded
  BY InitNumbers, InitFlags, InitBudget DEF Afforded, Located, TypeOK
<1>2. Afforded /\ [Next]_vars => Afforded'
  <2> SUFFICES ASSUME Afforded, [Next]_vars
               PROVE  Afforded'
    OBVIOUS
  <2>1. Located'
    BY NextNumbers, NextFlags DEF Afforded, Located, TypeOK
  <2>2. RetriesAreLimited => Budget'
    BY NextBudget DEF Afforded
  <2>3. TurnsBounded'
    BY NextTurnsBounded DEF Afforded
  <2>4. QED
    BY <2>1, <2>2, <2>3 DEF Afforded, RetriesAreLimited
<1>3. QED
  BY <1>1, <1>2, PTL DEF Spec, Afforded

-----------------------------------------------------------------------------
(* The reasons of an abort.  failures may fall behind since, the failed    *)
(* iterations really seen, but is never ahead of it.                       *)

Seen == /\ failures <= since \/ since >= MaxConsecutiveFail
        /\ pc \in {"delay", "toolDelay"} => since >= MaxConsecutiveFail

LEMMA InitDeserved == Init => Seen /\ AbortIsDeserved
  BY DEF Init, Seen, AbortIsDeserved

LEMMA NextDeserved ==
    Located /\ Seen /\ AbortIsDeserved /\ [Next]_vars => Seen' /\ AbortIsDeserved'
<1> SUFFICES ASSUME Located, Seen, AbortIsDeserved, [Next]_vars
             PROVE  Seen' /\ AbortIsDeserved'
  OBVIOUS
<1> USE LoopAssumption
    DEF Located, TypeOK, Numbers, Flags, Seen, AbortIsDeserved, UpTo, Stop, GoTo,
        NextIteration, counters, failing, calls, spending, history, kept
<1>1. CASE StopForSpending
  BY <1>1 DEF StopForSpending, AtTop
<1>2. CASE StopAtLimit
  BY <1>2 DEF StopAtLimit, AtTop, LimitNow
<1>3. CASE BeginIteration
  BY <1>3 DEF BeginIteration, AtTop, LimitNow
<1>4. CASE LlmFails
  BY <1>4 DEF LlmFails
<1>5. ASSUME NEW n \in 0..MaxCalls,
             Refuse(n)
      PROVE  Seen' /\ AbortIsDeserved'
  BY <1>5 DEF Refuse, Reply
<1>6. CASE Idle
  BY <1>6 DEF Idle, WithoutCalls, Reply
<1>7. CASE Empty
  BY <1>7
     DEF Empty, Spoken, WithoutCalls, Reply, Forgivable, FailedTooOften,
         CountFailure, Aborts, TooManyFailures, Exhausted
<1>8. CASE Corrected
  BY <1>8 DEF Corrected, Spoken, WithoutCalls, Reply
<1>9. CASE Reminded
  BY <1>9 DEF Reminded, Spoken, WithoutCalls, Reply
<1>10. CASE Suspended
  BY <1>10 DEF Suspended, Spoken, WithoutCalls, Reply
<1>11. CASE SentBack
  BY <1>11 DEF SentBack, Spoken, WithoutCalls, Reply, DropsPlan
<1>12. CASE Finish
  BY <1>12 DEF Finish, Spoken, WithoutCalls, Reply, DropsPlan
<1>13. ASSUME NEW n \in 1..MaxCalls, NEW writes \in BOOLEAN,
             CallTools(n, writes)
      PROVE  Seen' /\ AbortIsDeserved'
  BY <1>13 DEF CallTools, Reply
<1>14. CASE ToolFails
  BY <1>14 DEF ToolFails, RunningCall
<1>15. ASSUME NEW same \in BOOLEAN, NEW kind \in ToolKind,
             ToolSucceeds(same, kind)
      PROVE  Seen' /\ AbortIsDeserved'
  BY <1>15 DEF ToolSucceeds, RunningCall, Noted, Repeated
<1>16. CASE AskUser
  BY <1>16 DEF AskUser, Answered
<1>17. CASE EndFailed
  BY <1>17
     DEF EndFailed, Answered, Forgivable, FailedTooOften, CountFailure,
         Aborts, TooManyFailures, Exhausted
<1>18. CASE EndSucceeded
  BY <1>18 DEF EndSucceeded, Answered
<1>19. CASE CheckQuota
  BY <1>19 DEF CheckQuota
<1>20. CASE Wait
  BY <1>20 DEF Wait
<1>21. CASE Cancel
  BY <1>21 DEF Cancel
<1>22. CASE UNCHANGED vars
  BY <1>22 DEF vars
<1>23. QED
  BY <1>1, <1>2, <1>3, <1>4, <1>5, <1>6, <1>7, <1>8, <1>9, <1>10, <1>11,
     <1>12, <1>13, <1>14, <1>15, <1>16, <1>17, <1>18, <1>19, <1>20, <1>21, <1>22
     DEF Next, Loop

(* executeCoreLoop aborts for failures only after MaxConsecutiveFail       *)
(* failed iterations without a successful one between them, and with its   *)
(* retries used up: a retry that sets the counter back to one short of the *)
(* limit never makes it run ahead of what happened.                        *)
THEOREM AbortsAreDeserved == Spec => []AbortIsDeserved
<1>1. Init => Seen /\ AbortIsDeserved
  BY InitDeserved
<1>2. Located /\ Seen /\ AbortIsDeserved /\ [Next]_vars => Seen' /\ AbortIsDeserved'
  BY NextDeserved
<1>3. QED
  BY <1>1, <1>2, AlwaysLocated, PTL DEF Spec

-----------------------------------------------------------------------------
(* Calls and answers.                                                      *)

LEMMA NextAnswered == Located /\ CallsAnswered /\ [Next]_vars => CallsAnswered'
<1> SUFFICES ASSUME Located, CallsAnswered, [Next]_vars
             PROVE  CallsAnswered'
  OBVIOUS
<1> USE LoopAssumption
    DEF Located, TypeOK, Numbers, Flags, CallsAnswered, Stop, GoTo,
        NextIteration, counters, failing, calls, spending, history, kept
<1>1. CASE StopForSpending
  BY <1>1 DEF StopForSpending, AtTop
<1>2. CASE StopAtLimit
  BY <1>2 DEF StopAtLimit, AtTop, LimitNow
<1>3. CASE BeginIteration
  BY <1>3 DEF BeginIteration, AtTop, LimitNow
<1>4. CASE LlmFails
  BY <1>4 DEF LlmFails
<1>5. ASSUME NEW n \in 0..MaxCalls,
             Refuse(n)
      PROVE  CallsAnswered'
  BY <1>5 DEF Refuse, Reply
<1>6. CASE Idle
  BY <1>6 DEF Idle, WithoutCalls, Reply
<1>7. CASE Empty
  BY <1>7
     DEF Empty, Spoken, WithoutCalls, Reply, Forgivable,
         FailedTooOften, CountFailure, Aborts, TooManyFailures
<1>8. CASE Corrected
  BY <1>8 DEF Corrected, Spoken, WithoutCalls, Reply
<1>9. CASE Reminded
  BY <1>9 DEF Reminded, Spoken, WithoutCalls, Reply
<1>10. CASE Suspended
  BY <1>10 DEF Suspended, Spoken, WithoutCalls, Reply
<1>11. CASE SentBack
  BY <1>11 DEF SentBack, Spoken, WithoutCalls, Reply, DropsPlan
<1>12. CASE Finish
  BY <1>12 DEF Finish, Spoken, WithoutCalls, Reply, DropsPlan
<1>13. ASSUME NEW n \in 1..MaxCalls, NEW writes \in BOOLEAN,
             CallTools(n, writes)
      PROVE  CallsAnswered'
  BY <1>13 DEF CallTools, Reply
<1>14. CASE ToolFails
  BY <1>14 DEF ToolFails, RunningCall
<1>15. ASSUME NEW same \in BOOLEAN, NEW kind \in ToolKind,
             ToolSucceeds(same, kind)
      PROVE  CallsAnswered'
  BY <1>15 DEF ToolSucceeds, RunningCall, Noted, Repeated
<1>16. CASE AskUser
  BY <1>16 DEF AskUser, Answered
<1>17. CASE EndFailed
  BY <1>17
     DEF EndFailed, Answered, Forgivable, FailedTooOften,
         CountFailure, Aborts, TooManyFailures
<1>18. CASE EndSucceeded
  BY <1>18 DEF EndSucceeded, Answered
<1>19. CASE CheckQuota
  BY <1>19 DEF CheckQuota
<1>20. CASE Wait
  BY <1>20 DEF Wait
<1>21. CASE Cancel
  BY <1>21 DEF Cancel
<1>22. CASE UNCHANGED vars
  BY <1>22 DEF vars
<1>23. QED
  BY <1>1, <1>2, <1>3, <1>4, <1>5, <1>6, <1>7, <1>8, <1>9, <1>10, <1>11,
     <1>12, <1>13, <1>14, <1>15, <1>16, <1>17, <1>18, <1>19, <1>20, <1>21, <1>22
     DEF Next, Loop

(* Before the LLM is asked again no call of the last reply waits for its   *)
(* answer, and the saved history is complete when the run is over, but for *)
(* refusals that carry calls and the stop of a repeated call.              *)
THEOREM CallsAreAnswered == Spec => []CallsAnswered
<1>1. Init => CallsAnswered
  BY DEF Init, CallsAnswered
<1>2. Located /\ CallsAnswered /\ [Next]_vars => CallsAnswered'
  BY NextAnswered
<1>3. QED
  BY <1>1, <1>2, AlwaysLocated, PTL DEF Spec

Opening == open' /\ ~open => pc = "llm" /\ pc' = "top"

LEMMA NextOpening == [Next]_vars => Opening
<1> SUFFICES ASSUME [Next]_vars, open' # open
             PROVE  pc = "llm" /\ pc' = "top"
  BY DEF Opening
<1> USE DEF history
<1>1. CASE StopForSpending
  BY <1>1 DEF StopForSpending, AtTop
<1>2. CASE StopAtLimit
  BY <1>2 DEF StopAtLimit, AtTop, LimitNow
<1>3. CASE BeginIteration
  BY <1>3 DEF BeginIteration, AtTop, LimitNow
<1>4. CASE LlmFails
  BY <1>4 DEF LlmFails
<1>5. ASSUME NEW n \in 0..MaxCalls,
             Refuse(n)
      PROVE  pc = "llm" /\ pc' = "top"
  BY <1>5 DEF Refuse, Reply, NextIteration
<1>6. CASE Idle
  BY <1>6 DEF Idle, WithoutCalls, Reply
<1>7. CASE Empty
  BY <1>7
     DEF Empty, Spoken, WithoutCalls, Reply, Forgivable,
         FailedTooOften, CountFailure, Aborts, TooManyFailures
<1>8. CASE Corrected
  BY <1>8 DEF Corrected, Spoken, WithoutCalls, Reply
<1>9. CASE Reminded
  BY <1>9 DEF Reminded, Spoken, WithoutCalls, Reply
<1>10. CASE Suspended
  BY <1>10 DEF Suspended, Spoken, WithoutCalls, Reply
<1>11. CASE SentBack
  BY <1>11 DEF SentBack, Spoken, WithoutCalls, Reply, DropsPlan
<1>12. CASE Finish
  BY <1>12 DEF Finish, Spoken, WithoutCalls, Reply, DropsPlan
<1>13. ASSUME NEW n \in 1..MaxCalls, NEW writes \in BOOLEAN,
             CallTools(n, writes)
      PROVE  pc = "llm" /\ pc' = "top"
  BY <1>13 DEF CallTools, Reply
<1>14. CASE ToolFails
  BY <1>14 DEF ToolFails, RunningCall
<1>15. ASSUME NEW same \in BOOLEAN, NEW kind \in ToolKind,
             ToolSucceeds(same, kind)
      PROVE  pc = "llm" /\ pc' = "top"
  BY <1>15 DEF ToolSucceeds, RunningCall, Noted, Repeated
<1>16. CASE AskUser
  BY <1>16 DEF AskUser, Answered
<1>17. CASE EndFailed
  BY <1>17
     DEF EndFailed, Answered, Forgivable, FailedTooOften,
         CountFailure, Aborts, TooManyFailures
<1>18. CASE EndSucceeded
  BY <1>18 DEF EndSucceeded, Answered
<1>19. CASE CheckQuota
  BY <1>19 DEF CheckQuota
<1>20. CASE Wait
  BY <1>20 DEF Wait
<1>21. CASE Cancel
  BY <1>21 DEF Cancel
<1>22. CASE UNCHANGED vars
  BY <1>22 DEF vars
<1>23. QED
  BY <1>1, <1>2, <1>3, <1>4, <1>5, <1>6, <1>7, <1>8, <1>9, <1>10, <1>11,
     <1>12, <1>13, <1>14, <1>15, <1>16, <1>17, <1>18, <1>19, <1>20, <1>21, <1>22
     DEF Next, Loop

(* A failed, denied or unknown call is answered like any other: only a     *)
(* refusal puts a call into the history that nobody answers.               *)
THEOREM OnlyRefusalsLeaveCalls == Spec => OnlyRefusalsOpen
<1>1. [Next]_vars => [Opening]_vars
  BY NextOpening
<1>2. QED
  BY <1>1, PTL DEF Spec, OnlyRefusalsOpen, Opening

-----------------------------------------------------------------------------
(* The cost brake.                                                         *)

Braked == brakeAt # Unlimited => limit <= brakeAt + HighGrace

LEMMA NextBrake == Located /\ Braked /\ BrakeHolds /\ [Next]_vars => Braked' /\ BrakeHolds'
<1> SUFFICES ASSUME Located, Braked, BrakeHolds, [Next]_vars
             PROVE  Braked' /\ BrakeHolds'
  OBVIOUS
<1> USE LoopAssumption, Limits
    DEF Located, TypeOK, Numbers, Flags, Position, Braked, BrakeHolds, Stop, GoTo,
        NextIteration, counters, failing, calls, spending, history, kept
<1>1. CASE StopForSpending
  BY <1>1 DEF StopForSpending, AtTop
<1>2. CASE StopAtLimit
  BY <1>2 DEF StopAtLimit, AtTop, LimitNow
<1>3. CASE BeginIteration
  BY <1>3 DEF BeginIteration, AtTop, LimitNow
<1>4. CASE LlmFails
  BY <1>4 DEF LlmFails
<1>5. ASSUME NEW n \in 0..MaxCalls,
             Refuse(n)
      PROVE  Braked' /\ BrakeHolds'
  BY <1>5 DEF Refuse, Reply
<1>6. CASE Idle
  BY <1>6 DEF Idle, WithoutCalls, Reply
<1>7. CASE Empty
  BY <1>7
     DEF Empty, Spoken, WithoutCalls, Reply, Forgivable,
         FailedTooOften, CountFailure, Aborts, TooManyFailures
<1>8. CASE Corrected
  BY <1>8 DEF Corrected, Spoken, WithoutCalls, Reply
<1>9. CASE Reminded
  BY <1>9 DEF Reminded, Spoken, WithoutCalls, Reply
<1>10. CASE Suspended
  BY <1>10 DEF Suspended, Spoken, WithoutCalls, Reply
<1>11. CASE SentBack
  BY <1>11 DEF SentBack, Spoken, WithoutCalls, Reply, DropsPlan
<1>12. CASE Finish
  BY <1>12 DEF Finish, Spoken, WithoutCalls, Reply, DropsPlan
<1>13. ASSUME NEW n \in 1..MaxCalls, NEW writes \in BOOLEAN,
             CallTools(n, writes)
      PROVE  Braked' /\ BrakeHolds'
  BY <1>13 DEF CallTools, Reply
<1>14. CASE ToolFails
  BY <1>14 DEF ToolFails, RunningCall
<1>15. ASSUME NEW same \in BOOLEAN, NEW kind \in ToolKind,
             ToolSucceeds(same, kind)
      PROVE  Braked' /\ BrakeHolds'
  BY <1>15 DEF ToolSucceeds, RunningCall, Noted, Repeated
<1>16. CASE AskUser
  BY <1>16 DEF AskUser, Answered
<1>17. CASE EndFailed
  BY <1>17
     DEF EndFailed, Answered, Forgivable, FailedTooOften,
         CountFailure, Aborts, TooManyFailures
<1>18. CASE EndSucceeded
  BY <1>18 DEF EndSucceeded, Answered
<1>19. CASE CheckQuota
  BY <1>19 DEF CheckQuota
<1>20. CASE Wait
  BY <1>20 DEF Wait
<1>21. CASE Cancel
  BY <1>21 DEF Cancel
<1>22. CASE UNCHANGED vars
  BY <1>22 DEF vars
<1>23. QED
  BY <1>1, <1>2, <1>3, <1>4, <1>5, <1>6, <1>7, <1>8, <1>9, <1>10, <1>11,
     <1>12, <1>13, <1>14, <1>15, <1>16, <1>17, <1>18, <1>19, <1>20, <1>21, <1>22
     DEF Next, Loop

(* From the first iteration begun above 0.30 dollars, at most HighGrace    *)
(* iterations end before the run does, although the limit depends on the   *)
(* current iteration and is computed again at each one.                    *)
THEOREM BrakeAlwaysHolds == Spec => []BrakeHolds
<1>1. Init => Braked /\ BrakeHolds
  BY LoopAssumption, Limits DEF Init, Braked, BrakeHolds
<1>2. Located /\ Braked /\ BrakeHolds /\ [Next]_vars => Braked' /\ BrakeHolds'
  BY NextBrake
<1>3. QED
  BY <1>1, <1>2, AlwaysLocated, PTL DEF Spec

=============================================================================
