---------------------------- MODULE LoopDetectors ----------------------------
(***************************************************************************)
(* What ends a run that goes round in circles (loop/agentic/core:          *)
(* loop_detector.go, execute_tools.go, execute_pipeline.go), and the       *)
(* memory of mistakes of mistake_memory.go.                                *)
(*                                                                         *)
(* The conversation is the session's, over its runs.  A message of the     *)
(* assistant carries its calls with what they answered: a call is a tool   *)
(* and an answer.  "cmd" runs a command, "fix" writes a file and tests it, *)
(* "look" only reads.  Messages of the system are seen by no detector.     *)
(***************************************************************************)
EXTENDS Naturals, Sequences, SequencesExt, FiniteSets, FiniteSetsExt

CONSTANTS Text,        \* contents of messages that are not empty
          NoText,      \* the empty content
          CallLists,   \* the calls a message may carry
          Action,      \* tool and target of a failed action
          MaxSize,     \* 20: actions the memory of mistakes keeps
          MaxAttempts, \* 5: attempts it keeps of one action
          MaxMsgs,     \* bound: messages of the session
          MaxFailures  \* bound: failed actions

VARIABLES log,     \* the messages, oldest first
          start,   \* initialMessagesLen of the run
          pc,      \* idle or turn
          reason,  \* why the last run ended
          futile,  \* ineffectiveCorrectionCount
          entries, \* action -> attempts kept, 0 when it has no entry
          order,   \* the actions of the entries, least recent first
          failures \* history: the failed actions

chat == <<log, start, pc, reason, futile>>
mistakes == <<entries, order, failures>>
vars == <<chat, mistakes>>

Said == {"assistant"}
NewMsg(text, calls) == [role |-> "assistant", text |-> text, calls |-> calls]
Asked(role) == [role |-> role, text |-> NoText, calls |-> <<>>]

(* What DetectRepetitiveLoop compares: the content and the calls, without   *)
(* their answers.                                                          *)
Signature(m) == <<m.text, [k \in DOMAIN m.calls |-> m.calls[k].tool]>>
Blank(m) == m.text = NoText /\ m.calls = <<>>

-----------------------------------------------------------------------------
(* An instruction of the user that is no mere "continue".                   *)
IsInstruction(m) == m.role = "user"

(* The signatures of the turns of the assistant, from the last message      *)
(* backwards, until an instruction.                                        *)
RecentSignatures(msgs) ==
    LET Sig(m) == IF m.role \in Said /\ ~Blank(m) THEN <<Signature(m)>> ELSE <<>>
        look[k \in 0..Len(msgs)] ==
            IF k = 0 \/ IsInstruction(msgs[k]) THEN <<>> ELSE Sig(msgs[k]) \o look[k-1]
    IN look[Len(msgs)]

(* Deviation: signatures from before the instruction count.                 *)
DetectRepetitiveLoopEver(msgs) ==
    LET turns == SelectSeq(Reverse(msgs), LAMBDA m : m.role \in Said /\ ~Blank(m))
        s == [k \in DOMAIN turns |-> Signature(turns[k])]
    IN \/ Len(s) >= 3 /\ s[1] = s[2] /\ s[2] = s[3]
       \/ Len(s) >= 4 /\ s[1] = s[3] /\ s[2] = s[4]

(* The same turn three times, or two turns twice by turns.                  *)
DetectRepetitiveLoop(msgs) ==
    LET s == RecentSignatures(msgs)
    IN \/ Len(s) >= 3 /\ s[1] = s[2] /\ s[2] = s[3]
       \/ Len(s) >= 4 /\ s[1] = s[3] /\ s[2] = s[4]

(* The commands of the session with their answers, the last message first, *)
(* but those of one message in their order.                                *)
Traces(msgs) ==
    LET Commands(m) == SelectSeq(m.calls, LAMBDA c : c.tool = "cmd")
    IN FlattenSeq([k \in DOMAIN msgs |-> Commands(Reverse(msgs)[k])])

DetectCommandLoop(msgs) ==
    LET t == Traces(msgs) IN Len(t) >= 3 /\ t[1] = t[2] /\ t[2] = t[3]

(* Three corrections of one file tested with the same error.                *)
Tries(msgs) ==
    FlattenSeq([k \in DOMAIN msgs |->
        LET fixes == SelectSeq(msgs[k].calls, LAMBDA c : c.tool = "fix")
        IN IF fixes = <<>> THEN <<>> ELSE <<Head(fixes)>>])

DetectIneffectiveCorrectionLoop(msgs) ==
    LET a == Tries(msgs)
        n == Len(a)
    IN n >= 3 /\ a[n] = a[n-1] /\ a[n-1] = a[n-2]

-----------------------------------------------------------------------------
Init ==
    /\ log = <<>> /\ start = 0
    /\ pc = "idle" /\ reason = "none" /\ futile = 0
    /\ entries = [a \in Action |-> 0] /\ order = <<>> /\ failures = <<>>

(* A run begins with the user's intent, which may be a mere "continue".     *)
StartRun(role) ==
    /\ pc = "idle" /\ Len(log) < MaxMsgs
    /\ log' = Append(log, Asked(role))
    /\ start' = Len(log')
    /\ pc' = "turn" /\ reason' = "none" /\ futile' = 0
    /\ UNCHANGED mistakes

(* The detectors are asked once the run has an answer of its own.           *)
HasNewAssistantMsg == \E k \in DOMAIN log : k > start /\ log[k].role \in Said

HardStop(why) == /\ pc = "turn" /\ HasNewAssistantMsg
                 /\ pc' = "idle" /\ reason' = why
                 /\ UNCHANGED <<log, start, mistakes>>

StopRepetitive ==
    /\ DetectRepetitiveLoop(log)
    /\ HardStop("repetitive_loop")
    /\ UNCHANGED futile

StopCommandLoop ==
    /\ ~DetectRepetitiveLoop(log) /\ DetectCommandLoop(log)
    /\ HardStop("command_loop")
    /\ UNCHANGED futile

Ineffective ==
    HasNewAssistantMsg /\ DetectIneffectiveCorrectionLoop(log)

StopIneffective ==
    /\ ~DetectRepetitiveLoop(log) /\ ~DetectCommandLoop(log)
    /\ Ineffective /\ futile >= 1
    /\ HardStop("ineffective_correction_loop")
    /\ futile' = futile + 1

(* The turn goes on: the first ineffective correction is warned of, and the *)
(* model answers.                                                          *)
Answer ==
    /\ pc = "turn" /\ Len(log) < MaxMsgs
    /\ HasNewAssistantMsg => ~DetectRepetitiveLoop(log) /\ ~DetectCommandLoop(log)
    /\ Ineffective => futile = 0
    /\ futile' = IF Ineffective THEN futile + 1 ELSE futile
    /\ \E text \in Text \cup {NoText}, calls \in CallLists :
          log' = Append(log, NewMsg(text, calls))
    /\ UNCHANGED <<start, pc, reason, mistakes>>

(* The run ends on an answer without calls.                                 *)
Finish ==
    /\ pc = "turn" /\ HasNewAssistantMsg /\ Last(log).calls = <<>>
    /\ pc' = "idle" /\ reason' = "finished"
    /\ UNCHANGED <<log, start, futile, mistakes>>

(* A message of the user reaches the running loop.                          *)
Inject(role) ==
    /\ pc = "turn" /\ Len(log) < MaxMsgs
    /\ log' = Append(log, Asked(role))
    /\ UNCHANGED <<start, pc, reason, futile, mistakes>>

-----------------------------------------------------------------------------
(* A failed tool is recorded under its name and target: a new one takes the *)
(* place of the one that has not failed for longest, a known one becomes    *)
(* the most recent.  Nothing ever clears the memory of a run, a success     *)
(* of the same action neither.                                             *)
Record(a) ==
    /\ Len(failures) < MaxFailures
    /\ failures' = Append(failures, a)
    /\ LET full == entries[a] = 0 /\ Len(order) >= MaxSize
           rest == IF full THEN Tail(order) ELSE RemoveFirst(order, a)
       IN /\ order' = Append(rest, a)
          /\ entries' = [b \in Action |->
                           IF b = a THEN IF entries[a] < MaxAttempts THEN entries[a] + 1 ELSE MaxAttempts
                           ELSE IF full /\ b = Head(order) THEN 0 ELSE entries[b]]
    /\ UNCHANGED chat

(* What BuildPromptBlock shows the model: the most recent first, ten at     *)
(* most, with the tally of the attempts kept.                              *)
Shown == [k \in 1..Min({10, Len(order)}) |->
             LET a == order[Len(order) + 1 - k] IN <<a, entries[a]>>]

Talk == \/ \E role \in {"user", "go"} : StartRun(role) \/ Inject(role)
        \/ StopRepetitive \/ StopCommandLoop \/ StopIneffective \/ Answer \/ Finish
Fail == \E a \in Action : Record(a)

Next == Talk \/ Fail

Spec == Init /\ [][Next]_vars

-----------------------------------------------------------------------------
(* Every variable of the detectors has its type.                            *)
TypeOK ==
    /\ Len(log) <= MaxMsgs /\ start \in 0..MaxMsgs
    /\ \A k \in DOMAIN log : log[k].role \in {"user", "go", "assistant"}
    /\ pc \in {"idle", "turn"} /\ futile \in 0..2
    /\ reason \in {"none", "finished", "repetitive_loop", "command_loop",
                   "ineffective_correction_loop"}
    /\ entries \in [Action -> 0..MaxAttempts]
    /\ order \in Seq(Action) /\ failures \in Seq(Action)

(* The turns of the assistant since the last instruction that say anything. *)
SinceInstruction ==
    {k \in DOMAIN log : /\ log[k].role \in Said /\ ~Blank(log[k])
                        /\ \A j \in k..Len(log) : log[j].role # "user"}

(* A run is stopped for repeating itself exactly when the turns since the   *)
(* last instruction end with one turn three times over or with two twice.   *)
StopsForItsOwnTurns ==
    reason = "repetitive_loop" =>
        LET Same(j, k) == Signature(log[j]) = Signature(log[k])
            Nth(n) == Max({k \in SinceInstruction :
                             Cardinality({j \in SinceInstruction : j >= k}) = n})
        IN /\ Cardinality(SinceInstruction) >= 3
           /\ Same(Nth(1), Nth(3))
           /\ \/ Same(Nth(1), Nth(2))
              \/ Cardinality(SinceInstruction) >= 4 /\ Same(Nth(2), Nth(4))

(* A run that goes on has not given the same answer in its last three       *)
(* turns, unless an instruction came between them or the run just began.    *)
NoThirdTime ==
    LET n == Len(log)
    IN pc = "turn" /\ n - start >= 4 /\ log[n].role \in Said =>
          ~(/\ \A k \in (n-3)..n : log[k].role \in Said /\ ~Blank(log[k])
            /\ \A k \in (n-3)..n : Signature(log[k]) = Signature(log[n]))

(* The model is shown the actions that failed most recently, as many as the *)
(* memory keeps, the last failure first.                                   *)
MistakesAreRecent ==
    LET LastOf(a) == Max({0} \cup {k \in DOMAIN failures : failures[k] = a})
        failed == ToSet(failures)
        newer(a) == {b \in failed : LastOf(b) > LastOf(a)}
    IN /\ {shown[1] : shown \in ToSet(Shown)} =
              {a \in failed : Cardinality(newer(a)) < Min({10, MaxSize})}
       /\ \A j, k \in DOMAIN Shown : j < k => LastOf(Shown[j][1]) > LastOf(Shown[k][1])
       /\ \A a \in Action : (entries[a] > 0) = (a \in ToSet(order))

(* A run is not ended for a loop of commands none of which it gave itself.  *)
HistoryStopsNobody ==
    reason = "command_loop" =>
        \E k \in DOMAIN log : /\ k > start
                              /\ \E c \in DOMAIN log[k].calls : log[k].calls[c].tool = "cmd"

(* The detectors and the memory are sound.                                  *)
DetectorsSound == TypeOK /\ StopsForItsOwnTurns /\ NoThirdTime /\ MistakesAreRecent
=============================================================================
