----------------------------- MODULE Conversation -----------------------------
(***************************************************************************)
(* internal/loop/agentic: from the history of a session to the messages of *)
(* one request (execute_pipeline.go, prompting/compactor.go).  Notes are   *)
(* added to a copy of the history, "os_style" cuts it to its last four     *)
(* messages, and a history that is too long, or has too many tokens, is    *)
(* compacted: what is between the first message of the user and the latest *)
(* ones becomes a summary.  Of a message remain its role, the calls it     *)
(* makes or answers, and whether it is large.                              *)
(***************************************************************************)
EXTENDS Naturals, Sequences, SequencesExt, FiniteSetsExt

CONSTANTS MaxHistory, \* MaxMessageHistory: messages sent without compaction
          MaxLarge,   \* large messages that fit into 80 000 tokens
          MaxSystem,  \* bound: system messages before the first intent
          MaxTurns    \* bound: turns of the session

VARIABLES messages, \* the history
          style,    \* memory style: normal or os_style
          turns,    \* turns so far
          request,  \* the messages of the last request
          frame,    \* history: what was compacted into it
          panicked  \* a slice out of range has ended the process

vars == <<messages, style, turns, request, frame, panicked>>

Msg(role, calls, large) == [role |-> role, calls |-> calls, large |-> large]
Note == Msg("system", {}, FALSE)
Summary == Msg("summary", {}, FALSE)
Intent(n) == Msg("user", {<<n, 0>>}, FALSE)

Large(ms) == Len(SelectSeq(ms, LAMBDA m : m.large))
IsUser(m) == m.role = "user"
FirstUser(ms) == IF \E i \in DOMAIN ms : IsUser(ms[i])
                    THEN Min({i \in DOMAIN ms : IsUser(ms[i])}) ELSE 0

-----------------------------------------------------------------------------
(* CompactMessages.                                                        *)
KeepRecent == IF MaxHistory < 20 THEN 8 ELSE 16
Fits(ms) == Len(ms) <= MaxHistory /\ Large(ms) <= MaxLarge

(* The first message and the latest: one fewer than the limit, though the  *)
(* history may have fewer when only its tokens are too many.               *)
OutOfRange(ms) == Len(ms) < MaxHistory - 1
Truncated(ms) == <<Head(ms)>> \o SubSeq(ms, Len(ms) - MaxHistory + 2, Len(ms))

Summarised(ms, recent) ==
    LET start == FirstUser(ms)
        end == Max({Len(ms) - recent, start + 1})
    IN  SubSeq(ms, 1, start) \o <<Summary>> \o SubSeq(ms, end + 1, Len(ms))

(* The window shrinks by two until the tokens fit, down to two.            *)
Windows == {k \in 2..KeepRecent : k % 2 = 0}
Window(ms) ==
    LET fit == {k \in Windows : Large(Summarised(ms, k)) <= MaxLarge}
    IN  IF fit = {} THEN 2 ELSE Max(fit)

(* Deviation: a history that is too long is cut from its start.             *)
CompactedFromStart(ms) ==
    CASE Fits(ms) -> ms
      [] ~Fits(ms) -> SubSeq(ms, 1, Min({MaxHistory, Len(ms)}))

NoRoomToSummarise(ms) == FirstUser(ms) = 0 \/ FirstUser(ms) + KeepRecent >= Len(ms)

Compacted(ms) ==
    CASE Fits(ms) -> ms
      [] ~Fits(ms) /\ NoRoomToSummarise(ms) -> IF OutOfRange(ms) THEN <<>> ELSE Truncated(ms)
      [] ~Fits(ms) /\ ~NoRoomToSummarise(ms) -> Summarised(ms, Window(ms))

-----------------------------------------------------------------------------
(* The messages at some places of a history, in their order.               *)
Selected(ms, places) ==
    LET at == FlattenSeq([k \in DOMAIN ms |-> IF k \in places THEN <<k>> ELSE <<>>])
    IN  [n \in DOMAIN at |-> ms[at[n]]]

Systems(ms) == {k \in DOMAIN ms : ms[k].role = "system"}
LastOf(ms, n) == SubSeq(ms, IF n < Len(ms) THEN Len(ms) - n + 1 ELSE 1, Len(ms))
OsStyled(ms) == Selected(ms, Systems(ms)) \o LastOf(Selected(ms, DOMAIN ms \ Systems(ms)), 4)

(* A plan starts a new copy of the whole history: the cut is undone.       *)
RunMessages(plan, notes) ==
    LET base == CASE plan -> Append(messages, Note)
                  [] ~plan /\ style = "os_style" -> OsStyled(messages)
                  [] ~plan /\ style = "normal" -> messages
    IN  base \o [i \in 1..notes |-> Note]

Init ==
    /\ \E n \in 0..MaxSystem : messages = Append([i \in 1..n |-> Note], Intent(0))
    /\ style \in {"normal", "os_style"}
    /\ turns = 0
    /\ request = <<>> /\ frame = <<>>
    /\ panicked = FALSE

Ask(plan, notes) ==
    LET run == RunMessages(plan, notes) IN
    /\ request = <<>> /\ ~panicked
    /\ frame' = run
    /\ panicked' = (~Fits(run) /\ NoRoomToSummarise(run) /\ OutOfRange(run))
    /\ request' = Compacted(run)
    /\ UNCHANGED <<messages, style, turns>>

(* The calls of a reply are answered before the next request.              *)
Turn(new) ==
    /\ request # <<>>
    /\ turns < MaxTurns
    /\ turns' = turns + 1
    /\ messages' = messages \o new
    /\ request' = <<>> /\ frame' = <<>>
    /\ UNCHANGED <<style, panicked>>

Reply(calls, large) ==
    LET ids == {<<turns, c>> : c \in 1..calls} IN
    Turn(<<Msg("assistant", ids, FALSE)>>
            \o [c \in 1..calls |-> Msg("tool", {<<turns, c>>}, large)])

Nudge == Turn(<<Msg("assistant", {}, FALSE), Note>>)
Intend == Turn(<<Msg("assistant", {}, FALSE), Intent(turns + 1)>>)

Next == \/ \E plan \in BOOLEAN, notes \in 0..1 : Ask(plan, notes)
        \/ \E calls \in 1..2, large \in BOOLEAN : Reply(calls, large)
        \/ Nudge \/ Intend

Spec == Init /\ [][Next]_vars

-----------------------------------------------------------------------------
Roles == {"system", "user", "assistant", "tool", "summary"}

TypeOK ==
    /\ \A m \in ToSet(messages) \cup ToSet(request) : m.role \in Roles /\ m.large \in BOOLEAN
    /\ style \in {"normal", "os_style"}
    /\ turns \in 0..MaxTurns
    /\ panicked \in BOOLEAN

Asked(ms, i) == ms[i].role = "assistant"
Answers(ms, i, id) == ms[i].role = "tool" /\ id \in ms[i].calls

(* The four messages os_style leaves are cut again by a lower limit.        *)
CutOnce == style = "normal" \/ MaxHistory > 4

(* Every call in a request is followed by its answer: no cut separates     *)
(* them, although the code counts messages.                                *)
EveryCallAnswered ==
    CutOnce => \A i \in DOMAIN request : Asked(request, i) =>
        \A id \in request[i].calls : \E j \in i + 1..Len(request) : Answers(request, j, id)

(* An answer without its call opens what a cut has left, and all such      *)
(* answers are of one reply.                                               *)
Orphan(i) == /\ request[i].role = "tool"
             /\ \A j \in 1..i - 1 : Asked(request, j) => request[i].calls \cap request[j].calls = {}
OrphansAtTheCut ==
    CutOnce => \A i \in DOMAIN request : Orphan(i) =>
        /\ request # messages
        /\ i > 1 /\ ~Orphan(i - 1) => request[i - 1].role \notin {"assistant", "tool"}
        /\ \A j \in DOMAIN request : Orphan(j) =>
               \A a \in request[i].calls, b \in request[j].calls : a[1] = b[1]

(* What the user asked for first and what was said last are in every       *)
(* request, but for the first in a cut history or under a limit below ten  *)
(* and the last under a limit of one; and a compacted request is short.     *)
IntentAndTail ==
    request # <<>> =>
        /\ MaxHistory > 1 => Last(request) = Last(frame)
        /\ style = "normal" /\ MaxHistory > KeepRecent + 1 =>
               frame[FirstUser(frame)] \in ToSet(request)
        /\ Fits(frame) \/ Len(request) <= Max({MaxHistory, FirstUser(frame) + 1 + KeepRecent})

RequestSound == TypeOK /\ EveryCallAnswered /\ OrphansAtTheCut /\ IntentAndTail

(* history_compression_test.go:40 and :51: the first message and the most  *)
(* recent one are preserved.                                               *)
CompactionPreserves ==
    frame # <<>> => /\ request # <<>>
                    /\ Head(request) = Head(frame) /\ Last(request) = Last(frame)
=============================================================================
