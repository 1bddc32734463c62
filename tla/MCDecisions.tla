----------------------------- MODULE MCDecisions -----------------------------
(***************************************************************************)
(* What an agent's loop decides, for TLC: what of the conversation it      *)
(* sends and how it asks the model, which calls it reads out of a text,    *)
(* when it gives up, what the plan holds, what it has to pass before it    *)
(* ends, and what specialists do for it.                                   *)
(* The parts share no variable; "part" says which of them moves.           *)
(***************************************************************************)
EXTENDS Naturals, Sequences, FiniteSets, TLC

CONSTANTS MaxHistory, MaxLarge, MaxSystem, MaxTurns,
          Agent, Attempts, Retries, MaxCalls,
          Run, Child, None, Rounds, MaxHelpers, MaxAnswers,
          t1, t2, Title, Norm, Fix, MaxItems, MaxWords, MaxSteps,
          Announceable, Place, MaxChanges,
          text, NoText, o1, o2, Action, MaxSize, MaxAttempts, MaxMsgs, MaxFailures,
          Tool, Unknown, WriteFile, File, NoFile, MaxSegments, MaxNative

VARIABLES part,
          messages, style, convTurns, request, frame, panicked, kind, cache,
          phase, route, try, attempt, tools, disabled, media, llmNative,
          textOnly, answered, stopped, llmCalls, requests, late, entry,
          cached, specOf, session, page, url, specAt, adrift, cancelled,
          specCalls, specTurns, spent, recorded, begun, again, tree, undone,
          failed, plan, guarded, mode, own, planI, planPc, result, claimed,
          twins, planSteps, godot, announced, used, nudged, disk, touched,
          suite, fix, gatePc, verdict, nudges, owed, gateSteps, detLog, start,
          detPc, reason, futile, entries, order, failures, reply, textNative,
          textCalls, via, textPc

(* Two titles that are one when normalised.                                *)
TitleNorm == [t \in Title |-> IF t = t2 THEN t1 ELSE t]
(* A file, one in a directory, and that one as seen from a container.      *)
Files == {<<"a">>, <<"d", "a">>}
Paths == Files \cup {<<"app", "d", "a">>}
(* No call; a command with one answer or another; a correction; a look.    *)
Do(tool, out) == [tool |-> tool, out |-> out]
Lists == {<<>>, <<Do("cmd", o1)>>, <<Do("cmd", o2)>>, <<Do("fix", o1)>>,
          <<Do("look", o1)>>, <<Do("cmd", o1), Do("fix", o1)>>}

Talk == INSTANCE Conversation WITH
    turns <- convTurns
Llm == INSTANCE LlmRequest WITH
    native <- llmNative, calls <- llmCalls
Helpers == INSTANCE Specialists WITH
    MaxCalls <- MaxHelpers, MaxTurns <- MaxAnswers, of <- specOf,
    at <- specAt, calls <- specCalls, turns <- specTurns
Plans == INSTANCE Planner WITH
    i <- planI, pc <- planPc, steps <- planSteps
Gate == INSTANCE CompletionGate WITH
    MaxSteps <- MaxChanges, pc <- gatePc, steps <- gateSteps
Detectors == INSTANCE LoopDetectors WITH
    Text <- {text}, CallLists <- Lists, log <- detLog, pc <- detPc
Texts == INSTANCE TextCalls WITH
    native <- textNative, calls <- textCalls, pc <- textPc

talkVars == <<messages, style, convTurns, request, frame, panicked>>
llmVars == <<kind, cache, phase, route, try, attempt, tools, disabled, media,
             llmNative, textOnly, answered, stopped, llmCalls, requests, late>>
helpersVars == <<entry, cached, specOf, session, page, url, specAt, adrift,
                 cancelled, specCalls, specTurns, spent, recorded, begun,
                 again, tree, undone, failed>>
plansVars == <<plan, guarded, mode, own, planI, planPc, result, claimed,
               twins, planSteps>>
gateVars == <<godot, announced, used, nudged, disk, touched, suite, fix,
              gatePc, verdict, nudges, owed, gateSteps>>
detectorsVars == <<detLog, start, detPc, reason, futile, entries, order,
                   failures>>
textsVars == <<reply, textNative, textCalls, via, textPc>>
vars == <<part, talkVars, llmVars, helpersVars, plansVars, gateVars, detectorsVars,
        textsVars>>

(* What the parts take for granted: bounds are numbers, a history has a    *)
(* limit (none given means 40), a request is tried, no run is nobody, no   *)
(* child is a place in a run, a mistake can be kept and the registered     *)
(* tools can be gone through.                                              *)
TalkBounds == /\ MaxHistory \in Nat \ {0} /\ MaxLarge \in Nat
              /\ MaxSystem \in Nat /\ MaxTurns \in Nat
LlmBounds == Attempts \in Nat \ {0} /\ Retries \in Nat \ {0}
HelperApart == /\ None \notin Run /\ IsFiniteSet(Child)
               /\ Child \cap {"new", "loop", "asking", "steps", "thinking", "over"} = {}
PlanBounds == /\ MaxItems \in Nat /\ MaxSteps \in Nat /\ MaxWords \in Nat
              /\ MaxWords <= MaxItems /\ Fix \in Title
GateBounds == MaxChanges \in Nat
DetectorBounds == /\ MaxSize \in Nat \ {0} /\ MaxAttempts \in Nat \ {0}
                  /\ MaxMsgs \in Nat /\ MaxFailures \in Nat
TextBounds == IsFiniteSet(Tool) /\ MaxSegments \in Nat /\ MaxNative \in Nat

ASSUME DecisionsAssumption == /\ TalkBounds /\ LlmBounds /\ HelperApart /\ PlanBounds
                              /\ GateBounds /\ DetectorBounds /\ TextBounds

Init == /\ part \in {"conversation", "llm", "specialists", "planner", "gate",
                      "detectors", "mistakes", "text calls"}
        /\ part # "conversation" => style = "normal" /\ messages = <<Talk!Intent(0)>>
        /\ part # "llm" => kind = "openai"
        /\ part # "planner" => guarded = TRUE /\ mode = "react"
        /\ part # "gate" => godot = TRUE
        /\ part # "text calls" => reply = <<[kind |-> "marker"]>> /\ textNative = <<>>
        /\ Talk!Init
        /\ Llm!Init
        /\ Helpers!Init
        /\ Plans!Init
        /\ Gate!Init
        /\ Detectors!Init
        /\ Texts!Init

InTalk(A) == /\ part = "conversation" /\ A
             /\ UNCHANGED <<part, llmVars, helpersVars, plansVars, gateVars,
                            detectorsVars, textsVars>>
InLlm(A) == /\ part = "llm" /\ A
            /\ UNCHANGED <<part, talkVars, helpersVars, plansVars, gateVars,
                           detectorsVars, textsVars>>
InHelpers(A) == /\ part = "specialists" /\ A
                /\ UNCHANGED <<part, talkVars, llmVars, plansVars, gateVars,
                               detectorsVars, textsVars>>
InPlans(A) == /\ part = "planner" /\ A
              /\ UNCHANGED <<part, talkVars, llmVars, helpersVars, gateVars,
                             detectorsVars, textsVars>>
InGate(A) == /\ part = "gate" /\ A
             /\ UNCHANGED <<part, talkVars, llmVars, helpersVars, plansVars,
                            detectorsVars, textsVars>>
InDetectors(A) == /\ part = "detectors" /\ A
                  /\ UNCHANGED <<part, talkVars, llmVars, helpersVars, plansVars,
                                 gateVars, textsVars>>
InTexts(A) == /\ part = "text calls" /\ A
              /\ UNCHANGED <<part, talkVars, llmVars, helpersVars, plansVars,
                             gateVars, detectorsVars>>
InMistakes(A) == /\ part = "mistakes" /\ A
                 /\ UNCHANGED <<part, talkVars, llmVars, helpersVars, plansVars,
                                gateVars, textsVars>>

Next == \/ InTalk(Talk!Next)
        \/ InLlm(Llm!Next)
        \/ InHelpers(Helpers!Next)
        \/ InPlans(Plans!Next)
        \/ InGate(Gate!Next)
        \/ InDetectors(Detectors!Talk)
        \/ InTexts(Texts!Next)
        \/ InMistakes(Detectors!Fail)

Spec == Init /\ [][Next]_vars

(* Agents are interchangeable, and so are the runs.                        *)
Symmetric == Permutations(Agent) \cup Permutations(Run)

(* Conversation: a request has every call answered, and the intent.        *)
ConversationSound == Talk!RequestSound
(* LlmRequest: a call posts so many requests, and knows what it was told.  *)
RequestsSound == Llm!RequestsSound
(* LlmRequest: what a model was found unable to do is not forgotten.       *)
CacheSettles == Llm!CacheSettles
(* Specialists: tokens are counted once, what is lost has a culprit.       *)
SpecialistsSound == Helpers!SpecialistsSound
(* Planner and CompletionGate: the plan keeps what the model was told and  *)
(* what it claimed, and a run ends, or is sent back, for what was done.    *)
PlanSound == Plans!PlanSound /\ Gate!GateSound
(* LoopDetectors: a run is stopped for its own turns; mistakes are recent. *)
DetectorsSound == Detectors!DetectorsSound
(* TextCalls: what is read out of a text is what the text calls.           *)
TextCallsSound == Texts!TextCallsSound
=============================================================================
