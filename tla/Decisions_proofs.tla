------------------------------ MODULE Decisions_proofs ------------------------------
(***************************************************************************)
(* What an agent's loop decides: how it asks the model, what specialists   *)
(* do for it, what the plan holds, what a run has to pass before it ends   *)
(* and what ends one that goes round in circles. For any sets of agents,   *)
(* runs, children, titles, files and actions, and any bounds.              *)
(***************************************************************************)
EXTENDS MCDecisions, Iteration, FiniteSetTheorems, SequenceTheorems, TLAPS

-----------------------------------------------------------------------------
LlmCalls == /\ phase \in [Agent -> {"idle", "begin", "post", "again"}]
            /\ route \in [Agent -> 1..3]
            /\ try \in [Agent -> 1..Retries]
            /\ attempt \in [Agent -> 1..Attempts]
            /\ llmCalls \in [Agent -> Nat]
LlmRequests == /\ requests \in [Agent -> Nat]
               /\ late \in [Agent -> Nat]
LlmSwitches == /\ tools \in [Agent -> BOOLEAN]
               /\ disabled \in [Agent -> BOOLEAN]
               /\ media \in [Agent -> BOOLEAN]
               /\ llmNative \in [Agent -> BOOLEAN]
               /\ textOnly \in [Agent -> BOOLEAN]
               /\ stopped \in [Agent -> BOOLEAN]
               /\ answered \in [Agent -> {"none", "tools", "text"}]
LlmModel == /\ cache \in {"unknown", "yes", "no"}
            /\ kind \in {"openai", "gemini", "anthropic"}

(* The tries that are over: only the wrapper's route has more than one.    *)
LlmOver(r, t) == r + t - 2

(* A try posts its attempts, one request with less and one per image.      *)
LlmMost(n) == n * (Attempts + 2)
(* The posts of one agent at a point of its call.                          *)
LlmWithin(p, r, t, n, q) ==
    /\ p = "idle" => q = 0
    /\ p = "begin" => q <= LlmMost(LlmOver(r, t))
    /\ p = "post" => q <= LlmMost(LlmOver(r, t)) + n
    /\ p = "again" => q <= LlmMost(LlmOver(r, t)) + 1 + Attempts

(* After a stop each route has at most its attempts.                       *)
LlmAfter(p, s, r, n, l) ==
    /\ ~s => l = 0
    /\ p = "idle" => l = 0
    /\ p \in {"begin", "again"} => l <= (r - 1) * Attempts
    /\ p = "post" => l < (r - 1) * Attempts + n

LlmCounted(a) == /\ LlmWithin(phase[a], route[a], try[a], attempt[a], requests[a])
                 /\ LlmAfter(phase[a], stopped[a], route[a], attempt[a], late[a])

(* Between the calls, and before a try, nothing is left of the last one;   *)
(* only the wrapper's route has more than one try.                         *)
LlmFresh(a) ==
    /\ route[a] < 3 => try[a] = 1
    /\ phase[a] = "idle" => route[a] = 1 /\ try[a] = 1
    /\ phase[a] \in {"idle", "begin"} => attempt[a] = 1 /\ ~tools[a] /\ ~disabled[a]

(* Only the first route carries tools, and the loop is told when another   *)
(* was tried; an OpenAI request that was refused has lost them.            *)
LlmToolsKnown(a) ==
    /\ route[a] > 1 => textOnly[a] /\ ~tools[a]
    /\ phase[a] \in {"post", "again"} => tools[a] \/ disabled[a] \/ route[a] > 1
    /\ phase[a] = "again" /\ kind = "openai" => ~tools[a]
    /\ answered[a] = "text" => textOnly[a]

LlmTypes == LlmModel /\ LlmCalls /\ LlmRequests /\ LlmSwitches
LlmIInv == LlmTypes /\ \A a \in Agent : LlmCounted(a) /\ LlmFresh(a) /\ LlmToolsKnown(a)

LEMMA LlmInitInv == ASSUME LlmBounds, Llm!Init PROVE LlmIInv
<1> USE DEF LlmBounds, Llm!Init
<1>1. LlmTypes
  BY DEF LlmTypes, LlmModel, LlmCalls, LlmRequests, LlmSwitches
<1>2. ASSUME NEW a \in Agent PROVE LlmFresh(a) /\ LlmToolsKnown(a) /\ LlmCounted(a)
  BY DEF LlmFresh, LlmToolsKnown, LlmCounted, LlmWithin, LlmAfter
<1> QED BY <1>1, <1>2 DEF LlmIInv

-----------------------------------------------------------------------------
(* What is left for a try is enough for it.                                *)
LEMMA LlmMostGrows ==
    ASSUME LlmBounds, NEW n \in Nat
    PROVE  LlmMost(n) \in Nat /\ LlmMost(n + 1) = LlmMost(n) + Attempts + 2
BY DEF LlmBounds, LlmMost

LEMMA LlmMostOrdered ==
    ASSUME LlmBounds, NEW n \in Nat, NEW m \in Nat, n <= m
    PROVE  LlmMost(n) <= LlmMost(m)
<1> DEFINE k == Attempts + 2
<1>1. k \in Nat /\ m - n \in Nat /\ m = n + (m - n)
  BY DEF LlmBounds
<1>2. (m - n) * k \in Nat /\ m * k = n * k + (m - n) * k /\ n * k \in Nat
  BY <1>1
<1> QED BY <1>2 DEF LlmMost

(* A step of one agent keeps what holds of the others.                     *)
LlmSameOf(b) ==
    /\ phase'[b] = phase[b] /\ route'[b] = route[b] /\ try'[b] = try[b]
    /\ attempt'[b] = attempt[b] /\ tools'[b] = tools[b] /\ disabled'[b] = disabled[b]
    /\ textOnly'[b] = textOnly[b] /\ answered'[b] = answered[b] /\ stopped'[b] = stopped[b]
    /\ requests'[b] = requests[b] /\ late'[b] = late[b]

LEMMA LlmStepOfOne ==
    ASSUME LlmIInv, NEW a \in Agent, LlmTypes', kind' = kind,
           \A b \in Agent \ {a} : LlmSameOf(b),
           LlmCounted(a)', LlmFresh(a)', LlmToolsKnown(a)'
    PROVE  LlmIInv'
<1>1. ASSUME NEW b \in Agent PROVE LlmCounted(b)' /\ LlmFresh(b)' /\ LlmToolsKnown(b)'
  <2>1. CASE b = a
    BY <2>1
  <2>2. CASE b # a
    <3>1. LlmSameOf(b) /\ LlmCounted(b) /\ LlmFresh(b) /\ LlmToolsKnown(b)
      BY <2>2 DEF LlmIInv
    <3> QED BY <3>1 DEF LlmSameOf, LlmCounted, LlmFresh, LlmToolsKnown
  <2> QED BY <2>1, <2>2
<1> QED BY <1>1 DEF LlmIInv

LEMMA LlmTryingInv ==
    ASSUME LlmBounds, LlmIInv, NEW a \in Agent, Llm!ExecuteResilientLLMCall(a) \/
      Llm!Begin(a) \/ Llm!Stop(a)
    PROVE  LlmIInv'
<1> USE DEF LlmBounds
<1>1. LlmTypes /\ LlmCounted(a) /\ LlmFresh(a) /\ LlmToolsKnown(a)
  BY DEF LlmIInv
<1>2. CASE Llm!ExecuteResilientLLMCall(a)
  <2>1. LlmTypes' /\ kind' = kind
    BY <1>1, <1>2
       DEF Llm!ExecuteResilientLLMCall, LlmTypes, LlmModel, LlmCalls, LlmRequests,
           LlmSwitches
  <2>2. \A b \in Agent \ {a} : LlmSameOf(b)
    BY <1>1, <1>2
       DEF Llm!ExecuteResilientLLMCall, LlmTypes, LlmCalls, LlmRequests, LlmSwitches,
           LlmSameOf
  <2>3. phase'[a] = "begin" /\ answered'[a] = "none" /\ phase[a] = "idle"
    BY <1>1, <1>2 DEF Llm!ExecuteResilientLLMCall, LlmTypes, LlmCalls, LlmSwitches
  <2>4. LlmFresh(a)' /\ LlmToolsKnown(a)'
    BY <1>1, <1>2, <2>3 DEF Llm!ExecuteResilientLLMCall, LlmFresh, LlmToolsKnown
  <2>5. LlmCounted(a)'
    BY <1>1, <1>2, <2>3
       DEF Llm!ExecuteResilientLLMCall, LlmTypes, LlmCalls, LlmRequests, LlmFresh,
           LlmCounted, LlmWithin, LlmAfter, LlmOver, LlmMost
  <2> QED BY <2>1, <2>2, <2>4, <2>5, LlmStepOfOne
<1>3. CASE Llm!Begin(a)
  <2>1. LlmTypes' /\ kind' = kind
    BY <1>1, <1>3
       DEF Llm!Begin, Llm!describeImage, Llm!CarriesImages, LlmTypes, LlmModel, LlmCalls,
           LlmRequests, LlmSwitches
  <2>2. \A b \in Agent \ {a} : LlmSameOf(b)
    BY <1>1, <1>3
       DEF Llm!Begin, Llm!describeImage, LlmTypes, LlmCalls, LlmRequests, LlmSwitches,
           LlmSameOf
  <2>3. phase'[a] = "post" /\ phase[a] = "begin" /\ requests'[a] <= requests[a] + 1
    BY <1>1, <1>3 DEF Llm!Begin, Llm!describeImage, LlmTypes, LlmCalls, LlmRequests
  <2>4. tools'[a] = (route[a] = 1 /\ ~disabled'[a])
    BY <1>1, <1>3, Zenon DEF Llm!Begin, LlmTypes, LlmSwitches
  <2>5. LlmFresh(a)'
    BY <1>1, <1>3, <2>3 DEF Llm!Begin, LlmFresh, LlmTypes, LlmCalls
  <2>6. tools'[a] \/ disabled'[a] \/ route[a] > 1
    <3>1. route[a] = 1 \/ route[a] > 1
      BY <1>1 DEF LlmTypes, LlmCalls
    <3> QED BY <2>4, <3>1, Zenon
  <2>7. route[a] > 1 => ~tools'[a]
    <3>1. route[a] > 1 => route[a] # 1
      BY <1>1 DEF LlmTypes, LlmCalls
    <3> QED BY <2>4, <3>1, Zenon
  <2>8. LlmFresh(a)' /\ LlmToolsKnown(a)'
    BY <1>1, <1>3, <2>3, <2>5, <2>6, <2>7 DEF Llm!Begin, LlmToolsKnown
  <2>9. LlmCounted(a)'
    <3>1. LlmOver(route[a], try[a]) \in Nat
      BY <1>1 DEF LlmTypes, LlmCalls, LlmOver
    <3>2. LlmMost(LlmOver(route[a], try[a])) \in Nat
      BY <3>1, LlmMostGrows
    <3>3. LlmWithin(phase[a], route[a], try[a], attempt[a], requests[a])'
      BY <1>1, <1>3, <2>1, <2>3, <3>2
         DEF Llm!Begin, LlmTypes, LlmCalls, LlmRequests, LlmFresh, LlmCounted, LlmWithin
    <3>4. LlmAfter(phase[a], stopped[a], route[a], attempt[a], late[a])'
      BY <1>1, <1>3, <2>1, <2>3
         DEF Llm!Begin, LlmTypes, LlmCalls, LlmRequests, LlmFresh, LlmCounted, LlmAfter
    <3> QED BY <3>3, <3>4 DEF LlmCounted
  <2> QED BY <2>1, <2>2, <2>8, <2>9, LlmStepOfOne
<1>4. CASE Llm!Stop(a)
  <2>1. LlmTypes' /\ kind' = kind
    BY <1>1, <1>4 DEF Llm!Stop, LlmTypes, LlmModel, LlmCalls, LlmRequests, LlmSwitches
  <2>2. \A b \in Agent \ {a} : LlmSameOf(b)
    BY <1>1, <1>4 DEF Llm!Stop, LlmTypes, LlmSwitches, LlmSameOf
  <2>3. LlmFresh(a)' /\ LlmToolsKnown(a)' /\ LlmCounted(a)'
    BY <1>1, <1>4 DEF Llm!Stop, LlmFresh, LlmToolsKnown, LlmCounted, LlmAfter
  <2> QED BY <2>1, <2>2, <2>3, LlmStepOfOne
<1> QED BY <1>2, <1>3, <1>4

-----------------------------------------------------------------------------
(* What an answer to a post leads to.                                      *)
LlmDrops(a, words) ==
    /\ phase' = [phase EXCEPT ![a] = "again"]
    /\ llmNative' = [llmNative EXCEPT ![a] = @ /\ ~Llm!DropsImages(a, words)]
    /\ tools' = [tools EXCEPT ![a] = @ /\ ~Llm!DropsTools(a, words)]
    /\ disabled' = [disabled EXCEPT ![a] = @ \/ Llm!DropsTools(a, words)]
    /\ UNCHANGED <<route, try, attempt, textOnly, answered>>

LEMMA LlmRequestCases ==
    ASSUME LlmTypes, NEW a \in Agent, Llm!Request(a)
    PROVE  /\ phase[a] \in {"post", "again"} /\ LlmModel'
           /\ \/ Llm!Accepted(a)
              \/ \E words : Llm!Failed(a, words)
              \/ phase[a] = "post" /\ Llm!MorePosts(a) /\ Llm!PostAgain(a)
              \/ /\ phase[a] = "post" /\ ~stopped[a]
                 /\ \E words \in SUBSET Llm!Word :
                       /\ Llm!DropsTools(a, words) \/ Llm!DropsImages(a, words)
                       /\ LlmDrops(a, words)
<1>1. kind' = kind /\ LlmModel
  BY DEF Llm!Request, LlmTypes
<1>2. CASE phase[a] = "again"
  BY <1>1, <1>2 DEF Llm!Request, Llm!AnswerAgain, Llm!Accepted, Llm!LearnsTools, LlmModel
<1>3. ASSUME NEW words \in SUBSET Llm!Word, phase[a] = "post", ~stopped[a],
      Llm!Refused(a, words)
      PROVE  /\ LlmModel'
             /\ \/ Llm!Failed(a, words)
                \/ (Llm!DropsTools(a, words) \/ Llm!DropsImages(a, words)) /\ LlmDrops(a, words)
  BY <1>1, <1>3 DEF Llm!Refused, LlmDrops, LlmModel
<1>4. CASE phase[a] = "post" /\ kind = "openai"
  <2>1. Llm!OpenAIPost(a)
    BY <1>4 DEF Llm!Request, Llm!AnswerPost
  <2>2. CASE \E words \in SUBSET Llm!Word : ~stopped[a] /\ Llm!Refused(a, words)
    BY <1>3, <1>4, <2>2
  <2>3. CASE Llm!Accepted(a) \/ (Llm!LearnsTools(a) /\ Llm!Failed(a, {}))
    BY <1>1, <1>4, <2>3 DEF Llm!Accepted, Llm!LearnsTools, LlmModel
  <2>4. CASE (Llm!MorePosts(a) /\ Llm!PostAgain(a)) \/ (Llm!Failed(a, {}) /\ UNCHANGED cache)
    BY <1>1, <1>4, <2>4 DEF Llm!PostAgain, LlmModel
  <2> QED BY <2>1, <2>2, <2>3, <2>4 DEF Llm!OpenAIPost
<1>5. CASE phase[a] = "post" /\ kind = "gemini"
  <2>1. Llm!GeminiPost(a)
    BY <1>5 DEF Llm!Request, Llm!AnswerPost
  <2>2. CASE \E words \in SUBSET Llm!Word : ~stopped[a] /\ Llm!Refused(a, words)
    BY <1>3, <1>5, <2>2
  <2>3. CASE Llm!Accepted(a) \/ (Llm!Failed(a, {}) /\ UNCHANGED cache)
    BY <1>1, <1>5, <2>3 DEF Llm!Accepted, Llm!LearnsTools, LlmModel
  <2> QED BY <2>1, <2>2, <2>3 DEF Llm!GeminiPost
<1>6. CASE phase[a] = "post" /\ kind = "anthropic"
  BY <1>1, <1>6
     DEF Llm!Request, Llm!AnswerPost, Llm!AnthropicPost, Llm!Accepted, Llm!LearnsTools,
         LlmModel
<1> QED BY <1>1, <1>2, <1>4, <1>5, <1>6 DEF Llm!Request, LlmModel

(* A route's last try, or the end of the call: what was posted for the try *)
(* is within what one try posts.                                           *)
LEMMA LlmFailedInv ==
    ASSUME LlmBounds, LlmIInv, NEW a \in Agent, phase[a] # "idle", NEW words,
      Llm!Failed(a, words), LlmModel',
           UNCHANGED <<kind, media, stopped, llmCalls>>, LlmRequests',
           \A b \in Agent \ {a} : requests'[b] = requests[b] /\ late'[b] = late[b],
           phase'[a] = "idle" => requests'[a] = 0 /\ late'[a] = 0,
           requests'[a] <= LlmMost(LlmOver(route[a], try[a])) + Attempts + 2,
           late'[a] <= route[a] * Attempts, ~stopped[a] => late'[a] = 0
    PROVE  LlmIInv'
<1> USE DEF LlmBounds
<1>1. LlmTypes /\ LlmCounted(a) /\ LlmFresh(a) /\ LlmToolsKnown(a)
  BY DEF LlmIInv
<1>2. /\ attempt' \in [Agent -> 1..Attempts] /\ LlmRequests' /\ LlmModel'
      /\ \A b \in Agent \ {a} : /\ attempt'[b] = attempt[b] /\ tools'[b] = tools[b]
                               /\ disabled'[b] = disabled[b]
      /\ attempt'[a] = 1 /\ ~tools'[a] /\ ~disabled'[a]
  BY <1>1 DEF Llm!Failed, Llm!TryOver, LlmTypes, LlmCalls, LlmSwitches
<1>3. /\ tools' \in [Agent -> BOOLEAN] /\ disabled' \in [Agent -> BOOLEAN]
      /\ llmNative' \in [Agent -> BOOLEAN] /\ answered' = answered
  BY <1>1 DEF Llm!Failed, Llm!TryOver, LlmTypes, LlmSwitches
<1>4. LlmMost(LlmOver(route[a], try[a])) \in Nat /\ LlmOver(route[a], try[a]) \in Nat
  <2>1. LlmOver(route[a], try[a]) \in Nat
    BY <1>1 DEF LlmTypes, LlmCalls, LlmOver
  <2> QED BY <2>1, LlmMostGrows
<1>5. LlmMost(LlmOver(route[a], try[a]) + 1) = LlmMost(LlmOver(route[a], try[a])) + Attempts + 2
  BY <1>4, LlmMostGrows
<1>6. CASE /\ Llm!Retriable(a, words)
           /\ try' = [try EXCEPT ![a] = @ + 1]
           /\ phase' = [phase EXCEPT ![a] = "begin"]
           /\ UNCHANGED <<route, textOnly>>
  <2>1. LlmTypes'
    BY <1>1, <1>2, <1>3, <1>6 DEF Llm!Retriable, LlmTypes, LlmCalls, LlmSwitches
  <2>2. phase'[a] = "begin" /\ route'[a] = 3 /\ route[a] = 3 /\ try'[a] = try[a] + 1 /\
        ~stopped[a]
    BY <1>1, <1>6 DEF Llm!Retriable, LlmTypes, LlmCalls
  <2>3. \A b \in Agent \ {a} : LlmSameOf(b)
    BY <1>1, <1>2, <1>3, <1>6 DEF LlmTypes, LlmCalls, LlmSameOf
  <2>4. LlmFresh(a)' /\ LlmToolsKnown(a)'
    BY <1>1, <1>2, <1>3, <1>6, <2>2 DEF LlmFresh, LlmToolsKnown
  <2>5. LlmOver(route'[a], try'[a]) = LlmOver(route[a], try[a]) + 1
    BY <1>1, <2>2 DEF LlmOver, LlmTypes, LlmCalls
  <2>6. LlmCounted(a)'
    BY <1>1, <1>2, <1>4, <1>5, <2>2, <2>5 DEF LlmCounted, LlmWithin, LlmAfter
  <2> QED BY <2>1, <2>3, <2>4, <2>6, LlmStepOfOne
<1>7. CASE /\ route[a] < 3
           /\ route' = [route EXCEPT ![a] = @ + 1] /\ try' = [try EXCEPT ![a] = 1]
           /\ phase' = [phase EXCEPT ![a] = "begin"]
           /\ textOnly' = [textOnly EXCEPT ![a] = TRUE]
  <2>1. LlmTypes'
    BY <1>1, <1>2, <1>3, <1>7 DEF LlmTypes, LlmCalls, LlmSwitches
  <2>2. phase'[a] = "begin" /\ route'[a] = route[a] + 1 /\ try[a] = 1 /\ try'[a] = 1 /\
        textOnly'[a]
    BY <1>1, <1>7 DEF LlmTypes, LlmCalls, LlmSwitches, LlmFresh
  <2>3. \A b \in Agent \ {a} : LlmSameOf(b)
    BY <1>1, <1>2, <1>3, <1>7 DEF LlmTypes, LlmCalls, LlmSwitches, LlmSameOf
  <2>4. LlmFresh(a)' /\ LlmToolsKnown(a)'
    BY <1>1, <1>2, <1>3, <2>2 DEF LlmFresh, LlmToolsKnown
  <2>5. LlmOver(route'[a], try'[a]) = LlmOver(route[a], try[a]) + 1
    BY <1>1, <2>2 DEF LlmOver, LlmTypes, LlmCalls
  <2>6. (route'[a] - 1) * Attempts = route[a] * Attempts
    BY <1>1, <2>2 DEF LlmTypes, LlmCalls
  <2>7. LlmCounted(a)'
    BY <1>1, <1>2, <1>4, <1>5, <2>2, <2>5, <2>6 DEF LlmCounted, LlmWithin, LlmAfter
  <2> QED BY <2>1, <2>3, <2>4, <2>7, LlmStepOfOne
<1>8. CASE Llm!CallOver(a) /\ textOnly' = textOnly
  <2>1. LlmTypes'
    BY <1>1, <1>2, <1>3, <1>8 DEF Llm!CallOver, LlmTypes, LlmCalls, LlmSwitches
  <2>2. phase'[a] = "idle" /\ route'[a] = 1 /\ try'[a] = 1
    BY <1>1, <1>8 DEF Llm!CallOver, LlmTypes, LlmCalls
  <2>3. \A b \in Agent \ {a} : LlmSameOf(b)
    BY <1>1, <1>2, <1>3, <1>8 DEF Llm!CallOver, LlmTypes, LlmCalls, LlmSameOf
  <2>4. LlmFresh(a)' /\ LlmToolsKnown(a)' /\ LlmCounted(a)'
    BY <1>1, <1>2, <1>3, <1>8, <2>2
       DEF LlmFresh, LlmToolsKnown, LlmCounted, LlmWithin, LlmAfter
  <2> QED BY <2>1, <2>3, <2>4, LlmStepOfOne
<1> QED BY <1>6, <1>7, <1>8 DEF Llm!Failed

-----------------------------------------------------------------------------
LEMMA LlmRequestInv ==
    ASSUME LlmBounds, LlmIInv, NEW a \in Agent, Llm!Request(a)
    PROVE  LlmIInv'
<1> USE DEF LlmBounds
<1>1. LlmTypes /\ LlmCounted(a) /\ LlmFresh(a) /\ LlmToolsKnown(a)
  BY DEF LlmIInv
<1>2. /\ phase[a] \in {"post", "again"} /\ LlmModel'
      /\ Llm!Posted(a) /\ UNCHANGED <<kind, media, stopped, llmCalls>>
  BY <1>1, LlmRequestCases DEF Llm!Request
<1>3. /\ LlmRequests' /\ \A b \in Agent \ {a} : requests'[b] = requests[b] /\ late'[b] = late[b]
      /\ phase'[a] = "idle" => requests'[a] = 0 /\ late'[a] = 0
      /\ phase'[a] # "idle" => /\ requests'[a] = requests[a] + 1
                               /\ late'[a] = IF stopped[a] THEN late[a] + 1 ELSE late[a]
  BY <1>1, <1>2 DEF Llm!Posted, LlmTypes, LlmRequests
<1>4. LlmMost(LlmOver(route[a], try[a])) \in Nat
  <2>1. LlmOver(route[a], try[a]) \in Nat
    BY <1>1 DEF LlmTypes, LlmCalls, LlmOver
  <2> QED BY <2>1, LlmMostGrows
<1>5. ASSUME NEW words, Llm!Failed(a, words) PROVE LlmIInv'
  <2>1. requests'[a] <= LlmMost(LlmOver(route[a], try[a])) + Attempts + 2
    BY <1>1, <1>2, <1>3, <1>4 DEF LlmCounted, LlmWithin, LlmTypes, LlmCalls, LlmRequests
  <2>2. late'[a] <= route[a] * Attempts /\ (~stopped[a] => late'[a] = 0)
    <3>1. CASE route[a] = 1
      BY <1>1, <1>2, <1>3, <3>1 DEF LlmCounted, LlmAfter, LlmTypes, LlmCalls, LlmRequests
    <3>2. CASE route[a] = 2
      BY <1>1, <1>2, <1>3, <3>2 DEF LlmCounted, LlmAfter, LlmTypes, LlmCalls, LlmRequests
    <3>3. CASE route[a] = 3
      BY <1>1, <1>2, <1>3, <3>3 DEF LlmCounted, LlmAfter, LlmTypes, LlmCalls, LlmRequests
    <3> QED BY <1>1, <3>1, <3>2, <3>3 DEF LlmTypes, LlmCalls
  <2> QED BY <1>2, <1>3, <1>5, <2>1, <2>2, LlmFailedInv
<1>6. CASE Llm!Accepted(a)
  <2>1. attempt' \in [Agent -> 1..Attempts] /\ LlmCalls'
    BY <1>1, <1>2, <1>6 DEF Llm!Accepted, Llm!CallOver, Llm!TryOver, LlmTypes, LlmCalls
  <2>2. LlmSwitches'
    BY <1>1, <1>2, <1>6 DEF Llm!Accepted, Llm!TryOver, LlmTypes, LlmSwitches
  <2>3. \A b \in Agent \ {a} : LlmSameOf(b)
    BY <1>1, <1>2, <1>3, <1>6
       DEF Llm!Accepted, Llm!CallOver, Llm!TryOver, LlmTypes, LlmCalls, LlmSwitches,
           LlmSameOf
  <2>4. /\ phase'[a] = "idle" /\ route'[a] = 1 /\ try'[a] = 1 /\ attempt'[a] = 1
        /\ ~tools'[a] /\ ~disabled'[a]
    BY <1>1, <1>6
       DEF Llm!Accepted, Llm!CallOver, Llm!TryOver, LlmTypes, LlmCalls, LlmSwitches
  <2>5. answered'[a] = "text" => textOnly'[a]
    <3>1. textOnly'[a] = (textOnly[a] \/ disabled[a]) /\
          answered'[a] = IF tools[a] THEN "tools" ELSE "text"
      BY <1>1, <1>6 DEF Llm!Accepted, LlmTypes, LlmSwitches
    <3> QED BY <1>1, <1>2, <3>1 DEF LlmToolsKnown, LlmTypes, LlmCalls
  <2>6. LlmFresh(a)' /\ LlmToolsKnown(a)' /\ LlmCounted(a)'
    BY <1>3, <2>4, <2>5 DEF LlmFresh, LlmToolsKnown, LlmCounted, LlmWithin, LlmAfter
  <2> QED BY <1>2, <1>3, <2>1, <2>2, <2>3, <2>6, LlmStepOfOne DEF LlmTypes
<1>7. CASE phase[a] = "post" /\ Llm!MorePosts(a) /\ Llm!PostAgain(a)
  <2>1. LlmCalls' /\ LlmSwitches'
    BY <1>1, <1>2, <1>7 DEF Llm!MorePosts, Llm!PostAgain, LlmTypes, LlmCalls, LlmSwitches
  <2>2. \A b \in Agent \ {a} : LlmSameOf(b)
    BY <1>1, <1>2, <1>3, <1>7 DEF Llm!PostAgain, LlmTypes, LlmCalls, LlmSameOf
  <2>3. phase'[a] = "post" /\ attempt'[a] = attempt[a] + 1
    BY <1>1, <1>7 DEF Llm!PostAgain, LlmTypes, LlmCalls
  <2>4. LlmFresh(a)' /\ LlmToolsKnown(a)'
    BY <1>1, <1>2, <1>7, <2>3 DEF Llm!PostAgain, LlmFresh, LlmToolsKnown
  <2>5. (route[a] - 1) * Attempts \in Nat
    BY <1>1 DEF LlmTypes, LlmCalls
  <2>6. LlmWithin(phase[a], route[a], try[a], attempt[a], requests[a])'
    BY <1>1, <1>3, <1>4, <1>7, <2>3
       DEF Llm!PostAgain, LlmCounted, LlmWithin, LlmTypes, LlmCalls, LlmRequests
  <2>7. LlmAfter(phase[a], stopped[a], route[a], attempt[a], late[a])'
    BY <1>1, <1>2, <1>3, <1>7, <2>3, <2>5
       DEF Llm!PostAgain, LlmCounted, LlmAfter, LlmTypes, LlmCalls, LlmRequests
  <2> QED BY <1>2, <1>3, <2>1, <2>2, <2>4, <2>6, <2>7, LlmStepOfOne DEF LlmTypes, LlmCounted
<1>8. ASSUME NEW words \in SUBSET Llm!Word, phase[a] = "post", ~stopped[a],
             Llm!DropsTools(a, words) \/ Llm!DropsImages(a, words), LlmDrops(a, words)
      PROVE  LlmIInv'
  <2>1. LlmCalls' /\ LlmSwitches'
    BY <1>1, <1>2, <1>8 DEF LlmDrops, LlmTypes, LlmCalls, LlmSwitches
  <2>2. \A b \in Agent \ {a} : LlmSameOf(b)
    BY <1>1, <1>2, <1>3, <1>8 DEF LlmDrops, LlmTypes, LlmCalls, LlmSwitches, LlmSameOf
  <2>3. /\ phase'[a] = "again" /\ route'[a] = route[a] /\ try'[a] = try[a] /\
           textOnly'[a] = textOnly[a]
        /\ answered'[a] = answered[a] /\ stopped'[a] = stopped[a]
    BY <1>2, <1>1, <1>8 DEF LlmDrops, LlmTypes, LlmCalls
  <2>4. /\ tools'[a] = (tools[a] /\ ~Llm!DropsTools(a, words))
        /\ disabled'[a] = (disabled[a] \/ Llm!DropsTools(a, words))
    BY <1>1, <1>8, Zenon DEF LlmDrops, LlmTypes, LlmSwitches
  <2>5. LlmFresh(a)'
    BY <1>1, <2>3 DEF LlmFresh, LlmTypes, LlmCalls
  <2>6. kind = "openai" => ~tools'[a]
    <3>1. CASE Llm!DropsTools(a, words)
      BY <2>4, <3>1
    <3>2. CASE ~Llm!Streams(a) /\ kind = "openai"
      <4>1. ~tools[a]
        BY <1>1, <3>2 DEF Llm!Streams, LlmToolsKnown, LlmTypes, LlmCalls
      <4> QED BY <2>4, <4>1
    <3> QED BY <1>8, <3>1, <3>2 DEF Llm!DropsImages
  <2>7. LlmToolsKnown(a)'
    BY <1>1, <1>2, <1>8, <2>3, <2>4, <2>6 DEF LlmToolsKnown
  <2>8. (route[a] - 1) * Attempts \in Nat
    BY <1>1 DEF LlmTypes, LlmCalls
  <2>9. LlmCounted(a)'
    BY <1>1, <1>3, <1>4, <1>8, <2>3, <2>8
       DEF LlmCounted, LlmWithin, LlmAfter, LlmTypes, LlmCalls, LlmRequests
  <2> QED BY <1>2, <1>3, <2>1, <2>2, <2>5, <2>7, <2>9, LlmStepOfOne DEF LlmTypes
<1> QED BY <1>1, <1>5, <1>6, <1>7, <1>8, LlmRequestCases

LEMMA LlmGiveUpInv ==
    ASSUME LlmBounds, LlmIInv, NEW a \in Agent, Llm!GiveUp(a)
    PROVE  LlmIInv'
<1> USE DEF LlmBounds
<1>1. LlmTypes /\ LlmCounted(a) /\ LlmFresh(a)
  BY DEF LlmIInv
<1>2. LlmRequests' /\ LlmModel' /\ requests'[a] = 0 /\ late'[a] = 0
  BY <1>1 DEF Llm!GiveUp, LlmTypes, LlmRequests, LlmModel
<1>3. \A b \in Agent \ {a} : requests'[b] = requests[b] /\ late'[b] = late[b]
  BY <1>1 DEF Llm!GiveUp, LlmTypes, LlmRequests
<1>4. LlmOver(route[a], try[a]) \in Nat /\ route[a] * Attempts \in Nat
  BY <1>1 DEF LlmTypes, LlmCalls, LlmOver
<1>5. LlmMost(LlmOver(route[a], try[a])) \in Nat
  BY <1>4, LlmMostGrows
<1> QED BY <1>2, <1>3, <1>4, <1>5, LlmFailedInv DEF Llm!GiveUp

LEMMA LlmStepInv == ASSUME LlmBounds, LlmIInv, [Llm!Next]_(Llm!vars) PROVE LlmIInv'
<1>1. CASE UNCHANGED Llm!vars
  BY <1>1
     DEF Llm!vars, LlmIInv, LlmTypes, LlmModel, LlmCalls, LlmRequests, LlmSwitches,
         LlmCounted, LlmFresh, LlmToolsKnown
<1> QED BY <1>1, LlmTryingInv, LlmRequestInv, LlmGiveUpInv DEF Llm!Next

-----------------------------------------------------------------------------
(* However the retries nest, a call posts no more than its routes have     *)
(* tries, and a stopped one no more than their attempts.                   *)
LEMMA LlmIInvBounded == ASSUME LlmBounds, LlmIInv PROVE Llm!RequestsSound
<1> USE DEF LlmBounds
<1>1. LlmTypes
  BY DEF LlmIInv
<1>2. Llm!TypeOK
  BY <1>1 DEF Llm!TypeOK, LlmTypes, LlmModel, LlmCalls
<1>3. Llm!TextOnlyIsKnown
  BY DEF LlmIInv, LlmToolsKnown, Llm!TextOnlyIsKnown
<1>4. ASSUME NEW a \in Agent, phase[a] \in {"post", "again"}
      PROVE  /\ requests[a] < (2 + Retries) * (Attempts + 2)
             /\ stopped[a] => late[a] < 3 * Attempts
  <2>1. LlmCounted(a)
    BY DEF LlmIInv
  <2>2. LlmOver(route[a], try[a]) \in Nat /\ LlmOver(route[a], try[a]) <= Retries + 1
    BY <1>1 DEF LlmTypes, LlmCalls, LlmOver
  <2>3. /\ LlmMost(LlmOver(route[a], try[a])) <= LlmMost(Retries + 1) /\
           LlmMost(LlmOver(route[a], try[a])) \in Nat
        /\ LlmMost(Retries + 1) \in Nat /\
           LlmMost(Retries + 2) = LlmMost(Retries + 1) + Attempts + 2
    BY <2>2, LlmMostOrdered, LlmMostGrows
  <2>4. requests[a] < LlmMost(Retries + 2)
    BY <1>1, <1>4, <2>1, <2>3 DEF LlmCounted, LlmWithin, LlmTypes, LlmCalls, LlmRequests
  <2>5. LlmMost(Retries + 2) = (2 + Retries) * (Attempts + 2)
    BY DEF LlmMost
  <2>6. late[a] < 3 * Attempts
    <3>1. CASE route[a] = 1
      BY <1>1, <1>4, <2>1, <3>1 DEF LlmCounted, LlmAfter, LlmTypes, LlmCalls, LlmRequests
    <3>2. CASE route[a] = 2
      BY <1>1, <1>4, <2>1, <3>2 DEF LlmCounted, LlmAfter, LlmTypes, LlmCalls, LlmRequests
    <3>3. CASE route[a] = 3
      BY <1>1, <1>4, <2>1, <3>3 DEF LlmCounted, LlmAfter, LlmTypes, LlmCalls, LlmRequests
    <3> QED BY <1>1, <3>1, <3>2, <3>3 DEF LlmTypes, LlmCalls
  <2> QED BY <2>4, <2>5, <2>6
<1>5. Llm!RequestsBounded
  BY <1>4 DEF Llm!RequestsBounded
<1> QED BY <1>2, <1>3, <1>5 DEF Llm!RequestsSound

(* Only an agent that learns of tools by an answer makes the cache forget, *)
(* and by the invariant it has its tools on the first post of a request.   *)
LEMMA LlmStepSettles ==
    ASSUME LlmIInv, [Llm!Next]_(Llm!vars), cache = "no", cache' # "no"
    PROVE  \E a \in Agent : tools[a] /\ phase[a] = "post"
<1>1. PICK a \in Agent : Llm!Request(a)
  BY DEF Llm!Next, Llm!vars, Llm!ExecuteResilientLLMCall, Llm!Begin, Llm!GiveUp, Llm!Stop
<1>2. kind = "openai" /\ tools[a]
  BY <1>1
     DEF Llm!Request, Llm!AnswerPost, Llm!AnswerAgain, Llm!OpenAIPost, Llm!GeminiPost,
         Llm!AnthropicPost, Llm!Accepted, Llm!LearnsTools, Llm!Refused, Llm!PostAgain
<1>3. phase[a] = "post"
  BY <1>1, <1>2 DEF Llm!Request, LlmIInv, LlmToolsKnown
<1> QED BY <1>2, <1>3

(* However the retries nest, a call posts no more than the tries of its    *)
(* routes, and the loop knows when the model has answered without tools.   *)
THEOREM LlmRequestsAreBounded == ASSUME LlmBounds PROVE Llm!Spec => []Llm!RequestsSound
<1>1. Llm!Init => LlmIInv
  BY LlmInitInv
<1>2. LlmIInv /\ [Llm!Next]_(Llm!vars) => LlmIInv'
  BY LlmStepInv
<1>3. LlmIInv => Llm!RequestsSound
  BY LlmIInvBounded
<1> QED BY <1>1, <1>2, <1>3, PTL DEF Llm!Spec

(* What was learnt of a model is forgotten only because of a request that  *)
(* was already under way with its tools.                                   *)
THEOREM LlmCacheIsSettled == ASSUME LlmBounds PROVE Llm!Spec => Llm!CacheSettles
<1>1. Llm!Init => LlmIInv
  BY LlmInitInv
<1>2. LlmIInv /\ [Llm!Next]_(Llm!vars) => LlmIInv'
  BY LlmStepInv
<1>3. LlmIInv /\ [Llm!Next]_(Llm!vars) =>
        [cache = "no" /\ cache' # "no" => \E a \in Agent : tools[a] /\
          phase[a] = "post"]_(Llm!vars)
  BY LlmStepSettles
<1> QED BY <1>1, <1>2, <1>3, PTL DEF Llm!Spec, Llm!CacheSettles

(* The composition runs the requests to a model as it is specified: the    *)
(* other parts leave its variables alone.                                  *)
LEMMA LlmRuns == Spec => Llm!Spec
<1>1. Init => Llm!Init
  BY DEF Init
<1>2. ASSUME [Next]_vars PROVE [Llm!Next]_(Llm!vars)
  <2>1. CASE InLlm(Llm!Next)
    BY <2>1 DEF InLlm
  <2>2. UNCHANGED llmVars => UNCHANGED Llm!vars
    BY DEF llmVars, Llm!vars
  <2>3. ~InLlm(Llm!Next) => UNCHANGED llmVars
    BY <1>2 DEF Next, vars, InTalk, InHelpers, InPlans, InGate, InDetectors, InTexts,
                InMistakes
  <2> QED BY <2>1, <2>2, <2>3
<1> QED BY <1>1, <1>2, PTL DEF Spec, Llm!Spec

(* A call to a model posts so many requests, at most one per attempt after *)
(* it was told to stop, and never offers tools to a model it knows to be   *)
(* without (provider.go, openai.go).                                       *)
THEOREM DecisionsBoundRequests == Spec => []RequestsSound
<1>1. LlmBounds
  BY DecisionsAssumption
<1>2. Llm!Spec => []Llm!RequestsSound
  BY <1>1, LlmRequestsAreBounded
<1> QED BY <1>2, LlmRuns, PTL DEF RequestsSound

(* What was learnt of a model is forgotten only because of a request that  *)
(* was under way with its tools.                                           *)
THEOREM DecisionsCacheSettles == Spec => CacheSettles
<1>1. LlmBounds
  BY DecisionsAssumption
<1>2. Llm!Spec => Llm!CacheSettles
  BY <1>1, LlmCacheIsSettled
<1> QED BY <1>2, LlmRuns, PTL DEF CacheSettles

-----------------------------------------------------------------------------
-----------------------------------------------------------------------------
HelperWhere == {"new", "loop", "asking", "steps", "thinking", "over"} \cup Child
HelperRuns == /\ entry \in Run \cup {None}
              /\ specAt \in [Run -> HelperWhere]
              /\ specCalls \in Nat /\ specTurns \in [Run -> Nat]
              /\ cancelled \subseteq Run
HelperBrowsers == /\ cached \in Run \cup {None}
                  /\ specOf \in [Run -> Run \cup {None}]
                  /\ session \in [Run -> Run \cup {None}]
                  /\ page \in [Run -> Run \cup {None}]
                  /\ url \in [Run -> Run \cup {None}]
                  /\ adrift \subseteq Run
HelperChildren == /\ spent \in [Run -> [Child -> Nat]]
                  /\ recorded \in [Run -> Nat]
                  /\ begun \in [Run -> SUBSET Child]
                  /\ again \subseteq Run /\ tree \subseteq Run
                  /\ undone \subseteq Run /\ failed \subseteq Run
HelperTypes == HelperRuns /\ HelperBrowsers /\ HelperChildren

(* A run gets its browser when it starts; the one that made an instance    *)
(* has it too, and the last that was handed it is the one it calls back.   *)
HelperHanded == /\ \A r \in Run : specOf[r] = None <=> specAt[r] = "new"
                /\ \A r \in Run : specOf[r] # None => specOf[specOf[r]] = specOf[r]
                /\ \A r \in Run : specOf[r] # None => session[specOf[r]] # None /\
                   specOf[session[specOf[r]]] = specOf[r]
                /\ cached # None => specOf[cached] = cached
(* An instance that calls back the run that made it was handed to no other.*)
HelperMakerIsAlone == \A i \in Run : session[i] = i => \A q \in Run : specOf[q] = i => q = i
(* A page shows, and a session keeps, the address of a run of one browser; *)
(* while a run works on a page that was not closed, there is one.          *)
HelperPagesAreShared ==
    /\ \A i \in Run : page[i] # None => specOf[page[i]] = i
    /\ \A r \in Run : url[r] # None => specOf[r] # None /\ specOf[url[r]] = specOf[r]
    /\ \A r \in Run : specOf[r] = r => url[r] \in {None, r}

HelperShared == HelperHanded /\ HelperMakerIsAlone /\ HelperPagesAreShared

(* What a child under way has yet to hand over, when it was called once.   *)
HelperUnderway(r) == IF specAt[r] \in Child THEN spent[r][specAt[r]] ELSE 0
HelperOwed(r) == Cardinality(Helpers!Tokens(r))
HelperTokensKept == \A r \in Run :
    /\ IsFiniteSet(Helpers!Tokens(r))
    /\ r \notin again =>
       /\ \A c \in Child : spent[r][c] > 0 => c \in begun[r]
       /\ specAt[r] \in Child => specAt[r] \in begun[r]
       /\ recorded[r] + HelperUnderway(r) <= HelperOwed(r)
       /\ r \notin failed => recorded[r] + HelperUnderway(r) = HelperOwed(r)

HelperIInv == HelperTypes /\ HelperShared /\ HelperTokensKept /\ Helpers!LossesHaveACulprit

LEMMA HelperInitInv == ASSUME HelperApart, Helpers!Init PROVE HelperIInv
<1> USE DEF HelperApart, Helpers!Init
<1>1. HelperTypes
  BY DEF HelperTypes, HelperRuns, HelperBrowsers, HelperChildren, HelperWhere
<1>2. HelperShared
  BY DEF HelperShared, HelperHanded, HelperMakerIsAlone, HelperPagesAreShared
<1>3. ASSUME NEW r \in Run PROVE HelperOwed(r) = 0 /\ HelperUnderway(r) = 0 /\
      IsFiniteSet(Helpers!Tokens(r))
  <2>1. Helpers!Tokens(r) = {}
    BY DEF Helpers!Tokens
  <2>2. HelperOwed(r) = 0 /\ IsFiniteSet(Helpers!Tokens(r))
    BY <2>1, FS_EmptySet DEF HelperOwed
  <2>3. specAt[r] \notin Child
    OBVIOUS
  <2> QED BY <2>2, <2>3 DEF HelperUnderway
<1>4. HelperTokensKept /\ Helpers!LossesHaveACulprit
  BY <1>3 DEF HelperTokensKept, Helpers!LossesHaveACulprit
<1> QED BY <1>1, <1>2, <1>4 DEF HelperIInv

-----------------------------------------------------------------------------
(* Steps that leave the browsers, or the children's tokens, as they are.   *)
LEMMA HelperSharedFrame ==
    ASSUME HelperShared, UNCHANGED <<cached, specOf, session, page, url>>,
           \A r \in Run : specAt'[r] = "new" <=> specAt[r] = "new"
    PROVE  HelperShared'
<1>1. HelperHanded'
  BY DEF HelperShared, HelperHanded
<1>2. HelperMakerIsAlone'
  BY DEF HelperShared, HelperMakerIsAlone
<1>3. HelperPagesAreShared'
  BY DEF HelperShared, HelperPagesAreShared
<1> QED BY <1>1, <1>2, <1>3 DEF HelperShared

LEMMA HelperTokensFrame ==
    ASSUME HelperTokensKept, UNCHANGED <<spent, recorded, begun, again, failed>>,
           \A r \in Run : specAt'[r] \in Child \/ specAt[r] \in Child => specAt'[r] = specAt[r]
    PROVE  HelperTokensKept'
<1>1. ASSUME NEW r \in Run PROVE HelperOwed(r)' = HelperOwed(r) /\
      HelperUnderway(r)' = HelperUnderway(r) /\ Helpers!Tokens(r)' = Helpers!Tokens(r)
  BY DEF HelperOwed, Helpers!Tokens, HelperUnderway
<1> QED BY <1>1 DEF HelperTokensKept

(* What the loops and the reasoning agent do.                              *)
LEMMA HelperLoopInv ==
    ASSUME HelperApart, HelperIInv, NEW r \in Run,
           Helpers!Return(r) \/ Helpers!Edit(r) \/ Helpers!Browse(r) \/ Helpers!NoPage(r) \/
             Helpers!Reason(r) \/ Helpers!Round(r) \/ Helpers!RoundFails(r)
    PROVE  HelperIInv'
<1>1. HelperTypes /\ HelperShared /\ HelperTokensKept /\ Helpers!LossesHaveACulprit
  BY DEF HelperIInv
<1>2. UNCHANGED <<cached, specOf, session, page, url, adrift>>
  BY DEF Helpers!Return, Helpers!Edit, Helpers!Browse, Helpers!NoPage, Helpers!Reason,
         Helpers!Round, Helpers!RoundFails, Helpers!browserVars
<1>3. UNCHANGED <<spent, recorded, begun, again, undone, failed>>
  BY DEF Helpers!Return, Helpers!Edit, Helpers!Browse, Helpers!NoPage, Helpers!Reason,
         Helpers!Round, Helpers!RoundFails, Helpers!childVars
<1>4. /\ specAt[r] \in {"loop", "asking", "thinking"} /\
         specAt'[r] \in {"loop", "asking", "thinking", "over"}
      /\ specAt' \in [Run -> HelperWhere] /\ \A q \in Run \ {r} : specAt'[q] = specAt[q]
  BY <1>1
     DEF Helpers!Return, Helpers!Edit, Helpers!Browse, Helpers!NoPage, Helpers!Reason,
         Helpers!Round, Helpers!RoundFails, Helpers!Called, Helpers!Report, Helpers!Go,
         HelperTypes, HelperRuns, HelperWhere
<1>5. entry' \in Run \cup {None} /\ specCalls' \in Nat /\ specTurns' \in [Run -> Nat] /\
      cancelled' \subseteq Run
  BY <1>1
     DEF Helpers!Return, Helpers!Edit, Helpers!Browse, Helpers!NoPage, Helpers!Reason,
         Helpers!Round, Helpers!RoundFails, Helpers!Called, Helpers!Report, HelperTypes,
         HelperRuns
<1>6. tree' \subseteq Run
  BY <1>1
     DEF Helpers!Return, Helpers!Edit, Helpers!Browse, Helpers!NoPage, Helpers!Reason,
         Helpers!Round, Helpers!RoundFails, Helpers!childVars, HelperTypes, HelperChildren
<1>7. HelperTypes'
  BY <1>1, <1>2, <1>3, <1>4, <1>5, <1>6
     DEF HelperTypes, HelperRuns, HelperBrowsers, HelperChildren
<1>8. HelperShared'
  <2>1. \A q \in Run : specAt'[q] = "new" <=> specAt[q] = "new"
    BY <1>4
  <2> QED BY <1>1, <1>2, <2>1, HelperSharedFrame
<1>9. HelperTokensKept'
  <2>1. \A q \in Run : specAt'[q] \in Child \/ specAt[q] \in Child => specAt'[q] = specAt[q]
    BY <1>4 DEF HelperApart
  <2> QED BY <1>1, <1>3, <2>1, HelperTokensFrame
<1>10. Helpers!LossesHaveACulprit'
  BY <1>1, <1>3 DEF Helpers!LossesHaveACulprit
<1> QED BY <1>7, <1>8, <1>9, <1>10 DEF HelperIInv

-----------------------------------------------------------------------------
(* What runs, stops and steps do to the browsers.                          *)
LEMMA HelperBrowserInv ==
    ASSUME HelperApart, HelperIInv, HelperTypes', HelperShared', UNCHANGED Helpers!childVars,
           \A r \in Run : specAt'[r] \in Child \/ specAt[r] \in Child => specAt'[r] = specAt[r]
    PROVE  HelperIInv'
<1>1. HelperTokensKept'
  BY HelperTokensFrame DEF HelperIInv, Helpers!childVars
<1> QED BY <1>1 DEF HelperIInv, Helpers!LossesHaveACulprit, Helpers!childVars

LEMMA HelperStartInv == ASSUME HelperApart, HelperIInv, NEW r \in Run, Helpers!StartAgent(r)
    PROVE HelperIInv'
<1>1. HelperTypes /\ HelperShared
  BY DEF HelperIInv
<1>2. /\ specAt[r] = "new" /\ specAt' = [specAt EXCEPT ![r] = "loop"] /\
         specOf' = [specOf EXCEPT ![r] = cached']
      /\ cached' = IF cached = None THEN r ELSE cached
      /\ session' = [session EXCEPT ![cached'] = r] /\
         UNCHANGED <<page, url, adrift, cancelled, specCalls, specTurns>>
      /\ entry' = r /\ UNCHANGED Helpers!childVars
  BY DEF Helpers!StartAgent, Helpers!Go
<1>3. cached' \in Run
  BY <1>1, <1>2 DEF HelperTypes, HelperBrowsers
<1>4. HelperTypes'
  BY <1>1, <1>2, <1>3
     DEF HelperTypes, HelperRuns, HelperBrowsers, HelperChildren, HelperWhere,
         Helpers!childVars
<1>5. /\ specOf[r] = None /\ specOf'[r] = cached' /\ \A q \in Run \ {r} : specOf'[q] = specOf[q]
      /\ session'[cached'] = r /\ \A i \in Run \ {cached'} : session'[i] = session[i]
      /\ specAt'[r] = "loop" /\ \A q \in Run \ {r} : specAt'[q] = specAt[q]
  BY <1>1, <1>2, <1>3
     DEF HelperTypes, HelperRuns, HelperBrowsers, HelperShared, HelperHanded
<1>6. ASSUME cached = None PROVE HelperShared'
  <2>1. cached' = r
    BY <1>2, <1>6
  (* Nothing was ever done with an instance that is only made now.         *)
  <2>2. \A q \in Run : specOf[q] # r
    BY <1>1, <1>5 DEF HelperShared, HelperHanded, HelperTypes, HelperBrowsers, HelperApart
  <2>3. page[r] = None /\ url[r] = None
    BY <1>1, <1>5, <2>2 DEF HelperShared, HelperPagesAreShared, HelperTypes, HelperBrowsers
  <2>4. HelperHanded'
    BY <1>1, <1>3, <1>5, <2>1, <2>2
       DEF HelperShared, HelperHanded, HelperTypes, HelperBrowsers, HelperApart
  <2>5. HelperMakerIsAlone'
    BY <1>1, <1>5, <2>1, <2>2 DEF HelperShared, HelperMakerIsAlone
  <2>6. HelperPagesAreShared /\ page' = page /\ url' = url
    BY <1>1, <1>2 DEF HelperShared
  <2>7. \A i \in Run : page[i] # None => page[i] # r /\ i # r
    BY <1>1, <1>5, <2>3, <2>6
       DEF HelperPagesAreShared, HelperTypes, HelperBrowsers, HelperApart
  <2>8. \A q \in Run : url[q] # None => url[q] # r /\ q # r
    BY <1>1, <1>5, <2>3, <2>6
       DEF HelperPagesAreShared, HelperTypes, HelperBrowsers, HelperApart
  <2>9. HelperPagesAreShared'
    BY <1>1, <1>5, <2>2, <2>6, <2>7, <2>8
       DEF HelperPagesAreShared, HelperTypes, HelperBrowsers
  <2> QED BY <2>4, <2>5, <2>9 DEF HelperShared
<1>7. ASSUME cached # None PROVE HelperShared'
  <2>1. cached' = cached /\ cached # r /\ specOf[cached] = cached
    BY <1>1, <1>2, <1>5, <1>7 DEF HelperShared, HelperHanded
  <2>2. HelperHanded'
    BY <1>1, <1>3, <1>5, <2>1
       DEF HelperShared, HelperHanded, HelperTypes, HelperBrowsers, HelperApart
  <2>3. HelperMakerIsAlone'
    BY <1>1, <1>5, <2>1 DEF HelperShared, HelperMakerIsAlone
  <2>4. url[r] = None
    BY <1>1, <1>5 DEF HelperShared, HelperPagesAreShared
  <2>5. HelperPagesAreShared /\ page' = page /\ url' = url
    BY <1>1, <1>2 DEF HelperShared
  <2>6. \A i \in Run : page[i] # None => page[i] # r
    BY <1>1, <1>5, <2>5 DEF HelperPagesAreShared, HelperTypes, HelperBrowsers, HelperApart
  <2>7. \A q \in Run : url[q] # None => url[q] # r /\ q # r
    BY <1>1, <1>5, <2>4, <2>5
       DEF HelperPagesAreShared, HelperTypes, HelperBrowsers, HelperApart
  <2>8. HelperPagesAreShared'
    BY <1>1, <1>5, <2>1, <2>4, <2>5, <2>6, <2>7
       DEF HelperPagesAreShared, HelperTypes, HelperBrowsers
  <2> QED BY <2>2, <2>3, <2>8 DEF HelperShared
<1>8. \A q \in Run : specAt'[q] \in Child \/ specAt[q] \in Child => specAt'[q] = specAt[q]
  BY <1>2, <1>5 DEF HelperApart
<1> QED BY <1>2, <1>4, <1>6, <1>7, <1>8, HelperBrowserInv

LEMMA HelperCloseInv ==
    ASSUME HelperApart, HelperIInv, Helpers!StopAgent \/ Helpers!HeartbeatCleanup
      PROVE HelperIInv'
<1>1. HelperTypes /\ HelperShared
  BY DEF HelperIInv
<1>2. Helpers!CloseCached /\ UNCHANGED <<specOf, session, url, specAt, specCalls, specTurns,
      Helpers!childVars>>
  BY DEF Helpers!StopAgent, Helpers!HeartbeatCleanup
<1>3. entry' \in Run \cup {None} /\ cancelled' \subseteq Run
  BY <1>1 DEF Helpers!StopAgent, Helpers!HeartbeatCleanup, HelperTypes, HelperRuns
<1>4. HelperTypes'
  BY <1>1, <1>2, <1>3
     DEF Helpers!CloseCached, HelperTypes, HelperRuns, HelperBrowsers, HelperChildren,
         Helpers!childVars
<1>5. HelperHanded' /\ HelperMakerIsAlone'
  BY <1>1, <1>2 DEF Helpers!CloseCached, HelperShared, HelperHanded, HelperMakerIsAlone
<1>6. \A i \in Run : page'[i] \in {page[i], None}
  BY <1>1, <1>2 DEF Helpers!CloseCached, HelperTypes, HelperBrowsers
<1>7. HelperPagesAreShared'
  BY <1>1, <1>2, <1>6 DEF HelperShared, HelperPagesAreShared
<1> QED BY <1>2, <1>4, <1>5, <1>7, HelperBrowserInv DEF HelperShared

LEMMA HelperPageInv ==
    ASSUME HelperApart, HelperIInv, NEW r \in Run, Helpers!GetPage(r) \/ Helpers!Navigate(r)
      PROVE HelperIInv'
<1>1. HelperTypes /\ HelperShared
  BY DEF HelperIInv
<1> DEFINE i == specOf[r]
<1>2. /\ specAt[r] \in {"asking", "steps"} /\ UNCHANGED <<entry, cached, specOf, session,
         url, cancelled, specCalls, specTurns, Helpers!childVars>>
      /\ specAt' \in [Run -> HelperWhere] /\ specAt'[r] = "steps" /\
         (\A q \in Run \ {r} : specAt'[q] = specAt[q])
      /\ adrift' \subseteq Run
  BY <1>1
     DEF Helpers!GetPage, Helpers!Navigate, Helpers!Go, HelperTypes, HelperRuns,
         HelperBrowsers, HelperWhere
<1>3. i \in Run /\ session[i] \in Run /\ specOf[session[i]] = i
  BY <1>1, <1>2 DEF HelperTypes, HelperRuns, HelperBrowsers, HelperShared, HelperHanded
<1>4. PICK p : p \in {r, page[i], url[session[i]]} \ {None} /\ page' = [page EXCEPT ![i] = p]
  <2>1. CASE Helpers!GetPage(r)
    BY <1>1, <2>1 DEF Helpers!GetPage, HelperApart
  <2>2. CASE Helpers!Navigate(r)
    BY <1>1, <2>2 DEF Helpers!Navigate, HelperApart
  <2> QED BY <2>1, <2>2
<1>5. p \in Run /\ specOf[p] = i
  BY <1>1, <1>3, <1>4 DEF HelperTypes, HelperBrowsers, HelperShared, HelperPagesAreShared
<1>6. HelperTypes'
  BY <1>1, <1>2, <1>4, <1>5
     DEF HelperTypes, HelperRuns, HelperBrowsers, HelperChildren, Helpers!childVars
<1>7. HelperShared'
  <2>1. HelperHanded'
    BY <1>1, <1>2 DEF HelperShared, HelperHanded
  <2>2. HelperMakerIsAlone'
    BY <1>1, <1>2 DEF HelperShared, HelperMakerIsAlone
  <2>3. HelperPagesAreShared'
    BY <1>1, <1>2, <1>3, <1>4, <1>5
       DEF HelperShared, HelperPagesAreShared, HelperTypes, HelperBrowsers
  <2> QED BY <2>1, <2>2, <2>3 DEF HelperShared
<1>8. \A q \in Run : specAt'[q] \in Child \/ specAt[q] \in Child => specAt'[q] = specAt[q]
  BY <1>2 DEF HelperApart
<1> QED BY <1>2, <1>6, <1>7, <1>8, HelperBrowserInv

LEMMA HelperEndStepsInv ==
    ASSUME HelperApart, HelperIInv, NEW r \in Run, Helpers!EndSteps(r) PROVE HelperIInv'
<1>1. HelperTypes /\ HelperShared
  BY DEF HelperIInv
<1> DEFINE i == specOf[r]
<1>2. /\ specAt[r] = "steps" /\ specAt' = [specAt EXCEPT ![r] = "loop"] /\
         specTurns' = [specTurns EXCEPT ![r] = 0]
      /\ UNCHANGED <<entry, cached, specOf, session, page, adrift, cancelled, specCalls,
         Helpers!childVars>>
  BY DEF Helpers!EndSteps, Helpers!Report, Helpers!Go
<1>3. i \in Run /\ session[i] \in Run /\ specOf[session[i]] = i
  BY <1>1, <1>2 DEF HelperTypes, HelperRuns, HelperBrowsers, HelperShared, HelperHanded
<1>4. url' \in [Run -> Run \cup {None}] /\ \A q \in Run : url'[q] \in {url[q]} \cup
      {p \in {page[i]} : q = session[i]}
  BY <1>1, <1>3 DEF Helpers!EndSteps, HelperTypes, HelperBrowsers
<1>5. HelperTypes'
  BY <1>1, <1>2, <1>4
     DEF HelperTypes, HelperRuns, HelperBrowsers, HelperChildren, Helpers!childVars,
         HelperWhere
<1>6. ASSUME NEW q \in Run
      PROVE  (url'[q] # None => specOf[q] # None /\ specOf[url'[q]] = specOf[q]) /\
        (specOf[q] = q => url'[q] \in {None, q})
  <2>1. CASE url'[q] = url[q]
    BY <1>1, <2>1 DEF HelperShared, HelperPagesAreShared
  <2>2. CASE q = session[i] /\ url'[q] = page[i]
    <3>1. specOf[q] = i /\ (page[i] # None => specOf[page[i]] = i) /\ page[i] \in Run \cup
          {None}
      BY <1>1, <1>3, <2>2
         DEF HelperShared, HelperPagesAreShared, HelperTypes, HelperBrowsers
    <3>2. ASSUME specOf[q] = q PROVE page[i] \in {None, q}
      <4>1. session[i] = i /\ q = i
        BY <2>2, <3>1, <3>2
      <4>2. \A p \in Run : specOf[p] = i => p = i
        BY <1>1, <1>3, <4>1 DEF HelperShared, HelperMakerIsAlone
      <4> QED BY <3>1, <4>1, <4>2
    <3> QED BY <1>3, <2>2, <3>1, <3>2 DEF HelperApart
  <2> QED BY <1>4, <2>1, <2>2
<1>7. HelperShared'
  <2>1. specAt'[r] = "loop" /\ \A q \in Run \ {r} : specAt'[q] = specAt[q]
    BY <1>1, <1>2 DEF HelperTypes, HelperRuns
  <2>2. HelperHanded'
    BY <1>1, <1>2, <2>1 DEF HelperShared, HelperHanded
  <2>3. HelperMakerIsAlone'
    BY <1>1, <1>2 DEF HelperShared, HelperMakerIsAlone
  <2>4. HelperPagesAreShared'
    BY <1>1, <1>2, <1>6 DEF HelperShared, HelperPagesAreShared
  <2> QED BY <2>2, <2>3, <2>4 DEF HelperShared
<1>8. \A q \in Run : specAt'[q] \in Child \/ specAt[q] \in Child => specAt'[q] = specAt[q]
  BY <1>1, <1>2 DEF HelperApart, HelperTypes, HelperRuns
<1> QED BY <1>2, <1>5, <1>7, <1>8, HelperBrowserInv

-----------------------------------------------------------------------------
(* The children.  Those of another run keep their tokens.                  *)
LEMMA HelperOneChild ==
    ASSUME HelperApart, HelperIInv, HelperTypes', NEW r \in Run, UNCHANGED Helpers!browserVars,
           \A q \in Run \ {r} : /\ specAt'[q] = specAt[q] /\ spent'[q] = spent[q] /\
                                   recorded'[q] = recorded[q]
                               /\ begun'[q] = begun[q]
                               /\ (q \in again' <=> q \in again)
                               /\ (q \in failed' <=> q \in failed),
           specAt[r] # "new", specAt'[r] # "new",
           IsFiniteSet(Helpers!Tokens(r))',
           r \notin again' => /\ \A c \in Child : spent'[r][c] > 0 => c \in begun'[r]
                              /\ specAt'[r] \in Child => specAt'[r] \in begun'[r]
                              /\ recorded'[r] + HelperUnderway(r)' <= HelperOwed(r)'
                              /\ r \notin failed' =>
                                 recorded'[r] + HelperUnderway(r)' = HelperOwed(r)',
           Helpers!LossesHaveACulprit'
    PROVE  HelperIInv'
<1>1. HelperShared'
  BY HelperSharedFrame DEF HelperIInv, Helpers!browserVars
<1>2. ASSUME NEW q \in Run \ {r}
      PROVE HelperOwed(q)' = HelperOwed(q) /\ HelperUnderway(q)' = HelperUnderway(q) /\
        Helpers!Tokens(q)' = Helpers!Tokens(q)
  <2>1. specAt'[q] = specAt[q] /\ spent'[q] = spent[q]
    OBVIOUS
  <2>2. Helpers!Tokens(q)' = Helpers!Tokens(q)
    BY <2>1 DEF Helpers!Tokens
  <2>3. HelperOwed(q)' = HelperOwed(q)
    BY <2>2 DEF HelperOwed
  <2>4. HelperUnderway(q)' = HelperUnderway(q)
    BY <2>1 DEF HelperUnderway
  <2> QED BY <2>2, <2>3, <2>4
<1>3. HelperTokensKept'
  BY <1>2 DEF HelperIInv, HelperTokensKept
<1> QED BY <1>1, <1>3 DEF HelperIInv

LEMMA HelperCallChildInv ==
    ASSUME HelperApart, HelperIInv, NEW r \in Run, NEW c \in Child, Helpers!CallChild(r, c)
    PROVE  HelperIInv'
<1>1. HelperTypes /\ HelperTokensKept
  BY DEF HelperIInv
<1>2. /\ specAt[r] = "loop" /\ specAt' = [specAt EXCEPT ![r] = c] /\ specCalls' = specCalls + 1
      /\ begun' = [begun EXCEPT ![r] = @ \cup {c}]
      /\ again' = again \cup {x \in {r} : c \in begun[r]}
      /\ UNCHANGED <<entry, Helpers!browserVars, cancelled, spent, recorded, tree, undone,
         failed, specTurns>>
  BY DEF Helpers!CallChild, Helpers!Called, Helpers!Go
<1>3. HelperTypes'
  BY <1>1, <1>2
     DEF HelperTypes, HelperRuns, HelperBrowsers, HelperChildren, HelperWhere,
         Helpers!browserVars
<1>4. /\ specAt'[r] = c /\ begun'[r] = begun[r] \cup {c} /\ "loop" \notin Child /\ c # "new"
      /\ \A q \in Run \ {r} : specAt'[q] = specAt[q] /\ begun'[q] = begun[q]
  BY <1>1, <1>2 DEF HelperTypes, HelperRuns, HelperChildren, HelperApart
<1>5. HelperOwed(r)' = HelperOwed(r) /\ Helpers!Tokens(r)' = Helpers!Tokens(r) /\
      recorded' = recorded
  BY <1>2 DEF HelperOwed, Helpers!Tokens
<1>6. r \notin again' => r \notin again /\ c \notin begun[r]
  BY <1>2
<1>7. HelperUnderway(r) = 0
  BY <1>2, <1>4 DEF HelperUnderway
<1>8. r \notin again' => HelperUnderway(r)' = 0
  <2>1. r \notin again' => ~(spent[r][c] > 0)
    BY <1>1, <1>6 DEF HelperTokensKept
  <2>2. r \notin again' => spent'[r][c] = 0
    BY <1>1, <1>2, <2>1 DEF HelperTypes, HelperChildren
  <2> QED BY <1>4, <2>2 DEF HelperUnderway
<1>9. Helpers!LossesHaveACulprit'
  BY <1>2 DEF HelperIInv, Helpers!LossesHaveACulprit
<1> QED BY <1>1, <1>2, <1>3, <1>4, <1>5, <1>6, <1>7, <1>8, <1>9, HelperOneChild
           DEF HelperTokensKept

LEMMA HelperChildTurnInv ==
    ASSUME HelperApart, HelperIInv, NEW r \in Run, NEW c \in Child, Helpers!ChildTurn(r, c)
    PROVE  HelperIInv'
<1>1. HelperTypes /\ HelperTokensKept
  BY DEF HelperIInv
<1>2. /\ specAt[r] = c /\ specTurns' = [specTurns EXCEPT ![r] = @ + 1]
      /\ spent' = [spent EXCEPT ![r][c] = @ + 1]
      /\ tree' \subseteq tree \cup {r}
      /\ UNCHANGED <<entry, Helpers!browserVars, specAt, cancelled, specCalls, recorded,
         begun, again, undone, failed>>
  BY DEF Helpers!ChildTurn
<1>3. HelperTypes'
  BY <1>1, <1>2
     DEF HelperTypes, HelperRuns, HelperBrowsers, HelperChildren, HelperWhere,
         Helpers!browserVars
<1>4. /\ spent'[r][c] = spent[r][c] + 1 /\ \A d \in Child \ {c} : spent'[r][d] = spent[r][d]
      /\ \A q \in Run \ {r} : spent'[q] = spent[q]
      /\ spent[r] \in [Child -> Nat] /\ c # "new"
  BY <1>1, <1>2 DEF HelperTypes, HelperChildren, HelperApart
(* The token the model has spent by now is new.                            *)
<1>5. Helpers!Tokens(r)' = Helpers!Tokens(r) \cup {<<c, spent[r][c] + 1>>} /\
      <<c, spent[r][c] + 1>> \notin Helpers!Tokens(r)
  <2>1. \A t : t \in Helpers!Tokens(r) <=> \E d \in Child : \E k \in 1..spent[r][d] : t = <<d, k>>
    BY DEF Helpers!Tokens
  <2>2. \A t : t \in Helpers!Tokens(r)' <=> \E d \in Child : \E k \in 1..spent'[r][d] : t = <<d, k>>
    BY DEF Helpers!Tokens
  <2>3. 1..spent'[r][c] = 1..spent[r][c] \cup {spent[r][c] + 1}
    BY <1>4
  <2>4. <<c, spent[r][c] + 1>> \notin Helpers!Tokens(r)
    BY <1>4, <2>1
  <2>5. ASSUME NEW t PROVE t \in Helpers!Tokens(r)' <=> t \in Helpers!Tokens(r) \/
        t = <<c, spent[r][c] + 1>>
    BY <1>4, <2>1, <2>2, <2>3
  <2> QED BY <2>4, <2>5
<1>6. HelperOwed(r)' = HelperOwed(r) + 1 /\ IsFiniteSet(Helpers!Tokens(r))'
  BY <1>1, <1>5, FS_AddElement DEF HelperTokensKept, HelperOwed
<1>7. HelperUnderway(r) = spent[r][c] /\ HelperUnderway(r)' = spent[r][c] + 1
  BY <1>2, <1>4 DEF HelperUnderway
<1>8. r \notin again => HelperOwed(r) \in Nat
  BY <1>1, FS_CardinalityType DEF HelperTokensKept, HelperOwed
<1>9. r \notin again' => /\ \A d \in Child : spent'[r][d] > 0 => d \in begun'[r]
                         /\ specAt'[r] \in Child => specAt'[r] \in begun'[r]
                         /\ recorded'[r] + HelperUnderway(r)' <= HelperOwed(r)'
                         /\ r \notin failed' =>
                            recorded'[r] + HelperUnderway(r)' = HelperOwed(r)'
  <2>1. recorded[r] \in Nat /\ spent[r][c] \in Nat
    BY <1>1, <1>4 DEF HelperTypes, HelperChildren
  <2>2. r \notin again' => specAt[r] \in begun[r] /\ \A d \in Child : spent'[r][d] > 0 =>
        d \in begun'[r]
    BY <1>1, <1>2, <1>4 DEF HelperTokensKept
  <2>3. r \notin again => /\ recorded[r] + spent[r][c] <= HelperOwed(r)
                          /\ r \notin failed => recorded[r] + spent[r][c] = HelperOwed(r)
    BY <1>1, <1>7 DEF HelperTokensKept
  <2> QED BY <1>2, <1>6, <1>7, <1>8, <2>1, <2>2, <2>3
<1>10. Helpers!LossesHaveACulprit'
  BY <1>2 DEF HelperIInv, Helpers!LossesHaveACulprit
<1> QED BY <1>2, <1>3, <1>4, <1>6, <1>9, <1>10, HelperOneChild

LEMMA HelperChildOverInv ==
    ASSUME HelperApart, HelperIInv, NEW r \in Run, NEW c \in Child,
      Helpers!ChildDone(r, c) \/ Helpers!ChildFails(r, c)
    PROVE  HelperIInv'
<1>1. HelperTypes /\ HelperTokensKept
  BY DEF HelperIInv
<1>2. /\ specAt[r] = c /\ specAt' = [specAt EXCEPT ![r] = "loop"] /\
         specTurns' = [specTurns EXCEPT ![r] = 0]
      /\ UNCHANGED <<entry, Helpers!browserVars, cancelled, specCalls, spent, begun, again>>
  BY DEF Helpers!ChildDone, Helpers!ChildFails, Helpers!Report, Helpers!Go
<1>3. /\ \/ recorded' = [recorded EXCEPT ![r] = @ + spent[r][c]] /\
            UNCHANGED <<tree, undone, failed>>
         \/ recorded' = recorded /\ undone' = undone \cup tree /\ tree' = {} /\
            failed' = failed \cup {r}
  BY DEF Helpers!ChildDone, Helpers!ChildFails
<1>4. HelperTypes'
  <2>1. HelperRuns' /\ HelperBrowsers'
    BY <1>1, <1>2
       DEF HelperTypes, HelperRuns, HelperBrowsers, HelperWhere, Helpers!browserVars
  <2>2. recorded' \in [Run -> Nat]
    BY <1>1, <1>3 DEF HelperTypes, HelperChildren
  <2> QED BY <1>1, <1>2, <1>3, <2>1, <2>2 DEF HelperTypes, HelperChildren
<1>5. /\ specAt'[r] = "loop" /\ "loop" \notin Child /\ c # "new"
      /\ \A q \in Run \ {r} : specAt'[q] = specAt[q] /\ recorded'[q] = recorded[q]
  BY <1>1, <1>2, <1>3 DEF HelperTypes, HelperRuns, HelperChildren, HelperApart
<1>6. HelperOwed(r)' = HelperOwed(r) /\ Helpers!Tokens(r)' = Helpers!Tokens(r) /\
      HelperUnderway(r)' = 0 /\ HelperUnderway(r) = spent[r][c]
  BY <1>2, <1>5 DEF HelperOwed, Helpers!Tokens, HelperUnderway
<1>7. /\ recorded[r] \in Nat /\ spent[r][c] \in Nat /\
         recorded'[r] \in {recorded[r], recorded[r] + spent[r][c]}
      /\ r \notin failed' => recorded'[r] = recorded[r] + spent[r][c] /\ r \notin failed
  BY <1>1, <1>3 DEF HelperTypes, HelperChildren
<1>8. r \notin again => HelperOwed(r) \in Nat
  BY <1>1, FS_CardinalityType DEF HelperTokensKept, HelperOwed
<1>9. r \notin again' => /\ recorded'[r] + HelperUnderway(r)' <= HelperOwed(r)'
                         /\ r \notin failed' =>
                            recorded'[r] + HelperUnderway(r)' = HelperOwed(r)'
  <2>1. r \notin again => /\ recorded[r] + spent[r][c] <= HelperOwed(r)
                          /\ r \notin failed => recorded[r] + spent[r][c] = HelperOwed(r)
    BY <1>1, <1>6 DEF HelperTokensKept
  <2> QED BY <1>2, <1>6, <1>7, <1>8, <2>1
<1>10. Helpers!LossesHaveACulprit' /\ \A q \in Run \ {r} : (q \in failed' <=> q \in failed)
  BY <1>3 DEF HelperIInv, Helpers!LossesHaveACulprit
<1>11. IsFiniteSet(Helpers!Tokens(r))' /\ (r \notin again' =>
       \A d \in Child : spent'[r][d] > 0 => d \in begun'[r])
  BY <1>1, <1>2, <1>6 DEF HelperTokensKept
<1> QED BY <1>2, <1>4, <1>5, <1>9, <1>10, <1>11, HelperOneChild

LEMMA HelperStepInv == ASSUME HelperApart, HelperIInv, [Helpers!Next]_(Helpers!vars)
    PROVE HelperIInv'
<1>1. CASE UNCHANGED Helpers!vars
  <2>1. HelperTypes' /\ Helpers!LossesHaveACulprit'
    BY <1>1
       DEF Helpers!vars, Helpers!browserVars, Helpers!childVars, HelperIInv, HelperTypes,
           HelperRuns, HelperBrowsers, HelperChildren, Helpers!LossesHaveACulprit
  <2>2. HelperShared'
    BY <1>1, HelperSharedFrame DEF Helpers!vars, Helpers!browserVars, HelperIInv
  <2>3. HelperTokensKept'
    BY <1>1, HelperTokensFrame DEF Helpers!vars, Helpers!childVars, HelperIInv
  <2> QED BY <2>1, <2>2, <2>3 DEF HelperIInv
<1>2. CASE \E r \in Run : Helpers!Return(r) \/ Helpers!Edit(r) \/ Helpers!Browse(r) \/
      Helpers!NoPage(r) \/ Helpers!Reason(r) \/ Helpers!Round(r) \/ Helpers!RoundFails(r)
  BY <1>2, HelperLoopInv
<1>3. CASE \E r \in Run : Helpers!StartAgent(r) \/ Helpers!GetPage(r) \/
      Helpers!Navigate(r) \/ Helpers!EndSteps(r)
  BY <1>3, HelperStartInv, HelperPageInv, HelperEndStepsInv
<1>4. CASE \E r \in Run, c \in Child : Helpers!CallChild(r, c) \/ Helpers!ChildTurn(r, c) \/
      Helpers!ChildDone(r, c) \/ Helpers!ChildFails(r, c)
  BY <1>4, HelperCallChildInv, HelperChildTurnInv, HelperChildOverInv
<1> QED BY <1>1, <1>2, <1>3, <1>4, HelperCloseInv DEF Helpers!Next

(* The instance counts a set as this module does.                          *)
LEMMA HelperSameCount == \A S : Helpers!Cardinality(S) = Cardinality(S)
BY DEF Cardinality, IsFiniteSet, Helpers!Cardinality, Helpers!IsFiniteSet

LEMMA HelperIInvSound == ASSUME HelperApart, HelperIInv PROVE Helpers!SpecialistsSound
<1>1. HelperTypes /\ HelperShared /\ HelperTokensKept /\ Helpers!LossesHaveACulprit
  BY DEF HelperIInv
<1>2. Helpers!TypeOK
  BY <1>1
     DEF Helpers!TypeOK, HelperTypes, HelperRuns, HelperBrowsers, HelperChildren,
         HelperWhere
<1>3. Helpers!AddressIsOwn
  BY <1>1
     DEF Helpers!AddressIsOwn, HelperShared, HelperPagesAreShared, HelperTypes,
         HelperBrowsers
<1>4. ASSUME NEW r \in Run \ again
      PROVE  /\ recorded[r] <= Cardinality(Helpers!Tokens(r))
             /\ specAt[r] \notin Child /\ r \notin failed =>
                recorded[r] = Cardinality(Helpers!Tokens(r))
  <2>1. HelperUnderway(r) \in Nat /\ recorded[r] \in Nat /\
        (specAt[r] \notin Child => HelperUnderway(r) = 0)
    BY <1>1 DEF HelperUnderway, HelperTypes, HelperChildren
  <2>2. HelperOwed(r) \in Nat
    BY <1>1, FS_CardinalityType DEF HelperTokensKept, HelperOwed
  <2>3. recorded[r] + HelperUnderway(r) <= HelperOwed(r) /\
        (r \notin failed => recorded[r] + HelperUnderway(r) = HelperOwed(r))
    BY <1>1 DEF HelperTokensKept
  <2> QED BY <2>1, <2>2, <2>3 DEF HelperOwed
<1>5. Helpers!TokensOnce
  BY <1>4, HelperSameCount DEF Helpers!TokensOnce
<1> QED BY <1>1, <1>2, <1>3, <1>5 DEF Helpers!SpecialistsSound

(* A session comes back to an address of its own run, or of one that had   *)
(* the same browser; what children spend is recorded once; and what is     *)
(* lost was taken by the rollback of a child that failed.                  *)
THEOREM HelperAreSound == ASSUME HelperApart PROVE Helpers!Spec => []Helpers!SpecialistsSound
<1>1. Helpers!Init => HelperIInv
  BY HelperInitInv
<1>2. HelperIInv /\ [Helpers!Next]_(Helpers!vars) => HelperIInv'
  BY HelperStepInv
<1>3. HelperIInv => Helpers!SpecialistsSound
  BY HelperIInvSound
<1> QED BY <1>1, <1>2, <1>3, PTL DEF Helpers!Spec

(* The composition runs the specialists as it is specified: the other      *)
(* parts leave its variables alone.                                        *)
LEMMA HelpersRuns == Spec => Helpers!Spec
<1>1. Init => Helpers!Init
  BY DEF Init
<1>2. ASSUME [Next]_vars PROVE [Helpers!Next]_(Helpers!vars)
  <2>1. CASE InHelpers(Helpers!Next)
    BY <2>1 DEF InHelpers
  <2>2. UNCHANGED helpersVars => UNCHANGED Helpers!vars
    BY DEF helpersVars, Helpers!vars, Helpers!browserVars, Helpers!childVars
  <2>3. ~InHelpers(Helpers!Next) => UNCHANGED helpersVars
    BY <1>2 DEF Next, vars, InTalk, InLlm, InPlans, InGate, InDetectors, InTexts, InMistakes
  <2> QED BY <2>1, <2>2, <2>3
<1> QED BY <1>1, <1>2, PTL DEF Spec, Helpers!Spec

(* The tokens of a child are counted once whatever run begins again or is  *)
(* cancelled, and what a run loses was lost to a run that shared its       *)
(* browser (specialists).                                                  *)
THEOREM DecisionsSpecialists == Spec => []SpecialistsSound
<1>1. HelperApart
  BY DecisionsAssumption
<1>2. Helpers!Spec => []Helpers!SpecialistsSound
  BY <1>1, HelperAreSound
<1> QED BY <1>2, HelpersRuns, PTL DEF SpecialistsSound

-----------------------------------------------------------------------------
-----------------------------------------------------------------------------
PlanPlans == Seq(Plans!Item(Plans!Status))
PlanTypes == /\ plan \in PlanPlans /\ Len(plan) <= MaxItems
             /\ own \in PlanPlans /\ Len(own) <= MaxItems
             /\ guarded \in BOOLEAN /\ twins \in BOOLEAN
             /\ mode \in {"react", "planner"} /\ planPc \in {"decompose", "loop", "over"}
             /\ planI \in Nat /\ planSteps \in 0..MaxSteps
             /\ result \in {"none", "done", "suspended", "failed"}
             /\ claimed \subseteq Title

(* The claims hold of a plan: each is a completed task of it.              *)
PlanKept(q, c) == \A t \in c : \E k \in DOMAIN q : Norm[q[k].title] = Norm[t] /\
  q[k].status = "completed"

(* Where the run is tells what is left of the plan and of the own slice.   *)
PlanPhases ==
    /\ planPc = "decompose" => mode = "planner" /\ plan = <<>> /\ claimed = {}
    /\ planPc # "over" => result = "none"
    /\ planPc = "loop" /\ plan = <<>> => claimed = {}
    /\ planPc = "loop" /\ mode = "planner" =>
              planI \in DOMAIN own /\ \A k \in 1..(planI-1) : own[k].status = "completed"

PlanClaimed == ~twins /\ plan # <<>> => PlanKept(plan, claimed)

PlanIInv == PlanTypes /\ PlanPhases /\ Plans!TwinsAreBorn /\ PlanClaimed /\
  Plans!DoneLeavesNothingOpen

-----------------------------------------------------------------------------
(* The task that a title names.                                            *)
LEMMA PlanFindNames ==
    ASSUME NEW q \in PlanPlans, NEW t
    PROVE  /\ Plans!Find(q, t) \in 0..Len(q)
           /\ Plans!Find(q, t) = 0 => \A k \in DOMAIN q : Norm[q[k].title] # Norm[t]
           /\ Plans!Find(q, t) # 0 => Plans!Find(q, t) \in DOMAIN q /\
              Norm[q[Plans!Find(q, t)].title] = Norm[t]
<1> DEFINE exact == {k \in DOMAIN q : q[k].title = t}
           close == {k \in DOMAIN q : Norm[q[k].title] = Norm[t]}
<1>1. Len(q) \in Nat /\ DOMAIN q = 1..Len(q) /\ exact \subseteq close /\
      close \subseteq 1..Len(q)
  BY DEF PlanPlans
<1>2. exact # {} => Plans!Max(exact) \in exact
  <2>1. exact \subseteq 1..Len(q)
    BY <1>1
  <2> HIDE DEF exact
  <2>2. exact # {} => \E m \in exact : \A k \in exact : k <= m
    BY <1>1, <2>1, LastPlace
  <2>3. exact # {} => \E m \in exact : \A k \in exact : m >= k
    BY <1>1, <2>1, <2>2
  <2> QED BY <2>3 DEF Plans!Max
<1>3. close # {} => Plans!Max(close) \in close
  <2> HIDE DEF close
  <2>1. close # {} => \E m \in close : \A k \in close : k <= m
    BY <1>1, LastPlace
  <2>2. close # {} => \E m \in close : \A k \in close : m >= k
    BY <1>1, <2>1
  <2> QED BY <2>2 DEF Plans!Max
<1>4. Plans!Find(q, t) = IF exact # {} THEN Plans!Max(exact) ELSE IF close # {} THEN Plans!Max(close) ELSE 0
  BY DEF Plans!Find
<1>5. (Plans!Find(q, t) = 0 /\ close = {}) \/ Plans!Find(q, t) \in close
  <2> HIDE DEF exact, close
  <2> QED BY <1>1, <1>2, <1>3, <1>4
<1>6. 0 \notin close
  BY <1>1
<1> QED BY <1>1, <1>5, <1>6

LEMMA PlanFindAlone ==
    ASSUME NEW q \in PlanPlans, NEW t, ~Plans!HasTwins(q), NEW k \in DOMAIN q,
      Norm[q[k].title] = Norm[t]
    PROVE  Plans!Find(q, t) = k
BY PlanFindNames DEF Plans!HasTwins

(* One word of a list.                                                     *)
LEMMA PlanPutKeeps ==
    ASSUME NEW q \in PlanPlans, NEW w \in Plans!Item(Plans!Status), NEW guard
    PROVE  /\ Plans!Put(q, w, guard) \in PlanPlans /\ Len(q) <= Len(Plans!Put(q, w, guard))
           /\ Plans!HasTwins(Plans!Put(q, w, guard)) => Plans!HasTwins(q)
<1> DEFINE k == Plans!Find(q, w.title)
           r == Plans!Put(q, w, guard)
<1>1. k \in 0..Len(q) /\ Len(q) \in Nat
  BY PlanFindNames DEF PlanPlans
<1>2. CASE k = 0
  <2>1. r = Append(q, w)
    BY <1>2 DEF Plans!Put, Plans!Take
  <2>2. r \in PlanPlans /\ Len(r) = Len(q) + 1 /\ r[Len(r)] = w /\
        \A j \in 1..Len(q) : r[j] = q[j]
    BY <2>1 DEF PlanPlans
  <2>3. \A j \in DOMAIN q : Norm[q[j].title] # Norm[w.title]
    BY <1>2, PlanFindNames
  <2>4. DOMAIN r = 1..(Len(q) + 1) /\ DOMAIN q = 1..Len(q)
    BY <2>2 DEF PlanPlans
  <2>5. Plans!HasTwins(r) => Plans!HasTwins(q)
    <3>1. SUFFICES ASSUME NEW a \in DOMAIN r, NEW b \in DOMAIN r, a # b,
          Norm[r[a].title] = Norm[r[b].title]
                   PROVE  Plans!HasTwins(q)
      BY DEF Plans!HasTwins
    <3>2. a \in DOMAIN q /\ b \in DOMAIN q
      BY <1>1, <2>2, <2>3, <2>4, <3>1
    <3> QED BY <2>2, <2>4, <3>1, <3>2 DEF Plans!HasTwins
  <2> QED BY <1>1, <2>2, <2>5
<1>3. CASE k # 0
  <2>1. r = q \/ r = [q EXCEPT ![k].status = w.status]
    BY <1>3 DEF Plans!Put, Plans!Take
  <2>2. k \in DOMAIN q /\ q[k] \in Plans!Item(Plans!Status)
    BY <1>1, <1>3 DEF PlanPlans
  <2>3. k \in DOMAIN q /\ q[k] \in Plans!Item(Plans!Status) /\ w.status \in Plans!Status
    BY <2>2 DEF Plans!Item
  <2>4. CASE r = [q EXCEPT ![k].status = w.status]
    <3>1. [q[k] EXCEPT !.status = w.status] \in Plans!Item(Plans!Status) /\
          [q[k] EXCEPT !.status = w.status].title = q[k].title
      BY <2>3 DEF Plans!Item
    <3>2. r = [q EXCEPT ![k] = [q[k] EXCEPT !.status = w.status]]
      BY <2>4
    <3>3. r \in PlanPlans /\ Len(r) = Len(q) /\ DOMAIN r = DOMAIN q
      BY <2>3, <3>1, <3>2 DEF PlanPlans
    <3>4. \A j \in DOMAIN q : r[j].title = q[j].title
      BY <2>3, <3>1, <3>2 DEF PlanPlans
    <3> QED BY <1>1, <3>3, <3>4 DEF Plans!HasTwins
  <2> QED BY <1>1, <2>1, <2>4
<1> QED BY <1>2, <1>3

LEMMA PlanPutClaims ==
    ASSUME NEW q \in PlanPlans, NEW w \in Plans!Item(Plans!Status), NEW guard,
      NEW c \in SUBSET Title, ~Plans!HasTwins(q), PlanKept(q, c)
    PROVE  PlanKept(Plans!Put(q, w, guard), Plans!Hear(c, w, guard))
<1> DEFINE k == Plans!Find(q, w.title)
           r == Plans!Put(q, w, guard)
<1>1. k \in 0..Len(q) /\ Len(q) \in Nat /\ DOMAIN q = 1..Len(q)
  BY PlanFindNames DEF PlanPlans
<1>2. CASE k = 0
  <2>1. r = Append(q, w)
    BY <1>2 DEF Plans!Put, Plans!Take
  <2>2. DOMAIN r = 1..(Len(q) + 1) /\ r[Len(q) + 1] = w /\ \A j \in 1..Len(q) : r[j] = q[j]
    BY <2>1 DEF PlanPlans
  <2>3. \A t \in Plans!Hear(c, w, guard) : t \in c \/ (t = w.title /\ w.status = "completed")
    BY DEF Plans!Hear
  <2> QED BY <1>1, <2>2, <2>3 DEF PlanKept
<1>3. CASE k # 0
  <2>1. k \in DOMAIN q /\ q[k] \in Plans!Item(Plans!Status) /\ Norm[q[k].title] = Norm[w.title]
    BY <1>1, <1>3, PlanFindNames DEF PlanPlans
  <2>2. r = IF guard /\
        Plans!Weight(w.status) < Plans!Weight(q[k].status) THEN q ELSE [q EXCEPT ![k].status = w.status]
    BY <1>3 DEF Plans!Put, Plans!Take
  <2>3. ASSUME NEW t \in Plans!Hear(c, w, guard)
        PROVE  \E j \in DOMAIN r : Norm[r[j].title] = Norm[t] /\ r[j].status = "completed"
    <3>1. DOMAIN r = DOMAIN q /\ \A j \in DOMAIN q : r[j].title = q[j].title /\
          (j # k => r[j].status = q[j].status)
      BY <2>1, <2>2 DEF Plans!Item
    <3>2. CASE w.status = "completed"
      <4>1. r[k].status = "completed"
        BY <2>1, <2>2, <3>2 DEF Plans!Item, Plans!Weight, Plans!Status
      <4>2. CASE t = w.title
        BY <2>1, <3>1, <4>1, <4>2
      <4>3. CASE t \in c
        <5>1. PICK j \in DOMAIN q : Norm[q[j].title] = Norm[t] /\ q[j].status = "completed"
          BY <4>3 DEF PlanKept
        <5> QED BY <3>1, <4>1, <5>1
      <4> QED BY <3>2, <4>2, <4>3 DEF Plans!Hear
    <3>3. CASE w.status # "completed" /\ guard
      <4>1. PICK j \in DOMAIN q : Norm[q[j].title] = Norm[t] /\ q[j].status = "completed"
        BY <3>3 DEF PlanKept, Plans!Hear
      <4>2. j = k => r = q
        BY <2>2, <3>3, <4>1 DEF Plans!Item, Plans!Weight, Plans!Status
      <4> QED BY <3>1, <4>1, <4>2
    <3>4. CASE w.status # "completed" /\ ~guard
      <4>1. PICK j \in DOMAIN q : Norm[q[j].title] = Norm[t] /\ q[j].status = "completed"
        BY <3>4 DEF PlanKept, Plans!Hear
      <4>2. t \in c /\ t \notin Plans!SameTask(w.title)
        BY <3>4 DEF Plans!Hear
      <4>3. j # k
        BY <2>1, <4>1, <4>2 DEF Plans!SameTask
      <4> QED BY <3>1, <4>1, <4>3
    <3> QED BY <3>2, <3>3, <3>4
  <2> QED BY <2>3 DEF PlanKept
<1> QED BY <1>2, <1>3

-----------------------------------------------------------------------------
(* The plans, and the claims, between the words of a list.                 *)
PlanMergeRuns(p, words, guard) ==
    {f \in [0..Len(words) -> PlanPlans] :
        /\ f[0] = p /\ Plans!Merged(p, words, guard) = f[Len(words)]
        /\ \A n \in 1..Len(words) : f[n] = Plans!Put(f[n-1], words[n], guard)}
PlanClaimRuns(words, guard) ==
    {c \in [0..Len(words) -> SUBSET Title] :
        /\ c[0] = claimed /\ Plans!Claims(words, guard) = c[Len(words)]
        /\ \A n \in 1..Len(words) : c[n] = Plans!Hear(c[n-1], words[n], guard)}

LEMMA PlanMergedSteps ==
    ASSUME NEW p \in PlanPlans, NEW words \in PlanPlans, NEW guard
    PROVE  PlanMergeRuns(p, words, guard) # {}
<1> DEFINE N == Len(words)
           step == [n \in 1..N |-> [q \in PlanPlans |-> Plans!Put(q, words[n], guard)]]
<1>1. N \in Nat /\ \A n \in 1..N : words[n] \in Plans!Item(Plans!Status)
  BY DEF PlanPlans
<1>2. step \in [1..N -> [PlanPlans -> PlanPlans]]
  BY <1>1, PlanPutKeeps
<1>3. Iterates(PlanPlans, p, N, step) # {}
  <2> HIDE DEF step, N
  <2> QED BY <1>1, <1>2, Recursion
<1>4. PICK f \in [0..N -> PlanPlans] : f[0] = p /\ \A n \in 1..N : f[n] = step[n][f[n-1]]
  <2> HIDE DEF step, N
  <2> QED BY <1>3 DEF Iterates
<1>5. \A n \in 1..N : n - 1 \in 0..N
  BY <1>1
<1>6. \A n \in 1..N : f[n-1] \in PlanPlans /\ f[n] = Plans!Put(f[n-1], words[n], guard)
  BY <1>1, <1>4, <1>5
<1> DEFINE after[n \in 0..N] == IF n = 0 THEN p ELSE Plans!Put(after[n-1], words[n], guard)
<1>7. f = [n \in 0..N |-> IF n = 0 THEN p ELSE Plans!Put(f[n-1], words[n], guard)]
  BY <1>1, <1>4, <1>6
<1>8. after = [n \in 0..N |-> IF n = 0 THEN p ELSE Plans!Put(after[n-1], words[n], guard)]
  BY <1>7
<1>9. Plans!Merged(p, words, guard) = after[N]
  BY DEF Plans!Merged
<1>10. after = f
  <2> DEFINE S == {n \in 0..N : after[n] = f[n]}
  <2> HIDE DEF after, N
  <2>1. 0 \in S
    BY <1>1, <1>4, <1>8
  <2>2. ASSUME NEW n \in 0..(N-1), n \in S PROVE n + 1 \in S
    BY <1>1, <1>6, <1>8, <2>2
  <2>3. \A n \in 0..N : n \in S
    <3> HIDE DEF S
    <3> QED BY <1>1, <2>1, <2>2, StepByStep
  <2> QED BY <1>4, <1>8, <2>3
<1> QED BY <1>1, <1>4, <1>6, <1>9, <1>10 DEF PlanMergeRuns

LEMMA PlanClaimsSteps ==
    ASSUME NEW words \in PlanPlans, NEW guard, claimed \in SUBSET Title
    PROVE  PlanClaimRuns(words, guard) # {}
<1> DEFINE N == Len(words)
           step == [n \in 1..N |-> [d \in SUBSET Title |-> Plans!Hear(d, words[n], guard)]]
<1>1. N \in Nat /\ \A n \in 1..N : words[n] \in Plans!Item(Plans!Status)
  BY DEF PlanPlans
<1>2. step \in [1..N -> [SUBSET Title -> SUBSET Title]]
  <2>1. \A n \in 1..N : words[n].title \in Title
    BY <1>1 DEF Plans!Item
  <2> QED BY <2>1 DEF Plans!Hear
<1>3. Iterates(SUBSET Title, claimed, N, step) # {}
  <2> HIDE DEF step, N
  <2> QED BY <1>1, <1>2, Recursion
<1>4. PICK f \in [0..N -> SUBSET Title] : f[0] = claimed /\
      \A n \in 1..N : f[n] = step[n][f[n-1]]
  <2> HIDE DEF step, N
  <2> QED BY <1>3 DEF Iterates
<1>5. \A n \in 1..N : n - 1 \in 0..N
  BY <1>1
<1>6. \A n \in 1..N : f[n-1] \in SUBSET Title /\ f[n] = Plans!Hear(f[n-1], words[n], guard)
  BY <1>1, <1>4, <1>5
<1> DEFINE after[n \in 0..N] == IF n = 0 THEN claimed ELSE Plans!Hear(after[n-1], words[n],
    guard)
<1>7. f = [n \in 0..N |-> IF n = 0 THEN claimed ELSE Plans!Hear(f[n-1], words[n], guard)]
  BY <1>1, <1>4, <1>6
<1>8. after = [n \in 0..N |-> IF n = 0 THEN claimed ELSE Plans!Hear(after[n-1], words[n],
      guard)]
  BY <1>7
<1>9. Plans!Claims(words, guard) = after[N]
  BY DEF Plans!Claims
<1>10. after = f
  <2> DEFINE S == {n \in 0..N : after[n] = f[n]}
  <2> HIDE DEF after, N
  <2>1. 0 \in S
    BY <1>1, <1>4, <1>8
  <2>2. ASSUME NEW n \in 0..(N-1), n \in S PROVE n + 1 \in S
    BY <1>1, <1>6, <1>8, <2>2
  <2>3. \A n \in 0..N : n \in S
    <3> HIDE DEF S
    <3> QED BY <1>1, <2>1, <2>2, StepByStep
  <2> QED BY <1>4, <1>8, <2>3
<1> QED BY <1>1, <1>4, <1>6, <1>9, <1>10 DEF PlanClaimRuns

(* A list merged into a plan without twins makes none, and what the model  *)
(* has claimed before the list or with it is completed after it.           *)
LEMMA PlanMergeKeeps ==
    ASSUME NEW p \in PlanPlans, NEW words \in PlanPlans, NEW guard, claimed \in SUBSET Title
    PROVE  /\ Plans!Merged(p, words, guard) \in PlanPlans /\
              Len(p) <= Len(Plans!Merged(p, words, guard))
           /\ Plans!Claims(words, guard) \in SUBSET Title
           /\ Plans!HasTwins(Plans!Merged(p, words, guard)) => Plans!HasTwins(p)
           /\ ~Plans!HasTwins(p) /\ PlanKept(p, claimed) =>
              PlanKept(Plans!Merged(p, words, guard), Plans!Claims(words, guard))
<1> DEFINE N == Len(words)
<1>1. N \in Nat /\ \A n \in 1..N : words[n] \in Plans!Item(Plans!Status)
  BY DEF PlanPlans
<1>2. PICK f \in PlanMergeRuns(p, words, guard) : TRUE
  BY PlanMergedSteps
<1>3. PICK c \in PlanClaimRuns(words, guard) : TRUE
  BY PlanClaimsSteps
<1>4. /\ f \in [0..N -> PlanPlans] /\ f[0] = p /\ Plans!Merged(p, words, guard) = f[N]
      /\ \A n \in 1..N : f[n] = Plans!Put(f[n-1], words[n], guard)
  BY DEF PlanMergeRuns
<1>5. /\ c \in [0..N -> SUBSET Title] /\ c[0] = claimed /\ Plans!Claims(words, guard) = c[N]
      /\ \A n \in 1..N : c[n] = Plans!Hear(c[n-1], words[n], guard)
  BY DEF PlanClaimRuns
<1> HIDE DEF N
<1> DEFINE S == {n \in 0..N : /\ Len(p) <= Len(f[n])
                              /\ Plans!HasTwins(f[n]) => Plans!HasTwins(p)
                              /\ ~Plans!HasTwins(p) /\ PlanKept(p, claimed) =>
                                 PlanKept(f[n], c[n])}
<1>6. 0 \in S
  <2>1. Len(p) \in Nat
    BY DEF PlanPlans
  <2> QED BY <1>1, <1>4, <1>5, <2>1
<1>7. ASSUME NEW n \in 0..(N-1), n \in S PROVE n + 1 \in S
  <2>1. n + 1 \in 1..N /\ (n + 1) - 1 = n /\ n \in 0..N /\ n + 1 \in 0..N
    BY <1>1
  <2>2. /\ f[n] \in PlanPlans /\ c[n] \in SUBSET Title /\
           words[n+1] \in Plans!Item(Plans!Status)
        /\ f[n+1] = Plans!Put(f[n], words[n+1], guard) /\
           c[n+1] = Plans!Hear(c[n], words[n+1], guard)
    BY <1>1, <1>4, <1>5, <2>1
  <2>3. Len(f[n]) <= Len(f[n+1]) /\ f[n+1] \in PlanPlans /\
        (Plans!HasTwins(f[n+1]) => Plans!HasTwins(f[n]))
    BY <2>2, PlanPutKeeps
  <2>4. Len(p) <= Len(f[n+1])
    <3>1. Len(p) \in Nat /\ Len(f[n]) \in Nat /\ Len(f[n+1]) \in Nat /\ Len(p) <= Len(f[n])
      BY <1>7, <2>2, <2>3 DEF PlanPlans
    <3> QED BY <2>3, <3>1
  <2>5. ASSUME ~Plans!HasTwins(p), PlanKept(p, claimed) PROVE PlanKept(f[n+1], c[n+1])
    <3>1. ~Plans!HasTwins(f[n]) /\ PlanKept(f[n], c[n])
      BY <1>7, <2>5
    <3> QED BY <2>2, <3>1, PlanPutClaims
  <2>6. Plans!HasTwins(f[n+1]) => Plans!HasTwins(p)
    BY <1>7, <2>3
  <2> QED BY <2>1, <2>4, <2>5, <2>6
<1>8. N \in S
  <2> HIDE DEF S
  <2>1. \A n \in 0..N : n \in S
    BY <1>1, <1>6, <1>7, StepByStep
  <2> QED BY <1>1, <2>1
<1>9. f[N] \in PlanPlans /\ c[N] \in SUBSET Title
  BY <1>1, <1>4, <1>5
<1> QED BY <1>4, <1>5, <1>8, <1>9

(* A list that is the plan: its completed words are claims that it keeps.  *)
LEMMA PlanListsAreFair ==
    ASSUME NEW words, words \in Plans!Words(Plans!Status) \/
      words \in Plans!Words(Plans!Ticks), MaxWords \in Nat
    PROVE  /\ words \in PlanPlans /\ Len(words) \in 1..MaxWords
           /\ Plans!Completed(words) \in SUBSET Title /\ PlanKept(words, Plans!Completed(words))
<1>1. PICK n \in 1..MaxWords : words \in [1..n -> Plans!Item(Plans!Status)]
  BY DEF Plans!Words, Plans!Item, Plans!Ticks, Plans!Status
<1>2. words \in PlanPlans /\ Len(words) = n /\ DOMAIN words = 1..n
  BY <1>1 DEF PlanPlans
<1>3. \A k \in 1..n : words[k].title \in Title
  BY <1>1 DEF Plans!Item
<1>4. \A t \in Plans!Completed(words) : \E k \in 1..n : words[k].title = t /\
      words[k].status = "completed"
  BY <1>2 DEF Plans!Completed, Plans!ToSet
<1> QED BY <1>2, <1>3, <1>4 DEF PlanKept

(* A task of a plan takes a status; nothing else of the plan changes.      *)
LEMMA PlanMarkKeeps ==
    ASSUME NEW p \in PlanPlans, NEW k \in DOMAIN p, NEW st \in Plans!Status
    PROVE  LET r == [p EXCEPT ![k].status = st]
           IN /\ r \in PlanPlans /\ Len(r) = Len(p) /\ DOMAIN r = DOMAIN p
              /\ r[k].status = st /\ \A j \in DOMAIN p : j # k => r[j] = p[j]
<1>1. p[k] \in Plans!Item(Plans!Status)
  BY DEF PlanPlans
<1>2. [p[k] EXCEPT !.status = st] \in Plans!Item(Plans!Status) /\
      [p[k] EXCEPT !.status = st].status = st
  BY <1>1 DEF Plans!Item
<1>3. [p EXCEPT ![k].status = st] = [p EXCEPT ![k] = [p[k] EXCEPT !.status = st]]
  OBVIOUS
<1>4. Len(p) \in Nat /\ DOMAIN p = 1..Len(p)
  BY DEF PlanPlans
<1> DEFINE v == [p[k] EXCEPT !.status = st]
<1>5. v \in Plans!Item(Plans!Status) /\ v.status = st /\
      [p EXCEPT ![k].status = st] = [p EXCEPT ![k] = v]
  BY <1>2, <1>3
<1> HIDE DEF v
<1> QED BY <1>4, <1>5 DEF PlanPlans

LEMMA PlanBegunKeeps ==
    ASSUME NEW p \in PlanPlans, NEW k \in Nat
    PROVE  /\ Plans!Begun(k, p) \in PlanPlans /\ Len(Plans!Begun(k, p)) = Len(p) /\
              DOMAIN Plans!Begun(k, p) = DOMAIN p
           /\ \A j \in DOMAIN p : j # k => Plans!Begun(k, p)[j] = p[j]
BY PlanMarkKeeps DEF Plans!Begun, Plans!Status

-----------------------------------------------------------------------------
LEMMA PlanInitInv == ASSUME PlanBounds, Plans!Init PROVE PlanIInv
<1> USE DEF Plans!Init, PlanBounds
<1>1. <<>> \in PlanPlans /\ Len(<<>>) = 0 /\ DOMAIN <<>> = {}
  BY DEF PlanPlans
<1>2. PlanTypes
  <2>1. /\ plan \in PlanPlans /\ Len(plan) <= MaxItems
        /\ own \in PlanPlans /\ Len(own) <= MaxItems
    BY <1>1
  <2>2. planPc \in {"decompose", "loop", "over"} /\
        result \in {"none", "done", "suspended", "failed"}
    OBVIOUS
  <2>3. planI \in Nat /\ planSteps \in 0..MaxSteps
    OBVIOUS
  <2>4. /\ guarded \in BOOLEAN /\ twins \in BOOLEAN /\ mode \in {"react", "planner"}
        /\ claimed \subseteq Title
    OBVIOUS
  <2> HIDE DEF Plans!Init, PlanBounds
  <2> QED BY <2>1, <2>2, <2>3, <2>4 DEF PlanTypes
<1>3. PlanPhases
  BY DEF PlanPhases
<1>4. Plans!TwinsAreBorn
  BY <1>1 DEF Plans!TwinsAreBorn, Plans!HasTwins
<1>5. PlanClaimed
  BY DEF PlanClaimed
<1>6. Plans!DoneLeavesNothingOpen
  BY DEF Plans!DoneLeavesNothingOpen
<1> QED BY <1>2, <1>3, <1>4, <1>5, <1>6 DEF PlanIInv

LEMMA PlanUpdatePlannerFromMessageInv ==
    ASSUME PlanBounds, PlanIInv, Plans!UpdatePlannerFromMessage PROVE PlanIInv'
<1> USE DEF PlanBounds
<1>1. PICK words \in Plans!Words(Plans!Ticks) :
         /\ plan' = (IF plan = <<>> THEN words ELSE Plans!Merged(plan, words, guarded))
         /\ Len(plan') <= MaxItems
         /\ claimed' = IF plan = <<>> THEN Plans!Completed(words) ELSE Plans!Claims(words,
            guarded)
         /\ twins' = IF plan = <<>> THEN Plans!HasTwins(words) ELSE twins
  BY DEF Plans!UpdatePlannerFromMessage
<1>2. /\ UNCHANGED <<guarded, mode, own, planI, planPc, result>> /\ planPc = "loop"
      /\ planSteps < MaxSteps /\ planSteps' = planSteps + 1
  BY DEF Plans!UpdatePlannerFromMessage, Plans!Step, Plans!kept
<1>3. /\ plan \in PlanPlans /\ claimed \in SUBSET Title /\ twins \in BOOLEAN /\
         planSteps \in 0..MaxSteps
  BY DEF PlanIInv, PlanTypes
<1>4. words \in PlanPlans /\ Plans!Completed(words) \in SUBSET Title /\
      PlanKept(words, Plans!Completed(words))
  BY PlanListsAreFair
<1>5. /\ Plans!Merged(plan, words, guarded) \in PlanPlans /\
         Plans!Claims(words, guarded) \in SUBSET Title
      /\ Len(plan) <= Len(Plans!Merged(plan, words, guarded))
      /\ Plans!HasTwins(Plans!Merged(plan, words, guarded)) => Plans!HasTwins(plan)
      /\ ~Plans!HasTwins(plan) /\ PlanKept(plan, claimed) =>
         PlanKept(Plans!Merged(plan, words, guarded), Plans!Claims(words, guarded))
  BY <1>3, <1>4, PlanMergeKeeps
<1>6. plan' \in PlanPlans /\ claimed' \in SUBSET Title /\ twins' \in BOOLEAN
  BY <1>1, <1>3, <1>4, <1>5 DEF Plans!HasTwins
<1>7. PlanTypes'
  BY <1>1, <1>2, <1>3, <1>6 DEF PlanIInv, PlanTypes
<1>8. plan' # <<>>
  <2>1. Len(words) # 0
    BY PlanListsAreFair
  <2>2. plan # <<>> => Len(plan) \in Nat /\ Len(plan) # 0
    BY <1>3 DEF PlanPlans
  <2>3. Len(<<>>) = 0 /\ \A q \in PlanPlans : Len(q) \in Nat
    BY DEF PlanPlans
  <2> QED BY <1>1, <1>5, <2>1, <2>2, <2>3
<1>9. PlanPhases'
  BY <1>2, <1>8 DEF PlanIInv, PlanPhases
<1>10. Plans!TwinsAreBorn'
  BY <1>1, <1>5 DEF PlanIInv, Plans!TwinsAreBorn, Plans!HasTwins
<1>11. PlanClaimed'
  BY <1>1, <1>4, <1>5 DEF PlanIInv, Plans!TwinsAreBorn, PlanClaimed, PlanKept
<1>12. Plans!DoneLeavesNothingOpen'
  BY <1>2 DEF PlanIInv, PlanPhases, Plans!DoneLeavesNothingOpen
<1> QED BY <1>7, <1>9, <1>10, <1>11, <1>12 DEF PlanIInv

LEMMA PlanCreatePlanInv == ASSUME PlanBounds, PlanIInv, Plans!CreatePlan PROVE PlanIInv'
<1> USE DEF PlanBounds
<1>1. PICK words \in Plans!Words(Plans!Status) :
         plan' = words /\ claimed' = Plans!Completed(words) /\ twins' = Plans!HasTwins(words)
  BY DEF Plans!CreatePlan
<1>2. /\ UNCHANGED <<guarded, mode, own, planI, planPc, result>> /\ planPc = "loop"
      /\ planSteps < MaxSteps /\ planSteps' = planSteps + 1
  BY DEF Plans!CreatePlan, Plans!Step, Plans!kept
<1>3. /\ words \in PlanPlans /\ Len(words) \in 1..MaxWords
      /\ Plans!Completed(words) \in SUBSET Title /\ PlanKept(words, Plans!Completed(words))
  BY PlanListsAreFair
<1>4. Plans!HasTwins(words) \in BOOLEAN
  BY DEF Plans!HasTwins
<1>5. Len(plan') <= MaxItems
  BY <1>1, <1>3
<1>6. PlanTypes'
  BY <1>1, <1>2, <1>3, <1>4, <1>5 DEF PlanIInv, PlanTypes
<1>7. plan' # <<>>
  BY <1>1, <1>3
<1>8. PlanPhases'
  BY <1>2, <1>7 DEF PlanIInv, PlanPhases
<1>9. Plans!TwinsAreBorn'
  BY <1>1 DEF Plans!TwinsAreBorn, Plans!HasTwins
<1>10. PlanClaimed'
  BY <1>1, <1>3 DEF PlanClaimed, PlanKept
<1>11. Plans!DoneLeavesNothingOpen'
  BY <1>2 DEF PlanIInv, PlanPhases, Plans!DoneLeavesNothingOpen
<1> QED BY <1>6, <1>8, <1>9, <1>10, <1>11 DEF PlanIInv

LEMMA PlanUpdatePlanInv == ASSUME PlanBounds, PlanIInv, Plans!UpdatePlan PROVE PlanIInv'
<1> USE DEF PlanBounds
<1>1. PICK words \in Plans!Words(Plans!Status) :
         /\ plan' = Plans!Merged(plan, words, FALSE) /\ Len(plan') <= MaxItems
         /\ claimed' = Plans!Claims(words, FALSE)
  BY DEF Plans!UpdatePlan
<1>2. /\ UNCHANGED <<guarded, mode, own, planI, planPc, result, twins>> /\
         planPc = "loop" /\ plan # <<>>
      /\ planSteps < MaxSteps /\ planSteps' = planSteps + 1
  BY DEF Plans!UpdatePlan, Plans!Step, Plans!kept
<1>3. plan \in PlanPlans /\ claimed \in SUBSET Title /\ words \in PlanPlans
  BY PlanListsAreFair DEF PlanIInv, PlanTypes
<1>4. /\ plan' \in PlanPlans /\ claimed' \in SUBSET Title /\ Len(plan) <= Len(plan')
      /\ Plans!HasTwins(plan') => Plans!HasTwins(plan)
      /\ ~Plans!HasTwins(plan) /\ PlanKept(plan, claimed) => PlanKept(plan', claimed')
  BY <1>1, <1>3, PlanMergeKeeps
<1>5. PlanTypes'
  <2>1. planSteps' \in 0..MaxSteps
    BY <1>2 DEF PlanIInv, PlanTypes
  <2> QED BY <1>1, <1>2, <1>4, <2>1 DEF PlanIInv, PlanTypes
<1>6. plan' # <<>>
  <2>1. Len(plan) \in Nat /\ Len(plan) # 0 /\ Len(plan') \in Nat /\ Len(<<>>) = 0
    BY <1>2, <1>3, <1>4 DEF PlanPlans
  <2> QED BY <1>4, <2>1
<1>7. PlanPhases'
  BY <1>2, <1>6 DEF PlanIInv, PlanPhases
<1>8. Plans!TwinsAreBorn'
  BY <1>2, <1>4 DEF PlanIInv, Plans!TwinsAreBorn, Plans!HasTwins
<1>9. PlanClaimed'
  BY <1>2, <1>4 DEF PlanIInv, Plans!TwinsAreBorn, PlanClaimed, PlanKept
<1>10. Plans!DoneLeavesNothingOpen'
  BY <1>2 DEF PlanIInv, PlanPhases, Plans!DoneLeavesNothingOpen
<1> QED BY <1>5, <1>7, <1>8, <1>9, <1>10 DEF PlanIInv

LEMMA PlanAddCorrectionInv == ASSUME PlanBounds, PlanIInv, Plans!AddCorrection PROVE PlanIInv'
<1> USE DEF PlanBounds
<1> DEFINE w == [title |-> Fix, status |-> "in_progress"]
<1>1. /\ UNCHANGED <<guarded, mode, own, planI, planPc, result, twins, claimed>> /\
         planPc = "loop"
      /\ planSteps < MaxSteps /\ planSteps' = planSteps + 1 /\ Len(plan) < MaxItems
      /\ plan' = IF Plans!Find(plan, Fix) # 0 THEN plan ELSE Append(plan, w)
  BY DEF Plans!AddCorrection, Plans!Step, Plans!kept
<1>2. plan \in PlanPlans /\ claimed \in SUBSET Title /\ Len(plan) \in Nat
  BY DEF PlanIInv, PlanTypes, PlanPlans
<1>3. w \in Plans!Item(Plans!Status) /\ w.title = Fix
  BY DEF Plans!Item, Plans!Status
<1>4. CASE Plans!Find(plan, Fix) # 0
  <2>1. plan' = plan
    BY <1>1, <1>4
  <2> QED BY <1>1, <2>1
             DEF PlanIInv, PlanTypes, PlanPhases, Plans!TwinsAreBorn, PlanClaimed,
                 Plans!DoneLeavesNothingOpen, PlanKept, Plans!HasTwins, Plans!Open
<1>5. CASE Plans!Find(plan, Fix) = 0
  <2>1. plan' = Append(plan, w) /\ plan' = Plans!Put(plan, w, FALSE)
    BY <1>1, <1>3, <1>5 DEF Plans!Put, Plans!Take
  <2>2. plan' \in PlanPlans /\ (Plans!HasTwins(plan') => Plans!HasTwins(plan))
    BY <1>2, <1>3, <2>1, PlanPutKeeps
  <2> HIDE DEF w
  <2>3. /\ Len(plan') = Len(plan) + 1 /\ plan' # <<>> /\ DOMAIN plan = 1..Len(plan)
        /\ DOMAIN plan' = 1..(Len(plan) + 1) /\ \A k \in 1..Len(plan) : plan'[k] = plan[k]
    <3>1. /\ Append(plan, w) \in PlanPlans /\ Len(Append(plan, w)) = Len(plan) + 1
          /\ \A k \in 1..Len(plan) : Append(plan, w)[k] = plan[k]
      BY <1>2, <1>3 DEF PlanPlans
    <3>2. \A q \in PlanPlans : DOMAIN q = 1..Len(q)
      BY DEF PlanPlans
    <3>3. Len(<<>>) = 0
      OBVIOUS
    <3>4. DOMAIN plan = 1..Len(plan) /\ DOMAIN plan' = 1..Len(plan')
      BY <1>2, <2>2, <3>2
    <3>5. Len(plan') = Len(plan) + 1 /\ \A k \in 1..Len(plan) : plan'[k] = plan[k]
      BY <2>1, <3>1
    <3> QED BY <1>2, <3>3, <3>4, <3>5
  <2>4. PlanTypes'
    BY <1>1, <1>2, <2>2, <2>3 DEF PlanIInv, PlanTypes
  <2>5. PlanPhases'
    BY <1>1, <2>3 DEF PlanIInv, PlanPhases
  <2>6. Plans!TwinsAreBorn'
    BY <1>1, <2>2 DEF PlanIInv, Plans!TwinsAreBorn, Plans!HasTwins
  <2>7. PlanClaimed'
    BY <1>1, <1>2, <2>3 DEF PlanIInv, PlanPhases, PlanClaimed, PlanKept
  <2>8. Plans!DoneLeavesNothingOpen'
    BY <1>1 DEF PlanIInv, PlanPhases, Plans!DoneLeavesNothingOpen
  <2> QED BY <2>4, <2>5, <2>6, <2>7, <2>8 DEF PlanIInv
<1> QED BY <1>4, <1>5

(* The rest of the run: the loop returns to the PlannerLoop, or ends.      *)
LEMMA PlanCoreReturnsInv ==
    ASSUME PlanBounds, PlanIInv, NEW left, left = <<>> \/ left = plan,
      NEW words \in {"done", "suspended"},
           words = "done" => ~Plans!Open(left), planPc = "loop", Plans!CoreReturns(left, words),
           UNCHANGED <<guarded, mode, planSteps>>
    PROVE  PlanIInv'
<1> USE DEF PlanBounds
<1>1. /\ plan \in PlanPlans /\ own \in PlanPlans /\ Len(plan) <= MaxItems /\
         Len(own) <= MaxItems
      /\ planI \in Nat /\ mode \in {"react", "planner"} /\ result = "none"
  BY DEF PlanIInv, PlanTypes, PlanPhases
<1>2. CASE mode = "react"
  <2>1. planPc' = "over" /\ result' = words /\ plan' = left /\
        UNCHANGED <<own, planI, claimed, twins>>
    BY <1>2 DEF Plans!CoreReturns
  <2>2. <<>> \in PlanPlans /\ Len(<<>>) = 0 /\ DOMAIN <<>> = {}
    BY DEF PlanPlans
  <2>3. plan' \in PlanPlans /\ Len(plan') <= MaxItems
    BY <1>1, <2>1, <2>2
  <2>4. PlanTypes'
    BY <2>1, <2>3 DEF PlanIInv, PlanTypes
  <2>5. PlanPhases'
    BY <2>1 DEF PlanPhases
  <2>6. Plans!TwinsAreBorn'
    BY <2>1, <2>2 DEF PlanIInv, Plans!TwinsAreBorn, Plans!HasTwins
  <2>7. PlanClaimed'
    BY <2>1 DEF PlanIInv, PlanClaimed, PlanKept
  <2>8. Plans!DoneLeavesNothingOpen'
    BY <1>2, <2>1 DEF Plans!DoneLeavesNothingOpen, Plans!Open
  <2> QED BY <2>4, <2>5, <2>6, <2>7, <2>8 DEF PlanIInv
<1>3. CASE mode = "planner"
  <2>1. /\ own' = Plans!Begun(planI + 1, Plans!Ticked(planI, own)) /\ plan' = own' /\
           planI' = planI + 1
        /\ claimed' = {} /\ twins' = Plans!HasTwins(own')
        /\ IF planI < Len(own) THEN UNCHANGED <<planPc, result>> ELSE planPc' = "over" /\
           result' = "done"
    BY <1>3 DEF Plans!CoreReturns
  <2>2. planI \in DOMAIN own /\ \A k \in 1..(planI-1) : own[k].status = "completed"
    BY <1>3 DEF PlanIInv, PlanPhases
  <2>3. DOMAIN own = 1..Len(own) /\ Len(own) \in Nat
    BY <1>1 DEF PlanPlans
  <2>4. /\ Plans!Ticked(planI, own) \in PlanPlans /\ Len(Plans!Ticked(planI, own)) = Len(own)
        /\ DOMAIN Plans!Ticked(planI, own) = DOMAIN own /\
           Plans!Ticked(planI, own)[planI].status = "completed"
        /\ \A j \in DOMAIN own : j # planI => Plans!Ticked(planI, own)[j] = own[j]
    <3>1. "completed" \in Plans!Status
      BY DEF Plans!Status
    <3> QED BY <1>1, <2>2, <3>1, PlanMarkKeeps DEF Plans!Ticked
  <2>5. /\ own' \in PlanPlans /\ Len(own') = Len(own) /\ DOMAIN own' = DOMAIN own
        /\ \A j \in DOMAIN own : j # planI + 1 => own'[j] = Plans!Ticked(planI, own)[j]
    <3>1. planI + 1 \in Nat
      BY <1>1
    <3> QED BY <2>1, <2>4, <3>1, PlanBegunKeeps
  <2>6. \A k \in 1..planI : k \in DOMAIN own' /\ own'[k].status = "completed"
    <3>1. SUFFICES ASSUME NEW k \in 1..planI
          PROVE k \in DOMAIN own' /\ own'[k].status = "completed"
      OBVIOUS
    <3>2. k \in DOMAIN own /\ k # planI + 1 /\ (k = planI \/ k \in 1..(planI-1))
      BY <1>1, <2>2, <2>3
    <3> QED BY <2>2, <2>4, <2>5, <3>2
  <2>7. /\ planPc' \in {"loop", "over"} /\ result' \in {"none", "done"}
        /\ planPc' = "loop" => result' = "none" /\ planI + 1 \in DOMAIN own
        /\ result' = "done" => planI = Len(own)
    <3>1. planI \in 1..Len(own) /\ planPc = "loop"
      BY <2>2, <2>3
    <3>2. CASE planI < Len(own)
      BY <1>1, <2>1, <2>3, <3>1, <3>2
    <3>3. CASE ~(planI < Len(own))
      <4>1. planPc' = "over" /\ result' = "done"
        BY <2>1, <3>3
      <4>2. planI = Len(own)
        <5>1. planI \in Nat /\ Len(own) \in Nat /\ planI <= Len(own)
          BY <1>1, <2>3, <3>1
        <5> HIDE DEF PlanBounds
        <5> QED BY <3>3, <5>1
      <4> QED BY <4>1, <4>2
    <3> QED BY <3>2, <3>3
  <2>8. PlanTypes'
    <3>1. planI' \in Nat /\ twins' \in BOOLEAN /\ claimed' \subseteq Title
      BY <1>1, <2>1 DEF Plans!HasTwins
    <3> QED BY <1>1, <2>1, <2>5, <2>7, <3>1 DEF PlanIInv, PlanTypes
  <2>9. PlanPhases'
    <3>1. (planI + 1) - 1 = planI
      BY <1>1
    <3> QED BY <2>1, <2>5, <2>6, <2>7, <3>1 DEF PlanPhases
  <2>10. Plans!TwinsAreBorn'
    BY <2>1 DEF Plans!TwinsAreBorn, Plans!HasTwins
  <2>11. PlanClaimed'
    BY <2>1 DEF PlanClaimed, PlanKept
  <2>12. Plans!DoneLeavesNothingOpen'
    <3>1. ASSUME result' = "done" PROVE \A k \in DOMAIN own' : own'[k].status = "completed"
      BY <2>3, <2>5, <2>6, <2>7, <3>1
    <3> QED BY <2>1, <3>1 DEF Plans!DoneLeavesNothingOpen, Plans!Open
  <2> QED BY <2>8, <2>9, <2>10, <2>11, <2>12 DEF PlanIInv
<1> QED BY <1>1, <1>2, <1>3

LEMMA PlanCoreFailsInv == ASSUME PlanBounds, PlanIInv, Plans!CoreFails PROVE PlanIInv'
<1> USE DEF PlanBounds
<1>1. /\ plan \in PlanPlans /\ own \in PlanPlans /\ Len(plan) <= MaxItems /\
         Len(own) <= MaxItems
      /\ mode \in {"react", "planner"} /\ planPc = "loop"
  BY DEF PlanIInv, PlanTypes, Plans!CoreFails
<1>2. planPc' = "over" /\ result' = "failed" /\ UNCHANGED <<guarded, mode, planI, planSteps>>
  BY DEF Plans!CoreFails
<1>3. PlanPhases' /\ Plans!DoneLeavesNothingOpen'
  BY <1>2 DEF PlanPhases, Plans!DoneLeavesNothingOpen
<1>4. CASE mode = "react"
  <2>1. UNCHANGED <<plan, own, claimed, twins>>
    BY <1>4 DEF Plans!CoreFails
  <2>2. PlanTypes' /\ Plans!TwinsAreBorn' /\ PlanClaimed'
    BY <1>2, <2>1
       DEF PlanIInv, PlanTypes, Plans!TwinsAreBorn, PlanClaimed, Plans!HasTwins, PlanKept
  <2> QED BY <1>3, <2>2 DEF PlanIInv
<1>5. CASE mode = "planner"
  <2>1. /\ own' = [own EXCEPT ![planI].status = "failed"] /\ plan' = own' /\ claimed' = {}
        /\ twins' = Plans!HasTwins(own')
    BY <1>5 DEF Plans!CoreFails
  <2>2. planI \in DOMAIN own /\ "failed" \in Plans!Status
    BY <1>1, <1>5 DEF PlanIInv, PlanPhases, Plans!Status
  <2>3. own' \in PlanPlans /\ Len(own') = Len(own) /\ twins' \in BOOLEAN
    <3>1. own' \in PlanPlans /\ Len(own') = Len(own)
      <4>1. /\ [own EXCEPT ![planI].status = "failed"] \in PlanPlans
            /\ Len([own EXCEPT ![planI].status = "failed"]) = Len(own)
        BY <1>1, <2>2, PlanMarkKeeps
      <4> QED BY <2>1, <4>1
    <3> QED BY <2>1, <3>1 DEF Plans!HasTwins
  <2>4. PlanTypes'
    BY <1>1, <1>2, <2>1, <2>3 DEF PlanIInv, PlanTypes
  <2>5. Plans!TwinsAreBorn' /\ PlanClaimed'
    BY <2>1 DEF Plans!TwinsAreBorn, PlanClaimed, Plans!HasTwins, PlanKept
  <2> QED BY <1>3, <2>4, <2>5 DEF PlanIInv
<1> QED BY <1>1, <1>4, <1>5

LEMMA PlanDecomposeInv == ASSUME PlanBounds, PlanIInv, Plans!Decompose PROVE PlanIInv'
<1> USE DEF PlanBounds
<1>1. PICK n \in 0..MaxWords : \E names \in [1..n -> Title] :
         /\ own' = Plans!Begun(1, [k \in 1..n |-> [title |-> names[k], status |-> "pending"]])
         /\ planI' = 1 /\ plan' = own' /\ twins' = Plans!HasTwins(own')
         /\ planPc' = IF n = 0 THEN "over" ELSE "loop"
         /\ result' = IF n = 0 THEN "done" ELSE "none"
  BY DEF Plans!Decompose
<1>2. PICK names \in [1..n -> Title] :
         /\ own' = Plans!Begun(1, [k \in 1..n |-> [title |-> names[k], status |-> "pending"]])
         /\ planI' = 1 /\ plan' = own' /\ twins' = Plans!HasTwins(own')
         /\ planPc' = IF n = 0 THEN "over" ELSE "loop"
         /\ result' = IF n = 0 THEN "done" ELSE "none"
  BY <1>1
<1> DEFINE list == [k \in 1..n |-> [title |-> names[k], status |-> "pending"]]
<1>3. UNCHANGED <<guarded, mode, claimed, planSteps>> /\ claimed = {} /\ mode = "planner" /\
      planPc = "decompose"
  BY DEF Plans!Decompose, PlanIInv, PlanPhases
<1>4. list \in PlanPlans /\ Len(list) = n /\ n \in Nat
  BY DEF PlanPlans, Plans!Item, Plans!Status
<1>5. own' \in PlanPlans /\ Len(own') = n /\ DOMAIN own' = 1..n
  <2> HIDE DEF list
  <2>1. own' \in PlanPlans /\ Len(own') = Len(list)
    BY <1>2, <1>4, PlanBegunKeeps DEF list
  <2> QED BY <1>4, <2>1 DEF PlanPlans
<1>6. PlanTypes'
  BY <1>2, <1>3, <1>5 DEF PlanIInv, PlanTypes, Plans!HasTwins
<1>7. PlanPhases'
  BY <1>2, <1>3, <1>4, <1>5 DEF PlanPhases
<1>8. Plans!TwinsAreBorn' /\ PlanClaimed'
  <2>1. claimed' = {} /\ plan' = own' /\ twins' = Plans!HasTwins(own')
    BY <1>2, <1>3
  <2> QED BY <2>1 DEF Plans!TwinsAreBorn, PlanClaimed, Plans!HasTwins, PlanKept
<1>9. Plans!DoneLeavesNothingOpen'
  BY <1>2, <1>5 DEF Plans!DoneLeavesNothingOpen, Plans!Open
<1> QED BY <1>6, <1>7, <1>8, <1>9 DEF PlanIInv

LEMMA PlanStepInv == ASSUME PlanBounds, PlanIInv, [Plans!Next]_(Plans!vars) PROVE PlanIInv'
<1>1. CASE Plans!Finish
  <2> DEFINE left == IF Plans!Open(plan) THEN <<>> ELSE plan
  <2>1. left = <<>> \/ left = plan
    OBVIOUS
  <2>2. ~Plans!Open(left)
    BY DEF Plans!Open
  <2>3. planPc = "loop" /\ Plans!CoreReturns(left, "done") /\
        UNCHANGED <<guarded, mode, planSteps>>
    BY <1>1 DEF Plans!Finish
  <2> HIDE DEF left
  <2> QED BY <2>1, <2>2, <2>3, PlanCoreReturnsInv
<1>2. CASE Plans!Suspend
  <2>1. planPc = "loop" /\ Plans!CoreReturns(plan, "suspended") /\
        UNCHANGED <<guarded, mode, planSteps>>
    BY <1>2 DEF Plans!Suspend
  <2> QED BY <2>1, PlanCoreReturnsInv
<1>3. CASE Plans!DecomposeFails
  <2>1. planPc' = "over" /\ result' = "failed" /\
        UNCHANGED <<plan, guarded, mode, own, planI, claimed, twins, planSteps>>
    BY <1>3 DEF Plans!DecomposeFails, Plans!kept
  <2> QED BY <2>1
             DEF PlanIInv, PlanTypes, PlanPhases, Plans!TwinsAreBorn, PlanClaimed,
                 Plans!DoneLeavesNothingOpen, Plans!HasTwins, PlanKept
<1>4. CASE UNCHANGED Plans!vars
  BY <1>4
     DEF Plans!vars, PlanIInv, PlanTypes, PlanPhases, Plans!TwinsAreBorn, PlanClaimed,
         Plans!DoneLeavesNothingOpen, Plans!HasTwins, PlanKept, Plans!Open
<1> QED BY <1>1, <1>2, <1>3, <1>4, PlanUpdatePlannerFromMessageInv, PlanCreatePlanInv,
           PlanUpdatePlanInv, PlanAddCorrectionInv, PlanCoreFailsInv, PlanDecomposeInv
           DEF Plans!Next

LEMMA PlanInvIsSound == ASSUME PlanIInv PROVE Plans!PlanSound
<1>1. Plans!TypeOK
  BY DEF PlanIInv, PlanTypes, PlanPlans, Plans!TypeOK
<1>2. Plans!ClaimIsKept
  <2>1. SUFFICES ASSUME ~twins, plan # <<>>, NEW t \in claimed
                 PROVE  Plans!Find(plan, t) # 0 /\
                   plan[Plans!Find(plan, t)].status = "completed"
    BY DEF Plans!ClaimIsKept
  <2>2. plan \in PlanPlans /\ ~Plans!HasTwins(plan)
    BY <2>1 DEF PlanIInv, PlanTypes, Plans!TwinsAreBorn
  <2>3. PICK k \in DOMAIN plan : Norm[plan[k].title] = Norm[t] /\ plan[k].status = "completed"
    BY <2>1 DEF PlanIInv, PlanClaimed, PlanKept
  <2>4. Plans!Find(plan, t) = k /\ k # 0
    BY <2>2, <2>3, PlanFindAlone DEF PlanPlans
  <2> QED BY <2>3, <2>4
<1> QED BY <1>1, <1>2 DEF PlanIInv, Plans!PlanSound

(* The plan of a run is sound: a list merged into it never makes a second  *)
(* task of a title, what the model has said is completed stays completed   *)
(* until it says otherwise, and a run that is done leaves nothing open.    *)
THEOREM PlanIsSound == ASSUME PlanBounds PROVE Plans!Spec => []Plans!PlanSound
<1>1. Plans!Spec => []PlanIInv
  BY PlanInitInv, PlanStepInv, PTL DEF Plans!Spec
<1>2. PlanIInv => Plans!PlanSound
  BY PlanInvIsSound
<1> QED BY <1>1, <1>2, PTL

(* The composition runs the plan as it is specified: the other parts leave *)
(* its variables alone.                                                    *)
LEMMA PlansRuns == Spec => Plans!Spec
<1>1. Init => Plans!Init
  BY DEF Init
<1>2. ASSUME [Next]_vars PROVE [Plans!Next]_(Plans!vars)
  <2>1. CASE InPlans(Plans!Next)
    BY <2>1 DEF InPlans
  <2>2. UNCHANGED plansVars => UNCHANGED Plans!vars
    BY DEF plansVars, Plans!vars
  <2>3. ~InPlans(Plans!Next) => UNCHANGED plansVars
    BY <1>2 DEF Next, vars, InTalk, InLlm, InHelpers, InGate, InDetectors, InTexts,
                InMistakes
  <2> QED BY <2>1, <2>2, <2>3
<1> QED BY <1>1, <1>2, PTL DEF Spec, Plans!Spec

-----------------------------------------------------------------------------
-----------------------------------------------------------------------------
LEMMA GateInitInv == ASSUME GateBounds, Gate!Init PROVE Gate!GateSound
<1>1. godot \in BOOLEAN /\ touched \in BOOLEAN /\ nudged \in BOOLEAN
  BY DEF Gate!Init
<1>2. announced \subseteq Gate!Labels \X Announceable /\ used \subseteq {"build", "verify"} /\ disk \subseteq Place
      /\ owed \subseteq Announceable
  BY DEF Gate!Init
<1>3. Gate!TypeOK
  BY <1>1, <1>2 DEF GateBounds, Gate!Init, Gate!TypeOK, Gate!Suites
<1>4. Gate!BuildsAreTried /\ Gate!OnlyUnkeptPromisesSendBack
  BY DEF Gate!Init, Gate!BuildsAreTried, Gate!OnlyUnkeptPromisesSendBack, Gate!Missing
<1> QED BY <1>3, <1>4 DEF Gate!GateSound

(* What the run and others do to the workspace and to the texts.           *)
LEMMA GateWorkInv ==
    ASSUME GateBounds, Gate!GateSound, Gate!Step, Gate!TypeOK',
      Gate!OnlyUnkeptPromisesSendBack', UNCHANGED <<godot, nudged, nudges, verdict, gatePc>>
    PROVE  Gate!GateSound'
BY DEF Gate!GateSound, Gate!BuildsAreTried, Gate!Step

LEMMA GateAnnounceInv ==
    ASSUME GateBounds, Gate!GateSound, NEW label \in Gate!Labels, NEW p \in Announceable,
      Gate!Announce(label, p)
    PROVE  Gate!GateSound'
<1>1. Gate!TypeOK'
  BY DEF GateBounds, Gate!GateSound, Gate!TypeOK, Gate!Announce, Gate!Step, Gate!project
<1>2. Gate!OnlyUnkeptPromisesSendBack'
  BY DEF Gate!GateSound, Gate!OnlyUnkeptPromisesSendBack, Gate!Missing, Gate!Resolves,
         Gate!Announce
<1> QED BY <1>1, <1>2, GateWorkInv DEF Gate!Announce, Gate!project

LEMMA GateChangeInv ==
    ASSUME GateBounds, Gate!GateSound, NEW q \in Place, Gate!EditFile(q) \/ Gate!OtherChange(q)
    PROVE  Gate!GateSound'
<1>1. Gate!Appears(q) \/ Gate!Goes(q)
  BY DEF Gate!EditFile, Gate!OtherChange
<1>2. Gate!Step /\ suite' \in Gate!Suites /\ touched' \in {touched, TRUE} /\
      UNCHANGED <<godot, Gate!told, fix, gatePc, verdict>>
  BY DEF Gate!EditFile, Gate!OtherChange
<1>3. disk' \subseteq Place /\ owed' \subseteq Announceable
  BY <1>1 DEF Gate!Appears, Gate!Goes, Gate!GateSound, Gate!TypeOK
<1>4. touched' \in BOOLEAN /\ godot' \in BOOLEAN /\ nudged' \in BOOLEAN
  BY <1>2, Zenon DEF Gate!GateSound, Gate!TypeOK, Gate!told
<1>5. Gate!TypeOK'
  <2>1. gateSteps' \in 0..MaxChanges
    BY <1>2 DEF GateBounds, Gate!GateSound, Gate!TypeOK, Gate!Step
  <2>2. suite' \in Gate!Suites /\ fix' = fix /\ gatePc' = gatePc /\ verdict' = verdict
    BY <1>2
  <2>3. announced' = announced /\ used' = used /\ nudges' = nudges
    BY <1>2 DEF Gate!told
  <2> QED BY <1>3, <1>4, <2>1, <2>2, <2>3 DEF Gate!GateSound, Gate!TypeOK
<1>6. Gate!OnlyUnkeptPromisesSendBack'
  <2>1. SUFFICES ASSUME NEW p \in Gate!Missing', ~(<<"DELETE", p>> \in announced)
        PROVE p \in owed'
    BY <1>2 DEF Gate!OnlyUnkeptPromisesSendBack, Gate!Missing, Gate!told
  <2>2. p \in Announceable /\ Gate!Suffixes(p) \cap disk' = {} /\
        \E l \in Gate!Labels : <<l, p>> \in announced
    BY <1>2 DEF Gate!Missing, Gate!Resolves, Gate!told
  <2>3. Gate!Suffixes(p) \cap disk = {} => p \in owed
    BY <2>1, <2>2
       DEF Gate!GateSound, Gate!OnlyUnkeptPromisesSendBack, Gate!Missing, Gate!Resolves
  <2>4. CASE Gate!Appears(q)
    BY <2>2, <2>3, <2>4 DEF Gate!Appears
  <2>5. CASE Gate!Goes(q)
    <3>1. CASE q \in Gate!Suffixes(p)
      BY <2>1, <2>2, <2>5, <3>1 DEF Gate!Goes
    <3>2. CASE q \notin Gate!Suffixes(p)
      BY <2>2, <2>3, <2>5, <3>2 DEF Gate!Goes
    <3> QED BY <3>1, <3>2
  <2> QED BY <1>1, <2>4, <2>5
<1> QED BY <1>2, <1>5, <1>6, GateWorkInv DEF Gate!told

LEMMA GateTryInv ==
    ASSUME GateBounds, Gate!GateSound, (\E k \in {"build", "verify"} : Gate!UseGodot(k)) \/
      Gate!TickFix
    PROVE  Gate!GateSound'
<1>1. /\ Gate!Step /\ used' \subseteq {"build", "verify"} /\ fix' \in {"absent", "open", "done"}
      /\ UNCHANGED <<Gate!project, announced, nudged, nudges, disk, gatePc, verdict, owed>>
  BY DEF Gate!UseGodot, Gate!TickFix, Gate!told, Gate!GateSound, Gate!TypeOK
<1>2. Gate!TypeOK'
  BY <1>1 DEF GateBounds, Gate!GateSound, Gate!TypeOK, Gate!Step, Gate!project
<1>3. Gate!OnlyUnkeptPromisesSendBack'
  BY <1>1 DEF Gate!GateSound, Gate!OnlyUnkeptPromisesSendBack, Gate!Missing, Gate!Resolves
<1> QED BY <1>1, <1>2, <1>3, GateWorkInv DEF Gate!project

(* The gates of an answer: the reminder is given once, and ends only what  *)
(* has passed it.                                                          *)
LEMMA GateAnswerInv == ASSUME GateBounds, Gate!GateSound, Gate!Answer PROVE Gate!GateSound'
<1>1. /\ gatePc = "works" /\ UNCHANGED <<Gate!project, announced, used, disk, owed, gateSteps>>
      /\ verdict' \in {"verify", "missing", "tests", "ended"}
      /\ verdict' = "ended" => ~Gate!GateGodot
      /\ gatePc' = IF verdict' = "ended" THEN "over" ELSE "works"
  BY DEF Gate!Answer
<1>2. /\ nudged' = (nudged \/ Gate!GateGodot)
      /\ nudges' = nudges + (IF Gate!GateGodot THEN 1 ELSE 0)
      /\ Gate!GateGodot => ~nudged
      /\ nudged \in BOOLEAN /\ nudges \in 0..1 /\ (nudges = 1 <=> nudged)
  BY DEF Gate!Answer, Gate!GateGodot, Gate!GateSound, Gate!TypeOK, Gate!BuildsAreTried
<1>3. nudged' \in BOOLEAN /\ nudges' \in 0..1 /\ (nudges' = 1 <=> nudged')
  <2>1. CASE Gate!GateGodot
    <3>1. nudged' = TRUE /\ nudged = FALSE
      BY <1>2, <2>1, Zenon
    <3>2. nudges = 0
      BY <1>2, <3>1
    <3> QED BY <1>2, <2>1, <3>1, <3>2
  <2>2. CASE ~Gate!GateGodot
    BY <1>2, <2>2
  <2> QED BY <2>1, <2>2
<1>4. fix' \in {"absent", "open", "done"}
  BY DEF Gate!Answer, Gate!GateSound, Gate!TypeOK
<1>5. Gate!TypeOK'
  BY <1>1, <1>3, <1>4 DEF Gate!GateSound, Gate!TypeOK, Gate!project
<1>6. Gate!BuildsAreTried'
  BY <1>1, <1>2, <1>3 DEF Gate!BuildsAreTried, Gate!GateGodot, Gate!project
<1>7. Gate!OnlyUnkeptPromisesSendBack'
  BY <1>1 DEF Gate!GateSound, Gate!OnlyUnkeptPromisesSendBack, Gate!Missing, Gate!Resolves
<1> QED BY <1>5, <1>6, <1>7 DEF Gate!GateSound

LEMMA GateStepInv == ASSUME GateBounds, Gate!GateSound, [Gate!Next]_(Gate!vars)
    PROVE Gate!GateSound'
<1>1. CASE UNCHANGED Gate!vars \/ Gate!Intent
  <2>1. /\ UNCHANGED <<Gate!project, Gate!told, disk, fix, owed, gateSteps>>
        /\ gatePc' \in {"works", "over"} /\ verdict' \in {verdict, "none"} /\
           (gatePc' = "over" => UNCHANGED <<gatePc, verdict>>)
    BY <1>1 DEF Gate!vars, Gate!Intent, Gate!GateSound, Gate!TypeOK
  <2>2. Gate!TypeOK'
    BY <2>1 DEF Gate!GateSound, Gate!TypeOK, Gate!project, Gate!told
  <2>3. Gate!BuildsAreTried'
    BY <2>1 DEF Gate!GateSound, Gate!BuildsAreTried, Gate!project, Gate!told
  <2>4. Gate!OnlyUnkeptPromisesSendBack'
    BY <2>1
       DEF Gate!GateSound, Gate!OnlyUnkeptPromisesSendBack, Gate!Missing, Gate!Resolves,
           Gate!told
  <2> QED BY <2>2, <2>3, <2>4 DEF Gate!GateSound
<1> QED BY <1>1, GateAnnounceInv, GateChangeInv, GateTryInv, GateAnswerInv DEF Gate!Next

(* A Godot project that was built is tried, or the run was reminded of it, *)
(* before it ends, and a file is asked for only when it was announced and  *)
(* not written, is gone again, or its removal was announced.               *)
THEOREM GateIsSound == ASSUME GateBounds PROVE Gate!Spec => []Gate!GateSound
<1>1. Gate!Init => Gate!GateSound
  BY GateInitInv
<1>2. Gate!GateSound /\ [Gate!Next]_(Gate!vars) => Gate!GateSound'
  BY GateStepInv
<1> QED BY <1>1, <1>2, PTL DEF Gate!Spec

(* The composition runs the gate at the end of a run as it is specified:   *)
(* the other parts leave its variables alone.                              *)
LEMMA GateRuns == Spec => Gate!Spec
<1>1. Init => Gate!Init
  BY DEF Init
<1>2. ASSUME [Next]_vars PROVE [Gate!Next]_(Gate!vars)
  <2>1. CASE InGate(Gate!Next)
    BY <2>1 DEF InGate
  <2>2. UNCHANGED gateVars => UNCHANGED Gate!vars
    BY DEF gateVars, Gate!vars, Gate!project, Gate!told
  <2>3. ~InGate(Gate!Next) => UNCHANGED gateVars
    BY <1>2 DEF Next, vars, InTalk, InLlm, InHelpers, InPlans, InDetectors, InTexts,
                InMistakes
  <2> QED BY <2>1, <2>2, <2>3
<1> QED BY <1>1, <1>2, PTL DEF Spec, Gate!Spec

(* Merging lists makes no second task of a title, what the model claimed   *)
(* completed stays so until it says otherwise, a run that is done leaves   *)
(* no task open, the gate sends a run back only for a file that was        *)
(* promised, and a run that built a Godot project has verified it or been  *)
(* told to once (planner.go, completion_gate.go).                          *)
THEOREM DecisionsPlan == Spec => []PlanSound
<1>1. PlanBounds /\ GateBounds
  BY DecisionsAssumption
<1>2. Plans!Spec => []Plans!PlanSound
  BY <1>1, PlanIsSound
<1>3. Gate!Spec => []Gate!GateSound
  BY <1>1, GateIsSound
<1> QED BY <1>2, <1>3, PlansRuns, GateRuns, PTL DEF PlanSound

-----------------------------------------------------------------------------
-----------------------------------------------------------------------------
DetectorRole == {"user", "go", "assistant"}
DetectorMessage == [role : DetectorRole, text : {text} \cup {NoText}, calls : Lists \cup {<<>>}]

DetectorTypes == /\ detLog \in Seq(DetectorMessage) /\ Len(detLog) <= MaxMsgs /\
                    start \in 0..MaxMsgs
                 /\ detPc \in {"idle", "turn"} /\ futile \in 0..2
                 /\ reason \in {"none", "finished", "repetitive_loop", "command_loop",
                                "ineffective_correction_loop"}
                 /\ entries \in [Action -> 0..MaxAttempts]
                 /\ order \in Seq(Action) /\ failures \in Seq(Action)

(* A turn has no reason to end yet; a run ended for repetition shows one.   *)
DetectorTurns == /\ detPc = "turn" => reason = "none" /\ futile <= 1
                 /\ reason = "repetitive_loop" => Detectors!DetectRepetitiveLoop(detLog)

(* The place of an action's last failure, 0 when it has not failed.        *)
DetectorLastIn(f, a) == Detectors!Max({0} \cup {k \in DOMAIN f : f[k] = a})

(* The memory has the actions that failed last, in the order they did; one *)
(* that was forgotten failed before them all.                              *)
DetectorRemembers(f, o, e) ==
    /\ Len(o) <= MaxSize
    /\ \A j, k \in DOMAIN o : j < k => DetectorLastIn(f, o[j]) < DetectorLastIn(f, o[k])
    /\ \A k \in DOMAIN o : DetectorLastIn(f, o[k]) > 0
    /\ \A a \in Action : (e[a] > 0) <=> (\E k \in DOMAIN o : o[k] = a)
    /\ \A a \in Action : DetectorLastIn(f, a) > 0 /\ e[a] = 0 =>
          /\ Len(o) = MaxSize
          /\ DetectorLastIn(f, a) < DetectorLastIn(f, o[1])
DetectorRemembered == DetectorRemembers(failures, order, entries)

DetectorIInv == DetectorTypes /\ DetectorTurns /\ Detectors!NoThirdTime /\ DetectorRemembered

-----------------------------------------------------------------------------
(* The greatest of a set.                                                  *)
LEMMA DetectorMaxIs ==
    ASSUME NEW S, S \subseteq Nat, NEW m \in S, \A k \in S : k <= m
    PROVE  Detectors!Max(S) = m
<1>1. \A k \in S : m >= k
  OBVIOUS
<1>2. \A n \in S : (\A k \in S : n >= k) => n = m
  OBVIOUS
<1> QED BY <1>1, <1>2, Zenon DEF Detectors!Max

(* Where an action failed last.                                            *)
LEMMA DetectorLastInIs ==
    ASSUME NEW f \in Seq(Action), NEW a
    PROVE  /\ DetectorLastIn(f, a) \in 0..Len(f)
           /\ DetectorLastIn(f, a) > 0 => f[DetectorLastIn(f, a)] = a
           /\ \A k \in DOMAIN f : f[k] = a => k <= DetectorLastIn(f, a)
<1> DEFINE S == {k \in DOMAIN f : f[k] = a}
<1>1. Len(f) \in Nat /\ DOMAIN f = 1..Len(f) /\ S \subseteq 1..Len(f)
  OBVIOUS
<1>2. CASE S = {}
  <2>1. Detectors!Max({0} \cup S) = 0
    <3>1. {0} \cup S \subseteq Nat /\ 0 \in {0} \cup S /\ \A k \in {0} \cup S : k <= 0
      BY <1>2
    <3> HIDE DEF S
    <3> QED BY <3>1, DetectorMaxIs
  <2>2. DetectorLastIn(f, a) = 0
    BY <2>1 DEF DetectorLastIn
  <2> QED BY <1>1, <1>2, <2>2
<1>3. CASE S # {}
  <2>1. PICK m \in S : \A k \in S : k <= m
    <3> HIDE DEF S
    <3> QED BY <1>1, <1>3, LastPlace
  <2>2. Detectors!Max({0} \cup S) = m
    <3>1. {0} \cup S \subseteq Nat /\ m \in {0} \cup S /\ \A k \in {0} \cup S : k <= m
      BY <1>1, <2>1
    <3> HIDE DEF S
    <3> QED BY <3>1, DetectorMaxIs
  <2>3. DetectorLastIn(f, a) = m
    BY <2>2 DEF DetectorLastIn
  <2> QED BY <1>1, <2>1, <2>3
<1> QED BY <1>2, <1>3

LEMMA DetectorLastInMoves ==
    ASSUME NEW f \in Seq(Action), NEW a \in Action, NEW b
    PROVE  DetectorLastIn(Append(f, a), b) = IF b = a THEN Len(f) + 1 ELSE DetectorLastIn(f, b)
<1> DEFINE g == Append(f, a)
<1>1. g \in Seq(Action) /\ Len(g) = Len(f) + 1 /\ g[Len(f) + 1] = a /\
      \A k \in 1..Len(f) : g[k] = f[k]
  OBVIOUS
<1>2. DOMAIN g = 1..(Len(f) + 1) /\ DOMAIN f = 1..Len(f) /\ Len(f) \in Nat
  BY <1>1
<1> SUFFICES DetectorLastIn(g, b) = IF b = a THEN Len(f) + 1 ELSE DetectorLastIn(f, b)
  OBVIOUS
<1> HIDE DEF g
<1>3. /\ DetectorLastIn(g, b) \in 0..Len(g)
      /\ DetectorLastIn(g, b) > 0 => g[DetectorLastIn(g, b)] = b
      /\ \A k \in DOMAIN g : g[k] = b => k <= DetectorLastIn(g, b)
  BY <1>1, DetectorLastInIs
<1>4. /\ DetectorLastIn(f, b) \in 0..Len(f)
      /\ DetectorLastIn(f, b) > 0 => f[DetectorLastIn(f, b)] = b
      /\ \A k \in DOMAIN f : f[k] = b => k <= DetectorLastIn(f, b)
  BY DetectorLastInIs
<1>5. CASE b = a
  <2>1. Len(f) + 1 \in DOMAIN g /\ g[Len(f) + 1] = b
    BY <1>1, <1>2, <1>5
  <2>2. Len(f) + 1 <= DetectorLastIn(g, b)
    BY <1>3, <2>1
  <2> QED BY <1>1, <1>2, <1>3, <1>5, <2>2
<1>6. CASE b # a
  <2>1. DetectorLastIn(g, b) \in 0..Len(f)
    BY <1>1, <1>2, <1>3, <1>6
  <2>2. DetectorLastIn(g, b) <= DetectorLastIn(f, b)
    BY <1>1, <1>2, <1>3, <1>4, <2>1
  <2>3. DetectorLastIn(f, b) <= DetectorLastIn(g, b)
    <3>1. CASE DetectorLastIn(f, b) > 0
      <4>1. DetectorLastIn(f, b) \in DOMAIN g /\ DetectorLastIn(f, b) \in 1..Len(f)
        BY <1>2, <1>4, <3>1
      <4>2. g[DetectorLastIn(f, b)] = b
        BY <1>1, <1>4, <3>1, <4>1
      <4> QED BY <1>3, <4>1, <4>2
    <3> QED BY <1>3, <1>4, <2>1, <3>1
  <2> QED BY <1>6, <2>1, <2>2, <2>3, <1>4
<1> QED BY <1>5, <1>6

-----------------------------------------------------------------------------
(* What is left of the order once an action that is there once is out.     *)
LEMMA DetectorRemoveFirstIs ==
    ASSUME NEW o \in Seq(Action), NEW i \in DOMAIN o, \A k \in DOMAIN o : o[k] = o[i] => k = i
    PROVE  /\ Detectors!RemoveFirst(o, o[i]) \in Seq(Action)
           /\ Len(Detectors!RemoveFirst(o, o[i])) = Len(o) - 1
           /\ \A k \in 1..(Len(o) - 1) : Detectors!RemoveFirst(o,
              o[i])[k] = IF k < i THEN o[k] ELSE o[k+1]
<1> DEFINE I == {k \in 1..Len(o) : o[k] = o[i]}
           p == SubSeq(o, 1, i - 1)
           q == SubSeq(o, i + 1, Len(o))
           r == p \o q
<1>1. Len(o) \in Nat /\ DOMAIN o = 1..Len(o) /\ i \in 1..Len(o)
  OBVIOUS
<1>2. I = {i}
  BY <1>1
<1>3. Detectors!Min(I) = i
  <2>1. \A k \in I : i =< k
    BY <1>1, <1>2
  <2>2. \A k \in I : (\A j \in I : k =< j) => k = i
    BY <1>2
  <2> HIDE DEF I
  <2> QED BY <1>2, <2>1, <2>2, Zenon DEF Detectors!Min
<1>4. Detectors!RemoveFirst(o, o[i]) = r
  <2>1. \E k \in 1..Len(o) : o[k] = o[i]
    BY <1>1
  <2>2. Detectors!SelectInSeq(o, LAMBDA v : v = o[i]) = i
    BY <1>2, <1>3 DEF Detectors!SelectInSeq
  <2> QED BY <2>1, <2>2 DEF Detectors!RemoveFirst, Detectors!RemoveAt
<1>5. p \in Seq(Action) /\ Len(p) = i - 1 /\ \A k \in 1..(i - 1) : p[k] = o[k]
  BY <1>1
<1>6. q \in Seq(Action) /\ Len(q) = Len(o) - i /\ \A k \in 1..(Len(o) - i) : q[k] = o[i + k]
  BY <1>1
<1>7. /\ r \in Seq(Action) /\ Len(r) = Len(p) + Len(q)
      /\ \A k \in 1..(Len(p) + Len(q)) : r[k] = IF k <= Len(p) THEN p[k] ELSE q[k - Len(p)]
  <2> HIDE DEF p, q
  <2> QED BY <1>5, <1>6, ConcatProperties
<1> SUFFICES /\ r \in Seq(Action) /\ Len(r) = Len(o) - 1
             /\ \A k \in 1..(Len(o) - 1) : r[k] = IF k < i THEN o[k] ELSE o[k+1]
  BY <1>4
<1> HIDE DEF p, q, r
<1>8. Len(r) = Len(o) - 1
  BY <1>1, <1>5, <1>6, <1>7
<1>9. ASSUME NEW k \in 1..(Len(o) - 1) PROVE r[k] = IF k < i THEN o[k] ELSE o[k+1]
  <2>1. r[k] = IF k <= i - 1 THEN p[k] ELSE q[k - (i - 1)]
    BY <1>1, <1>5, <1>6, <1>7
  <2>2. CASE k < i
    BY <1>1, <1>5, <2>1, <2>2
  <2>3. CASE k >= i
    <3> DEFINE m == k - (i - 1)
    <3>1. r[k] = q[m] /\ m \in 1..(Len(o) - i) /\ i + m = k + 1
      BY <1>1, <2>1, <2>3
    <3> HIDE DEF m
    <3>2. q[m] = o[i + m]
      BY <1>6, <3>1
    <3> QED BY <1>1, <2>3, <3>1, <3>2
  <2> QED BY <1>1, <2>2, <2>3
<1> QED BY <1>7, <1>8, <1>9

(* A failure more keeps the memory in order.                               *)
LEMMA DetectorRecordRemembers ==
    ASSUME DetectorBounds, DetectorTypes, DetectorRemembered, NEW a \in Action,
      Detectors!Record(a)
    PROVE  DetectorRemembered' /\ order' \in Seq(Action) /\
      entries' \in [Action -> 0..MaxAttempts]
<1> DEFINE n == Len(order)
           full == entries[a] = 0 /\ n >= MaxSize
           rest == IF full THEN Tail(order) ELSE Detectors!RemoveFirst(order, a)
<1>1. /\ order \in Seq(Action) /\ entries \in [Action -> 0..MaxAttempts] /\
         failures \in Seq(Action)
      /\ MaxSize \in Nat \ {0} /\ MaxAttempts \in Nat \ {0}
      /\ n \in Nat /\ DOMAIN order = 1..n /\ n <= MaxSize
  BY DEF DetectorTypes, DetectorBounds, DetectorRemembered, DetectorRemembers
<1>2. /\ failures' = Append(failures, a) /\ order' = Append(rest, a)
      /\ entries' = [b \in Action |->
                       IF b = a THEN IF entries[a] < MaxAttempts THEN entries[a] + 1 ELSE MaxAttempts
                       ELSE IF full /\ b = Head(order) THEN 0 ELSE entries[b]]
  BY DEF Detectors!Record
<1>3. \A j, k \in 1..n : order[j] = order[k] => j = k
  <2>1. \A k \in DOMAIN order : DetectorLastIn(failures, order[k]) \in Nat
    BY <1>1, DetectorLastInIs
  <2>2. \A j, k \in 1..n : j < k => DetectorLastIn(failures,
        order[j]) < DetectorLastIn(failures, order[k])
    BY <1>1 DEF DetectorRemembered, DetectorRemembers
  <2>3. ASSUME NEW j \in 1..n, NEW k \in 1..n, j < k PROVE order[j] # order[k]
    <3>1. DetectorLastIn(failures, order[j]) < DetectorLastIn(failures, order[k]) /\
          DetectorLastIn(failures, order[k]) \in Nat
      BY <1>1, <2>1, <2>2, <2>3
    <3> QED BY <3>1
  <2>4. \A j, k \in 1..n : j = k \/ j < k \/ k < j
    BY <1>1
  <2> HIDE DEF n
  <2> QED BY <1>1, <2>3, <2>4
<1>4. \A b \in Action : DetectorLastIn(failures',
      b) = IF b = a THEN Len(failures) + 1 ELSE DetectorLastIn(failures, b)
  BY <1>1, <1>2, DetectorLastInMoves
<1>5. Len(failures) \in Nat /\ \A b \in Action : DetectorLastIn(failures,
      b) \in 0..Len(failures)
  BY <1>1, DetectorLastInIs
<1>14. full => n = MaxSize /\ n >= 1 /\ 1 \in 1..n /\ Head(order) = order[1]
  <2>1. n \in Nat /\ MaxSize \in Nat \ {0} /\ n <= MaxSize
    BY <1>1
  <2>2. full => n >= MaxSize
    OBVIOUS
  <2>3. Head(order) = order[1]
    OBVIOUS
  <2> HIDE DEF full, n
  <2> QED BY <2>1, <2>2, <2>3
(* What is left keeps its order, and has everything but a, and but the     *)
(* first where there was no room.                                          *)
<1> DEFINE Left(at) ==
             /\ at \in [1..Len(rest) -> 1..n]
             /\ rest \in Seq(Action) /\ Len(rest) < MaxSize
             /\ \A k \in 1..Len(rest) : rest[k] = order[at[k]] /\ rest[k] # a
             /\ \A j, k \in 1..Len(rest) : j < k => at[j] < at[k]
             /\ \A j \in 1..n : order[j] # a /\ ~(full /\ j = 1) =>
                \E k \in 1..Len(rest) : at[k] = j
             /\ full => \A k \in 1..Len(rest) : at[k] # 1
             /\ full \/ entries[a] > 0 => Len(rest) = n - 1
<1>6. \E at : Left(at)
  <2>1. \A b \in Action : (entries[b] > 0) <=> (\E k \in 1..n : order[k] = b)
    BY <1>1 DEF DetectorRemembered, DetectorRemembers
  <2>2. CASE full
    <3> DEFINE at == [k \in 1..(n-1) |-> k + 1]
    <3>1. rest = Tail(order)
      BY <2>2
    <3>2. n = MaxSize /\ n >= 1
      BY <1>14, <2>2
    <3>3. order # <<>> /\ Tail(order) \in Seq(Action) /\ Len(Tail(order)) = n - 1
      BY <1>1, <3>2
    <3>4. \A k \in 1..(n-1) : Tail(order)[k] = order[k+1]
      BY <1>1, <3>2
    <3>5. rest \in Seq(Action) /\ Len(rest) = n - 1 /\ \A k \in 1..(n-1) : rest[k] = order[k+1]
      <4> HIDE DEF rest, n
      <4> QED BY <3>1, <3>3, <3>4
    <3>6. \A k \in 1..n : order[k] # a
      <4>1. ~(entries[a] > 0)
        BY <2>2
      <4> HIDE DEF n
      <4> QED BY <2>1, <4>1
    <3>7. at \in [1..(n-1) -> 1..n] /\ \A k \in 1..(n-1) : at[k] = k + 1 /\ at[k] # 1
      BY <1>1
    <3>8. ASSUME NEW j \in 1..n, j # 1 PROVE \E k \in 1..(n-1) : at[k] = j
      <4>1. j - 1 \in 1..(n-1) /\ (j - 1) + 1 = j
        BY <1>1, <3>8
      <4> QED BY <4>1
    <3>9. Left(at)
      <4> HIDE DEF at, rest
      <4>1. \A k \in 1..(n-1) : k + 1 \in 1..n
        BY <1>1
      <4>2. n - 1 < MaxSize /\ \A j, k \in 1..(n-1) : j < k => j + 1 < k + 1
        BY <1>1
      <4>3. full
        BY <2>2
      <4> HIDE DEF full, n
      <4> QED BY <3>5, <3>6, <3>7, <3>8, <4>1, <4>2, <4>3
    <3> HIDE DEF Left, at
    <3> QED BY <3>9
  <2>3. CASE entries[a] > 0
    <3>1. PICK i \in 1..n : order[i] = a
      BY <2>1, <2>3
    <3>2. rest = Detectors!RemoveFirst(order, order[i])
      BY <2>3, <3>1
    <3>3. \A k \in 1..n : order[k] = order[i] => k = i
      BY <1>3
    <3>4. /\ rest \in Seq(Action) /\ Len(rest) = n - 1
          /\ \A k \in 1..(n-1) : rest[k] = IF k < i THEN order[k] ELSE order[k+1]
      <4>1. i \in DOMAIN order /\ \A k \in DOMAIN order : order[k] = order[i] => k = i
        BY <1>1, <3>3
      <4> HIDE DEF rest
      <4> QED BY <1>1, <3>2, <3>3, <4>1, DetectorRemoveFirstIs
    <3> DEFINE at == [k \in 1..(n-1) |-> IF k < i THEN k ELSE k + 1]
    <3>5. at \in [1..(n-1) -> 1..n] /\ \A k \in 1..(n-1) : at[k] = IF k < i THEN k ELSE k + 1
      BY <1>1
    <3>6. \A k \in 1..(n-1) : rest[k] = order[at[k]] /\ at[k] # i
      <4> HIDE DEF rest, at, n
      <4>1. ASSUME NEW k \in 1..(n-1) PROVE rest[k] = order[at[k]] /\ at[k] # i
        <5>1. rest[k] = IF k < i THEN order[k] ELSE order[k+1]
          BY <3>4
        <5>2. at[k] = IF k < i THEN k ELSE k + 1
          BY <3>5
        <5>3. k \in Nat /\ i \in Nat
          BY <1>1
        <5> QED BY <5>1, <5>2, <5>3
      <4> QED BY <4>1
    <3>7. ASSUME NEW j \in 1..n, j # i PROVE \E k \in 1..(n-1) : at[k] = j
      <4>1. CASE j < i
        <5>1. j \in 1..(n-1) /\ at[j] = j
          BY <1>1, <3>5, <4>1
        <5> QED BY <5>1
      <4>2. CASE j > i
        <5>1. j - 1 \in 1..(n-1) /\ at[j-1] = j
          BY <1>1, <3>5, <4>2
        <5> QED BY <5>1
      <4> QED BY <1>1, <3>7, <4>1, <4>2
    <3>8. ~full
      BY <1>1, <2>3
    <3>9. \A k \in 1..(n-1) : rest[k] # a
      <4> HIDE DEF rest, at
      <4> QED BY <1>1, <3>1, <3>3, <3>5, <3>6
    <3>10. Left(at)
      <4> HIDE DEF rest, at, full
      <4>1. n - 1 < MaxSize
        BY <1>1
      <4>2. ASSUME NEW j \in 1..(n-1), NEW k \in 1..(n-1), j < k PROVE at[j] < at[k]
        <5> HIDE DEF n
        <5>1. at[j] = (IF j < i THEN j ELSE j + 1) /\ at[k] = (IF k < i THEN k ELSE k + 1)
          BY <3>5
        <5>2. j \in Nat /\ k \in Nat /\ i \in Nat
          BY <1>1
        <5> QED BY <4>2, <5>1, <5>2
      <4> QED BY <1>1, <3>1, <3>4, <3>5, <3>6, <3>7, <3>8, <3>9, <4>1, <4>2
    <3> HIDE DEF Left, at
    <3> QED BY <3>10
  <2>4. CASE entries[a] = 0 /\ n < MaxSize
    <3> DEFINE at == [k \in 1..n |-> k]
    <3>1. \A k \in 1..n : order[k] # a
      BY <2>1, <2>4
    <3>2. ~full
      BY <1>1, <2>4
    <3>3. rest = order
      <4>1. Detectors!RemoveFirst(order, a) = order
        BY <3>1 DEF Detectors!RemoveFirst
      <4> QED BY <3>2, <4>1
    <3>4. at \in [1..n -> 1..n] /\ \A k \in 1..n : at[k] = k
      OBVIOUS
    <3>5. Left(at)
      <4>1. n \in Nat /\ order \in Seq(Action) /\ Len(order) = n
        BY <1>1
      <4>2. n < MaxSize /\ ~(full \/ entries[a] > 0)
        BY <2>4, <3>2
      <4> HIDE DEF rest, at, full, n
      <4> QED BY <3>1, <3>2, <3>3, <3>4, <4>1, <4>2
    <3> HIDE DEF Left, at
    <3> QED BY <3>5
  <2>5. entries[a] \in Nat
    BY <1>1
  <2> HIDE DEF Left
  <2> QED BY <1>1, <2>2, <2>3, <2>4, <2>5
<1>7. PICK at : Left(at)
  BY <1>6
<1> DEFINE m == Len(rest)
<1>8. /\ order' \in Seq(Action) /\ Len(order') = m + 1 /\ DOMAIN order' = 1..(m + 1)
      /\ order'[m + 1] = a /\ \A k \in 1..m : order'[k] = rest[k]
      /\ m \in Nat /\ m + 1 <= MaxSize
  <2>1. /\ rest \in Seq(Action) /\ m < MaxSize /\ m \in Nat /\ MaxSize \in Nat
    <3>1. rest \in Seq(Action) /\ Len(rest) < MaxSize
      <4> HIDE DEF rest, full, n
      <4> QED BY <1>7
    <3>2. MaxSize \in Nat
      BY <1>1
    <3> HIDE DEF rest
    <3> QED BY <3>1, <3>2
  <2>2. order' = Append(rest, a)
    BY <1>2
  <2> HIDE DEF rest
  <2>3. /\ order' \in Seq(Action) /\ Len(order') = m + 1
        /\ order'[m + 1] = a /\ \A k \in 1..m : order'[k] = rest[k]
    BY <2>1, <2>2
  <2> QED BY <2>1, <2>3
(* What is left failed as it had; a has failed after it.                   *)
<1>9. \A k \in 1..m : /\ rest[k] = order[at[k]] /\ rest[k] \in Action
                      /\ DetectorLastIn(failures', rest[k]) = DetectorLastIn(failures,
                         order[at[k]])
  <2> HIDE DEF rest
  <2>1. ASSUME NEW k \in 1..m PROVE rest[k] \in Action
    BY <1>7, <1>8
  <2> QED BY <1>4, <1>7, <2>1
<1>10. \A j, k \in 1..n : j < k => DetectorLastIn(failures,
       order[j]) < DetectorLastIn(failures, order[k])
  BY <1>1 DEF DetectorRemembered, DetectorRemembers
<1>11. \A j, k \in DOMAIN order' : j < k => DetectorLastIn(failures',
       order'[j]) < DetectorLastIn(failures', order'[k])
  <2> HIDE DEF rest
  <2>1. SUFFICES ASSUME NEW j \in 1..(m + 1), NEW k \in 1..(m + 1), j < k
                 PROVE  DetectorLastIn(failures', order'[j]) < DetectorLastIn(failures',
                   order'[k])
    BY <1>8
  <2>2. j \in 1..m /\ at[j] \in 1..n /\ order'[j] = rest[j]
    BY <1>7, <1>8, <2>1
  <2>3. CASE k = m + 1
    <3>1. DetectorLastIn(failures', order'[k]) = Len(failures) + 1
      BY <1>4, <1>8, <2>3
    <3>2. DetectorLastIn(failures', order'[j]) = DetectorLastIn(failures, rest[j]) /\
          rest[j] \in Action
      BY <1>9, <2>2
    <3> QED BY <1>5, <3>1, <3>2
  <2>4. CASE k \in 1..m
    <3>1. at[j] < at[k] /\ at[k] \in 1..n /\ order'[k] = rest[k]
      BY <1>7, <1>8, <2>1, <2>2, <2>4
    <3> QED BY <1>9, <1>10, <2>2, <2>4, <3>1
  <2> QED BY <1>8, <2>1, <2>3, <2>4
<1>12. \A k \in DOMAIN order' : DetectorLastIn(failures', order'[k]) > 0
  <2> HIDE DEF rest
  <2>1. \A k \in 1..n : DetectorLastIn(failures, order[k]) > 0
    BY <1>1 DEF DetectorRemembered, DetectorRemembers
  <2>2. ASSUME NEW k \in 1..m PROVE DetectorLastIn(failures', order'[k]) > 0
    <3>1. order'[k] = rest[k] /\ DetectorLastIn(failures',
          rest[k]) = DetectorLastIn(failures, order[at[k]])
      BY <1>8, <1>9
    <3>2. at[k] \in 1..n
      BY <1>7
    <3> HIDE DEF n
    <3> QED BY <2>1, <3>1, <3>2
  <2>3. DetectorLastIn(failures', order'[m + 1]) > 0
    BY <1>4, <1>5, <1>8
  <2>4. \A k \in 1..(m + 1) : k = m + 1 \/ k \in 1..m
    BY <1>8
  <2> QED BY <1>8, <2>2, <2>3, <2>4
<1>13. \A b \in Action : (entries[b] > 0) <=> (\E k \in 1..n : order[k] = b)
  BY <1>1 DEF DetectorRemembered, DetectorRemembers
<1>15. \A b \in Action : (entries'[b] > 0) <=> (\E k \in DOMAIN order' : order'[k] = b)
  <2>1. entries'[a] > 0 /\ m + 1 \in DOMAIN order' /\ order'[m + 1] = a
    <3>1. entries'[a] > 0
      BY <1>1, <1>2
    <3> QED BY <1>8, <3>1
  <2>2. ASSUME NEW b \in Action, b # a
        PROVE  (entries'[b] > 0) <=> (\E k \in 1..m : rest[k] = b)
    <3>1. CASE full /\ b = order[1]
      <4>1. entries'[b] = 0
        BY <1>2, <1>14, <2>2, <3>1
      <4>2. ASSUME NEW k \in 1..m PROVE rest[k] # b
        <5>1. at[k] \in 1..n /\ at[k] # 1 /\ rest[k] = order[at[k]]
          <6> HIDE DEF rest, full, n
          <6> QED BY <1>7, <3>1
        <5>2. 1 \in 1..n /\ b = order[1]
          BY <1>14, <3>1
        <5>3. order[at[k]] # order[1]
          <6> HIDE DEF rest, full, n
          <6> QED BY <1>3, <5>1, <5>2
        <5> HIDE DEF rest, full, n
        <5> QED BY <5>1, <5>2, <5>3
      <4>3. ~(entries'[b] > 0)
        BY <4>1
      <4> HIDE DEF rest
      <4> QED BY <4>2, <4>3
    <3>2. CASE ~(full /\ b = order[1])
      <4>1. entries'[b] = entries[b]
        BY <1>2, <1>14, <2>2, <3>2
      <4>2. (\E k \in 1..n : order[k] = b) => (\E k \in 1..m : rest[k] = b)
        <5>1. SUFFICES ASSUME NEW j \in 1..n, order[j] = b PROVE \E k \in 1..m : rest[k] = b
          OBVIOUS
        <5>2. ~(full /\ j = 1)
          BY <3>2, <5>1
        <5>3. PICK k \in 1..m : at[k] = j
          <6> HIDE DEF rest, full
          <6> QED BY <1>7, <2>2, <5>1, <5>2
        <5>4. rest[k] = b
          BY <1>9, <5>1, <5>3
        <5> HIDE DEF rest
        <5> QED BY <5>4
      <4>3. (\E k \in 1..m : rest[k] = b) => (\E k \in 1..n : order[k] = b)
        <5> HIDE DEF rest, full
        <5> QED BY <1>7
      <4> HIDE DEF rest
      <4> QED BY <1>13, <4>1, <4>2, <4>3
    <3> QED BY <3>1, <3>2
  <2>3. ASSUME NEW b \in Action, b # a
        PROVE  (\E k \in 1..m : rest[k] = b) <=> (\E k \in DOMAIN order' : order'[k] = b)
    <3> HIDE DEF rest
    <3>1. \A k \in 1..(m + 1) : k = m + 1 \/ k \in 1..m
      BY <1>8
    <3>2. \A k \in 1..m : k \in 1..(m + 1)
      BY <1>8
    <3> QED BY <1>8, <2>3, <3>1, <3>2
  <2> HIDE DEF rest
  <2> QED BY <2>1, <2>2, <2>3
<1>16. \A b \in Action : DetectorLastIn(failures', b) > 0 /\ entries'[b] = 0 =>
          /\ Len(order') = MaxSize
          /\ DetectorLastIn(failures', b) < DetectorLastIn(failures', order'[1])
  <2>1. SUFFICES ASSUME NEW b \in Action, DetectorLastIn(failures', b) > 0, entries'[b] = 0
                 PROVE  /\ m + 1 = MaxSize
                        /\ DetectorLastIn(failures', b) < DetectorLastIn(failures', order'[1])
    BY <1>8
  <2>2. b # a
    BY <1>1, <1>2, <2>1
  <2>3. DetectorLastIn(failures', b) = DetectorLastIn(failures, b) /\
        DetectorLastIn(failures, b) \in 0..Len(failures)
    BY <1>4, <1>5, <2>2
  <2>4. \A c \in Action : DetectorLastIn(failures, c) > 0 /\ entries[c] = 0 =>
           n = MaxSize /\ DetectorLastIn(failures, c) < DetectorLastIn(failures, order[1])
    BY DEF DetectorRemembered, DetectorRemembers
  (* It is older than all the old order but maybe the first. *)
  <2>5. /\ n = MaxSize
        /\ \A j \in 1..n : ~(full /\ j = 1) =>
           DetectorLastIn(failures, b) < DetectorLastIn(failures, order[j])
    <3>1. CASE full /\ b = order[1]
      <4>1. n = MaxSize /\ 1 \in 1..n /\ \A j \in 1..n : j # 1 => 1 < j
        <5>1. n = MaxSize /\ 1 \in 1..n
          BY <1>14, <3>1
        <5>2. \A j \in 1..n : j # 1 => 1 < j
          BY <1>1
        <5> QED BY <5>1, <5>2
      <4> HIDE DEF full, n
      <4> QED BY <1>10, <3>1, <4>1
    <3>2. CASE ~(full /\ b = order[1])
      <4>1. entries[b] = 0
        BY <1>2, <1>14, <2>1, <2>2, <3>2
      <4>2. n = MaxSize /\ DetectorLastIn(failures, b) < DetectorLastIn(failures, order[1])
        BY <2>1, <2>3, <2>4, <4>1
      <4>3. 1 \in 1..n /\ \A j \in 1..n : j = 1 \/ 1 < j
        BY <1>1, <4>2
      <4>4. \A j \in 1..n : order[j] \in Action /\ DetectorLastIn(failures, order[j]) \in Nat
        BY <1>1, <1>5
      <4> HIDE DEF full, n
      <4> QED BY <1>10, <2>3, <4>2, <4>3, <4>4
    <3> QED BY <3>1, <3>2
  <2>6. m + 1 = MaxSize
    <3>1. CASE full \/ entries[a] > 0
      <4>1. m = n - 1
        <5> HIDE DEF rest, full
        <5> QED BY <1>7, <3>1
      <4> HIDE DEF rest
      <4> QED BY <1>1, <2>5, <4>1
    <3>2. CASE ~full /\ entries[a] = 0
      BY <1>1, <2>5, <3>2
    <3>3. entries[a] \in Nat
      BY <1>1
    <3> HIDE DEF full, rest
    <3> QED BY <3>1, <3>2, <3>3
  <2>7. DetectorLastIn(failures', b) < DetectorLastIn(failures', order'[1])
    <3>1. CASE m = 0
      <4>1. DetectorLastIn(failures', order'[1]) = Len(failures) + 1
        BY <1>4, <1>8, <3>1
      <4> QED BY <1>5, <2>3, <4>1
    <3>2. CASE m >= 1
      <4>1. 1 \in 1..m /\ at[1] \in 1..n /\ order'[1] = rest[1]
        <5> HIDE DEF rest
        <5> QED BY <1>7, <1>8, <3>2
      <4>2. ~(full /\ at[1] = 1)
        <5> HIDE DEF rest, full
        <5> QED BY <1>7, <4>1
      <4>3. DetectorLastIn(failures', order'[1]) = DetectorLastIn(failures, order[at[1]])
        BY <1>9, <4>1
      <4>4. DetectorLastIn(failures, b) < DetectorLastIn(failures, order[at[1]])
        <5> HIDE DEF rest, full, n
        <5> QED BY <2>5, <4>1, <4>2
      <4> HIDE DEF rest, full
      <4> QED BY <2>3, <4>3, <4>4
    <3> HIDE DEF rest
    <3> QED BY <1>8, <3>1, <3>2
  <2> QED BY <2>6, <2>7
<1>17. entries' \in [Action -> 0..MaxAttempts]
  <2> HIDE DEF full
  <2> QED BY <1>1, <1>2
<1>18. DetectorRemembered'
  <2> HIDE DEF rest
  <2> QED BY <1>8, <1>11, <1>12, <1>15, <1>16 DEF DetectorRemembered, DetectorRemembers
<1> QED BY <1>8, <1>17, <1>18

-----------------------------------------------------------------------------
(* f numbers the elements of S from 1 to n, each once.                     *)
DetectorNumbers(f, n, S) ==
    /\ \A j, k \in 1..n : f[j] = f[k] => j = k
    /\ \A k \in 1..n : f[k] \in S
    /\ \A x \in S : \E k \in 1..n : f[k] = x

LEMMA DetectorCountPlaces ==
    ASSUME NEW n \in Nat, NEW f, NEW S, DetectorNumbers(f, n, S)
    PROVE  Cardinality(S) = n
<1> DEFINE g == [k \in 1..n |-> f[k]]
<1>1. g \in Bijection(1..n, S)
  <2>1. g \in [1..n -> S]
    BY DEF DetectorNumbers
  <2>2. \A j, k \in 1..n : g[j] = g[k] => j = k
    BY DEF DetectorNumbers
  <2>3. \A x \in S : \E k \in 1..n : g[k] = x
    BY DEF DetectorNumbers
  <2> HIDE DEF g
  <2>4. g \in Injection(1..n, S)
    BY <2>1, <2>2, Zenon DEF Injection, IsInjective
  <2>5. g \in Surjection(1..n, S)
    BY <2>1, <2>3, Zenon DEF Surjection
  <2> QED BY <2>4, <2>5 DEF Bijection
<1>2. ExistsBijection(1..n, S)
  <2> HIDE DEF g
  <2> QED BY <1>1 DEF ExistsBijection
<1> QED BY <1>2, FS_CountingElements

LEMMA DetectorMinIs ==
    ASSUME NEW n \in Nat
    PROVE  Detectors!Min({10, n}) = IF n < 10 THEN n ELSE 10
<1> DEFINE S == {10, n}
           m == IF n < 10 THEN n ELSE 10
<1>1. m \in S /\ (\A k \in S : m =< k) /\ \A j \in S : (\A k \in S : j =< k) => j = m
  OBVIOUS
<1>2. Detectors!Min(S) = m
  <2> HIDE DEF S, m
  <2> QED BY <1>1, Zenon DEF Detectors!Min
<1> QED BY <1>2

(* What failed since an action did, which is all but it that is kept after *)
(* it, when it is kept, and all that is kept when it is not.               *)
DetectorFailed == {b \in Action : DetectorLastIn(failures, b) > 0}
DetectorNewer(a) == {b \in DetectorFailed : DetectorLastIn(failures,
  b) > DetectorLastIn(failures, a)}

LEMMA DetectorFailedIs ==
    ASSUME DetectorTypes
    PROVE  Detectors!ToSet(failures) = DetectorFailed /\ IsFiniteSet(DetectorFailed)
<1>1. failures \in Seq(Action) /\ Len(failures) \in Nat /\ DOMAIN failures = 1..Len(failures)
  BY DEF DetectorTypes
<1>2. Detectors!ToSet(failures) = {failures[k] : k \in 1..Len(failures)}
  BY <1>1 DEF Detectors!ToSet
<1>3. ASSUME NEW k \in 1..Len(failures) PROVE failures[k] \in DetectorFailed
  <2>1. failures[k] \in Action /\ k <= DetectorLastIn(failures, failures[k]) /\
        DetectorLastIn(failures, failures[k]) \in Nat
    BY <1>1, DetectorLastInIs
  <2> QED BY <2>1 DEF DetectorFailed
<1>4. ASSUME NEW b \in DetectorFailed PROVE \E k \in 1..Len(failures) : failures[k] = b
  <2>1. DetectorLastIn(failures, b) \in 1..Len(failures) /\
        failures[DetectorLastIn(failures, b)] = b
    BY <1>1, DetectorLastInIs DEF DetectorFailed
  <2> QED BY <2>1
<1>5. {failures[k] : k \in 1..Len(failures)} = DetectorFailed
  BY <1>3, <1>4
<1>6. IsFiniteSet(1..Len(failures))
  BY <1>1, FS_Interval
<1>7. IsFiniteSet({failures[k] : k \in 1..Len(failures)})
  <2> DEFINE g == [k \in 1..Len(failures) |-> failures[k]]
             S == {failures[k] : k \in 1..Len(failures)}
  <2>1. g \in [1..Len(failures) -> S] /\ \A x \in S : \E k \in 1..Len(failures) : g[k] = x
    OBVIOUS
  <2>2. g \in Surjection(1..Len(failures), S)
    <3> HIDE DEF g, S
    <3> QED BY <2>1, Zenon DEF Surjection
  <2>3. IsFiniteSet(S)
    <3> HIDE DEF g, S
    <3> QED BY <1>6, <2>2, FS_Surjection
  <2> QED BY <2>3
<1> QED BY <1>2, <1>5, <1>7

LEMMA DetectorNewerIs ==
    ASSUME DetectorBounds, DetectorTypes, DetectorRemembered
    PROVE  /\ \A i \in DOMAIN order : Cardinality(DetectorNewer(order[i])) = Len(order) - i
           /\ \A a \in DetectorFailed : entries[a] = 0 =>
              Cardinality(DetectorNewer(a)) >= MaxSize
<1> DEFINE n == Len(order)
           L(b) == DetectorLastIn(failures, b)
<1>1. /\ order \in Seq(Action) /\ entries \in [Action -> 0..MaxAttempts] /\
         failures \in Seq(Action)
      /\ n \in Nat /\ DOMAIN order = 1..n
  BY DEF DetectorTypes
<1>2. \A b \in Action : L(b) \in Nat
  BY <1>1, DetectorLastInIs
<1>3. /\ \A j, k \in 1..n : j < k => L(order[j]) < L(order[k])
      /\ \A k \in 1..n : L(order[k]) > 0 /\ order[k] \in Action
      /\ \A b \in Action : (entries[b] > 0) <=> (\E k \in 1..n : order[k] = b)
      /\ \A b \in Action : L(b) > 0 /\ entries[b] = 0 => n = MaxSize /\ L(b) < L(order[1])
  <2>1. \A j, k \in 1..n : j < k => L(order[j]) < L(order[k])
    BY <1>1 DEF DetectorRemembered, DetectorRemembers
  <2>2. \A k \in 1..n : L(order[k]) > 0
    BY <1>1 DEF DetectorRemembered, DetectorRemembers
  <2>3. \A k \in 1..n : order[k] \in Action
    BY <1>1
  <2>4. \A b \in Action : (entries[b] > 0) <=> (\E k \in 1..n : order[k] = b)
    BY <1>1 DEF DetectorRemembered, DetectorRemembers
  <2>5. \A b \in Action : L(b) > 0 /\ entries[b] = 0 => n = MaxSize /\ L(b) < L(order[1])
    BY DEF DetectorRemembered, DetectorRemembers
  <2> HIDE DEF L, n
  <2> QED BY <2>1, <2>2, <2>3, <2>4, <2>5
<1> HIDE DEF L, n
<1>4. \A j, k \in 1..n : order[j] = order[k] => j = k
  <2>1. \A j, k \in 1..n : j < k => order[j] # order[k]
    <3>1. SUFFICES ASSUME NEW j \in 1..n, NEW k \in 1..n, j < k, order[j] = order[k] PROVE FALSE
      OBVIOUS
    <3>2. L(order[k]) < L(order[k]) /\ L(order[k]) \in Nat
      BY <1>2, <1>3, <3>1
    <3> QED BY <3>2
  <2>2. \A j, k \in 1..n : j = k \/ j < k \/ k < j
    BY <1>1
  <2> QED BY <2>1, <2>2
<1>5. ASSUME NEW i \in 1..n PROVE Cardinality(DetectorNewer(order[i])) = n - i
  <2> DEFINE f == [k \in 1..(n-i) |-> order[i+k]]
  <2>1. n - i \in Nat /\ \A k \in 1..(n-i) : i + k \in 1..n /\ i < i + k
    BY <1>1
  <2>2. \A j, k \in 1..(n-i) : f[j] = f[k] => j = k
    <3>1. SUFFICES ASSUME NEW j \in 1..(n-i), NEW k \in 1..(n-i), order[i+j] = order[i+k]
          PROVE j = k
      OBVIOUS
    <3>2. i + j = i + k
      BY <1>4, <2>1, <3>1
    <3> QED BY <1>1, <3>2
  <2>4. ASSUME NEW k \in 1..(n-i) PROVE f[k] \in DetectorNewer(order[i])
    <3>1. f[k] = order[i+k] /\ order[i+k] \in Action /\ L(order[i+k]) > 0 /\
          L(order[i]) < L(order[i+k])
      BY <1>3, <2>1
    <3>2. L(order[i]) \in Nat /\ L(order[i+k]) \in Nat
      BY <1>2, <1>3, <2>1
    <3> HIDE DEF f
    <3> QED BY <3>1, <3>2 DEF DetectorNewer, DetectorFailed, L
  <2>5. ASSUME NEW b \in DetectorNewer(order[i]) PROVE \E k \in 1..(n-i) : f[k] = b
    <3>1. b \in Action /\ L(b) > 0 /\ L(b) > L(order[i])
      BY DEF DetectorNewer, DetectorFailed, L
    <3>2. L(order[i]) \in Nat /\ L(b) \in Nat /\ L(order[1]) \in Nat /\ 1 \in 1..n
      BY <1>1, <1>2, <1>3, <3>1
    <3>3. entries[b] > 0
      <4>1. i = 1 \/ 1 < i
        BY <1>1
      <4>2. L(order[1]) <= L(order[i])
        BY <1>3, <3>2, <4>1
      <4>3. entries[b] # 0
        BY <1>3, <3>1, <3>2, <4>2
      <4> QED BY <1>1, <3>1, <4>3
    <3>4. PICK j \in 1..n : order[j] = b
      BY <1>3, <3>1, <3>3
    <3>5. ~(j < i) /\ j # i
      BY <1>3, <3>1, <3>2, <3>4
    <3>6. j - i \in 1..(n-i) /\ i + (j - i) = j
      BY <1>1, <3>5
    <3>7. f[j-i] = b
      BY <3>4, <3>6
    <3> HIDE DEF f
    <3> QED BY <3>6, <3>7
  <2> HIDE DEF f
  <2>6. DetectorNumbers(f, n - i, DetectorNewer(order[i]))
    BY <2>2, <2>4, <2>5 DEF DetectorNumbers
  <2> QED BY <2>1, <2>6, DetectorCountPlaces
<1>6. ASSUME NEW a \in DetectorFailed, entries[a] = 0
      PROVE Cardinality(DetectorNewer(a)) >= MaxSize
  <2>1. a \in Action /\ L(a) > 0 /\ n = MaxSize /\ L(a) < L(order[1]) /\
        MaxSize \in Nat \ {0} /\ 1 \in 1..n
    BY <1>1, <1>3, <1>6 DEF DetectorFailed, L, DetectorBounds
  <2>2. ASSUME NEW k \in 1..n PROVE order[k] \in DetectorNewer(a)
    <3>1. L(order[1]) \in Nat /\ L(order[k]) \in Nat /\ L(a) \in Nat /\ order[k] \in Action
      BY <1>2, <1>3, <2>1
    <3>2. L(order[1]) <= L(order[k])
      <4>1. k = 1 \/ 1 < k
        BY <1>1
      <4> QED BY <1>3, <2>1, <3>1, <4>1
    <3>3. L(order[k]) > L(a) /\ L(order[k]) > 0
      BY <2>1, <3>1, <3>2
    <3> QED BY <3>1, <3>3 DEF DetectorNewer, DetectorFailed, L
  <2> DEFINE S == {order[k] : k \in 1..n}
  <2>3. Cardinality(S) = n
    <3>1. DetectorNumbers(order, n, S)
      BY <1>4 DEF DetectorNumbers
    <3> HIDE DEF S
    <3> QED BY <1>1, <3>1, DetectorCountPlaces
  <2>4. S \subseteq DetectorNewer(a)
    BY <2>2
  <2>5. IsFiniteSet(DetectorNewer(a))
    <3>1. DetectorNewer(a) \subseteq DetectorFailed
      BY DEF DetectorNewer
    <3> QED BY <3>1, DetectorFailedIs, FS_Subset
  <2>6. Cardinality(S) <= Cardinality(DetectorNewer(a))
    <3> HIDE DEF S
    <3> QED BY <2>4, <2>5, FS_Subset
  <2>7. Cardinality(DetectorNewer(a)) \in Nat
    BY <2>5, FS_CardinalityType
  <2> QED BY <2>1, <2>3, <2>6, <2>7
<1> QED BY <1>1, <1>5, <1>6 DEF n

(* The instance counts a set as this module does.                          *)
LEMMA DetectorSameCount == \A S : Detectors!Cardinality(S) = Cardinality(S)
BY DEF Cardinality, IsFiniteSet, Detectors!Cardinality, Detectors!IsFiniteSet

(* What the prompt shows is what failed most recently.                     *)
LEMMA DetectorShowsRecent ==
    ASSUME DetectorBounds, DetectorTypes, DetectorRemembered
    PROVE  Detectors!MistakesAreRecent
<1> DEFINE n == Len(order)
           w == Detectors!Min({10, n})
           W == Detectors!Min({10, MaxSize})
           Latest(a) == Detectors!Max({0} \cup {k \in DOMAIN failures : failures[k] = a})
<1>1. /\ order \in Seq(Action) /\ entries \in [Action -> 0..MaxAttempts]
      /\ n \in Nat /\ DOMAIN order = 1..n /\ MaxSize \in Nat \ {0}
  BY DEF DetectorTypes, DetectorBounds
<1>2. n <= MaxSize
  BY DEF DetectorRemembered, DetectorRemembers
<1>3. w = (IF n < 10 THEN n ELSE 10) /\ W = IF MaxSize < 10 THEN MaxSize ELSE 10
  BY <1>1, DetectorMinIs
<1>4. DOMAIN Detectors!Shown = 1..w /\
      \A k \in 1..w : Detectors!Shown[k] = <<order[n + 1 - k], entries[order[n + 1 - k]]>>
  BY DEF Detectors!Shown
<1>5. Detectors!ToSet(failures) = DetectorFailed /\ IsFiniteSet(DetectorFailed)
  BY DetectorFailedIs
<1>6. \A i \in 1..n : Cardinality(DetectorNewer(order[i])) = n - i
  BY <1>1, DetectorNewerIs
<1>7. \A a \in DetectorFailed : entries[a] = 0 => Cardinality(DetectorNewer(a)) >= MaxSize
  BY DetectorNewerIs
<1>8. \A a \in Action : (entries[a] > 0) <=> (\E k \in 1..n : order[k] = a)
  BY <1>1 DEF DetectorRemembered, DetectorRemembers
<1>9. \A k \in 1..n : order[k] \in DetectorFailed
  <2>1. \A k \in 1..n : order[k] \in Action
    BY <1>1
  <2>2. \A k \in 1..n : DetectorLastIn(failures, order[k]) > 0
    BY <1>1 DEF DetectorRemembered, DetectorRemembers
  <2> HIDE DEF n
  <2> QED BY <2>1, <2>2 DEF DetectorFailed
<1>10. \A k \in 1..w : n + 1 - k \in 1..n
  <2> HIDE DEF n, w
  <2> QED BY <1>1, <1>3
<1>11. {shown[1] : shown \in Detectors!ToSet(Detectors!Shown)} =
           {a \in DetectorFailed : Cardinality(DetectorNewer(a)) < W}
  <2>1. ASSUME NEW k \in 1..w
        PROVE  Detectors!Shown[k][1] \in DetectorFailed /\
          Cardinality(DetectorNewer(Detectors!Shown[k][1])) < W
    <3>1. Detectors!Shown[k][1] = order[n + 1 - k] /\ n + 1 - k \in 1..n
      <4> HIDE DEF n, w
      <4> QED BY <1>4, <1>10
    <3>2. n - (n + 1 - k) < W
      <4> HIDE DEF n, w, W
      <4> QED BY <1>1, <1>2, <1>3
    <3> HIDE DEF n, w, W
    <3> QED BY <1>6, <1>9, <3>1, <3>2
  <2>2. ASSUME NEW a \in DetectorFailed, Cardinality(DetectorNewer(a)) < W
        PROVE  \E k \in 1..w : Detectors!Shown[k][1] = a
    <3>1. Cardinality(DetectorNewer(a)) \in Nat
      <4>1. DetectorNewer(a) \subseteq DetectorFailed
        BY DEF DetectorNewer
      <4> QED BY <1>5, <4>1, FS_Subset, FS_CardinalityType
    <3>2. entries[a] # 0 /\ a \in Action
      <4>1. W <= MaxSize /\ W \in Nat
        BY <1>1, <1>3
      <4>2. ~(Cardinality(DetectorNewer(a)) >= MaxSize)
        <5> HIDE DEF W
        <5> QED BY <1>1, <2>2, <3>1, <4>1
      <4>3. a \in Action
        BY DEF DetectorFailed
      <4> QED BY <1>7, <4>2, <4>3
    <3>3. PICK i \in 1..n : order[i] = a
      <4>1. entries[a] > 0
        BY <1>1, <3>2
      <4> QED BY <1>8, <3>2, <4>1
    <3>4. n - i < W
      BY <1>6, <2>2, <3>3
    <3>5. n + 1 - i \in 1..w /\ n + 1 - (n + 1 - i) = i
      <4> HIDE DEF n, w, W
      <4> QED BY <1>1, <1>2, <1>3, <3>4
    <3>6. Detectors!Shown[n + 1 - i][1] = a
      <4> HIDE DEF n, w
      <4> QED BY <1>4, <3>3, <3>5
    <3> QED BY <3>5, <3>6
  <2>3. Detectors!ToSet(Detectors!Shown) = {Detectors!Shown[k] : k \in 1..w}
    BY <1>4 DEF Detectors!ToSet
  <2> HIDE DEF w, W
  <2> QED BY <2>1, <2>2, <2>3
<1>12. ASSUME NEW j \in 1..w, NEW k \in 1..w, j < k
       PROVE  DetectorLastIn(failures, Detectors!Shown[j][1]) > DetectorLastIn(failures,
         Detectors!Shown[k][1])
  <2>1. Detectors!Shown[j][1] = order[n + 1 - j] /\ Detectors!Shown[k][1] = order[n + 1 - k]
    <3> HIDE DEF n, w
    <3> QED BY <1>4
  <2>2. n + 1 - j \in 1..n /\ n + 1 - k \in 1..n /\ n + 1 - k < n + 1 - j
    <3>1. j \in Nat /\ k \in Nat
      <4> HIDE DEF n, w
      <4> QED BY <1>1, <1>3
    <3> HIDE DEF n, w
    <3> QED BY <1>1, <1>10, <1>12, <3>1
  <2>3. DetectorLastIn(failures, order[n + 1 - k]) < DetectorLastIn(failures, order[n + 1 - j])
    <3>1. \A x, y \in 1..n : x < y => DetectorLastIn(failures,
          order[x]) < DetectorLastIn(failures, order[y])
      BY <1>1 DEF DetectorRemembered, DetectorRemembers
    <3> HIDE DEF n, w
    <3> QED BY <2>2, <3>1
  <2>4. DetectorLastIn(failures, order[n + 1 - k]) \in Nat /\
        DetectorLastIn(failures, order[n + 1 - j]) \in Nat
    BY DetectorLastInIs DEF DetectorTypes
  <2> QED BY <2>1, <2>3, <2>4
<1>13. \A a \in Action : (entries[a] > 0) = (a \in Detectors!ToSet(order))
  <2>1. Detectors!ToSet(order) = {order[k] : k \in 1..n}
    BY <1>1 DEF Detectors!ToSet
  <2>2. \A a \in Action : a \in Detectors!ToSet(order) <=> (\E k \in 1..n : order[k] = a)
    BY <2>1
  <2> HIDE DEF n
  <2> QED BY <1>8, <2>2
<1>14. \A a : DetectorLastIn(failures, a) = Latest(a)
  BY DEF DetectorLastIn
<1>15. \A a : DetectorNewer(a) = {b \in DetectorFailed : Latest(b) > Latest(a)}
  <2> HIDE DEF Latest
  <2> QED BY <1>14 DEF DetectorNewer
<1>16. \A j, k \in DOMAIN Detectors!Shown : j < k =>
       Latest(Detectors!Shown[j][1]) > Latest(Detectors!Shown[k][1])
  <2> HIDE DEF Latest, w
  <2> QED BY <1>4, <1>12, <1>14
<1>17. {shown[1] : shown \in Detectors!ToSet(Detectors!Shown)} =
           {a \in DetectorFailed : Cardinality({b \in DetectorFailed : Latest(b) > Latest(a)}) < W}
  <2> HIDE DEF Latest, W
  <2> QED BY <1>11, <1>15
<1>18. {shown[1] : shown \in Detectors!ToSet(Detectors!Shown)} =
           {a \in DetectorFailed : Detectors!Cardinality({b \in DetectorFailed : Latest(b) > Latest(a)}) < W}
  <2> HIDE DEF Latest, W
  <2> QED BY <1>17, DetectorSameCount
<1> QED BY <1>5, <1>13, <1>16, <1>18, Zenon DEF Detectors!MistakesAreRecent

-----------------------------------------------------------------------------
(* The search for repeated turns, message by message.                      *)
DetectorSigs == {Detectors!Signature(m) : m \in DetectorMessage}
DetectorSig(m) == IF m.role \in Detectors!Said /\
  ~Detectors!Blank(m) THEN <<Detectors!Signature(m)>> ELSE <<>>
DetectorLooks(msgs) ==
    {f \in [0..Len(msgs) -> Seq(DetectorSigs)] :
        /\ f[0] = <<>> /\ Detectors!RecentSignatures(msgs) = f[Len(msgs)]
        /\ \A n \in 1..Len(msgs) :
              f[n] = IF Detectors!IsInstruction(msgs[n]) THEN <<>> ELSE DetectorSig(msgs[n]) \o f[n-1]}

LEMMA DetectorLookSteps ==
    ASSUME NEW msgs \in Seq(DetectorMessage)
    PROVE  DetectorLooks(msgs) # {}
<1> DEFINE N == Len(msgs)
           T == Seq(DetectorSigs)
           Next1(n, q) == IF n = 0 \/
             Detectors!IsInstruction(msgs[n]) THEN <<>> ELSE DetectorSig(msgs[n]) \o q
           step == [n \in 1..N |-> [q \in T |-> Next1(n, q)]]
<1>1. N \in Nat /\ \A n \in 1..N : msgs[n] \in DetectorMessage
  OBVIOUS
<1>2. \A n \in 1..N : DetectorSig(msgs[n]) \in T
  <2>1. ASSUME NEW m \in DetectorMessage PROVE DetectorSig(m) \in Seq(DetectorSigs)
    <3>1. Detectors!Signature(m) \in DetectorSigs
      BY DEF DetectorSigs
    <3>2. <<Detectors!Signature(m)>> \in Seq(DetectorSigs) /\ <<>> \in Seq(DetectorSigs)
      BY <3>1
    <3> QED BY <3>2 DEF DetectorSig
  <2> HIDE DEF N
  <2> QED BY <1>1, <2>1
<1>3. \A n \in 1..N, q \in T : Next1(n, q) \in T
  <2> HIDE DEF N
  <2> QED BY <1>2, ConcatProperties
<1>4. step \in [1..N -> [T -> T]] /\ <<>> \in T
  <2> HIDE DEF N, T, Next1
  <2>1. <<>> \in T
    BY DEF T
  <2> QED BY <1>3, <2>1
<1>5. Iterates(T, <<>>, N, step) # {}
  <2> HIDE DEF step, N, T
  <2> QED BY <1>1, <1>4, Recursion
<1>6. PICK f \in [0..N -> T] : f[0] = <<>> /\ \A n \in 1..N : f[n] = step[n][f[n-1]]
  <2> HIDE DEF step, N, T
  <2> QED BY <1>5 DEF Iterates
<1>7. \A n \in 1..N : n - 1 \in 0..N /\ n # 0
  BY <1>1
<1>8. \A n \in 1..N : f[n-1] \in T /\ f[n] = Next1(n, f[n-1])
  <2> HIDE DEF N, T, Next1
  <2> QED BY <1>6, <1>7
<1> DEFINE look[k \in 0..N] == IF k = 0 \/
    Detectors!IsInstruction(msgs[k]) THEN <<>> ELSE DetectorSig(msgs[k]) \o look[k-1]
<1>9. f = [k \in 0..N |-> IF k = 0 \/
      Detectors!IsInstruction(msgs[k]) THEN <<>> ELSE DetectorSig(msgs[k]) \o f[k-1]]
  <2>1. ASSUME NEW k \in 0..N PROVE f[k] = IF k = 0 \/
        Detectors!IsInstruction(msgs[k]) THEN <<>> ELSE DetectorSig(msgs[k]) \o f[k-1]
    <3>1. CASE k = 0
      BY <1>6, <3>1
    <3>2. CASE k \in 1..N
      <4>1. f[k] = Next1(k, f[k-1])
        BY <1>8, <3>2
      <4> QED BY <4>1
    <3>3. k = 0 \/ k \in 1..N
      BY <1>1
    <3> QED BY <3>1, <3>2, <3>3
  <2> HIDE DEF N, T
  <2> QED BY <1>6, <2>1
<1>10. look = [k \in 0..N |-> IF k = 0 \/
       Detectors!IsInstruction(msgs[k]) THEN <<>> ELSE DetectorSig(msgs[k]) \o look[k-1]]
  BY <1>9
<1>11. Detectors!RecentSignatures(msgs) = look[N]
  BY DEF Detectors!RecentSignatures, DetectorSig
<1>12. look = f
  <2> DEFINE S == {n \in 0..N : look[n] = f[n]}
  <2> HIDE DEF look, N
  <2>1. 0 \in S
    BY <1>1, <1>9, <1>10
  <2>2. ASSUME NEW n \in 0..(N-1), n \in S PROVE n + 1 \in S
    <3>1. n + 1 \in 0..N /\ (n + 1) - 1 = n /\ look[n] = f[n]
      BY <1>1, <2>2
    <3>2. look[n+1] = Next1(n+1, look[n]) /\ f[n+1] = Next1(n+1, f[n])
      BY <1>7, <1>9, <1>10, <3>1
    <3> HIDE DEF Next1
    <3> QED BY <3>1, <3>2
  <2>3. \A n \in 0..N : n \in S
    <3> HIDE DEF S
    <3> QED BY <1>1, <2>1, <2>2, StepByStep
  <2> QED BY <1>9, <1>10, <2>3
<1> HIDE DEF look
<1>13. f \in DetectorLooks(msgs)
  BY <1>6, <1>8, <1>11, <1>12 DEF DetectorLooks
<1> QED BY <1>13

(* The turns since the last instruction before a place, and the places     *)
(* that the signatures stand for, the last first.                          *)
DetectorTurnsAt(msgs, k) ==
    {j \in 1..k : /\ msgs[j].role \in Detectors!Said /\ ~Detectors!Blank(msgs[j])
                  /\ \A l \in j..k : ~Detectors!IsInstruction(msgs[l])}
DetectorPlaces(msgs, k, s) ==
    {P \in [1..Len(s) -> 1..k] :
        /\ \A i, j \in 1..Len(s) : i < j => P[j] < P[i]
        /\ \A i \in 1..Len(s) : P[i] \in DetectorTurnsAt(msgs, k) /\
           s[i] = Detectors!Signature(msgs[P[i]])
        /\ \A t \in DetectorTurnsAt(msgs, k) : \E i \in 1..Len(s) : P[i] = t}

LEMMA DetectorPlacesStep ==
    ASSUME NEW msgs \in Seq(DetectorMessage), NEW k \in 0..(Len(msgs) - 1),
      NEW s \in Seq(DetectorSigs),
           DetectorPlaces(msgs, k, s) # {},
           NEW t,
           t = IF Detectors!IsInstruction(msgs[k+1]) THEN <<>> ELSE DetectorSig(msgs[k+1]) \o s
    PROVE  DetectorPlaces(msgs, k + 1, t) # {}
<1> DEFINE m == msgs[k+1]
<1>1. k \in Nat /\ Len(s) \in Nat /\ k + 1 \in 1..Len(msgs)
  OBVIOUS
<1>2. PICK P \in [1..Len(s) -> 1..k] :
        /\ \A i, j \in 1..Len(s) : i < j => P[j] < P[i]
        /\ \A i \in 1..Len(s) : P[i] \in DetectorTurnsAt(msgs, k) /\
           s[i] = Detectors!Signature(msgs[P[i]])
        /\ \A j \in DetectorTurnsAt(msgs, k) : \E i \in 1..Len(s) : P[i] = j
  BY DEF DetectorPlaces
<1>3. CASE Detectors!IsInstruction(m)
  <2>1. t = <<>> /\ Len(t) = 0
    BY <1>3
  <2>2. DetectorTurnsAt(msgs, k + 1) = {}
    <3>1. \A j \in 1..(k+1) : k + 1 \in j..(k+1)
      BY <1>1
    <3> QED BY <1>3, <3>1 DEF DetectorTurnsAt
  <2> DEFINE Q == [i \in 1..0 |-> 0]
  <2>3. Q \in [1..0 -> 1..(k+1)] /\ 1..0 = {}
    OBVIOUS
  <2>4. Q \in DetectorPlaces(msgs, k + 1, t)
    <3> HIDE DEF Q
    <3> QED BY <2>1, <2>2, <2>3 DEF DetectorPlaces
  <2> QED BY <2>4
<1>4. \A j \in 1..k : \A l : l \in j..(k+1) <=> l \in j..k \/ l = k + 1
  BY <1>1
<1>5. CASE ~Detectors!IsInstruction(m) /\ ~(m.role \in Detectors!Said /\ ~Detectors!Blank(m))
  <2>1. t = <<>> \o s /\ <<>> \o s = s
    BY <1>5 DEF DetectorSig
  <2>2. DetectorTurnsAt(msgs, k + 1) = DetectorTurnsAt(msgs, k)
    <3>1. \A j \in 1..(k+1) : j \in 1..k \/ j = k + 1
      BY <1>1
    <3>2. \A j \in 1..k : j \in 1..(k+1)
      BY <1>1
    <3> QED BY <1>4, <1>5, <3>1, <3>2 DEF DetectorTurnsAt
  <2>3. P \in [1..Len(s) -> 1..(k+1)]
    BY <1>1
  <2>4. P \in DetectorPlaces(msgs, k + 1, t)
    BY <1>2, <2>1, <2>2, <2>3 DEF DetectorPlaces
  <2> QED BY <2>4
<1>6. CASE ~Detectors!IsInstruction(m) /\ m.role \in Detectors!Said /\ ~Detectors!Blank(m)
  <2> DEFINE L == Len(s)
             Q == [i \in 1..(L+1) |-> IF i = 1 THEN k + 1 ELSE P[i-1]]
  <2>1. t = <<Detectors!Signature(m)>> \o s
    BY <1>6 DEF DetectorSig
  <2>2. Detectors!Signature(m) \in DetectorSigs
    <3>1. m \in DetectorMessage
      BY <1>1
    <3> QED BY <3>1 DEF DetectorSigs
  <2>3. Len(t) = L + 1 /\ t[1] = Detectors!Signature(m) /\ \A i \in 2..(L+1) : t[i] = s[i-1]
    <3>1. <<Detectors!Signature(m)>> \in Seq(DetectorSigs) /\
          Len(<<Detectors!Signature(m)>>) = 1 /\
            <<Detectors!Signature(m)>>[1] = Detectors!Signature(m)
      BY <2>2
    <3> DEFINE o == <<Detectors!Signature(m)>>
    <3> HIDE DEF o
    <3>2. /\ Len(o \o s) = Len(o) + Len(s)
          /\ \A i \in 1..(Len(o) + Len(s)) : (o \o s)[i] = IF i <= Len(o) THEN o[i] ELSE s[i - Len(o)]
      BY <3>1, ConcatProperties DEF o
    <3>3. Len(o) = 1 /\ o[1] = Detectors!Signature(m) /\ t = o \o s
      BY <2>1, <3>1 DEF o
    <3> HIDE DEF m
    <3> QED BY <1>1, <3>2, <3>3
  <2>4. DetectorTurnsAt(msgs, k + 1) = DetectorTurnsAt(msgs, k) \cup {k + 1}
    <3>1. \A j \in 1..(k+1) : j \in 1..k \/ j = k + 1
      BY <1>1
    <3>2. (\A j \in 1..k : j \in 1..(k+1)) /\ k + 1 \in 1..(k+1)
      BY <1>1
    <3>3. \A l \in (k+1)..(k+1) : l = k + 1
      BY <1>1
    <3> QED BY <1>4, <1>6, <3>1, <3>2, <3>3 DEF DetectorTurnsAt
  <2>5. \A i \in 2..(L+1) : i - 1 \in 1..L /\ i # 1
    BY <1>1
  <2>6. \A i \in 1..(L+1) : i = 1 \/ i \in 2..(L+1)
    BY <1>1
  <2>7. Q \in [1..(L+1) -> 1..(k+1)]
    <3>1. \A i \in 2..(L+1) : P[i-1] \in 1..k
      BY <1>2, <2>5
    <3>2. \A j \in 1..k : j \in 1..(k+1)
      BY <1>1
    <3>3. k + 1 \in 1..(k+1)
      BY <1>1
    <3> QED BY <2>6, <3>1, <3>2, <3>3
  <2>8. Q[1] = k + 1 /\ 1 \in 1..(L+1) /\ \A i \in 2..(L+1) : Q[i] = P[i-1]
    BY <1>1
  <2> HIDE DEF Q, L, m
  <2>9. ASSUME NEW i \in 1..(L+1), NEW j \in 1..(L+1), i < j PROVE Q[j] < Q[i]
    <3>1. j \in 2..(L+1) /\ j - 1 \in 1..L /\ P[j-1] \in 1..k /\ Q[j] = P[j-1]
      <4>1. j # 1
        BY <1>1, <2>9 DEF L
      <4>2. j \in 2..(L+1)
        BY <2>6, <4>1
      <4> QED BY <1>2, <2>5, <2>8, <4>2 DEF L
    <3>2. CASE i = 1
      BY <1>1, <2>8, <3>1, <3>2
    <3>3. CASE i \in 2..(L+1)
      <4>1. Q[i] = P[i-1] /\ i - 1 \in 1..L /\ i - 1 < j - 1
        BY <1>1, <2>5, <2>8, <2>9, <3>1, <3>3 DEF L
      <4> QED BY <1>2, <3>1, <4>1 DEF L
    <3> QED BY <2>6, <3>2, <3>3
  <2>10. ASSUME NEW i \in 1..(L+1)
         PROVE Q[i] \in DetectorTurnsAt(msgs, k + 1) /\ t[i] = Detectors!Signature(msgs[Q[i]])
    <3>1. CASE i = 1
      BY <2>3, <2>4, <2>8, <3>1 DEF m
    <3>2. CASE i \in 2..(L+1)
      <4>1. i - 1 \in 1..Len(s) /\ t[i] = s[i-1] /\ Q[i] = P[i-1]
        BY <2>3, <2>5, <2>8, <3>2 DEF L
      <4>2. P[i-1] \in DetectorTurnsAt(msgs, k) /\ s[i-1] = Detectors!Signature(msgs[P[i-1]])
        BY <1>2, <4>1
      <4> QED BY <2>4, <4>1, <4>2
    <3> QED BY <2>6, <3>1, <3>2
  <2>11. ASSUME NEW j \in DetectorTurnsAt(msgs, k + 1) PROVE \E i \in 1..(L+1) : Q[i] = j
    <3>1. CASE j = k + 1
      BY <2>8, <3>1
    <3>2. CASE j \in DetectorTurnsAt(msgs, k)
      <4>1. PICK i \in 1..L : P[i] = j
        BY <1>2, <3>2 DEF L
      <4>2. i + 1 \in 2..(L+1) /\ (i + 1) - 1 = i /\ i + 1 \in 1..(L+1)
        BY <1>1 DEF L
      <4> QED BY <2>8, <4>1, <4>2
    <3> QED BY <2>4, <3>1, <3>2
  <2>12. Q \in DetectorPlaces(msgs, k + 1, t)
    BY <2>3, <2>7, <2>9, <2>10, <2>11 DEF DetectorPlaces
  <2> QED BY <2>12
<1> QED BY <1>3, <1>5, <1>6

LEMMA DetectorPlacesAt ==
    ASSUME NEW msgs \in Seq(DetectorMessage)
    PROVE  DetectorPlaces(msgs, Len(msgs), Detectors!RecentSignatures(msgs)) # {} /\
      Detectors!RecentSignatures(msgs) \in Seq(DetectorSigs)
<1> DEFINE N == Len(msgs)
<1>1. PICK f \in [0..N -> Seq(DetectorSigs)] :
        /\ f[0] = <<>> /\ Detectors!RecentSignatures(msgs) = f[N]
        /\ \A n \in 1..N :
              f[n] = IF Detectors!IsInstruction(msgs[n]) THEN <<>> ELSE DetectorSig(msgs[n]) \o f[n-1]
  BY DetectorLookSteps DEF DetectorLooks
<1> DEFINE S == {n \in 0..N : DetectorPlaces(msgs, n, f[n]) # {}}
<1>2. N \in Nat
  OBVIOUS
<1>3. 0 \in S
  <2> DEFINE Q == [i \in 1..0 |-> 0]
  <2>1. Q \in [1..0 -> 1..0] /\ 1..0 = {} /\ Len(<<>>) = 0
    OBVIOUS
  <2>2. DetectorTurnsAt(msgs, 0) = {}
    BY DEF DetectorTurnsAt
  <2>3. Q \in DetectorPlaces(msgs, 0, <<>>)
    <3> HIDE DEF Q
    <3> QED BY <2>1, <2>2 DEF DetectorPlaces
  <2> QED BY <1>1, <1>2, <2>3
<1>4. ASSUME NEW n \in 0..(N-1), n \in S PROVE n + 1 \in S
  <2>1. n + 1 \in 1..N /\ n + 1 \in 0..N /\ (n + 1) - 1 = n /\ n \in 0..N
    BY <1>2
  <2>2. f[n+1] = IF Detectors!IsInstruction(msgs[n+1]) THEN <<>> ELSE DetectorSig(msgs[n+1]) \o f[n]
    <3> HIDE DEF N
    <3> QED BY <1>1, <2>1
  <2>3. f[n] \in Seq(DetectorSigs) /\ DetectorPlaces(msgs, n, f[n]) # {}
    BY <1>1, <1>4, <2>1
  <2>4. DetectorPlaces(msgs, n + 1, f[n+1]) # {}
    BY <2>2, <2>3, DetectorPlacesStep
  <2> QED BY <2>1, <2>4
<1>5. \A n \in 0..N : n \in S
  <2> HIDE DEF S, N
  <2> QED BY <1>2, <1>3, <1>4, StepByStep
<1>6. N \in 0..N
  BY <1>2
<1> QED
  <2>1. DetectorPlaces(msgs, N, f[N]) # {}
    <3> HIDE DEF N
    <3> QED BY <1>5, <1>6
  <2> QED BY <1>1, <1>6, <2>1

(* The n-th last turn since the instruction, as the property finds it.     *)
DetectorFromPlace(S, k) == {j \in S : j >= k}
DetectorNthOf(S, n) == Detectors!Max({k \in S : Cardinality(DetectorFromPlace(S, k)) = n})

(* P has the elements of S from the last place to the first.               *)
DetectorDescends(P, L, N, S) ==
    /\ P \in [1..L -> 1..N]
    /\ \A i, j \in 1..L : i < j => P[j] < P[i]
    /\ \A i \in 1..L : P[i] \in S
    /\ \A x \in S : \E i \in 1..L : P[i] = x

LEMMA DetectorNthIs ==
    ASSUME NEW N \in Nat, NEW L \in Nat, NEW P, NEW S, DetectorDescends(P, L, N, S)
    PROVE  Cardinality(S) = L /\ \A n \in 1..L : DetectorNthOf(S, n) = P[n]
<1> USE DEF DetectorDescends
<1>1. \A i, j \in 1..L : P[i] = P[j] => i = j
  <2>1. \A i \in 1..L : P[i] \in Nat
    OBVIOUS
  <2>2. ASSUME NEW i \in 1..L, NEW j \in 1..L, i < j PROVE P[i] # P[j]
    <3>1. P[j] < P[i] /\ P[i] \in Nat /\ P[j] \in Nat
      BY <2>1, <2>2
    <3> QED BY <3>1
  <2>3. \A i, j \in 1..L : i = j \/ i < j \/ j < i
    OBVIOUS
  <2> QED BY <2>2, <2>3
<1>2. Cardinality(S) = L
  <2>1. DetectorNumbers(P, L, S)
    BY <1>1 DEF DetectorNumbers
  <2> QED BY <2>1, DetectorCountPlaces
<1>3. ASSUME NEW m \in 1..L PROVE Cardinality(DetectorFromPlace(S, P[m])) = m
  <2>1. \A i \in 1..L : P[i] \in Nat
    OBVIOUS
  <2>2. \A i \in 1..L : P[i] >= P[m] <=> i <= m
    <3>1. ASSUME NEW i \in 1..L PROVE P[i] >= P[m] <=> i <= m
      <4>1. i < m => P[m] < P[i]
        OBVIOUS
      <4>2. m < i => P[i] < P[m]
        OBVIOUS
      <4>3. i \in Nat /\ m \in Nat /\ P[i] \in Nat /\ P[m] \in Nat
        BY <2>1
      <4>4. i = m => P[i] = P[m]
        OBVIOUS
      <4> QED BY <4>1, <4>2, <4>3, <4>4
    <3> QED BY <3>1
  <2>3. \A i \in 1..m : i \in 1..L /\ i <= m
    OBVIOUS
  <2>4. \A i \in 1..L : i <= m => i \in 1..m
    OBVIOUS
  <2> DEFINE F == DetectorFromPlace(S, P[m])
  <2>5. (\A i \in 1..m : P[i] \in F) /\ \A x \in F : \E i \in 1..m : P[i] = x
    BY <2>2, <2>3, <2>4 DEF DetectorFromPlace
  <2>6. m \in Nat /\ \A i, j \in 1..m : P[i] = P[j] => i = j
    BY <1>1, <2>3
  <2>7. Cardinality(F) = m
    <3> HIDE DEF F
    <3>1. DetectorNumbers(P, m, F)
      BY <2>5, <2>6 DEF DetectorNumbers
    <3> QED BY <2>6, <3>1, DetectorCountPlaces
  <2> QED BY <2>7
<1>4. ASSUME NEW n \in 1..L PROVE DetectorNthOf(S, n) = P[n]
  <2>1. {k \in S : Cardinality(DetectorFromPlace(S, k)) = n} = {P[n]}
    <3>1. \A k \in S : \E m \in 1..L : k = P[m]
      OBVIOUS
    <3>2. P[n] \in S
      OBVIOUS
    <3>3. \A k \in S : Cardinality(DetectorFromPlace(S, k)) = n <=> k = P[n]
      BY <1>3, <3>1
    <3> QED BY <3>2, <3>3
  <2>2. Detectors!Max({P[n]}) = P[n]
    <3>1. {P[n]} \subseteq Nat /\ P[n] \in {P[n]} /\ \A k \in {P[n]} : k <= P[n]
      OBVIOUS
    <3> QED BY <3>1, DetectorMaxIs
  <2> QED BY <2>1, <2>2 DEF DetectorNthOf
<1> QED BY <1>2, <1>4

(* A log that ends a run for repetition shows the repetition.              *)
DetectorSameTurns(i, j) ==
    Detectors!Signature(detLog[DetectorNthOf(Detectors!SinceInstruction,
      i)]) = Detectors!Signature(detLog[DetectorNthOf(Detectors!SinceInstruction, j)])

LEMMA DetectorRepetitionShown ==
    ASSUME DetectorTypes, Detectors!DetectRepetitiveLoop(detLog)
    PROVE  /\ Cardinality(Detectors!SinceInstruction) >= 3
           /\ DetectorSameTurns(1, 3)
           /\ DetectorSameTurns(1, 2) \/ (Cardinality(Detectors!SinceInstruction) >= 4 /\
              DetectorSameTurns(2, 4))
<1> DEFINE s == Detectors!RecentSignatures(detLog)
           N == Len(detLog)
           L == Len(s)
           S == Detectors!SinceInstruction
<1>1. detLog \in Seq(DetectorMessage) /\ N \in Nat /\ DOMAIN detLog = 1..N
  BY DEF DetectorTypes
<1>2. s \in Seq(DetectorSigs) /\ L \in Nat
  BY <1>1, DetectorPlacesAt
<1>3. PICK P \in [1..L -> 1..N] :
        /\ \A i, j \in 1..L : i < j => P[j] < P[i]
        /\ \A i \in 1..L : P[i] \in DetectorTurnsAt(detLog, N) /\
           s[i] = Detectors!Signature(detLog[P[i]])
        /\ \A t \in DetectorTurnsAt(detLog, N) : \E i \in 1..L : P[i] = t
  BY <1>1, DetectorPlacesAt DEF DetectorPlaces
<1>4. S = DetectorTurnsAt(detLog, N)
  BY <1>1 DEF Detectors!SinceInstruction, DetectorTurnsAt, Detectors!IsInstruction
<1>5. (\A i \in 1..L : P[i] \in S) /\ \A x \in S : \E i \in 1..L : P[i] = x
  <2> HIDE DEF S
  <2> QED BY <1>3, <1>4
<1>6. Cardinality(S) = L /\ \A n \in 1..L : DetectorNthOf(S, n) = P[n]
  <2> HIDE DEF S, L, N
  <2>1. DetectorDescends(P, L, N, S)
    BY <1>3, <1>5 DEF DetectorDescends
  <2> QED BY <1>1, <1>2, <2>1, DetectorNthIs
<1>7. \/ L >= 3 /\ s[1] = s[2] /\ s[2] = s[3]
      \/ L >= 4 /\ s[1] = s[3] /\ s[2] = s[4]
  BY DEF Detectors!DetectRepetitiveLoop
<1> HIDE DEF S, s, L, N
<1>8. \A n \in 1..L : s[n] = Detectors!Signature(detLog[DetectorNthOf(S, n)])
  BY <1>3, <1>6
<1>9. CASE L >= 3 /\ s[1] = s[2] /\ s[2] = s[3]
  <2>1. 1 \in 1..L /\ 2 \in 1..L /\ 3 \in 1..L
    BY <1>2, <1>9
  <2> QED BY <1>6, <1>8, <1>9, <2>1 DEF S, DetectorSameTurns
<1>10. CASE L >= 4 /\ s[1] = s[3] /\ s[2] = s[4]
  <2>1. 1 \in 1..L /\ 2 \in 1..L /\ 3 \in 1..L /\ 4 \in 1..L /\ L >= 3
    BY <1>2, <1>10
  <2> QED BY <1>6, <1>8, <1>10, <2>1 DEF S, DetectorSameTurns
<1> QED BY <1>7, <1>9, <1>10

LEMMA DetectorStopsShown ==
    ASSUME DetectorTypes, DetectorTurns
    PROVE  Detectors!StopsForItsOwnTurns
<1>1. SUFFICES ASSUME reason = "repetitive_loop"
               PROVE  Detectors!StopsForItsOwnTurns
  BY DEF Detectors!StopsForItsOwnTurns
<1>2. Detectors!DetectRepetitiveLoop(detLog)
  BY <1>1 DEF DetectorTurns
<1> DEFINE Nth(n) == Detectors!Max({k \in Detectors!SinceInstruction :
                                      Detectors!Cardinality({j \in Detectors!SinceInstruction : j >= k}) = n})
<1>3. \A n : DetectorNthOf(Detectors!SinceInstruction, n) = Nth(n)
  BY DetectorSameCount DEF DetectorNthOf, DetectorFromPlace
<1>4. /\ Detectors!Cardinality(Detectors!SinceInstruction) >= 3
      /\ Detectors!Signature(detLog[Nth(1)]) = Detectors!Signature(detLog[Nth(3)])
      /\ \/ Detectors!Signature(detLog[Nth(1)]) = Detectors!Signature(detLog[Nth(2)])
         \/ /\ Detectors!Cardinality(Detectors!SinceInstruction) >= 4
            /\ Detectors!Signature(detLog[Nth(2)]) = Detectors!Signature(detLog[Nth(4)])
  <2> HIDE DEF Nth
  <2> QED BY <1>2, <1>3, DetectorRepetitionShown, DetectorSameCount DEF DetectorSameTurns
<1> QED BY <1>4, Zenon DEF Detectors!StopsForItsOwnTurns

(* Three of the same turn in a row are a repetitive loop.                  *)
LEMMA DetectorThirdTimeFound ==
    ASSUME NEW msgs \in Seq(DetectorMessage), Len(msgs) >= 3,
           \A k \in (Len(msgs) - 2)..Len(msgs) :
              /\ msgs[k].role \in Detectors!Said /\ ~Detectors!Blank(msgs[k])
              /\ Detectors!Signature(msgs[k]) = Detectors!Signature(msgs[Len(msgs)])
    PROVE  Detectors!DetectRepetitiveLoop(msgs)
<1> DEFINE N == Len(msgs)
           g == Detectors!Signature(msgs[N])
           s == Detectors!RecentSignatures(msgs)
<1>1. PICK f \in [0..N -> Seq(DetectorSigs)] :
        /\ f[0] = <<>> /\ s = f[N]
        /\ \A n \in 1..N :
              f[n] = IF Detectors!IsInstruction(msgs[n]) THEN <<>> ELSE DetectorSig(msgs[n]) \o f[n-1]
  BY DetectorLookSteps DEF DetectorLooks
<1>2. N \in Nat /\ N >= 3 /\ N - 3 \in 0..N /\ N - 2 \in 1..N /\ N - 1 \in 1..N /\ N \in 1..N
  OBVIOUS
<1>3. /\ N - 2 \in (N-2)..N /\ N - 1 \in (N-2)..N /\ N \in (N-2)..N
      /\ (N - 2) - 1 = N - 3 /\ (N - 1) - 1 = N - 2
  BY <1>2
<1>4. \A k \in (N-2)..N : ~Detectors!IsInstruction(msgs[k]) /\ DetectorSig(msgs[k]) = <<g>>
  BY DEF Detectors!IsInstruction, DetectorSig, Detectors!Said
<1> HIDE DEF N, g, s
<1>5. f[N] = <<g>> \o f[N-1] /\ f[N-1] = <<g>> \o f[N-2] /\ f[N-2] = <<g>> \o f[N-3]
  BY <1>1, <1>2, <1>3, <1>4
<1>6. f[N-3] \in Seq(DetectorSigs)
  BY <1>1, <1>2
<1>7. g \in DetectorSigs
  BY <1>2 DEF g, N, DetectorSigs
<1>8. Len(s) >= 3 /\ s[1] = g /\ s[2] = g /\ s[3] = g
  BY <1>1, <1>5, <1>6, <1>7
<1> QED BY <1>8 DEF Detectors!DetectRepetitiveLoop, s

-----------------------------------------------------------------------------
LEMMA DetectorInitInv == ASSUME DetectorBounds, Detectors!Init PROVE DetectorIInv
<1>1. DetectorTypes
  BY DEF Detectors!Init, DetectorBounds, DetectorTypes
<1>2. DetectorTurns /\ Detectors!NoThirdTime
  BY DEF Detectors!Init, DetectorTurns, Detectors!NoThirdTime
<1>3. \A a : DetectorLastIn(failures, a) = 0
  <2>1. ASSUME NEW a PROVE DetectorLastIn(failures, a) = 0
    <3>1. failures \in Seq(Action) /\ Len(failures) = 0
      BY DEF Detectors!Init
    <3>2. DetectorLastIn(failures, a) \in 0..0
      BY <3>1, DetectorLastInIs
    <3> QED BY <3>2
  <2> QED BY <2>1
<1>4. DetectorRemembered
  <2>1. order = <<>> /\ Len(order) = 0 /\ DOMAIN order = {} /\ \A a \in Action : entries[a] = 0
    BY DEF Detectors!Init
  <2> QED BY <1>3, <2>1 DEF DetectorBounds, DetectorRemembered, DetectorRemembers
<1> QED BY <1>1, <1>2, <1>4 DEF DetectorIInv

(* A run begins, or a message of the user comes: the log ends with it.     *)
LEMMA DetectorAskedInv ==
    ASSUME DetectorBounds, DetectorIInv, NEW role \in {"user", "go"},
      Detectors!StartRun(role) \/ Detectors!Inject(role)
    PROVE  DetectorTypes' /\ DetectorTurns' /\ Detectors!NoThirdTime'
<1>1. detLog \in Seq(DetectorMessage) /\ Len(detLog) < MaxMsgs /\
      Detectors!Asked(role) \in DetectorMessage /\
        detLog' = Append(detLog, Detectors!Asked(role))
  BY DEF DetectorIInv, DetectorTypes, Detectors!StartRun, Detectors!Inject, Detectors!Asked,
         DetectorMessage, DetectorRole
<1>2. /\ detLog' \in Seq(DetectorMessage) /\ Len(detLog') = Len(detLog) + 1 /\
         Len(detLog') <= MaxMsgs
      /\ detLog'[Len(detLog')] = Detectors!Asked(role)
  BY <1>1 DEF DetectorBounds
<1>3. DetectorTypes'
  <2>1. start' \in 0..MaxMsgs
    BY <1>1, <1>2
       DEF DetectorIInv, DetectorTypes, Detectors!StartRun, Detectors!Inject, DetectorBounds
  <2> QED BY <1>2, <2>1
             DEF DetectorIInv, DetectorTypes, Detectors!StartRun, Detectors!Inject,
                 Detectors!mistakes
<1>4. DetectorTurns'
  BY DEF DetectorIInv, DetectorTypes, DetectorTurns, Detectors!StartRun, Detectors!Inject
<1>5. Detectors!NoThirdTime'
  <2>1. detLog'[Len(detLog')].role \notin Detectors!Said
    BY <1>2 DEF Detectors!Asked, Detectors!Said
  <2> QED BY <2>1 DEF Detectors!NoThirdTime
<1> QED BY <1>3, <1>4, <1>5

(* A run ends: nothing is said after it.                                   *)
LEMMA DetectorStopInv ==
    ASSUME DetectorBounds, DetectorIInv, Detectors!StopRepetitive \/
      Detectors!StopCommandLoop \/ Detectors!StopIneffective \/ Detectors!Finish
    PROVE  DetectorTypes' /\ DetectorTurns' /\ Detectors!NoThirdTime'
<1>1. UNCHANGED <<detLog, start, Detectors!mistakes>> /\ detPc' = "idle"
  BY DEF Detectors!StopRepetitive, Detectors!StopCommandLoop, Detectors!StopIneffective,
         Detectors!Finish, Detectors!HardStop
<1>2. futile' \in 0..2
  BY DEF DetectorIInv, DetectorTypes, DetectorTurns, Detectors!StopRepetitive,
         Detectors!StopCommandLoop, Detectors!StopIneffective, Detectors!Finish,
         Detectors!HardStop
<1>3. DetectorTypes'
  BY <1>1, <1>2
     DEF DetectorIInv, DetectorTypes, Detectors!StopRepetitive, Detectors!StopCommandLoop,
         Detectors!StopIneffective, Detectors!Finish, Detectors!HardStop, Detectors!mistakes
<1>4. DetectorTurns'
  <2>1. reason' = "repetitive_loop" => Detectors!DetectRepetitiveLoop(detLog)
    BY DEF Detectors!StopRepetitive, Detectors!StopCommandLoop, Detectors!StopIneffective,
           Detectors!Finish, Detectors!HardStop
  <2> QED BY <1>1, <2>1 DEF DetectorTurns
<1>5. Detectors!NoThirdTime'
  BY <1>1 DEF Detectors!NoThirdTime
<1> QED BY <1>3, <1>4, <1>5

(* The model answers: what it said before was no repetition.               *)
LEMMA DetectorAnswerInv ==
    ASSUME DetectorBounds, DetectorIInv, Detectors!Answer
    PROVE  DetectorTypes' /\ DetectorTurns' /\ Detectors!NoThirdTime'
<1>1. PICK x \in {text} \cup {NoText}, c \in Lists : detLog' = Append(detLog,
      Detectors!NewMsg(x, c))
  BY DEF Detectors!Answer
<1>2. /\ detLog \in Seq(DetectorMessage) /\ Len(detLog) \in Nat /\ Len(detLog) < MaxMsgs /\
         Detectors!NewMsg(x, c) \in DetectorMessage
      /\ start \in Nat /\ UNCHANGED <<start, detPc, reason, Detectors!mistakes>> /\
         detPc = "turn"
  BY DEF DetectorIInv, DetectorTypes, Detectors!Answer, Detectors!NewMsg, DetectorMessage,
         DetectorRole, DetectorBounds
<1>3. /\ detLog' \in Seq(DetectorMessage) /\ Len(detLog') = Len(detLog) + 1 /\
         Len(detLog') <= MaxMsgs
      /\ \A k \in 1..Len(detLog) : detLog'[k] = detLog[k]
  BY <1>1, <1>2 DEF DetectorBounds
<1>4. futile' \in 0..1
  BY <1>2 DEF DetectorIInv, DetectorTypes, DetectorTurns, Detectors!Answer
<1>5. DetectorTypes'
  BY <1>2, <1>3, <1>4 DEF DetectorIInv, DetectorTypes, Detectors!mistakes
<1>6. DetectorTurns'
  <2>1. reason = "none"
    BY <1>2 DEF DetectorIInv, DetectorTurns
  <2> QED BY <1>2, <1>4, <2>1 DEF DetectorTurns
<1>7. Detectors!NoThirdTime'
  <2> DEFINE n == Len(detLog')
  <2>1. SUFFICES ASSUME n - start >= 4,
                        \A k \in (n-3)..n : detLog'[k].role \in Detectors!Said /\
                          ~Detectors!Blank(detLog'[k]),
                        \A k \in (n-3)..n :
                           Detectors!Signature(detLog'[k]) = Detectors!Signature(detLog'[n])
                 PROVE  FALSE
    BY <1>2 DEF Detectors!NoThirdTime
  <2>2. n - 1 = Len(detLog) /\ n \in Nat /\ Len(detLog) >= 3 /\ Len(detLog) > start
    BY <1>2, <1>3, <2>1
  <2>3. \A k \in (Len(detLog) - 2)..Len(detLog) : k \in (n-3)..n /\ k \in 1..Len(detLog)
    BY <2>2
  <2> HIDE DEF n
  <2>4. \A k \in (Len(detLog) - 2)..Len(detLog) :
           detLog[k].role \in Detectors!Said /\ ~Detectors!Blank(detLog[k]) /\
             Detectors!Signature(detLog[k]) = Detectors!Signature(detLog'[n])
    BY <1>3, <2>1, <2>3
  <2>5. Len(detLog) \in (Len(detLog) - 2)..Len(detLog)
    BY <2>2
  <2>6. Detectors!DetectRepetitiveLoop(detLog)
    <3>1. \A k \in (Len(detLog) - 2)..Len(detLog) :
             detLog[k].role \in Detectors!Said /\ ~Detectors!Blank(detLog[k]) /\
               Detectors!Signature(detLog[k]) = Detectors!Signature(detLog[Len(detLog)])
      BY <2>4, <2>5
    <3> QED BY <1>2, <2>2, <3>1, DetectorThirdTimeFound
  <2>7. Detectors!HasNewAssistantMsg
    <3>1. Len(detLog) \in DOMAIN detLog /\ Len(detLog) > start /\
          detLog[Len(detLog)].role \in Detectors!Said
      BY <1>2, <2>2, <2>4, <2>5
    <3> QED BY <3>1 DEF Detectors!HasNewAssistantMsg
  <2> QED BY <2>6, <2>7 DEF Detectors!Answer
<1> QED BY <1>5, <1>6, <1>7

LEMMA DetectorNextInv ==
    ASSUME DetectorBounds, DetectorIInv, [Detectors!Next]_(Detectors!vars) PROVE DetectorIInv'
<1>1. CASE Detectors!Talk
  <2>1. UNCHANGED Detectors!mistakes
    BY <1>1
       DEF Detectors!Talk, Detectors!StartRun, Detectors!Inject, Detectors!StopRepetitive,
           Detectors!StopCommandLoop, Detectors!StopIneffective, Detectors!Answer,
           Detectors!Finish, Detectors!HardStop
  <2>2. DetectorRemembered'
    BY <2>1 DEF DetectorIInv, DetectorRemembered, Detectors!mistakes
  <2>3. DetectorTypes' /\ DetectorTurns' /\ Detectors!NoThirdTime'
    BY <1>1, DetectorAskedInv, DetectorStopInv, DetectorAnswerInv DEF Detectors!Talk
  <2> QED BY <2>2, <2>3 DEF DetectorIInv
<1>2. ASSUME NEW a \in Action, Detectors!Record(a) PROVE DetectorIInv'
  <2>1. UNCHANGED <<detLog, start, detPc, reason, futile>> /\ failures' = Append(failures, a)
    BY <1>2 DEF Detectors!Record, Detectors!chat
  <2>2. DetectorRemembered' /\ order' \in Seq(Action) /\ entries' \in [Action -> 0..MaxAttempts]
    BY <1>2, DetectorRecordRemembers DEF DetectorIInv
  <2>3. DetectorTypes'
    BY <2>1, <2>2 DEF DetectorIInv, DetectorTypes
  <2>4. DetectorTurns' /\ Detectors!NoThirdTime'
    BY <2>1 DEF DetectorIInv, DetectorTurns, Detectors!NoThirdTime
  <2> QED BY <2>2, <2>3, <2>4 DEF DetectorIInv
<1>3. CASE UNCHANGED Detectors!vars
  BY <1>3
     DEF Detectors!vars, Detectors!chat, Detectors!mistakes, DetectorIInv, DetectorTypes,
         DetectorTurns, Detectors!NoThirdTime, DetectorRemembered
<1> QED BY <1>1, <1>2, <1>3 DEF Detectors!Next, Detectors!Fail

LEMMA DetectorIInvSound == ASSUME DetectorBounds, DetectorIInv PROVE Detectors!DetectorsSound
<1>1. Detectors!StopsForItsOwnTurns
  BY DetectorStopsShown DEF DetectorIInv
<1>2. Detectors!MistakesAreRecent
  BY DetectorShowsRecent DEF DetectorIInv
<1>3. Detectors!TypeOK
  <2>1. \A k \in DOMAIN detLog : detLog[k].role \in {"user", "go", "assistant"}
    <3>1. detLog \in Seq(DetectorMessage)
      BY DEF DetectorIInv, DetectorTypes
    <3>2. \A k \in DOMAIN detLog : detLog[k] \in DetectorMessage
      BY <3>1
    <3> QED BY <3>2 DEF DetectorMessage, DetectorRole
  <2> QED BY <2>1 DEF DetectorIInv, DetectorTypes, Detectors!TypeOK
<1> QED BY <1>1, <1>2, <1>3 DEF Detectors!DetectorsSound, DetectorIInv

THEOREM DetectorSound == ASSUME DetectorBounds
    PROVE Detectors!Spec => []Detectors!DetectorsSound
<1>1. Detectors!Init => DetectorIInv
  BY DetectorInitInv
<1>2. DetectorIInv /\ [Detectors!Next]_(Detectors!vars) => DetectorIInv'
  BY DetectorNextInv
<1>3. DetectorIInv => Detectors!DetectorsSound
  BY DetectorIInvSound
<1> QED BY <1>1, <1>2, <1>3, PTL DEF Detectors!Spec

(* The composition runs Detectors as it is specified, the turns and the    *)
(* memory of mistakes each in its part: the other parts leave its          *)
(* variables alone.                                                        *)
LEMMA DetectorsRuns == Spec => Detectors!Spec
<1>1. Init => Detectors!Init
  BY DEF Init
<1>2. ASSUME [Next]_vars PROVE [Detectors!Next]_(Detectors!vars)
  <2>1. CASE InDetectors(Detectors!Talk)
    BY <2>1 DEF InDetectors, Detectors!Next
  <2>2. CASE InMistakes(Detectors!Fail)
    BY <2>2 DEF InMistakes, Detectors!Next
  <2>3. UNCHANGED detectorsVars => UNCHANGED Detectors!vars
    BY DEF detectorsVars, Detectors!vars, Detectors!chat, Detectors!mistakes
  <2>4. ~InDetectors(Detectors!Talk) /\ ~InMistakes(Detectors!Fail) => UNCHANGED detectorsVars
    BY <1>2 DEF Next, vars, InTalk, InLlm, InHelpers, InPlans, InGate, InTexts
  <2> QED BY <2>1, <2>2, <2>3, <2>4
<1> QED BY <1>1, <1>2, PTL DEF Spec, Detectors!Spec

(* A run that is stopped for repeating itself did so since the last        *)
(* instruction, one that goes on did not just say the same for the third   *)
(* time, and the prompt shows the mistakes that are the most recent        *)
(* (loop_detector.go, mistake_memory.go).                                  *)
THEOREM DecisionsStopRepeats == Spec => []DetectorsSound
<1>1. DetectorBounds
  BY DecisionsAssumption
<1>2. Detectors!Spec => []Detectors!DetectorsSound
  BY <1>1, DetectorSound
<1> QED BY <1>2, DetectorsRuns, PTL DEF DetectorsSound
=============================================================================
