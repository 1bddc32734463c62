------------------------------ MODULE LlmRequest ------------------------------
(***************************************************************************)
(* internal/llm/providers and ExecuteResilientLLMCall: what becomes of one *)
(* call of an agent to its model.  The loop tries three routes: streamed   *)
(* with tools, streamed without, and unstreamed through the retry wrapper. *)
(* Each provider may post several requests for one of them, and what the   *)
(* OpenAI provider learns of a model's tools is shared by all agents.  The *)
(* model's service is outside: it may answer, fail or refuse at will.      *)
(***************************************************************************)
EXTENDS Naturals

CONSTANTS Agent,
          Attempts,   \* maxRetries of the OpenAI provider: posts of one try
          Retries,    \* maxRetries of RetryProvider: tries of SendMessages
          MaxCalls    \* bound: calls of one agent

VARIABLES kind,     \* the provider: "openai", "gemini" or "anthropic"
          cache,    \* toolUseCache of the model: "unknown", "yes" or "no"
          phase,    \* agent -> idle, begin (of a try), post or again
          route,    \* agent -> route of its call, 1..3
          try,      \* agent -> try of that route
          attempt,  \* agent -> post of that try
          tools,    \* agent -> the request under way carries tools
          disabled, \* agent -> isToolUseDisabled of the try
          media,    \* agent -> the messages hold an image
          native,   \* agent -> and the request carries it
          textOnly, \* agent -> textOnlyMode of its loop
          answered, \* agent -> what the answered request carried: tools or text
          stopped,  \* agent -> its context is cancelled
          calls, requests, late \* agent -> calls; posts of this one; since the stop

vars == <<kind, cache, phase, route, try, attempt, tools, disabled, media, native,
          textOnly, answered, stopped, calls, requests, late>>

(* Words of a refusal that the providers look for.                         *)
Word == {"support", "vision", "tool", "auth"}
Streams(a) == kind = "openai" /\ route[a] < 3

Init ==
    /\ kind \in {"openai", "gemini", "anthropic"}
    /\ cache = "unknown"
    /\ phase = [a \in Agent |-> "idle"]
    /\ route = [a \in Agent |-> 1] /\ try = [a \in Agent |-> 1]
    /\ attempt = [a \in Agent |-> 1]
    /\ tools = [a \in Agent |-> FALSE] /\ disabled = tools
    /\ media = tools /\ native = tools /\ textOnly = tools /\ stopped = tools
    /\ answered = [a \in Agent |-> "none"]
    /\ calls = [a \in Agent |-> 0] /\ requests = calls /\ late = calls

-----------------------------------------------------------------------------
ExecuteResilientLLMCall(a) ==
    /\ phase[a] = "idle" /\ calls[a] < MaxCalls /\ ~stopped[a]
    /\ calls' = [calls EXCEPT ![a] = @ + 1]
    /\ \E image \in BOOLEAN : media' = [media EXCEPT ![a] = image]
    /\ phase' = [phase EXCEPT ![a] = "begin"]
    /\ answered' = [answered EXCEPT ![a] = "none"]
    /\ UNCHANGED <<kind, cache, route, try, attempt, requests, tools, disabled, native,
                   textOnly, stopped, late>>

(* Images are sent as such, but for Anthropic.                             *)
CarriesImages(a) == media[a] /\ kind # "anthropic"

(* A model is asked to describe them, so that their text can replace them. *)
describeImage(a) == requests' = [requests EXCEPT ![a] = IF CarriesImages(a) THEN @ + 1 ELSE @]

(* A try reads the cache and describes every image again: the messages the *)
(* descriptions are written into are a copy.                               *)
Begin(a) ==
    /\ phase[a] = "begin"
    /\ disabled' = [disabled EXCEPT ![a] = kind = "openai" /\ cache = "no"]
    /\ tools' = [tools EXCEPT ![a] = route[a] = 1 /\ ~disabled'[a]]
    /\ native' = [native EXCEPT ![a] = CarriesImages(a)]
    /\ describeImage(a)
    /\ phase' = [phase EXCEPT ![a] = "post"]
    /\ UNCHANGED <<kind, cache, route, try, attempt, media, textOnly, answered, stopped,
                   calls, late>>

(* The posts of a call are counted while it is under way.                  *)
Posted(a) == LET Count(n) == IF phase'[a] = "idle" THEN 0 ELSE n
             IN  /\ requests' = [requests EXCEPT ![a] = Count(@ + 1)]
                 /\ late' = [late EXCEPT ![a] = Count(IF stopped[a] THEN @ + 1 ELSE @)]

(* Deviation: any success is taken for tool use.                           *)
LearnsAlways(a) ==
    cache' = IF kind = "openai" THEN "yes" ELSE cache

LearnsTools(a) ==
    cache' = IF kind = "openai" /\ tools[a] THEN "yes" ELSE cache

(* The variables of a call end with it, and those of a try.                *)
CallOver(a) == /\ phase' = [phase EXCEPT ![a] = "idle"]
               /\ route' = [route EXCEPT ![a] = 1] /\ try' = [try EXCEPT ![a] = 1]
TryOver(a) == /\ attempt' = [attempt EXCEPT ![a] = 1]
              /\ tools' = [tools EXCEPT ![a] = FALSE]
              /\ disabled' = [disabled EXCEPT ![a] = FALSE]
              /\ native' = [native EXCEPT ![a] = FALSE]

Accepted(a) ==
    /\ LearnsTools(a)
    /\ CallOver(a)
    /\ answered' = [answered EXCEPT ![a] = IF tools[a] THEN "tools" ELSE "text"]
    /\ textOnly' = [textOnly EXCEPT ![a] = @ \/ disabled[a]]
    /\ TryOver(a)

(* Deviation: a cancelled context is retried like any other error.         *)
RetriesStopped(a, words) == route[a] = 3 /\ try[a] < Retries /\ "auth" \notin words

(* The wrapper retries all but a refused key and a cancelled context.      *)
Retriable(a, words) == route[a] = 3 /\ try[a] < Retries /\ "auth" \notin words /\ ~stopped[a]

Failed(a, words) ==
    /\ \/ /\ Retriable(a, words)
          /\ try' = [try EXCEPT ![a] = @ + 1]
          /\ phase' = [phase EXCEPT ![a] = "begin"]
          /\ UNCHANGED <<route, textOnly>>
       \/ /\ route[a] < 3
          /\ route' = [route EXCEPT ![a] = @ + 1] /\ try' = [try EXCEPT ![a] = 1]
          /\ phase' = [phase EXCEPT ![a] = "begin"]
          /\ textOnly' = [textOnly EXCEPT ![a] = TRUE]
       \/ /\ route[a] = 3 /\ ~Retriable(a, words)
          /\ CallOver(a)
          /\ UNCHANGED textOnly
    /\ TryOver(a)
    /\ UNCHANGED answered

(* What a refusal says decides whether it is asked again with less.  A     *)
(* streamed request drops its tools; another its images, and of these the  *)
(* OpenAI one its tools as well.                                           *)
DropsTools(a, words) ==
    /\ kind = "openai" /\ tools[a]
    /\ "tool" \in words \/ (Streams(a) /\ "support" \in words)
DropsImages(a, words) ==
    ~Streams(a) /\ words \cap {"support", "vision"} # {}

Refused(a, words) ==
    IF DropsTools(a, words) \/ DropsImages(a, words)
       THEN /\ phase' = [phase EXCEPT ![a] = "again"]
            /\ native' = [native EXCEPT ![a] = @ /\ ~DropsImages(a, words)]
            /\ tools' = [tools EXCEPT ![a] = @ /\ ~DropsTools(a, words)]
            /\ disabled' = [disabled EXCEPT ![a] = @ \/ DropsTools(a, words)]
            /\ cache' = IF DropsTools(a, words) THEN "no" ELSE cache
            /\ UNCHANGED <<route, try, attempt, textOnly, answered>>
       ELSE Failed(a, words) /\ UNCHANGED cache

(* Only the OpenAI provider posts again when the service is busy or away.  *)
MorePosts(a) == kind = "openai" /\ attempt[a] < Attempts
PostAgain(a) == /\ attempt' = [attempt EXCEPT ![a] = @ + 1]
                /\ UNCHANGED <<cache, phase, route, try, tools, disabled, native,
                               textOnly, answered>>

OpenAIPost(a) ==
    \/ ~stopped[a] /\ Accepted(a)
    \/ ~stopped[a] /\ LearnsTools(a) /\ Failed(a, {})      \* empty or garbled answer
    \/ MorePosts(a) /\ PostAgain(a)                        \* unreachable or busy
    \/ ~MorePosts(a) /\ Failed(a, {}) /\ UNCHANGED cache   \* for the last time
    \/ ~stopped[a] /\ \E words \in SUBSET Word : Refused(a, words)

GeminiPost(a) ==
    \/ ~stopped[a] /\ Accepted(a)
    \/ Failed(a, {}) /\ UNCHANGED cache
    \/ ~stopped[a] /\ \E words \in SUBSET Word : Refused(a, words)

(* Whatever Anthropic says, nothing is posted again.                       *)
AnthropicPost(a) ==
    \/ ~stopped[a] /\ Accepted(a)
    \/ Failed(a, {}) /\ UNCHANGED cache
    \/ ~stopped[a] /\ Failed(a, {"auth"}) /\ UNCHANGED cache

AnswerPost(a) == \/ kind = "openai" /\ OpenAIPost(a)
                 \/ kind = "gemini" /\ GeminiPost(a)
                 \/ kind = "anthropic" /\ AnthropicPost(a)

(* The request with less is posted once.                                   *)
AnswerAgain(a) ==
    \/ ~stopped[a] /\ Accepted(a)
    \/ ~stopped[a] /\ LearnsTools(a) /\ Failed(a, {})
    \/ Failed(a, {}) /\ UNCHANGED cache
    \/ ~stopped[a] /\ Failed(a, {"auth"}) /\ UNCHANGED cache

Request(a) == /\ \/ phase[a] = "post" /\ AnswerPost(a)
                 \/ phase[a] = "again" /\ AnswerAgain(a)
              /\ Posted(a)
              /\ UNCHANGED <<kind, media, stopped, calls>>

Stop(a) == /\ phase[a] # "idle" /\ ~stopped[a]
           /\ stopped' = [stopped EXCEPT ![a] = TRUE]
           /\ UNCHANGED <<kind, cache, phase, route, try, attempt, tools, disabled, media,
                          native, textOnly, answered, calls, requests, late>>

(* The pause before a further try ends with the context.                   *)
GiveUp(a) == /\ phase[a] = "begin" /\ try[a] > 1 /\ stopped[a]
             /\ Failed(a, {})
             /\ requests' = [requests EXCEPT ![a] = 0] /\ late' = [late EXCEPT ![a] = 0]
             /\ UNCHANGED <<kind, cache, media, stopped, calls>>

Next == \E a \in Agent : \/ ExecuteResilientLLMCall(a) \/ Begin(a) \/ Request(a)
                         \/ GiveUp(a) \/ Stop(a)

Spec == Init /\ [][Next]_vars

-----------------------------------------------------------------------------
TypeOK ==
    /\ cache \in {"unknown", "yes", "no"}
    /\ \A a \in Agent : /\ phase[a] \in {"idle", "begin", "post", "again"}
                        /\ route[a] \in 1..3 /\ try[a] \in 1..Retries
                        /\ attempt[a] \in 1..Attempts

(* Two streamed tries and those of the wrapper post their attempts, one    *)
(* request with less and one about an image each, and no more, however the *)
(* retries of the provider, of the wrapper and of the loop nest; after a   *)
(* stop no route is tried twice, but each still posts all its attempts.    *)
RequestsBounded ==
    \A a \in Agent : phase[a] \in {"post", "again"} =>
        /\ requests[a] < (2 + Retries) * (Attempts + 2)
        /\ stopped[a] => late[a] < 3 * Attempts

(* When the model answers a request without tools its loop has been told   *)
(* to look for calls in the text.                                          *)
TextOnlyIsKnown == \A a \in Agent : answered[a] = "text" => textOnly[a]

RequestsSound == TypeOK /\ RequestsBounded /\ TextOnlyIsKnown

(* That a model has no tools is forgotten only because of a request that   *)
(* an agent had already prepared when it was learnt.                       *)
CacheSettles ==
    [][cache = "no" /\ cache' # "no" => \E a \in Agent : tools[a] /\ phase[a] = "post"]_vars
=============================================================================
