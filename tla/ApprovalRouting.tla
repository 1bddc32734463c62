--------------------------- MODULE ApprovalRouting ---------------------------
(***************************************************************************)
(* How the daemon brings the permission questions of the agent of one      *)
(* workspace to its clients and the answers back (internal/daemon):        *)
(* the HTTP, WebSocket, timer, cron, gRPC and IPC doors that start agents, *)
(* the activeHandlers tables in which the API and gRPC servers look up the *)
(* handler an answer is for, and AskPermission of the two kinds of         *)
(* handler, each with a channel of capacity one for the answers.           *)
(*                                                                         *)
(* Every start attempt builds a handler; the handlers are the processes of *)
(* this module.  A handler is                                              *)
(*   starting  in the table, StartAgent not called yet                     *)
(*   refused   StartAgent failed: "já existe um agente em execução"        *)
(*   running   its loop works, no question is open                         *)
(*   asking    its loop waits inside AskPermission                         *)
(*   over      Execute has returned and reported its last status           *)
(*   gone      the goroutine has ended, or the attempt failed              *)
(* Questions are numbered in the order in which they are asked.            *)
(***************************************************************************)
EXTENDS Naturals, Sequences, FiniteSets

CONSTANTS Handler,      \* one element per attempt to start an agent
          ApiClient,    \* WebSocket clients of the API server
          GrpcClient,   \* clients of the gRPC server
          IpcClient,    \* connections of the IPC server (the CLI)
          None,         \* no handler
          MaxQuestions  \* bound: questions asked in a behaviour

Client == ApiClient \cup GrpcClient \cup IpcClient

ASSUME RoutingAssumption ==
    /\ None \notin Handler \cup Client
    /\ MaxQuestions \in Nat
    /\ Handler \cap Client = {}
    /\ ApiClient \cap GrpcClient = {}
    /\ IpcClient \cap (ApiClient \cup GrpcClient) = {}

Door == {"api", "cron", "grpc"} \cup IpcClient

(* The tables: the gRPC server has one of its own.                         *)
Table == {"api", "grpc"}

VARIABLES pc,             \* where each handler is
          door,           \* the door it was made at; for IPC, the connection
          autoApprove,    \* handlers that approve without asking
          question,       \* the open question of each handler, 0 for none
          answers,        \* the permRespChan of each handler or connection
          activeHandlers, \* the tables of the API server and the gRPC server
          registered,     \* the handler of the registered run, or None
          cancelled,      \* handlers whose run was stopped
          shown,          \* the question each client displays, 0 for none
          reply,          \* a client's answer on its way, 0 for none
          asked,          \* questions asked so far
          clashed         \* history: an agent was started while the attempt,
                          \* the loop or the goroutine of another was alive

vars == <<pc, door, autoApprove, question, answers, activeHandlers, registered,
          cancelled, shown, reply, asked, clashed>>

(* Whether a handler is in a table, and in which.                          *)
Tabled(h) == door[h] \notin IpcClient
TableOf(d) == IF d = "grpc" THEN "grpc" ELSE "api"

(* IPC runs of one connection share the channel of the connection.         *)
Slot(h) == IF Tabled(h) THEN h ELSE door[h]

Busy == \E h \in Handler : pc[h] \notin {"unused", "gone"}

Init ==
    /\ pc = [h \in Handler |-> "unused"]
    /\ door = [h \in Handler |-> "api"]
    /\ autoApprove = {}
    /\ question = [h \in Handler |-> 0]
    /\ answers = [s \in Handler \cup IpcClient |-> <<>>]
    /\ activeHandlers = [t \in Table |-> None]
    /\ registered = None
    /\ cancelled = {}
    /\ shown = [c \in Client |-> 0]
    /\ reply = [c \in Client |-> 0]
    /\ asked = 0
    /\ clashed = FALSE

-----------------------------------------------------------------------------
(* Starting an agent.                                                      *)

promptUnchanged == UNCHANGED <<question, answers, shown, reply, asked>>

(* Deviation: the handler is not put in the table.                         *)
AttemptUnlisted(h, d, auto) ==
    /\ pc[h] = "unused"
    /\ pc' = [pc EXCEPT ![h] = "starting"]
    /\ door' = [door EXCEPT ![h] = d]
    /\ autoApprove' = IF auto THEN autoApprove \cup {h} ELSE autoApprove
    /\ clashed' = (clashed \/ Busy)
    /\ UNCHANGED <<activeHandlers, registered, cancelled>>
    /\ promptUnchanged

(* A new handler replaces whichever handler the table holds.               *)
Attempt(h, d, auto) ==
    /\ pc[h] = "unused"
    /\ pc' = [pc EXCEPT ![h] = "starting"]
    /\ door' = [door EXCEPT ![h] = d]
    /\ autoApprove' = IF auto THEN autoApprove \cup {h} ELSE autoApprove
    /\ activeHandlers' = IF d \in IpcClient THEN activeHandlers
                         ELSE [activeHandlers EXCEPT ![TableOf(d)] = h]
    /\ clashed' = (clashed \/ Busy)
    /\ UNCHANGED <<registered, cancelled>>
    /\ promptUnchanged

HandleRun(h) == Attempt(h, "api", FALSE)

(* One try of the timer's loop, which tries again every half second.       *)
ScheduleTimerTask(h) == Attempt(h, "api", TRUE)

TriggerScheduledTask(h) == Attempt(h, "cron", TRUE)

(* WebSocket "run"; when an agent is registered, the message is injected   *)
(* and only the autoApprove flag is set.                                   *)
WsRun(h, auto) == registered = None /\ Attempt(h, "api", auto)

GrpcStart(h) == Attempt(h, "grpc", FALSE)

IpcRun(h, c) == registered = None /\ Attempt(h, c, FALSE)

(* WebSocket "run" on a running agent, and "set_auto_approve".             *)
SetAutoApprove(auto) ==
    LET h == activeHandlers["api"] IN
    /\ h # None
    /\ autoApprove' = IF auto THEN autoApprove \cup {h} ELSE autoApprove \ {h}
    /\ UNCHANGED <<pc, door, activeHandlers, registered, cancelled, clashed>>
    /\ promptUnchanged

(* MultiAgentManager.StartAgent: see AgentLifecycle.                       *)
StartAgent(h) ==
    /\ pc[h] = "starting"
    /\ IF registered = None
       THEN pc' = [pc EXCEPT ![h] = "running"] /\ registered' = h
       ELSE pc' = [pc EXCEPT ![h] = "refused"] /\ UNCHANGED registered
    /\ UNCHANGED <<door, autoApprove, activeHandlers, cancelled, clashed>>
    /\ promptUnchanged

(* delete(s.activeHandlers, workspace), whoever is there.                  *)
Unlist(h) == activeHandlers' = IF Tabled(h)
                               THEN [activeHandlers EXCEPT ![TableOf(door[h])] = None]
                               ELSE activeHandlers

(* Cleaning up after a refused start; the cron door does not.              *)
Refused(h) ==
    /\ pc[h] = "refused"
    /\ pc' = [pc EXCEPT ![h] = "gone"]
    /\ IF door[h] = "cron" THEN UNCHANGED activeHandlers ELSE Unlist(h)
    /\ UNCHANGED <<door, autoApprove, registered, cancelled, clashed>>
    /\ promptUnchanged

StopAgent ==
    /\ registered # None
    /\ cancelled' = cancelled \cup {registered}
    /\ registered' = None
    /\ UNCHANGED <<pc, door, autoApprove, activeHandlers, clashed>>
    /\ promptUnchanged

(* Deviation: the last status does not reach onFinished.                   *)
FinishListed(h) ==
    /\ pc[h] = "running"
    /\ pc' = [pc EXCEPT ![h] = "over"]
    /\ UNCHANGED <<door, autoApprove, activeHandlers, registered, cancelled, clashed>>
    /\ promptUnchanged

(* OnStatusChange with a final status: onFinished deletes the entry of the *)
(* workspace.  Then the deferred delete of the orchestrator.               *)
Finish(h) ==
    /\ pc[h] = "running"
    /\ pc' = [pc EXCEPT ![h] = "over"]
    /\ Unlist(h)
    /\ UNCHANGED <<door, autoApprove, registered, cancelled, clashed>>
    /\ promptUnchanged

(* A run that ends by an error may have reported "idle" before: the error  *)
(* is one more final status, and onFinished is called again.               *)
ReportError(h) ==
    /\ pc[h] = "over"
    /\ Unlist(h)
    /\ UNCHANGED <<pc, door, autoApprove, registered, cancelled, clashed>>
    /\ promptUnchanged

(* Nothing refers to the handler any more: its fields are as good as new.  *)
Deregister(h) ==
    /\ pc[h] = "over"
    /\ pc' = [pc EXCEPT ![h] = "gone"]
    /\ registered' = None
    /\ door' = [door EXCEPT ![h] = "api"]
    /\ autoApprove' = autoApprove \ {h}
    /\ cancelled' = cancelled \ {h}
    /\ answers' = [answers EXCEPT ![h] = <<>>]
    /\ UNCHANGED <<question, activeHandlers, shown, reply, asked, clashed>>

-----------------------------------------------------------------------------
(* Asking and answering.                                                   *)

startUnchanged == UNCHANGED <<door, autoApprove, activeHandlers, registered,
                              cancelled, clashed>>

(* The question is broadcast to the API and gRPC clients that follow the   *)
(* workspace, or written to the IPC connection.                            *)
Audience(h) == IF Tabled(h) THEN ApiClient \cup GrpcClient ELSE {door[h]}

(* With autoApprove the action is approved at once, and nobody is asked.   *)
AskPermission(h) ==
    /\ pc[h] = "running"
    /\ h \notin autoApprove
    /\ asked < MaxQuestions
    /\ asked' = asked + 1
    /\ pc' = [pc EXCEPT ![h] = "asking"]
    /\ question' = [question EXCEPT ![h] = asked']
    /\ shown' = [c \in Client |-> IF c \in Audience(h) THEN asked' ELSE shown[c]]
    /\ UNCHANGED <<answers, reply>>
    /\ startUnchanged

Close(h) ==
    /\ pc' = [pc EXCEPT ![h] = "running"]
    /\ question' = [question EXCEPT ![h] = 0]
    /\ UNCHANGED <<shown, reply, asked>>
    /\ startUnchanged

(* case res := <-h.permRespChan, and the receive of the IPC handler.       *)
ReceiveAnswer(h) ==
    /\ pc[h] = "asking"
    /\ answers[Slot(h)] # <<>>
    /\ answers' = [answers EXCEPT ![Slot(h)] = Tail(@)]
    /\ Close(h)

(* Deviation: AskPermission does not wait for its context.                 *)
DenyNever(h) == FALSE /\ UNCHANGED vars

(* case <-ctx.Done(); the IPC handler's AskPermission takes no context.    *)
DenyCancelled(h) ==
    /\ pc[h] = "asking"
    /\ h \in cancelled
    /\ Tabled(h)
    /\ UNCHANGED answers
    /\ Close(h)

(* A client answers the question it displays, once.                        *)
Reply(c) ==
    /\ shown[c] # 0
    /\ reply[c] = 0
    /\ reply' = [reply EXCEPT ![c] = shown[c]]
    /\ shown' = [shown EXCEPT ![c] = 0]
    /\ UNCHANGED <<pc, question, answers, asked>>
    /\ startUnchanged

(* Where the server that gets the answer of c sends it.                    *)
Addressee(c) == CASE c \in ApiClient  -> activeHandlers["api"]
                  [] c \in GrpcClient -> activeHandlers["grpc"]
                  [] c \in IpcClient  -> c

(* Whether somebody waits, at that channel, for that very answer.          *)
OnTime(s, q) == \E h \in Handler : pc[h] = "asking" /\ Slot(h) = s /\ question[h] = q

(* Deviation: the channel has room for any number of answers.              *)
RespondUnbounded(c) ==
    LET s == Addressee(c) IN
    /\ reply[c] # 0
    /\ answers' = IF s = None THEN answers
                  ELSE [answers EXCEPT ![s] =
                         Append(@, [about |-> reply[c], onTime |-> OnTime(s, reply[c])])]
    /\ reply' = [reply EXCEPT ![c] = 0]
    /\ UNCHANGED <<pc, question, shown, asked>>
    /\ startUnchanged

(* permission_response and RespondPermission: the answer names only the    *)
(* workspace; it is dropped without a handler or when the channel is full. *)
Respond(c) ==
    LET s == Addressee(c) IN
    /\ reply[c] # 0
    /\ answers' = IF s = None \/ (s # None /\ answers[s] # <<>>) THEN answers
                  ELSE [answers EXCEPT ![s] =
                         <<[about |-> reply[c], onTime |-> OnTime(s, reply[c])]>>]
    /\ reply' = [reply EXCEPT ![c] = 0]
    /\ UNCHANGED <<pc, question, shown, asked>>
    /\ startUnchanged

(* WebSocket "subscribe": the open question is shown again.                *)
Subscribe(c) ==
    /\ c \in ApiClient
    /\ shown' = [shown EXCEPT ![c] =
                   IF activeHandlers["api"] = None THEN 0
                   ELSE question[activeHandlers["api"]]]
    /\ UNCHANGED <<pc, question, answers, reply, asked>>
    /\ startUnchanged

-----------------------------------------------------------------------------
Start(h) == \/ HandleRun(h)
            \/ ScheduleTimerTask(h)
            \/ TriggerScheduledTask(h)
            \/ \E auto \in BOOLEAN : WsRun(h, auto)
            \/ GrpcStart(h)
            \/ \E c \in IpcClient : IpcRun(h, c)

(* What the daemon does by itself once an attempt was made.                *)
Work(h) == StartAgent(h) \/ Refused(h) \/ Finish(h) \/ Deregister(h)

Wait(h) == ReceiveAnswer(h) \/ DenyCancelled(h)

Next == \/ \E h \in Handler : Start(h) \/ Work(h) \/ ReportError(h)
                            \/ AskPermission(h) \/ Wait(h)
        \/ \E auto \in BOOLEAN : SetAutoApprove(auto)
        \/ StopAgent
        \/ \E c \in Client : Reply(c) \/ Respond(c) \/ Subscribe(c)

Spec == Init /\ [][Next]_vars

(* A blocked receive whose case is ready proceeds, a server handles what   *)
(* it was sent, and goroutines run; no client is obliged to answer.        *)
FairSpec == /\ Spec
            /\ \A h \in Handler : WF_vars(Work(h)) /\ WF_vars(Wait(h))
            /\ \A c \in Client : WF_vars(Respond(c))

-----------------------------------------------------------------------------
(* Properties.                                                             *)

Answer == [about : 1 .. MaxQuestions, onTime : BOOLEAN]

(* Every variable has its type; a channel holds one answer at most.        *)
TypeOK ==
    /\ pc \in [Handler -> {"unused", "starting", "refused", "running", "asking",
                           "over", "gone"}]
    /\ door \in [Handler -> Door]
    /\ autoApprove \subseteq Handler
    /\ question \in [Handler -> 0 .. MaxQuestions]
    /\ answers \in [Handler \cup IpcClient -> {<<>>} \cup {<<a>> : a \in Answer}]
    /\ activeHandlers \in [Table -> Handler \cup {None}]
    /\ registered \in Handler \cup {None}
    /\ cancelled \subseteq Handler
    /\ shown \in [Client -> 0 .. MaxQuestions]
    /\ reply \in [Client -> 0 .. MaxQuestions]
    /\ asked \in 0 .. MaxQuestions
    /\ clashed \in BOOLEAN

(* "Cada comando, escrita ou deleção deve ser explicitamente aprovado pelo *)
(* usuário": an answer that was in time decides no question but its own.   *)
(* The others stay in the channel and decide whatever is asked next: an    *)
(* answer decides another question only if nobody was waiting for it when  *)
(* it arrived, or in a run that was already stopped.  (Runs of one IPC     *)
(* connection share a channel and are left out.)                           *)
OnlyLateAnswersStray ==
    \A h \in Handler : pc[h] = "asking" /\ answers[Slot(h)] # <<>> /\ Tabled(h)
                           => LET a == Head(answers[Slot(h)]) IN
                              a.about = question[h] \/ ~a.onTime \/ h \in cancelled

Working(h) == pc[h] \in {"running", "asking"}

Reachable ==
    registered # None /\ Working(registered) /\ Tabled(registered)
        => activeHandlers[TableOf(door[registered])] = registered

(* "Limpa o handler temporário que falhou ao iniciar": once every failed   *)
(* start has cleaned up after itself, answers find the running agent.      *)
RunningHandlerKept ==
    (\A h \in Handler : pc[h] \notin {"starting", "refused"}) => Reachable

(* As long as starts do not clash, answers find the running agent, and a   *)
(* handler that a table names can still use the answers sent to it: its    *)
(* attempt or its loop is not over.                                        *)
AnswersFindTheAgent ==
    \/ clashed
    \/ /\ Reachable
       /\ \A t \in Table : activeHandlers[t] # None =>
             pc[activeHandlers[t]] \in {"starting", "running", "asking"}

(* From StartAgent to the end of its goroutine a run has the workspace.    *)
Holds(h) == pc[h] \in {"running", "asking", "over"}
Holder == [w \in {"here"} |-> IF \E h \in Handler : Holds(h)
                              THEN CHOOSE h \in Handler : Holds(h)
                              ELSE None]

Lease == INSTANCE WorkspaceLease WITH
    Workspace <- {"here"}, Run <- Handler, holder <- Holder

(* A stopped agent does not wait for an answer for ever, unless it was     *)
(* started by IPC: that AskPermission does not look at the context.        *)
StoppedPromptEnds ==
    \A h \in Handler : (pc[h] = "asking" /\ h \in cancelled /\ Tabled(h))
                           ~> pc[h] # "asking"

(* An answer to the open question of the running agent, sent through the   *)
(* door the agent was started at, is the end of that question, unless      *)
(* starts clash.                                                           *)
AnswerEndsQuestion ==
    \A h \in Handler, c \in ApiClient, q \in 1 .. MaxQuestions :
        (question[h] = q /\ reply[c] = q /\ TableOf(door[h]) = "api" /\ Tabled(h))
            ~> (question[h] # q \/ clashed)
=============================================================================
