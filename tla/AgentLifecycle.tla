--------------------------- MODULE AgentLifecycle ---------------------------
(***************************************************************************)
(* The life of the agents of MultiAgentManager                             *)
(* (internal/orchestrator/manager.go): StartAgent, StopAgent, Shutdown,    *)
(* InjectUserMessage, the goroutine that runs an AgenticLoop and removes   *)
(* its registry entry when the loop returns, and the five-second heartbeat *)
(* that closes browsers and specialists nobody uses.                       *)
(*                                                                         *)
(* Every action but the loop's own steps runs under m.mu, so it is one     *)
(* atomic step.  The loop is abstracted to where it is in an iteration:    *)
(*   top       about to test its limits, drain the injected messages and   *)
(*             look at the context                                         *)
(*   body      calling the model and the tools                             *)
(*   returned  Execute has returned; the deferred delete has not run yet   *)
(*   gone      the goroutine has ended                                     *)
(***************************************************************************)
EXTENDS Naturals, Sequences, FiniteSets

CONSTANTS Workspace,  \* registered workspaces, by name
          Run,        \* one element per successful StartAgent
          Kind,       \* kinds of cached tool: the browser, the specialists
          None,       \* no run
          MaxMsgs,    \* bound: user messages injected in a behaviour
          MaxStops    \* bound: StopAgent and Shutdown calls in a behaviour

ASSUME LifecycleAssumption ==
    /\ None \notin Run
    /\ None \notin Workspace
    /\ MaxMsgs \in Nat
    /\ MaxStops \in Nat

VARIABLES runningAgents, \* m.runningAgents: the registered run of a workspace
          cached,        \* m.activeBrowsers and m.activeSpecialists: the run
                         \* whose StartAgent created the cached instance
          pc,            \* where the goroutine of each run is
          ws,            \* the workspace a run was started in
          tool,          \* the instance of each kind a run registered
          open,          \* instances (creator, kind) with a live process
          cancelled,     \* runs whose context was cancelled
          pending,       \* al.pendingUserMessages of each run
          delivered,     \* injected messages that reached the conversation
          sent,          \* messages injected so far
          stops,         \* StopAgent and Shutdown calls so far
          overlapped     \* history: workspaces where a run was started while
                         \* the goroutine of a stopped one was still alive

vars == <<runningAgents, cached, pc, ws, tool, open, cancelled, pending,
          delivered, sent, stops, overlapped>>

Alive == {"top", "body", "returned"}

Live(r) == pc[r] \in Alive

(* Live and not told to stop: a loop that goes on changing its workspace.  *)
Active(r) == Live(r) /\ r \notin cancelled

LiveIn(w) == {r \in Run : Live(r) /\ ws[r] = w}

Init ==
    /\ runningAgents = [w \in Workspace |-> None]
    /\ cached = [w \in Workspace |-> [k \in Kind |-> None]]
    /\ pc = [r \in Run |-> "unused"]
    /\ ws = [r \in Run |-> None]
    /\ tool = [r \in Run |-> [k \in Kind |-> None]]
    /\ open = {}
    /\ cancelled = {}
    /\ pending = [r \in Run |-> <<>>]
    /\ delivered = [r \in Run |-> <<>>]
    /\ sent = 0
    /\ stops = 0
    /\ overlapped = {}

-----------------------------------------------------------------------------
(* The manager's operations.                                               *)

(* The browser and each specialist are taken from the cache, or created    *)
(* and cached, and handed to the new loop.                                 *)
Instance(w, r) == [k \in Kind |-> IF cached[w][k] = None THEN r ELSE cached[w][k]]

(* Deviation: the check that no agent is registered is missing.            *)
StartAgentUnchecked(w, r) ==
    /\ pc[r] = "unused"
    /\ runningAgents' = [runningAgents EXCEPT ![w] = r]
    /\ cached' = [cached EXCEPT ![w] = Instance(w, r)]
    /\ tool' = [tool EXCEPT ![r] = Instance(w, r)]
    /\ pc' = [pc EXCEPT ![r] = "top"]
    /\ ws' = [ws EXCEPT ![r] = w]
    /\ overlapped' = IF LiveIn(w) \cap cancelled = {} THEN overlapped
                                                    ELSE overlapped \cup {w}
    /\ UNCHANGED <<open, cancelled, pending, delivered, sent, stops>>

(* Only the workspace's entry is looked at: a cancelled run whose          *)
(* goroutine has not ended does not prevent the start.                     *)
StartAgent(w, r) ==
    /\ pc[r] = "unused"
    /\ runningAgents[w] = None
    /\ runningAgents' = [runningAgents EXCEPT ![w] = r]
    /\ cached' = [cached EXCEPT ![w] = Instance(w, r)]
    /\ tool' = [tool EXCEPT ![r] = Instance(w, r)]
    /\ pc' = [pc EXCEPT ![r] = "top"]
    /\ ws' = [ws EXCEPT ![r] = w]
    /\ overlapped' = IF LiveIn(w) \cap cancelled = {} THEN overlapped
                                                    ELSE overlapped \cup {w}
    /\ UNCHANGED <<open, cancelled, pending, delivered, sent, stops>>

InstancesOf(w) == {<<cached[w][k], k>> : k \in {x \in Kind : cached[w][x] # None}}

NothingCached(w) == \A k \in Kind : cached[w][k] = None

(* The entry is deleted at once; the goroutine only sees its context       *)
(* cancelled the next time it looks.                                       *)
StopAgent(w) ==
    /\ stops < MaxStops
    /\ runningAgents[w] # None \/ ~NothingCached(w)
    /\ stops' = stops + 1
    /\ cancelled' = cancelled \cup ({runningAgents[w]} \ {None})
    /\ runningAgents' = [runningAgents EXCEPT ![w] = None]
    /\ open' = open \ InstancesOf(w)
    /\ cached' = [cached EXCEPT ![w] = [k \in Kind |-> None]]
    /\ UNCHANGED <<pc, ws, tool, pending, delivered, sent, overlapped>>

Shutdown ==
    /\ stops < MaxStops
    /\ stops' = stops + 1
    /\ cancelled' = cancelled \cup ({runningAgents[w] : w \in Workspace} \ {None})
    /\ runningAgents' = [w \in Workspace |-> None]
    /\ open' = open \ UNION {InstancesOf(w) : w \in Workspace}
    /\ cached' = [w \in Workspace |-> [k \in Kind |-> None]]
    /\ UNCHANGED <<pc, ws, tool, pending, delivered, sent, overlapped>>

(* Deviation: the running test is inverted.                                *)
Registered == {w \in Workspace : runningAgents[w] # None}

(* The two branches of the ticker (no agent at all, some agents) close the *)
(* same instances: those of the workspaces with no registered run.         *)
Unregistered == {w \in Workspace : runningAgents[w] = None}

(* Deviation: the caches are emptied and the processes are not closed.     *)
HeartbeatForgets ==
    /\ \E w \in Unregistered : ~NothingCached(w)
    /\ cached' = [w \in Workspace |-> IF w \in Unregistered
                                      THEN [k \in Kind |-> None] ELSE cached[w]]
    /\ UNCHANGED <<runningAgents, pc, ws, tool, open, cancelled, pending, delivered,
                   sent, stops, overlapped>>

HeartbeatCleanup ==
    /\ \E w \in Unregistered : ~NothingCached(w)
    /\ open' = open \ UNION {InstancesOf(w) : w \in Unregistered}
    /\ cached' = [w \in Workspace |-> IF w \in Unregistered
                                      THEN [k \in Kind |-> None] ELSE cached[w]]
    /\ UNCHANGED <<runningAgents, pc, ws, tool, cancelled, pending, delivered,
                   sent, stops, overlapped>>

(* Success is returned as soon as the message is in the loop's queue.      *)
InjectUserMessage(w) ==
    /\ sent < MaxMsgs
    /\ runningAgents[w] # None
    /\ sent' = sent + 1
    /\ pending' = [pending EXCEPT ![runningAgents[w]] = Append(@, sent')]
    /\ UNCHANGED <<runningAgents, cached, pc, ws, tool, open, cancelled,
                   delivered, stops, overlapped>>

-----------------------------------------------------------------------------
(* The goroutine of a run.                                                 *)

MoveTo(r, label) == pc' = [pc EXCEPT ![r] = label]

loopUnchanged == <<runningAgents, cached, ws, tool, cancelled, sent, stops, overlapped>>

(* A token, cost or iteration limit ends the loop before the queue is read. *)
LimitReached(r) ==
    /\ pc[r] = "top"
    /\ MoveTo(r, "returned")
    /\ UNCHANGED <<loopUnchanged, open, pending, delivered>>

(* Deviation: the queue is read and not emptied.                           *)
BeginIterationRereading(r) ==
    /\ pc[r] = "top"
    /\ delivered' = [delivered EXCEPT ![r] = @ \o pending[r]]
    /\ MoveTo(r, IF r \in cancelled THEN "returned" ELSE "body")
    /\ UNCHANGED <<loopUnchanged, open, pending>>

(* Deviation: once a message was read the queue is not looked at again.    *)
BeginIterationOnce(r) ==
    /\ pc[r] = "top"
    /\ IF delivered[r] = <<>>
          THEN /\ delivered' = [delivered EXCEPT ![r] = pending[r]]
               /\ pending' = [pending EXCEPT ![r] = <<>>]
          ELSE UNCHANGED <<delivered, pending>>
    /\ MoveTo(r, IF r \in cancelled THEN "returned" ELSE "body")
    /\ UNCHANGED <<loopUnchanged, open>>

(* Deviation: the context is not looked at.                                *)
BeginIterationDeaf(r) ==
    /\ pc[r] = "top"
    /\ delivered' = [delivered EXCEPT ![r] = @ \o pending[r]]
    /\ pending' = [pending EXCEPT ![r] = <<>>]
    /\ MoveTo(r, "body")
    /\ UNCHANGED <<loopUnchanged, open>>

(* The queue is drained first, then the context is looked at.              *)
BeginIteration(r) ==
    /\ pc[r] = "top"
    /\ delivered' = [delivered EXCEPT ![r] = @ \o pending[r]]
    /\ pending' = [pending EXCEPT ![r] = <<>>]
    /\ MoveTo(r, IF r \in cancelled THEN "returned" ELSE "body")
    /\ UNCHANGED <<loopUnchanged, open>>

(* A tool call that needs the instance's process launches it if it is not  *)
(* there; the context is not consulted.                                    *)
UseTool(r, k) ==
    /\ pc[r] = "body"
    /\ open' = open \cup {<<tool[r][k], k>>}
    /\ UNCHANGED <<loopUnchanged, pc, pending, delivered>>

EndIteration(r) ==
    /\ pc[r] = "body"
    /\ MoveTo(r, "top")
    /\ UNCHANGED <<loopUnchanged, open, pending, delivered>>

(* Deviation: the entry is deleted before the goroutine is over.           *)
FinishDeregistering(r) ==
    /\ pc[r] = "body"
    /\ MoveTo(r, "returned")
    /\ runningAgents' = [runningAgents EXCEPT ![ws[r]] = None]
    /\ UNCHANGED <<cached, ws, tool, cancelled, sent, stops, overlapped, open,
                   pending, delivered>>

(* Final answer, suspension, or an error: Execute returns.                 *)
Finish(r) ==
    /\ pc[r] = "body"
    /\ MoveTo(r, "returned")
    /\ UNCHANGED <<loopUnchanged, open, pending, delivered>>

(* delete(m.runningAgents, wsName): by name, whoever is registered there.  *)
Deregister(r) ==
    /\ pc[r] = "returned"
    /\ MoveTo(r, "gone")
    /\ runningAgents' = [runningAgents EXCEPT ![ws[r]] = None]
    /\ UNCHANGED <<cached, ws, tool, open, cancelled, pending, delivered, sent,
                   stops, overlapped>>

Loop(r) == \/ LimitReached(r)
           \/ BeginIteration(r)
           \/ EndIteration(r)
           \/ Finish(r)
           \/ Deregister(r)

Next == \/ \E w \in Workspace, r \in Run : StartAgent(w, r)
        \/ \E w \in Workspace : StopAgent(w) \/ InjectUserMessage(w)
        \/ Shutdown
        \/ HeartbeatCleanup
        \/ \E r \in Run, k \in Kind : UseTool(r, k)
        \/ \E r \in Run : Loop(r)

Spec == Init /\ [][Next]_vars

(* A goroutine keeps running (model and tool calls have timeouts) and the  *)
(* ticker keeps ticking; nobody is obliged to start, stop or send.         *)
FairSpec == /\ Spec
            /\ \A r \in Run : WF_vars(Loop(r))
            /\ WF_vars(HeartbeatCleanup)

-----------------------------------------------------------------------------
(* Properties.                                                             *)

(* Every variable has its type.                                            *)
TypeOK ==
    /\ runningAgents \in [Workspace -> Run \cup {None}]
    /\ cached \in [Workspace -> [Kind -> Run \cup {None}]]
    /\ pc \in [Run -> Alive \cup {"unused", "gone"}]
    /\ ws \in [Run -> Workspace \cup {None}]
    /\ tool \in [Run -> [Kind -> Run \cup {None}]]
    /\ open \in SUBSET ((Run \cup {None}) \X Kind)
    /\ cancelled \in SUBSET Run
    /\ pending \in [Run -> Seq(Nat)]
    /\ delivered \in [Run -> Seq(Nat)]
    /\ sent \in Nat
    /\ stops \in Nat
    /\ overlapped \in SUBSET Workspace

(* Whoever is registered for a workspace is a live loop of that very       *)
(* workspace that nobody has stopped: ListRunningAgents, Stop and Inject   *)
(* act on the right loop.                                                  *)
RegisteredIsActive ==
    \A w \in Workspace : LET r == runningAgents[w] IN
        r # None => Active(r) /\ ws[r] = w

(* Two loops never work in one workspace, and the one that does can be     *)
(* found and stopped, in every workspace where no agent was started before *)
(* the goroutine of a stopped one had ended.                               *)
SingleLoopUnlessOverlap ==
    \A w \in Workspace \ overlapped : \A r \in Run :
        Active(r) /\ ws[r] = w => runningAgents[w] = r

(* What the refusal "já existe um agente em execução no workspace" and the *)
(* injection into the running agent are for: no workspace ever has two     *)
(* active loops.                                                           *)
OneLoopPerWorkspace ==
    \A r, s \in Run : Active(r) /\ Active(s) /\ ws[r] = ws[s] => r = s

(* The browser and specialists of an active run stay in the cache, so that *)
(* they are neither closed under it by the heartbeat nor replaced for it.  *)
ActiveRunKeepsTools ==
    \A r \in Run : Active(r) /\ ws[r] \notin overlapped
                     => cached[ws[r]] = tool[r]

(* A browser or specialist is only ever shared inside one workspace.       *)
ToolsStayInWorkspace ==
    \A r, s \in Run : \A k \in Kind :
        Live(r) /\ Live(s) /\ tool[r][k] = tool[s][k] => ws[r] = ws[s]

(* StopAgent "cancela a execução [...] e fecha o navegador", but a stopped *)
(* loop still inside its iteration may launch the browser again.  Nothing  *)
(* else escapes: a process the manager cannot close any more is one of a   *)
(* stopped loop, or of a workspace with an overlap.                        *)
LeaksComeFromStops ==
    \A i \in open : \/ \E w \in Workspace : cached[w][i[2]] = i[1]
                    \/ \E r \in Run : /\ tool[r][i[2]] = i[1]
                                      /\ r \in cancelled \/ ws[r] \in overlapped

(* An accepted message is in one place only and no conversation gets the   *)
(* injected messages twice or out of order.                                *)
MessagesOnceInOrder ==
    /\ \A r \in Run : LET q == delivered[r] \o pending[r] IN
           \A i, j \in DOMAIN q : i < j => q[i] < q[j]
    /\ \A r, s \in Run : \A i \in DOMAIN (delivered[r] \o pending[r]),
                            j \in DOMAIN (delivered[s] \o pending[s]) :
           (delivered[r] \o pending[r])[i] = (delivered[s] \o pending[s])[j] => r = s

OnlyOverEntriesLeave ==
    \A w \in Workspace \ overlapped :
        runningAgents[w] # None /\ runningAgents'[w] # runningAgents[w]
            => \/ runningAgents[w] \in cancelled'
               \/ pc'[runningAgents[w]] = "gone"

(* Away from an overlap, an entry leaves the registry only because the run *)
(* was stopped or because its own goroutine ended.                         *)
EntryLeavesWithItsRun == [][OnlyOverEntriesLeave]_vars

(* A stopped run ends: it sees its cancelled context within one iteration. *)
StoppedRunEnds == \A r \in Run : r \in cancelled ~> pc[r] = "gone"

(* Tools of a workspace without an agent do not stay cached for ever.      *)
IdleToolsReleased ==
    \A w \in Workspace : (runningAgents[w] = None /\ ~NothingCached(w))
                            ~> (runningAgents[w] # None \/ NothingCached(w))

(* A message InjectUserMessage accepted does not stay queued while the     *)
(* loop goes on: it is read, or the run ends and the message with it.      *)
MessageReadOrRunOver ==
    \A r \in Run : pending[r] # <<>> ~> pending[r] = <<>> \/ pc[r] = "gone"

(* The abstract lease, held by the run whose goroutine is alive.           *)
AnyOf(S) == IF S = {} THEN None ELSE CHOOSE r \in S : TRUE

Holder == [w \in Workspace |-> AnyOf(LiveIn(w))]

Lease == INSTANCE WorkspaceLease WITH holder <- Holder

(* As long as no run was stopped, every step is one of the lease or does   *)
(* not touch it: from StartAgent to the end of its goroutine a run has its *)
(* workspace for itself.                                                   *)
LeaseRefinement ==
    Lease!Init /\ [][cancelled' = {} => [Lease!Next]_Holder]_vars

(* A stopped run ends, and idle tools are released.                        *)
StopsAndIdlesEnd == StoppedRunEnds /\ IdleToolsReleased
=============================================================================
