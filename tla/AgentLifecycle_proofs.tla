----------------------- MODULE AgentLifecycle_proofs -----------------------
(***************************************************************************)
(* For any sets of workspaces, runs and tool kinds: type correctness, the  *)
(* registry invariants of AgentLifecycle, the action property on registry  *)
(* entries, where tools are shared and processes leak, the order of the    *)
(* messages, and the refinement of WorkspaceLease until a run is stopped.  *)
(***************************************************************************)
EXTENDS AgentLifecycle, SequenceTheorems, TLAPS

(* What a run that never started looks like, and where a started one is.   *)
FreshRuns == \A r \in Run :
    /\ pc[r] = "unused" => r \notin cancelled
    /\ pc[r] # "unused" => ws[r] \in Workspace

(* A registered run has no other goroutine beside it in its workspace.     *)
SoleGoroutine == \A w \in Workspace \ overlapped :
    runningAgents[w] # None => LiveIn(w) \subseteq {runningAgents[w]}

(* The cache holds exactly the tools the registered run was given.         *)
RegisteredKeepsTools == \A w \in Workspace :
    runningAgents[w] # None => cached[w] = tool[runningAgents[w]]

(* The inductive invariant.                                                *)
IInv == /\ TypeOK
        /\ FreshRuns
        /\ RegisteredIsActive
        /\ SingleLoopUnlessOverlap
        /\ SoleGoroutine
        /\ RegisteredKeepsTools

-----------------------------------------------------------------------------
LEMMA InstanceType ==
    ASSUME TypeOK, NEW w \in Workspace, NEW r \in Run
    PROVE  Instance(w, r) \in [Kind -> Run \cup {None}]
BY DEF TypeOK, Instance

LEMMA InitTypeOK == Init => TypeOK
BY LifecycleAssumption DEF Init, TypeOK, Alive

LEMMA NextTypeOK == TypeOK /\ [Next]_vars => TypeOK'
<1> SUFFICES ASSUME TypeOK, [Next]_vars
             PROVE  TypeOK'
  OBVIOUS
<1> USE LifecycleAssumption
<1>1. ASSUME NEW w \in Workspace, NEW r \in Run, StartAgent(w, r)
      PROVE  TypeOK'
  BY <1>1, InstanceType DEF TypeOK, StartAgent, Alive
<1>2. ASSUME NEW w \in Workspace, StopAgent(w)
      PROVE  TypeOK'
  BY <1>2 DEF TypeOK, StopAgent, InstancesOf
<1>3. ASSUME NEW w \in Workspace, InjectUserMessage(w)
      PROVE  TypeOK'
  BY <1>3 DEF TypeOK, InjectUserMessage
<1>4. CASE Shutdown
  BY <1>4 DEF TypeOK, Shutdown, InstancesOf
<1>5. CASE HeartbeatCleanup
  BY <1>5 DEF TypeOK, HeartbeatCleanup, InstancesOf, Unregistered
<1>6. ASSUME NEW r \in Run, NEW k \in Kind, UseTool(r, k)
      PROVE  TypeOK'
  BY <1>6 DEF TypeOK, UseTool, loopUnchanged
<1>7. ASSUME NEW r \in Run, Loop(r)
      PROVE  TypeOK'
  <2>1. CASE LimitReached(r)
    BY <2>1 DEF TypeOK, LimitReached, MoveTo, loopUnchanged, Alive
  <2>2. CASE BeginIteration(r)
    BY <2>2 DEF TypeOK, BeginIteration, MoveTo, loopUnchanged, Alive
  <2>3. CASE EndIteration(r)
    BY <2>3 DEF TypeOK, EndIteration, MoveTo, loopUnchanged, Alive
  <2>4. CASE Finish(r)
    BY <2>4 DEF TypeOK, Finish, MoveTo, loopUnchanged, Alive
  <2>5. CASE Deregister(r)
    BY <2>5 DEF TypeOK, Deregister, MoveTo, Alive
  <2>6. QED
    BY <1>7, <2>1, <2>2, <2>3, <2>4, <2>5 DEF Loop
<1>8. CASE UNCHANGED vars
  BY <1>8 DEF TypeOK, vars
<1>9. QED
  BY <1>1, <1>2, <1>3, <1>4, <1>5, <1>6, <1>7, <1>8 DEF Next

(* Every variable keeps its type, whatever the sets of workspaces, runs    *)
(* and kinds and whatever the bounds.                                      *)
THEOREM TypeCorrect == Spec => []TypeOK
BY InitTypeOK, NextTypeOK, PTL DEF Spec

-----------------------------------------------------------------------------
LEMMA InitIInv == Init => IInv
BY InitTypeOK, LifecycleAssumption
   DEF Init, IInv, FreshRuns, RegisteredIsActive, SingleLoopUnlessOverlap,
       SoleGoroutine, RegisteredKeepsTools, Active, Live, LiveIn, Alive

(* Where no stopped goroutine lingers, an empty entry means an empty       *)
(* workspace: the start of a run cannot meet another goroutine.            *)
LEMMA FreeWorkspaceIsEmpty ==
    ASSUME IInv, NEW w \in Workspace \ overlapped,
           runningAgents[w] = None, LiveIn(w) \cap cancelled = {}
    PROVE  LiveIn(w) = {}
<1> SUFFICES ASSUME NEW s \in LiveIn(w)
             PROVE  FALSE
  OBVIOUS
<1>1. s \in Run /\ Active(s) /\ ws[s] = w
  BY DEF LiveIn, Active
<1>2. runningAgents[w] = s
  BY <1>1 DEF IInv, SingleLoopUnlessOverlap
<1>3. QED
  BY <1>1, <1>2, LifecycleAssumption

LEMMA StartKeepsIInv ==
    ASSUME IInv, TypeOK', NEW w \in Workspace, NEW r \in Run, StartAgent(w, r)
    PROVE  IInv'
<1> USE LifecycleAssumption DEF IInv, TypeOK, StartAgent
<1>1. FreshRuns'
  BY DEF FreshRuns
<1>2. RegisteredIsActive'
  BY DEF RegisteredIsActive, FreshRuns, Active, Live, Alive
<1>3. \A v \in Workspace \ overlapped' :
        /\ v # w => LiveIn(v)' = LiveIn(v) /\ v \notin overlapped
        /\ v = w => LiveIn(v)' = {r} /\ v \notin overlapped
  <2> SUFFICES ASSUME NEW v \in Workspace \ overlapped'
               PROVE  /\ v # w => LiveIn(v)' = LiveIn(v) /\ v \notin overlapped
                      /\ v = w => LiveIn(v)' = {r} /\ v \notin overlapped
    OBVIOUS
  <2>1. v \notin overlapped
    OBVIOUS
  <2>2. CASE v # w
    BY <2>1, <2>2 DEF LiveIn, Live, Alive
  <2>3. CASE v = w
    <3>1. LiveIn(w) \cap cancelled = {}
      BY <2>3
    <3>2. LiveIn(w) = {}
      BY <2>1, <2>3, <3>1, FreeWorkspaceIsEmpty
    <3>3. LiveIn(w)' = LiveIn(w) \cup {r}
      BY DEF LiveIn, Live, Alive
    <3>4. QED
      BY <2>1, <2>3, <3>2, <3>3
  <2>4. QED
    BY <2>2, <2>3
<1>4. SoleGoroutine'
  <2> SUFFICES ASSUME NEW v \in Workspace \ overlapped', runningAgents'[v] # None
               PROVE  LiveIn(v)' \subseteq {runningAgents'[v]}
    BY DEF SoleGoroutine
  <2>1. CASE v = w
    <3>1. LiveIn(v)' = {r}
      BY <1>3, <2>1
    <3>2. runningAgents'[v] = r
      BY <2>1
    <3>3. QED
      BY <3>1, <3>2
  <2>2. CASE v # w
    <3>1. LiveIn(v)' = LiveIn(v) /\ v \notin overlapped
      BY <1>3, <2>2
    <3>2. runningAgents'[v] = runningAgents[v]
      BY <2>2
    <3>3. QED
      BY <3>1, <3>2 DEF SoleGoroutine
  <2>3. QED
    BY <2>1, <2>2
<1>5. SingleLoopUnlessOverlap'
  <2> SUFFICES ASSUME NEW v \in Workspace \ overlapped', NEW s \in Run,
                      Active(s)', ws'[s] = v
               PROVE  runningAgents'[v] = s
    BY DEF SingleLoopUnlessOverlap
  <2>1. s \in LiveIn(v)'
    BY DEF Active, LiveIn
  <2>2. CASE v = w
    <3>1. LiveIn(v)' = {r}
      BY <1>3, <2>2
    <3>2. runningAgents'[v] = r
      BY <2>2
    <3>3. QED
      BY <2>1, <3>1, <3>2
  <2>3. CASE v # w
    <3>1. LiveIn(v)' = LiveIn(v) /\ v \notin overlapped
      BY <1>3, <2>3
    <3>2. s \in LiveIn(v)
      BY <2>1, <3>1
    <3>3. Active(s) /\ ws[s] = v
      BY <3>2 DEF LiveIn, Active
    <3>4. QED
      BY <2>3, <3>1, <3>3 DEF SingleLoopUnlessOverlap
  <2>4. QED
    BY <2>2, <2>3
<1>6. RegisteredKeepsTools'
  <2> SUFFICES ASSUME NEW v \in Workspace, runningAgents'[v] # None
               PROVE  cached'[v] = tool'[runningAgents'[v]]
    BY DEF RegisteredKeepsTools
  <2>1. CASE v = w
    BY <2>1
  <2>2. CASE v # w
    <3>1. runningAgents'[v] = runningAgents[v] /\ cached'[v] = cached[v]
      BY <2>2
    <3>2. runningAgents[v] # r
      BY <3>1 DEF RegisteredIsActive, Active, Live, Alive
    <3>3. QED
      BY <3>1, <3>2 DEF RegisteredKeepsTools
  <2>3. QED
    BY <2>1, <2>2
<1>7. QED
  BY <1>1, <1>2, <1>4, <1>5, <1>6

(* A stop, a shutdown and the heartbeat only clear entries and caches, the *)
(* cache of a workspace never without its entry.                           *)
LEMMA ClearingKeepsIInv ==
    ASSUME IInv, TypeOK',
           \/ \E w \in Workspace : StopAgent(w)
           \/ Shutdown
           \/ HeartbeatCleanup
    PROVE  IInv'
<1> USE LifecycleAssumption DEF IInv, TypeOK
<1>1. UNCHANGED <<pc, ws, tool, overlapped>>
  BY DEF StopAgent, Shutdown, HeartbeatCleanup
<1>2. \A v \in Workspace : LiveIn(v)' = LiveIn(v)
  BY <1>1 DEF LiveIn, Live
<1>3. \A v \in Workspace :
        \/ runningAgents'[v] = None
        \/ runningAgents'[v] = runningAgents[v] /\ cached'[v] = cached[v]
  BY DEF StopAgent, Shutdown, HeartbeatCleanup, Unregistered
<1>4. \A r \in Run : r \in cancelled' =>
        \/ r \in cancelled
        \/ \E v \in Workspace : runningAgents[v] = r /\ runningAgents'[v] = None
  BY DEF StopAgent, Shutdown, HeartbeatCleanup
<1>5. cancelled \subseteq cancelled'
  BY DEF StopAgent, Shutdown, HeartbeatCleanup
<1>6. \A v \in Workspace : runningAgents'[v] = None /\ runningAgents[v] # None
                             => runningAgents[v] \in cancelled'
  BY DEF StopAgent, Shutdown, HeartbeatCleanup, Unregistered
<1>7. FreshRuns'
  <2> SUFFICES ASSUME NEW r \in Run
               PROVE  /\ pc[r] = "unused" => r \notin cancelled'
                      /\ pc[r] # "unused" => ws[r] \in Workspace
    BY <1>1 DEF FreshRuns
  <2>1. ASSUME NEW v \in Workspace, runningAgents[v] = r
        PROVE  pc[r] # "unused"
    BY <2>1 DEF RegisteredIsActive, Active, Live, Alive
  <2>2. QED
    BY <1>4, <2>1 DEF FreshRuns
<1>8. RegisteredIsActive'
  <2> SUFFICES ASSUME NEW v \in Workspace, runningAgents'[v] # None
               PROVE  /\ pc'[runningAgents'[v]] \in Alive
                      /\ runningAgents'[v] \notin cancelled'
                      /\ ws'[runningAgents'[v]] = v
    BY DEF RegisteredIsActive, Active, Live
  <2> DEFINE r == runningAgents[v]
  <2>1. runningAgents'[v] = r /\ r \in Run /\ Active(r) /\ ws[r] = v
    BY <1>3 DEF RegisteredIsActive
  <2>2. r \notin cancelled'
    BY <2>1, <1>4 DEF RegisteredIsActive, Active
  <2>3. QED
    BY <1>1, <2>1, <2>2 DEF Active, Live
<1>9. SingleLoopUnlessOverlap'
  <2> SUFFICES ASSUME NEW v \in Workspace \ overlapped, NEW s \in Run,
                      Active(s)', ws[s] = v
               PROVE  runningAgents'[v] = s
    BY <1>1 DEF SingleLoopUnlessOverlap
  <2>1. Active(s)
    BY <1>1, <1>5 DEF Active, Live
  <2>2. runningAgents[v] = s /\ s \notin cancelled'
    BY <2>1 DEF SingleLoopUnlessOverlap, Active
  <2>3. QED
    BY <2>2, <1>3, <1>6
<1>10. SoleGoroutine'
  BY <1>1, <1>2, <1>3 DEF SoleGoroutine
<1>11. RegisteredKeepsTools'
  BY <1>1, <1>3 DEF RegisteredKeepsTools
<1>12. QED
  BY <1>7, <1>8, <1>9, <1>10, <1>11

(* Steps of the loop that leave the registry alone, and the injection.     *)
LEMMA QuietStepKeepsIInv ==
    ASSUME IInv, TypeOK',
           UNCHANGED <<runningAgents, cached, ws, tool, cancelled, overlapped>>,
           \A s \in Run : /\ Live(s)' = Live(s)
                          /\ pc[s] = "unused" <=> pc'[s] = "unused"
    PROVE  IInv'
<1>1. \A v \in Workspace : LiveIn(v)' = LiveIn(v)
  BY DEF LiveIn
<1>2. \A s \in Run : Active(s)' = Active(s)
  BY DEF Active
<1>3. FreshRuns'
  BY DEF IInv, FreshRuns
<1>4. RegisteredIsActive'
  BY <1>2, LifecycleAssumption DEF IInv, TypeOK, RegisteredIsActive
<1>5. SingleLoopUnlessOverlap'
  BY <1>2 DEF IInv, SingleLoopUnlessOverlap
<1>6. SoleGoroutine'
  BY <1>1 DEF IInv, SoleGoroutine
<1>7. RegisteredKeepsTools'
  BY DEF IInv, RegisteredKeepsTools
<1>8. QED
  BY <1>3, <1>4, <1>5, <1>6, <1>7 DEF IInv

LEMMA DeregisterKeepsIInv ==
    ASSUME IInv, TypeOK', NEW r \in Run, Deregister(r)
    PROVE  IInv'
<1> USE LifecycleAssumption DEF IInv, TypeOK, Deregister, MoveTo
<1> DEFINE w == ws[r]
<1>1. w \in Workspace /\ Live(r)
  BY DEF FreshRuns, Live, Alive
<1>2. \A s \in Run : Live(s)' <=> Live(s) /\ s # r
  BY DEF Live, Alive
<1>3. FreshRuns'
  BY DEF FreshRuns
<1>4. RegisteredIsActive'
  <2> SUFFICES ASSUME NEW v \in Workspace, runningAgents'[v] # None
               PROVE  /\ pc'[runningAgents'[v]] \in Alive
                      /\ runningAgents'[v] \notin cancelled'
                      /\ ws'[runningAgents'[v]] = v
    BY DEF RegisteredIsActive, Active, Live
  <2>1. v # w /\ runningAgents'[v] = runningAgents[v]
    BY <1>1
  <2>2. runningAgents[v] \in Run /\ Active(runningAgents[v]) /\ ws[runningAgents[v]] = v
    BY <2>1 DEF RegisteredIsActive
  <2>3. runningAgents[v] # r
    BY <2>1, <2>2
  <2>4. QED
    BY <1>2, <2>1, <2>2, <2>3 DEF Active, Live
<1>5. SingleLoopUnlessOverlap'
  <2> SUFFICES ASSUME NEW v \in Workspace \ overlapped, NEW s \in Run,
                      Active(s)', ws[s] = v
               PROVE  runningAgents'[v] = s
    BY DEF SingleLoopUnlessOverlap
  <2>1. s # r /\ Active(s)
    BY <1>2 DEF Active
  <2>2. runningAgents[v] = s
    BY <2>1 DEF SingleLoopUnlessOverlap
  <2>3. v # w
    <3> SUFFICES ASSUME v = w
                 PROVE  FALSE
      OBVIOUS
    <3>1. r \in LiveIn(v)
      BY <1>1 DEF LiveIn
    <3>2. QED
      BY <2>1, <2>2, <3>1 DEF SoleGoroutine
  <2>4. QED
    BY <1>1, <2>2, <2>3
<1>6. SoleGoroutine'
  <2> SUFFICES ASSUME NEW v \in Workspace \ overlapped, runningAgents'[v] # None
               PROVE  LiveIn(v)' \subseteq {runningAgents'[v]}
    BY DEF SoleGoroutine
  <2>1. runningAgents'[v] = runningAgents[v]
    BY <1>1
  <2>2. LiveIn(v)' \subseteq LiveIn(v)
    BY <1>2 DEF LiveIn
  <2>3. QED
    BY <2>1, <2>2 DEF SoleGoroutine
<1>7. RegisteredKeepsTools'
  BY <1>1 DEF RegisteredKeepsTools
<1>8. QED
  BY <1>3, <1>4, <1>5, <1>6, <1>7

LEMMA NextIInv == IInv /\ [Next]_vars => IInv'
<1> SUFFICES ASSUME IInv, [Next]_vars
             PROVE  IInv'
  OBVIOUS
<1>0. TypeOK /\ TypeOK'
  BY NextTypeOK DEF IInv
<1>1. ASSUME NEW w \in Workspace, NEW r \in Run, StartAgent(w, r)
      PROVE  IInv'
  BY <1>0, <1>1, StartKeepsIInv
<1>2. ASSUME NEW w \in Workspace, StopAgent(w)
      PROVE  IInv'
  BY <1>0, <1>2, ClearingKeepsIInv
<1>3. ASSUME NEW w \in Workspace, InjectUserMessage(w)
      PROVE  IInv'
  BY <1>0, <1>3, QuietStepKeepsIInv DEF InjectUserMessage, Live
<1>4. CASE Shutdown
  BY <1>0, <1>4, ClearingKeepsIInv
<1>5. CASE HeartbeatCleanup
  BY <1>0, <1>5, ClearingKeepsIInv
<1>6. ASSUME NEW r \in Run, NEW k \in Kind, UseTool(r, k)
      PROVE  IInv'
  BY <1>0, <1>6, QuietStepKeepsIInv DEF UseTool, loopUnchanged, Live
<1>7. ASSUME NEW r \in Run, Loop(r)
      PROVE  IInv'
  <2>1. CASE Deregister(r)
    BY <1>0, <2>1, DeregisterKeepsIInv
  <2>2. CASE LimitReached(r) \/ BeginIteration(r) \/ EndIteration(r) \/ Finish(r)
    <3>1. UNCHANGED <<runningAgents, cached, ws, tool, cancelled, overlapped>>
      BY <2>2 DEF LimitReached, BeginIteration, EndIteration, Finish, loopUnchanged
    <3>2. \A s \in Run : /\ Live(s)' = Live(s)
                         /\ pc[s] = "unused" <=> pc'[s] = "unused"
      BY <1>0, <2>2 DEF LimitReached, BeginIteration, EndIteration, Finish, MoveTo,
                        Live, Alive, TypeOK
    <3>3. QED
      BY <1>0, <3>1, <3>2, QuietStepKeepsIInv
  <2>3. QED
    BY <1>7, <2>1, <2>2 DEF Loop
<1>8. CASE UNCHANGED vars
  BY <1>0, <1>8, QuietStepKeepsIInv DEF vars, Live
<1>9. QED
  BY <1>1, <1>2, <1>3, <1>4, <1>5, <1>6, <1>7, <1>8 DEF Next

(* IInv is inductive: what the three invariants below rest on.             *)
THEOREM Inductive == Spec => []IInv
BY InitIInv, NextIInv, PTL DEF Spec

(* The registry never names a stopped or finished loop.                    *)
THEOREM RegistryIsAccurate == Spec => []RegisteredIsActive
<1>1. IInv => RegisteredIsActive
  BY DEF IInv
<1>2. QED
  BY <1>1, Inductive, PTL

(* At most one active loop per workspace, registered and so stoppable,     *)
(* unless a start overlapped the goroutine of a stopped agent there.       *)
THEOREM SingleLoop == Spec => []SingleLoopUnlessOverlap
<1>1. IInv => SingleLoopUnlessOverlap
  BY DEF IInv
<1>2. QED
  BY <1>1, Inductive, PTL

(* The heartbeat never takes the browser of an active run, under the same  *)
(* proviso.                                                                *)
THEOREM ToolsKept == Spec => []ActiveRunKeepsTools
<1>1. IInv => ActiveRunKeepsTools
  <2> SUFFICES ASSUME IInv, NEW r \in Run, Active(r), ws[r] \notin overlapped
               PROVE  cached[ws[r]] = tool[r]
    BY DEF ActiveRunKeepsTools
  <2>1. ws[r] \in Workspace
    BY DEF IInv, FreshRuns, Active, Live, Alive
  <2>2. runningAgents[ws[r]] = r
    BY <2>1 DEF IInv, SingleLoopUnlessOverlap
  <2>3. QED
    BY <2>1, <2>2, LifecycleAssumption DEF IInv, RegisteredKeepsTools
<1>2. QED
  BY <1>1, Inductive, PTL


(* An entry is removed by a stop, by its own goroutine's end, or, in a     *)
(* workspace with an overlap, by somebody else's.                          *)
THEOREM EntriesLeaveWithTheirRun == Spec => EntryLeavesWithItsRun
<1>1. IInv /\ [Next]_vars => OnlyOverEntriesLeave
  <2> SUFFICES ASSUME IInv, [Next]_vars, NEW w \in Workspace \ overlapped,
                      runningAgents[w] # None, runningAgents'[w] # runningAgents[w]
               PROVE  \/ runningAgents[w] \in cancelled'
                      \/ pc'[runningAgents[w]] = "gone"
    BY DEF OnlyOverEntriesLeave
  <2> USE LifecycleAssumption DEF IInv, TypeOK
  <2>1. ASSUME NEW v \in Workspace, NEW r \in Run, StartAgent(v, r)
        PROVE  FALSE
    BY <2>1 DEF StartAgent
  <2>2. ASSUME NEW v \in Workspace, StopAgent(v)
        PROVE  runningAgents[w] \in cancelled'
    BY <2>2 DEF StopAgent
  <2>3. CASE Shutdown
    BY <2>3 DEF Shutdown
  <2>4. ASSUME NEW r \in Run, Deregister(r)
        PROVE  pc'[runningAgents[w]] = "gone"
    <3>1. w = ws[r]
      BY <2>4 DEF Deregister
    <3>2. r \in LiveIn(w)
      BY <2>4, <3>1 DEF Deregister, LiveIn, Live, Alive
    <3>3. runningAgents[w] = r
      BY <3>2 DEF SoleGoroutine
    <3>4. QED
      BY <2>4, <3>3 DEF Deregister, MoveTo
  <2>5. CASE UNCHANGED runningAgents
    BY <2>5
  <2>6. QED
    BY <2>1, <2>2, <2>3, <2>4, <2>5
       DEF Next, Loop, InjectUserMessage, HeartbeatCleanup, UseTool, LimitReached,
           BeginIteration, EndIteration, Finish, loopUnchanged, vars
<1>2. QED
  BY <1>1, Inductive, PTL DEF Spec, EntryLeavesWithItsRun

-----------------------------------------------------------------------------
(* A tool belongs to the workspace of the run that created it, and so do   *)
(* the cache and the runs that were given it.                              *)
ToolsBelong ==
    /\ \A r \in Run : pc[r] = "unused" => ws[r] = None
    /\ \A r \in Run : pc[r] # "unused" => ws[r] \in Workspace
    /\ \A r \in Run : pc[r] # "unused" =>
           \A k \in Kind : tool[r][k] \in Run /\ ws[tool[r][k]] = ws[r]
    /\ \A w \in Workspace, k \in Kind :
           cached[w][k] # None => ws[cached[w][k]] = w

LEMMA InitToolsBelong == Init => ToolsBelong
BY DEF Init, ToolsBelong

LEMMA StartKeepsToolsBelong ==
    ASSUME TypeOK, ToolsBelong, NEW w \in Workspace, NEW r \in Run, StartAgent(w, r)
    PROVE  ToolsBelong'
<1> USE LifecycleAssumption
<1>1. /\ pc[r] = "unused" /\ pc' = [pc EXCEPT ![r] = "top"]
      /\ ws' = [ws EXCEPT ![r] = w] /\ ws[r] = None
      /\ tool' = [tool EXCEPT ![r] = Instance(w, r)]
      /\ cached' = [cached EXCEPT ![w] = Instance(w, r)]
  BY DEF StartAgent, ToolsBelong
<1>2. \A v \in Workspace, k \in Kind :
          cached[v][k] # None => cached[v][k] \in Run /\ cached[v][k] # r
  BY <1>1 DEF TypeOK, ToolsBelong
<1>3. \A k \in Kind : Instance(w, r)[k] \in Run /\ ws'[Instance(w, r)[k]] = w
  <2> TAKE k \in Kind
  <2>1. CASE cached[w][k] = None
    BY <1>1, <2>1 DEF Instance, TypeOK
  <2>2. CASE cached[w][k] # None
    BY <1>1, <1>2, <2>2 DEF Instance, TypeOK, ToolsBelong
  <2> QED
    BY <2>1, <2>2
<1>4. \A s \in Run : /\ pc'[s] = "unused" => ws'[s] = None
                     /\ pc'[s] # "unused" => ws'[s] \in Workspace
  BY <1>1 DEF TypeOK, ToolsBelong
<1>5. ASSUME NEW s \in Run, pc'[s] # "unused", NEW k \in Kind
      PROVE  tool'[s][k] \in Run /\ ws'[tool'[s][k]] = ws'[s]
  <2>1. CASE s = r
    BY <1>1, <1>3, <2>1 DEF TypeOK
  <2>2. CASE s # r
    <3>1. tool'[s] = tool[s] /\ ws'[s] = ws[s] /\ pc[s] # "unused"
      BY <1>1, <1>5, <2>2 DEF TypeOK
    <3>2. tool[s][k] \in Run /\ ws[tool[s][k]] = ws[s] /\ ws[s] \in Workspace
      BY <1>5, <3>1 DEF ToolsBelong, TypeOK
    <3> QED
      BY <1>1, <3>1, <3>2 DEF TypeOK
  <2> QED
    BY <2>1, <2>2
<1>6. ASSUME NEW v \in Workspace, NEW k \in Kind, cached'[v][k] # None
      PROVE  ws'[cached'[v][k]] = v
  <2>1. CASE v = w
    BY <1>1, <1>3, <2>1 DEF TypeOK
  <2>2. CASE v # w
    BY <1>1, <1>2, <1>6, <2>2 DEF TypeOK, ToolsBelong
  <2> QED
    BY <2>1, <2>2
<1> QED
  BY <1>4, <1>5, <1>6 DEF ToolsBelong

LEMMA NextToolsBelong == TypeOK /\ ToolsBelong /\ [Next]_vars => ToolsBelong'
<1> SUFFICES ASSUME TypeOK, ToolsBelong, [Next]_vars
             PROVE  ToolsBelong'
  OBVIOUS
<1> USE LifecycleAssumption
<1>1. ASSUME NEW w \in Workspace, NEW r \in Run, StartAgent(w, r)
      PROVE  ToolsBelong'
  BY <1>1, StartKeepsToolsBelong
<1>2. ASSUME ws' = ws, tool' = tool,
             \A r \in Run : pc'[r] = "unused" <=> pc[r] = "unused",
             \A w \in Workspace, k \in Kind : cached'[w][k] \in {cached[w][k], None}
      PROVE  ToolsBelong'
  BY <1>2 DEF ToolsBelong
<1>3. ASSUME NEW w \in Workspace, StopAgent(w)
      PROVE  ToolsBelong'
  BY <1>2, <1>3 DEF StopAgent, TypeOK
<1>4. CASE Shutdown \/ HeartbeatCleanup
  <2>1. \A w \in Workspace, k \in Kind : cached'[w][k] \in {cached[w][k], None}
    BY <1>4 DEF Shutdown, HeartbeatCleanup, TypeOK
  <2>2. ws' = ws /\ tool' = tool /\ pc' = pc
    BY <1>4 DEF Shutdown, HeartbeatCleanup
  <2> QED
    BY <1>2, <2>1, <2>2
<1>5. ASSUME NEW w \in Workspace, InjectUserMessage(w)
      PROVE  ToolsBelong'
  BY <1>2, <1>5 DEF InjectUserMessage, TypeOK
<1>6. ASSUME NEW r \in Run, NEW k \in Kind, UseTool(r, k)
      PROVE  ToolsBelong'
  BY <1>2, <1>6 DEF UseTool, loopUnchanged
<1>7. ASSUME NEW r \in Run, Loop(r)
      PROVE  ToolsBelong'
  <2>1. /\ ws' = ws /\ tool' = tool /\ cached' = cached
        /\ pc[r] # "unused"
        /\ \E label \in {"top", "body", "returned", "gone"} :
               pc' = [pc EXCEPT ![r] = label]
    BY <1>7 DEF Loop, LimitReached, BeginIteration, EndIteration, Finish, Deregister,
                MoveTo, loopUnchanged
  <2> QED
    BY <1>2, <2>1 DEF TypeOK
<1>8. CASE UNCHANGED vars
  BY <1>2, <1>8 DEF vars
<1> QED
  BY <1>1, <1>3, <1>4, <1>5, <1>6, <1>7, <1>8 DEF Next

(* A browser or specialist is shared within one workspace only.            *)
THEOREM ToolsStay == Spec => []ToolsStayInWorkspace
<1>1. TypeOK /\ ToolsBelong => ToolsStayInWorkspace
  BY DEF ToolsBelong, ToolsStayInWorkspace, Live, Alive
<1>2. Init => TypeOK /\ ToolsBelong
  BY InitTypeOK, InitToolsBelong
<1>3. TypeOK /\ ToolsBelong /\ [Next]_vars => (TypeOK /\ ToolsBelong)'
  BY NextTypeOK, NextToolsBelong
<1> QED
  BY <1>1, <1>2, <1>3, PTL DEF Spec

-----------------------------------------------------------------------------
(* Every process belongs to an instance some run was given.                *)
NoStrayProcess == \A i \in open : i[1] \in Run

LeakInv == TypeOK /\ ToolsBelong /\ NoStrayProcess /\ LeaksComeFromStops

LEMMA InitLeakInv == Init => LeakInv
BY InitTypeOK, InitToolsBelong DEF Init, LeakInv, NoStrayProcess, LeaksComeFromStops

(* What the manager closes is what it forgets: a process that stays open   *)
(* stays as reachable as it was.                                           *)
LEMMA ClosingKeepsLeaks ==
    ASSUME LeakInv, tool' = tool, ws' = ws, overlapped' = overlapped,
           cancelled \subseteq cancelled', open' \subseteq open,
           \A w \in Workspace, k \in Kind :
               \/ cached'[w][k] = cached[w][k]
               \/ <<cached[w][k], k>> \notin open'
    PROVE  NoStrayProcess' /\ LeaksComeFromStops'
<1>1. NoStrayProcess'
  BY DEF LeakInv, NoStrayProcess
<1>2. ASSUME NEW i \in open'
      PROVE  \/ \E w \in Workspace : cached'[w][i[2]] = i[1]
             \/ \E r \in Run : /\ tool[r][i[2]] = i[1]
                               /\ r \in cancelled' \/ ws[r] \in overlapped
  <2>1. i \in open /\ i = <<i[1], i[2]>> /\ i[2] \in Kind
    BY DEF LeakInv, TypeOK
  <2>2. CASE \E w \in Workspace : cached[w][i[2]] = i[1]
    BY <2>1, <2>2
  <2>3. CASE \E r \in Run : tool[r][i[2]] = i[1] /\ (r \in cancelled \/ ws[r] \in overlapped)
    BY <2>3
  <2> QED
    BY <2>1, <2>2, <2>3 DEF LeakInv, LeaksComeFromStops
<1> QED
  BY <1>1, <1>2 DEF LeaksComeFromStops

LEMMA StartKeepsLeaks ==
    ASSUME LeakInv, NEW w \in Workspace, NEW r \in Run, StartAgent(w, r), FreshRuns
    PROVE  NoStrayProcess' /\ LeaksComeFromStops'
<1> USE LifecycleAssumption
<1>1. /\ pc[r] = "unused" /\ ws[r] = None /\ r \notin cancelled
      /\ ws' = [ws EXCEPT ![r] = w] /\ open' = open /\ cancelled' = cancelled
      /\ tool' = [tool EXCEPT ![r] = Instance(w, r)]
      /\ cached' = [cached EXCEPT ![w] = Instance(w, r)]
      /\ overlapped \subseteq overlapped'
  BY DEF StartAgent, LeakInv, ToolsBelong, FreshRuns
<1>2. NoStrayProcess'
  BY <1>1 DEF LeakInv, NoStrayProcess
<1>3. ASSUME NEW i \in open'
      PROVE  \/ \E v \in Workspace : cached'[v][i[2]] = i[1]
             \/ \E s \in Run : /\ tool'[s][i[2]] = i[1]
                               /\ s \in cancelled' \/ ws'[s] \in overlapped'
  <2>1. i \in open /\ i[1] \in Run /\ i[2] \in Kind
    BY <1>1 DEF LeakInv, TypeOK, NoStrayProcess
  <2>2. ASSUME NEW v \in Workspace, cached[v][i[2]] = i[1]
        PROVE  cached'[v][i[2]] = i[1]
    BY <1>1, <2>1, <2>2 DEF LeakInv, TypeOK, Instance
  <2>3. ASSUME NEW s \in Run, tool[s][i[2]] = i[1], s \in cancelled \/ ws[s] \in overlapped
        PROVE  /\ tool'[s][i[2]] = i[1]
               /\ s \in cancelled' \/ ws'[s] \in overlapped'
    <3>1. s # r
      BY <1>1, <2>3 DEF LeakInv, TypeOK
    <3> QED
      BY <1>1, <2>3, <3>1 DEF LeakInv, TypeOK
  <2> QED
    BY <2>1, <2>2, <2>3 DEF LeakInv, LeaksComeFromStops
<1> QED
  BY <1>2, <1>3 DEF LeaksComeFromStops

LEMMA UseKeepsLeaks ==
    ASSUME LeakInv, NEW r \in Run, NEW k \in Kind, UseTool(r, k), ActiveRunKeepsTools
    PROVE  NoStrayProcess' /\ LeaksComeFromStops'
<1>1. /\ pc[r] = "body" /\ open' = open \cup {<<tool[r][k], k>>}
      /\ ws' = ws /\ tool' = tool /\ cached' = cached /\ cancelled' = cancelled
      /\ overlapped' = overlapped
  BY DEF UseTool, loopUnchanged
<1>2. tool[r][k] \in Run /\ ws[r] \in Workspace
  BY <1>1 DEF LeakInv, ToolsBelong
<1>3. \/ r \in cancelled
      \/ ws[r] \in overlapped
      \/ cached[ws[r]][k] = tool[r][k]
  BY <1>1 DEF ActiveRunKeepsTools, Active, Live, Alive
<1> QED
  BY <1>1, <1>2, <1>3 DEF LeakInv, NoStrayProcess, LeaksComeFromStops

LEMMA NextLeakInv == IInv /\ ActiveRunKeepsTools /\ LeakInv /\ [Next]_vars => LeakInv'
<1> SUFFICES ASSUME IInv, ActiveRunKeepsTools, LeakInv, [Next]_vars
             PROVE  NoStrayProcess' /\ LeaksComeFromStops'
  BY NextTypeOK, NextToolsBelong DEF LeakInv
<1>1. ASSUME NEW w \in Workspace, NEW r \in Run, StartAgent(w, r)
      PROVE  NoStrayProcess' /\ LeaksComeFromStops'
  BY <1>1, StartKeepsLeaks DEF IInv
<1>2. ASSUME NEW w \in Workspace, StopAgent(w)
      PROVE  NoStrayProcess' /\ LeaksComeFromStops'
  <2>1. \A v \in Workspace, k \in Kind :
            cached'[v][k] = cached[v][k] \/ <<cached[v][k], k>> \notin open'
    <3> TAKE v \in Workspace, k \in Kind
    <3>1. CASE v # w
      BY <1>2, <3>1 DEF StopAgent, LeakInv, TypeOK
    <3>2. CASE v = w /\ cached[w][k] = None
      BY <1>2, <3>2 DEF StopAgent, LeakInv, TypeOK
    <3>3. CASE v = w /\ cached[w][k] # None
      BY <1>2, <3>3 DEF StopAgent, InstancesOf
    <3> QED
      BY <3>1, <3>2, <3>3
  <2> QED
    BY <1>2, <2>1, ClosingKeepsLeaks DEF StopAgent
<1>3. CASE Shutdown
  <2>1. \A v \in Workspace, k \in Kind :
            cached'[v][k] = cached[v][k] \/ <<cached[v][k], k>> \notin open'
    <3> TAKE v \in Workspace, k \in Kind
    <3>1. CASE cached[v][k] = None
      BY <1>3, <3>1 DEF Shutdown
    <3>2. CASE cached[v][k] # None
      BY <1>3, <3>2 DEF Shutdown, InstancesOf
    <3> QED
      BY <3>1, <3>2
  <2> QED
    BY <1>3, <2>1, ClosingKeepsLeaks DEF Shutdown
<1>4. CASE HeartbeatCleanup
  <2>1. \A v \in Workspace, k \in Kind :
            cached'[v][k] = cached[v][k] \/ <<cached[v][k], k>> \notin open'
    <3> TAKE v \in Workspace, k \in Kind
    <3>1. CASE v \notin Unregistered
      BY <1>4, <3>1 DEF HeartbeatCleanup
    <3>2. CASE cached[v][k] = None
      BY <1>4, <3>2 DEF HeartbeatCleanup
    <3>3. CASE v \in Unregistered /\ cached[v][k] # None
      BY <1>4, <3>3 DEF HeartbeatCleanup, InstancesOf
    <3> QED
      BY <3>1, <3>2, <3>3
  <2> QED
    BY <1>4, <2>1, ClosingKeepsLeaks DEF HeartbeatCleanup
<1>5. ASSUME NEW r \in Run, NEW k \in Kind, UseTool(r, k)
      PROVE  NoStrayProcess' /\ LeaksComeFromStops'
  BY <1>5, UseKeepsLeaks
<1>6. ASSUME \/ \E w \in Workspace : InjectUserMessage(w)
             \/ \E r \in Run : Loop(r)
             \/ UNCHANGED vars
      PROVE  NoStrayProcess' /\ LeaksComeFromStops'
  <2>1. UNCHANGED <<open, cached, tool, ws, cancelled, overlapped>>
    BY <1>6 DEF InjectUserMessage, Loop, LimitReached, BeginIteration, EndIteration,
                Finish, Deregister, loopUnchanged, vars
  <2> QED
    BY <2>1, ClosingKeepsLeaks
<1> QED
  BY <1>1, <1>2, <1>3, <1>4, <1>5, <1>6 DEF Next

(* A process the manager cannot close is one of a stopped loop, or of a    *)
(* workspace with an overlap.                                              *)
THEOREM LeaksAreFromStops == Spec => []LeaksComeFromStops
<1>1. LeakInv => LeaksComeFromStops
  BY DEF LeakInv
<1> QED
  BY <1>1, InitLeakInv, NextLeakInv, Inductive, ToolsKept, PTL DEF Spec

-----------------------------------------------------------------------------
(* What a run was told: the messages it has read and those in its queue.   *)
Told(r) == delivered[r] \o pending[r]

ToldSoFar == \A r \in Run : /\ Told(r) \in Seq(Nat)
                            /\ \A i \in DOMAIN Told(r) : Told(r)[i] <= sent

MessageInv == ToldSoFar /\ MessagesOnceInOrder

LEMMA InitMessageInv == Init => MessageInv
<1> SUFFICES ASSUME Init
             PROVE  MessageInv
  OBVIOUS
<1>1. \A r \in Run : Told(r) = <<>>
  BY DEF Init, Told
<1> QED
  <2>1. <<>> \in Seq(Nat) /\ DOMAIN <<>> = {}
    OBVIOUS
  <2>2. ToldSoFar
    BY <1>1, <2>1 DEF ToldSoFar
  <2>3. MessagesOnceInOrder
    BY <1>1, <2>1 DEF MessagesOnceInOrder, Told
  <2> QED
    BY <2>2, <2>3 DEF MessageInv

LEMMA AppendToConcat ==
    ASSUME NEW d \in Seq(Nat), NEW p \in Seq(Nat), NEW x \in Nat
    PROVE  d \o Append(p, x) = Append(d \o p, x)
<1>1. <<x>> \in Seq(Nat) /\ d \o p \in Seq(Nat)
  BY ConcatProperties
<1>2. Append(p, x) = p \o <<x>> /\ Append(d \o p, x) = (d \o p) \o <<x>>
  BY <1>1, AppendIsConcat
<1>3. (d \o p) \o <<x>> = d \o (p \o <<x>>)
  BY <1>1, ConcatAssociative
<1> QED
  BY <1>2, <1>3

(* Reading the queue moves messages; only an injection adds one.           *)
LEMMA ToldGrowsByInjection ==
    ASSUME TypeOK, [Next]_vars
    PROVE  \/ sent' = sent /\ \A r \in Run : Told(r)' = Told(r)
           \/ /\ sent' = sent + 1
              /\ \E s \in Run : /\ Told(s)' = Append(Told(s), sent + 1)
                                /\ \A r \in Run \ {s} : Told(r)' = Told(r)
<1>1. ASSUME NEW w \in Workspace, InjectUserMessage(w)
      PROVE  /\ sent' = sent + 1
             /\ \E s \in Run : /\ Told(s)' = Append(Told(s), sent + 1)
                               /\ \A r \in Run \ {s} : Told(r)' = Told(r)
  <2> DEFINE s == runningAgents[w]
  <2>1. s \in Run /\ sent' = sent + 1 /\ delivered' = delivered
        /\ pending' = [pending EXCEPT ![s] = Append(pending[s], sent + 1)]
    BY <1>1 DEF InjectUserMessage, TypeOK
  <2>2. delivered[s] \in Seq(Nat) /\ pending[s] \in Seq(Nat) /\ sent + 1 \in Nat
    BY <2>1 DEF TypeOK
  <2> HIDE DEF s
  <2>3. pending'[s] = Append(pending[s], sent + 1)
    BY <2>1 DEF TypeOK
  <2>4. delivered[s] \o Append(pending[s], sent + 1)
          = Append(delivered[s] \o pending[s], sent + 1)
    BY <2>2, AppendToConcat
  <2>5. \A r \in Run \ {s} : Told(r)' = Told(r)
    BY <2>1 DEF Told, TypeOK
  <2> QED
    BY <2>1, <2>3, <2>4, <2>5 DEF Told
<1>2. ASSUME NEW s \in Run, BeginIteration(s)
      PROVE  sent' = sent /\ \A r \in Run : Told(r)' = Told(r)
  <2>1. /\ sent' = sent
        /\ delivered' = [delivered EXCEPT ![s] = delivered[s] \o pending[s]]
        /\ pending' = [pending EXCEPT ![s] = <<>>]
    BY <1>2 DEF BeginIteration, loopUnchanged
  <2>2. delivered[s] \o pending[s] \in Seq(Nat)
    BY ConcatProperties DEF TypeOK
  <2>3. (delivered[s] \o pending[s]) \o <<>> = delivered[s] \o pending[s]
    BY <2>2, ConcatEmptySeq
  <2>4. Told(s)' = Told(s)
    BY <2>1, <2>3 DEF Told, TypeOK
  <2>5. \A r \in Run \ {s} : Told(r)' = Told(r)
    BY <2>1 DEF Told, TypeOK
  <2> QED
    BY <2>1, <2>4, <2>5
<1>3. ASSUME UNCHANGED <<sent, delivered, pending>>
      PROVE  sent' = sent /\ \A r \in Run : Told(r)' = Told(r)
  BY <1>3 DEF Told
<1>4. ASSUME \/ \E w \in Workspace, r \in Run : StartAgent(w, r)
             \/ \E w \in Workspace : StopAgent(w)
             \/ Shutdown
             \/ HeartbeatCleanup
             \/ \E r \in Run, k \in Kind : UseTool(r, k)
             \/ \E r \in Run : LimitReached(r) \/ EndIteration(r) \/ Finish(r) \/ Deregister(r)
             \/ UNCHANGED vars
      PROVE  UNCHANGED <<sent, delivered, pending>>
  BY <1>4 DEF StartAgent, StopAgent, Shutdown, HeartbeatCleanup, UseTool, LimitReached,
              EndIteration, Finish, Deregister, loopUnchanged, vars
<1> QED
  BY <1>1, <1>2, <1>3, <1>4 DEF Next, Loop

LEMMA NextMessageInv == TypeOK /\ MessageInv /\ [Next]_vars => MessageInv'
<1> SUFFICES ASSUME TypeOK, MessageInv, [Next]_vars
             PROVE  MessageInv'
  OBVIOUS
<1>1. sent \in Nat
  BY DEF TypeOK
<1>2. /\ \A r \in Run : Told(r) \in Seq(Nat) /\ \A i \in DOMAIN Told(r) : Told(r)[i] <= sent
      /\ \A r \in Run : \A i, j \in DOMAIN Told(r) : i < j => Told(r)[i] < Told(r)[j]
      /\ \A r, s \in Run : \A i \in DOMAIN Told(r), j \in DOMAIN Told(s) :
             Told(r)[i] = Told(s)[j] => r = s
  BY DEF MessageInv, ToldSoFar, MessagesOnceInOrder, Told
<1>3. CASE sent' = sent /\ \A r \in Run : Told(r)' = Told(r)
  BY <1>2, <1>3 DEF MessageInv, ToldSoFar, MessagesOnceInOrder, Told
<1>4. CASE /\ sent' = sent + 1
           /\ \E s \in Run : /\ Told(s)' = Append(Told(s), sent + 1)
                             /\ \A r \in Run \ {s} : Told(r)' = Told(r)
  <2>1. PICK s \in Run : /\ Told(s)' = Append(Told(s), sent + 1)
                         /\ \A r \in Run \ {s} : Told(r)' = Told(r)
    BY <1>4
  <2> DEFINE n == Len(Told(s))
  <2>2. /\ Told(s) \in Seq(Nat) /\ Told(s)' \in Seq(Nat) /\ n \in Nat
        /\ DOMAIN Told(s) = 1 .. n /\ DOMAIN Told(s)' = 1 .. n + 1
        /\ \A i \in 1 .. n : Told(s)'[i] = Told(s)[i]
        /\ Told(s)'[n + 1] = sent + 1
    BY <1>1, <1>2, <2>1
  <2> HIDE DEF n
  <2>3. \A r \in Run : \A i \in DOMAIN Told(r) : Told(r)[i] \in Nat /\ Told(r)[i] <= sent
    BY <1>2
  <2>4. \A r \in Run : /\ Told(r)' \in Seq(Nat)
                       /\ \A i \in DOMAIN Told(r)' : Told(r)'[i] <= sent'
    <3> TAKE r \in Run
    <3>1. CASE r = s
      BY <1>1, <1>4, <2>2, <2>3, <3>1
    <3>2. CASE r # s
      BY <1>1, <1>2, <1>4, <2>1, <2>3, <3>2
    <3> QED
      BY <3>1, <3>2
  <2>5. \A r \in Run : \A i, j \in DOMAIN Told(r)' : i < j => Told(r)'[i] < Told(r)'[j]
    <3> TAKE r \in Run
    <3>1. CASE r = s
      <4> SUFFICES ASSUME NEW i \in 1 .. n + 1, NEW j \in 1 .. n + 1, i < j
                   PROVE  Told(s)'[i] < Told(s)'[j]
        BY <2>2, <3>1
      <4>1. i \in 1 .. n /\ Told(s)'[i] = Told(s)[i] /\ Told(s)[i] <= sent
        BY <2>2, <2>3
      <4>2. CASE j = n + 1
        <5>1. Told(s)'[j] = sent + 1 /\ Told(s)[i] \in Nat
          BY <2>2, <2>3, <4>1, <4>2
        <5> QED BY <1>1, <4>1, <5>1
      <4>3. CASE j \in 1 .. n
        <5>1. Told(s)'[j] = Told(s)[j]
          BY <2>2, <4>3
        <5> QED BY <1>2, <2>2, <4>1, <4>3, <5>1
      <4> QED BY <2>2, <4>2, <4>3
    <3>2. CASE r # s
      BY <1>2, <2>1, <3>2
    <3> QED
      BY <3>1, <3>2
  <2>6. \A r, t \in Run : \A i \in DOMAIN Told(r)', j \in DOMAIN Told(t)' :
            Told(r)'[i] = Told(t)'[j] => r = t
    <3> SUFFICES ASSUME NEW r \in Run, NEW t \in Run,
                        NEW i \in DOMAIN Told(r)', NEW j \in DOMAIN Told(t)',
                        Told(r)'[i] = Told(t)'[j], r # t
                 PROVE  FALSE
      OBVIOUS
    <3>1. CASE r # s /\ t # s
      BY <1>2, <2>1, <3>1
    <3>2. CASE r = s
      <4>1. j \in DOMAIN Told(t) /\ Told(t)'[j] = Told(t)[j]
        BY <2>1, <3>2
      <4>2. CASE i = n + 1
        BY <1>1, <2>2, <2>3, <3>2, <4>1, <4>2
      <4>3. CASE i \in 1 .. n
        BY <1>2, <2>2, <3>2, <4>1, <4>3
      <4> QED
        BY <2>2, <3>2, <4>2, <4>3
    <3>3. CASE t = s
      <4>1. i \in DOMAIN Told(r) /\ Told(r)'[i] = Told(r)[i]
        BY <2>1, <3>3
      <4>2. CASE j = n + 1
        BY <1>1, <2>2, <2>3, <3>3, <4>1, <4>2
      <4>3. CASE j \in 1 .. n
        BY <1>2, <2>2, <3>3, <4>1, <4>3
      <4> QED
        BY <2>2, <3>3, <4>2, <4>3
    <3> QED
      BY <3>1, <3>2, <3>3
  <2> QED
    BY <2>4, <2>5, <2>6 DEF MessageInv, ToldSoFar, MessagesOnceInOrder, Told
<1> QED
  BY <1>3, <1>4, ToldGrowsByInjection

(* However many runs, workspaces and stops: an injected message is in one  *)
(* place only, and none is read twice or out of order.                     *)
THEOREM MessagesInOrder == Spec => []MessagesOnceInOrder
<1>1. MessageInv => MessagesOnceInOrder
  BY DEF MessageInv
<1> QED
  BY <1>1, InitMessageInv, NextMessageInv, TypeCorrect, PTL DEF Spec

-----------------------------------------------------------------------------
(* The registry until a run is stopped.                                    *)

NobodyStopped == cancelled = {} /\ overlapped = {}

(* Only a stopped run makes an overlap possible.                           *)
OverlapsComeFromStops == cancelled = {} => overlapped = {}

LEMMA StaysQuiet ==
    ASSUME IInv, OverlapsComeFromStops, [Next]_vars
    PROVE  /\ OverlapsComeFromStops'
           /\ cancelled' = {} => cancelled = {}
<1> USE DEF OverlapsComeFromStops
<1>1. ASSUME NEW w \in Workspace, NEW r \in Run, StartAgent(w, r)
      PROVE  /\ OverlapsComeFromStops'
             /\ cancelled' = {} => cancelled = {}
  BY <1>1 DEF StartAgent
<1>2. ASSUME NEW w \in Workspace, StopAgent(w)
      PROVE  /\ OverlapsComeFromStops'
             /\ cancelled' = {} => cancelled = {}
  BY <1>2 DEF StopAgent
<1>3. CASE Shutdown
  BY <1>3 DEF Shutdown
<1>4. CASE UNCHANGED <<cancelled, overlapped>>
  BY <1>4
<1>5. QED
  BY <1>1, <1>2, <1>3, <1>4
     DEF Next, Loop, InjectUserMessage, HeartbeatCleanup, UseTool, LimitReached,
         BeginIteration, EndIteration, Finish, Deregister, loopUnchanged, vars

LEMMA AlwaysQuiet == Spec => []OverlapsComeFromStops
<1>1. Init => OverlapsComeFromStops
  BY DEF Init, OverlapsComeFromStops
<1>2. IInv /\ OverlapsComeFromStops /\ [Next]_vars => OverlapsComeFromStops'
  BY StaysQuiet
<1>3. QED
  BY <1>1, <1>2, Inductive, PTL DEF Spec

(* Until a run is stopped, no two goroutines ever work in one workspace:   *)
(* what the refusal of a second StartAgent is for.                         *)
THEOREM OneLoopUntilAStop == Spec => [](cancelled = {} => OneLoopPerWorkspace)
<1>1. IInv /\ OverlapsComeFromStops => (cancelled = {} => OneLoopPerWorkspace)
  <2> SUFFICES ASSUME IInv, OverlapsComeFromStops, cancelled = {},
                      NEW r \in Run, NEW s \in Run,
                      Active(r), Active(s), ws[r] = ws[s]
               PROVE  r = s
    BY DEF OneLoopPerWorkspace
  <2>1. ws[r] \in Workspace \ overlapped
    BY DEF IInv, FreshRuns, Active, Live, Alive, OverlapsComeFromStops
  <2>2. QED
    BY <2>1 DEF IInv, SingleLoopUnlessOverlap
<1>2. QED
  BY <1>1, Inductive, AlwaysQuiet, PTL

-----------------------------------------------------------------------------
(* The refinement of WorkspaceLease.                                       *)

(* The run that is alone in a workspace holds it.                          *)
LEMMA HolderOfSingleton == \A r : AnyOf({r}) = r
BY DEF AnyOf

LEMMA StepsWithSameLiveStutter ==
    ASSUME UNCHANGED ws, \A s \in Run : Live(s)' = Live(s)
    PROVE  UNCHANGED Holder
<1>1. \A v \in Workspace : LiveIn(v)' = LiveIn(v)
  BY DEF LiveIn
<1>2. QED
  BY <1>1 DEF Holder

(* A start acquires the lease: the workspace had no goroutine at all.      *)
LEMMA StartAcquires ==
    ASSUME IInv, NobodyStopped, NEW w \in Workspace, NEW r \in Run, StartAgent(w, r)
    PROVE  Lease!Acquire(w, r)
<1> USE DEF IInv, TypeOK, StartAgent
<1>1. LiveIn(w) = {}
  BY FreeWorkspaceIsEmpty DEF NobodyStopped
<1>2. LiveIn(w)' = {r}
  BY <1>1 DEF LiveIn, Live, Alive
<1>3. \A v \in Workspace \ {w} : LiveIn(v)' = LiveIn(v)
  BY DEF LiveIn, Live, Alive
<1>4. Holder[w] = None
  BY <1>1 DEF Holder, AnyOf
<1>5. Holder' = [Holder EXCEPT ![w] = r]
  BY <1>2, <1>3, HolderOfSingleton DEF Holder
<1>6. QED
  BY <1>4, <1>5 DEF Lease!Acquire

(* The end of a goroutine releases it: no other goroutine was there.       *)
LEMMA DeregisterReleases ==
    ASSUME IInv, NobodyStopped, NEW r \in Run, Deregister(r)
    PROVE  Lease!Release(ws[r])
<1> USE DEF IInv, TypeOK, Deregister, MoveTo
<1>1. ws[r] \in Workspace \ overlapped
  BY DEF FreshRuns, NobodyStopped
<1>2. LiveIn(ws[r]) = {r}
  <2>1. \A s \in LiveIn(ws[r]) : runningAgents[ws[r]] = s
    BY <1>1 DEF SingleLoopUnlessOverlap, LiveIn, Active, NobodyStopped
  <2>2. r \in LiveIn(ws[r])
    BY DEF LiveIn, Live, Alive
  <2>3. QED
    BY <2>1, <2>2
<1>3. LiveIn(ws[r])' = {}
  BY <1>2 DEF LiveIn, Live, Alive
<1>4. \A v \in Workspace \ {ws[r]} : LiveIn(v)' = LiveIn(v)
  BY DEF LiveIn, Live, Alive
<1>5. Holder[ws[r]] = r
  BY <1>1, <1>2, HolderOfSingleton DEF Holder
<1>6. Holder' = [Holder EXCEPT ![ws[r]] = None]
  <2>1. AnyOf({}) = None
    BY DEF AnyOf
  <2>2. \A v \in Workspace : Holder'[v] = IF v = ws[r] THEN None ELSE Holder[v]
    BY <1>3, <1>4, <2>1 DEF Holder
  <2>3. QED
    BY <1>1, <2>2 DEF Holder
<1>7. QED
  BY <1>5, <1>6, LifecycleAssumption DEF Lease!Release

LEMMA StepsRefine ==
    ASSUME IInv, OverlapsComeFromStops, [Next]_vars, cancelled' = {}
    PROVE  [Lease!Next]_Holder
<1>0. NobodyStopped
  BY StaysQuiet DEF NobodyStopped, OverlapsComeFromStops
<1>1. ASSUME NEW w \in Workspace, NEW r \in Run, StartAgent(w, r)
      PROVE  Lease!Next
  BY <1>0, <1>1, StartAcquires DEF Lease!Next
<1>2. ASSUME NEW r \in Run, Deregister(r)
      PROVE  Lease!Next
  <2>1. ws[r] \in Workspace
    BY <1>2 DEF IInv, FreshRuns, Deregister
  <2>2. QED
    BY <1>0, <1>2, <2>1, DeregisterReleases DEF Lease!Next
<1>3. ASSUME NEW r \in Run, LimitReached(r) \/ BeginIteration(r)
                            \/ EndIteration(r) \/ Finish(r)
      PROVE  UNCHANGED Holder
  <2>1. \A s \in Run : Live(s)' = Live(s)
    BY <1>3 DEF LimitReached, BeginIteration, EndIteration, Finish, MoveTo,
                Live, Alive, IInv, TypeOK
  <2>2. UNCHANGED ws
    BY <1>3 DEF LimitReached, BeginIteration, EndIteration, Finish, loopUnchanged
  <2>3. QED
    BY <2>1, <2>2, StepsWithSameLiveStutter
<1>4. CASE UNCHANGED <<pc, ws>>
  BY <1>4, StepsWithSameLiveStutter DEF Live
<1>5. QED
  BY <1>1, <1>2, <1>3, <1>4
     DEF Next, Loop, StopAgent, Shutdown, InjectUserMessage, HeartbeatCleanup, UseTool,
         loopUnchanged, vars

LEMMA StartsFree == Init => Lease!Init
BY DEF Init, Lease!Init, Holder, AnyOf, LiveIn, Live, Alive

(* AgentLifecycle implements WorkspaceLease until a run is stopped.        *)
THEOREM ImplementsLease == Spec => LeaseRefinement
<1>1. IInv /\ OverlapsComeFromStops /\ [Next]_vars
        => [cancelled' = {} => [Lease!Next]_Holder]_vars
  BY StepsRefine
<1>2. QED
  BY <1>1, StartsFree, Inductive, AlwaysQuiet, PTL DEF Spec, LeaseRefinement

LEMMA NoStopNoCancel ==
    ASSUME MaxStops = 0, IInv, cancelled = {}, [Next]_vars
    PROVE  cancelled' = {}
<1>1. ASSUME NEW w \in Workspace, StopAgent(w)
      PROVE  FALSE
  BY <1>1 DEF StopAgent, IInv, TypeOK
<1>2. CASE Shutdown
  BY <1>2 DEF Shutdown, IInv, TypeOK
<1>3. CASE UNCHANGED cancelled
  BY <1>3
<1>4. QED
  BY <1>1, <1>2, <1>3
     DEF Next, Loop, StartAgent, InjectUserMessage, HeartbeatCleanup, UseTool,
         LimitReached, BeginIteration, EndIteration, Finish, Deregister,
         loopUnchanged, vars

(* Where nobody stops an agent, it implements the whole lease.             *)
THEOREM ImplementsLeaseWithoutStops ==
    ASSUME MaxStops = 0
    PROVE  Spec => Lease!Spec
<1>1. Init => cancelled = {}
  BY DEF Init
<1>2. IInv /\ cancelled = {} /\ [Next]_vars => (cancelled = {})'
  BY NoStopNoCancel
<1>3. IInv /\ OverlapsComeFromStops /\ cancelled = {} /\ [Next]_vars
        => [Lease!Next]_Holder
  BY <1>2, StepsRefine
<1>4. QED
  BY <1>1, <1>2, <1>3, StartsFree, Inductive, AlwaysQuiet, PTL DEF Spec, Lease!Spec

=============================================================================
