----------------------------- MODULE Specialists -----------------------------
(***************************************************************************)
(* The specialists a run calls as tools (internal/agents/specialists,      *)
(* tools/agent_tool_adapter.go) in one workspace: the browser, whose       *)
(* instance StartAgent caches and hands to the runs that follow; the       *)
(* children "spawn_subagent" and "tester", loops of their own with a state *)
(* file of their own; the reasoning agent.                                 *)
(*                                                                         *)
(* The registry of runs is AgentLifecycle's, cut down to one workspace.    *)
(***************************************************************************)
EXTENDS Naturals, FiniteSets

CONSTANTS Run,       \* sessions of the workspace, one run of each
          Child,     \* spawn_subagent, tester
          None,      \* no run; no address
          Rounds,    \* rounds of the reasoning agent (5 unless asked)
          MaxCalls,  \* bound: calls of specialists
          MaxTurns   \* bound: answers of the model within one call

VARIABLES entry,     \* the registered run
          cached,    \* the browser instance in activeSpecialists, by creator
          of,        \* run -> the instance it registered
          session,   \* instance -> the session its callbacks read and write
          page,      \* instance -> whose address its page shows, None: no page
          url,       \* session -> BrowserURL: whose address was saved
          at,        \* run -> where it is
          adrift,    \* runs whose page was closed while they worked on it
          cancelled, \* runs that were told to stop
          calls,     \* calls of specialists so far
          turns,     \* run -> answers of the model in its call
          spent,     \* run, child -> TokensGastos of the child's state file
          recorded,  \* run -> tokens its own state got from children
          begun,     \* run -> children called so far
          again,     \* runs that called one child twice
          tree,      \* runs whose changes are in the work tree, not committed
          undone,    \* runs whose changes a failed child's rollback took
          failed     \* runs a child of which failed

browserVars == <<cached, of, session, page, url, adrift>>
childVars == <<spent, recorded, begun, again, tree, undone, failed>>
vars == <<entry, browserVars, at, cancelled, calls, turns, childVars>>

Live(r) == at[r] \notin {"new", "over"}
Called(r) == /\ at[r] = "loop"
             /\ calls < MaxCalls
             /\ calls' = calls + 1
             /\ UNCHANGED turns
Go(r, place) == at' = [at EXCEPT ![r] = place]
(* The adapter hands its result to the loop.                                *)
Report(r) == /\ Go(r, "loop")
             /\ turns' = [turns EXCEPT ![r] = 0]

Init ==
    /\ entry = None /\ cached = None
    /\ of = [r \in Run |-> None]
    /\ session = [i \in Run |-> None]
    /\ page = [i \in Run |-> None]
    /\ url = [r \in Run |-> None]
    /\ at = [r \in Run |-> "new"]
    /\ adrift = {} /\ cancelled = {}
    /\ calls = 0
    /\ turns = [r \in Run |-> 0]
    /\ spent = [r \in Run |-> [c \in Child |-> 0]]
    /\ recorded = [r \in Run |-> 0]
    /\ begun = [r \in Run |-> {}]
    /\ again = {} /\ tree = {} /\ undone = {} /\ failed = {}

-----------------------------------------------------------------------------
(* Deviation: the callbacks stay those of the run that made the instance.   *)
StartAgentBindsOnce(r) ==
    /\ entry = None /\ at[r] = "new"
    /\ entry' = r
    /\ Go(r, "loop")
    /\ cached' = IF cached = None THEN r ELSE cached
    /\ of' = [of EXCEPT ![r] = cached']
    /\ session' = [session EXCEPT ![cached'] = IF cached = None THEN r ELSE @]
    /\ UNCHANGED <<page, url, adrift, cancelled, calls, turns, childVars>>

(* An instance is made when the workspace has none, with this run's model  *)
(* and window; a cached one keeps those of the run that made it.  Its      *)
(* callbacks become this session's in any case.                            *)
StartAgent(r) ==
    /\ entry = None /\ at[r] = "new"
    /\ entry' = r
    /\ Go(r, "loop")
    /\ cached' = IF cached = None THEN r ELSE cached
    /\ of' = [of EXCEPT ![r] = cached']
    /\ session' = [session EXCEPT ![cached'] = r]
    /\ UNCHANGED <<page, url, adrift, cancelled, calls, turns, childVars>>

(* Close of the cached instance, which then leaves the table.               *)
CloseCached ==
    /\ page' = IF cached = None THEN page ELSE [page EXCEPT ![cached] = None]
    /\ adrift' = adrift \cup {r \in Run : at[r] = "steps" /\ of[r] = cached}
    /\ cached' = None

StopAgent ==
    /\ entry # None \/ cached # None
    /\ entry' = None
    /\ cancelled' = cancelled \cup ({entry} \ {None})
    /\ CloseCached
    /\ UNCHANGED <<of, session, url, at, calls, turns, childVars>>

HeartbeatCleanup ==
    /\ entry = None /\ cached # None
    /\ CloseCached
    /\ UNCHANGED <<entry, of, session, url, at, cancelled, calls, turns,
                   childVars>>

(* The loop of r returns; whatever entry the workspace has goes with it.    *)
Return(r) ==
    /\ at[r] = "loop"
    /\ Go(r, "over")
    /\ entry' = None
    /\ UNCHANGED <<browserVars, cancelled, calls, turns, childVars>>

(* What the loop's own tools change in the work tree.                       *)
Edit(r) ==
    /\ at[r] = "loop" /\ r \notin tree \cup undone
    /\ tree' = tree \cup {r}
    /\ UNCHANGED <<entry, browserVars, at, cancelled, calls, turns, spent,
                   recorded, begun, again, undone, failed>>

-----------------------------------------------------------------------------
(* The browser: the model translates the prompt into steps, unless it is a *)
(* list of steps already; without an answer the steps are fixed ones.      *)
Browse(r) ==
    /\ Called(r)
    /\ Go(r, "asking")
    /\ UNCHANGED <<entry, browserVars, cancelled, childVars>>

(* getPage: the page the instance has, or a new one at the address saved   *)
(* in the session the callbacks are of; a page of no address is the         *)
(* caller's.  The context of the call is not looked at.                     *)
GetPage(r) ==
    LET i == of[r]
        saved == url[session[i]]
    IN /\ at[r] = "asking"
       /\ Go(r, "steps")
       /\ adrift' = adrift \ {r}
       /\ page' = [page EXCEPT ![i] = IF @ # None THEN @
                                      ELSE IF saved = None THEN r ELSE saved]
       /\ UNCHANGED <<entry, cached, of, session, url, cancelled, calls, turns,
                      childVars>>

(* Launching the browser or its tab fails: a result without success.        *)
NoPage(r) ==
    /\ at[r] = "asking" /\ page[of[r]] = None
    /\ Report(r)
    /\ UNCHANGED <<entry, browserVars, cancelled, calls, childVars>>

(* A step that navigates; one that fails leaves the page where it is, and   *)
(* a failed step does not end the list.                                     *)
Navigate(r) ==
    /\ at[r] = "steps" /\ r \notin adrift \cup cancelled
    /\ page' = [page EXCEPT ![of[r]] = r]
    /\ UNCHANGED <<entry, cached, of, session, url, adrift, at, cancelled,
                   calls, turns, childVars>>

(* The deferred call: where the page is goes to the session the callbacks   *)
(* are of by now.  A page that was closed has no address to tell.           *)
EndSteps(r) ==
    /\ at[r] = "steps"
    /\ url' = IF r \in adrift THEN url
              ELSE [url EXCEPT ![session[of[r]]] = page[of[r]]]
    /\ Report(r)
    /\ UNCHANGED <<entry, cached, of, session, page, adrift, cancelled, calls,
                   childVars>>

-----------------------------------------------------------------------------
(* A child: its state file is named after the parent's session and loaded.  *)
CallChild(r, c) ==
    /\ Called(r)
    /\ Go(r, c)
    /\ begun' = [begun EXCEPT ![r] = @ \cup {c}]
    /\ again' = again \cup {x \in {r} : c \in begun[r]}
    /\ UNCHANGED <<entry, browserVars, cancelled, spent, recorded, tree, undone,
                   failed>>

(* An iteration of the child's loop: tokens are added to its own state.     *)
ChildTurn(r, c) ==
    /\ at[r] = c /\ turns[r] < MaxTurns
    /\ turns' = [turns EXCEPT ![r] = @ + 1]
    /\ spent' = [spent EXCEPT ![r][c] = @ + 1]
    /\ tree' = IF r \in undone THEN tree ELSE tree \cup {r}
    /\ UNCHANGED <<entry, browserVars, at, cancelled, calls, recorded, begun,
                   again, undone, failed>>

(* TokensGastos of the child is recorded with the parent, all of it.        *)
ChildDone(r, c) ==
    /\ at[r] = c /\ turns[r] > 0
    /\ recorded' = [recorded EXCEPT ![r] = @ + spent[r][c]]
    /\ Report(r)
    /\ UNCHANGED <<entry, browserVars, cancelled, calls, spent, begun,
                   again, tree, undone, failed>>

(* Any error of the child's loop, the five minutes of the adapter and a    *)
(* stop of the parent among them: RollbackGit resets and cleans the tree.  *)
ChildFails(r, c) ==
    /\ at[r] = c
    /\ undone' = undone \cup tree
    /\ tree' = {}
    /\ failed' = failed \cup {r}
    /\ Report(r)
    /\ UNCHANGED <<entry, browserVars, cancelled, calls, spent, recorded,
                   begun, again>>

-----------------------------------------------------------------------------
(* The reasoning agent asks the model a fixed number of times, without     *)
(* tools; its tokens are nobody's.  One error ends it.                     *)
Reason(r) ==
    /\ Called(r)
    /\ Go(r, "thinking")
    /\ UNCHANGED <<entry, browserVars, cancelled, childVars>>

Round(r) ==
    /\ at[r] = "thinking" /\ r \notin cancelled
    /\ IF turns[r] + 1 = Rounds THEN Report(r)
       ELSE UNCHANGED at /\ turns' = [turns EXCEPT ![r] = @ + 1]
    /\ UNCHANGED <<entry, browserVars, cancelled, calls, childVars>>

RoundFails(r) ==
    /\ at[r] = "thinking"
    /\ Report(r)
    /\ UNCHANGED <<entry, browserVars, cancelled, calls, childVars>>

Next == \/ StopAgent \/ HeartbeatCleanup
        \/ \E r \in Run : \/ StartAgent(r) \/ Return(r) \/ Edit(r)
                          \/ Browse(r) \/ GetPage(r) \/ NoPage(r)
                          \/ Navigate(r) \/ EndSteps(r)
                          \/ Reason(r) \/ Round(r) \/ RoundFails(r)
        \/ \E r \in Run, c \in Child : \/ CallChild(r, c) \/ ChildTurn(r, c)
                                       \/ ChildDone(r, c) \/ ChildFails(r, c)

Spec == Init /\ [][Next]_vars

-----------------------------------------------------------------------------
(* Every variable of the specialists' calls has its type.                   *)
TypeOK ==
    /\ entry \in Run \cup {None} /\ cached \in Run \cup {None}
    /\ {of, session, page, url} \subseteq [Run -> Run \cup {None}]
    /\ at \in [Run -> {"new", "loop", "asking", "steps", "thinking", "over"} \cup Child]
    /\ adrift \cup cancelled \cup again \cup tree \cup undone \cup failed \subseteq Run
    /\ calls \in Nat
    /\ {turns, recorded} \subseteq [Run -> Nat]
    /\ spent \in [Run -> [Child -> Nat]]
    /\ begun \in [Run -> SUBSET Child]

(* The address a session keeps to come back to is one its own run opened   *)
(* when its run made the browser it uses; only a run that was handed a      *)
(* browser of another can find the other's page in its session, and then   *)
(* the other is the one that made it or one that was handed it too.        *)
AddressIsOwn ==
    \A r \in Run : url[r] \notin {None, r} => of[r] # r /\ of[url[r]] = of[r]

(* A parent has recorded exactly what its children spent once none runs,   *)
(* none failed and none was called twice; it has recorded nothing a child  *)
(* did not spend, unless one was called twice.                             *)
Tokens(r) == UNION {{c} \X (1..spent[r][c]) : c \in Child}
TokensOnce ==
    \A r \in Run \ again :
        /\ recorded[r] <= Cardinality(Tokens(r))
        /\ at[r] \notin Child /\ r \notin failed => recorded[r] = Cardinality(Tokens(r))

(* No call of a specialist that ends well takes changes away, nor does a    *)
(* stop: only the rollback of a failed child does, whoever's they are.      *)
LossesHaveACulprit == undone # {} => failed # {}

(* The specialists are sound.                                               *)
SpecialistsSound == TypeOK /\ AddressIsOwn /\ TokensOnce /\ LossesHaveACulprit
=============================================================================
