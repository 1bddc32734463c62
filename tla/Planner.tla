------------------------------- MODULE Planner -------------------------------
(***************************************************************************)
(* The plan of a session (internal/loop/planner.go, tools/manage_plan,     *)
(* loop/agentic/core/planner.go): checklists in the model's text are       *)
(* merged into it, the tool manage_plan replaces or updates it, failed     *)
(* tests add a task to it, the end of the ReAct loop asks it, and in the   *)
(* structural mode the PlannerLoop keeps a slice of its own that it writes *)
(* over it between the tasks.                                              *)
(*                                                                         *)
(* A title is a model value; Norm maps it to what NormalizeTitle leaves of *)
(* it.  The maps exactMap and normMap hold for a key the last task that    *)
(* has it, which is what Find looks for.                                   *)
(***************************************************************************)
EXTENDS Naturals, Sequences, SequencesExt, FiniteSetsExt

CONSTANTS Title,    \* titles of tasks
          Norm,     \* title -> normalised title
          Fix,      \* the title of the task failed tests add
          MaxItems, \* bound: tasks of a plan
          MaxWords, \* bound: tasks in one message or call
          MaxSteps  \* bound: steps of a behaviour

Status == {"pending", "in_progress", "completed", "failed"}
Ticks == {"pending", "in_progress", "completed"}

VARIABLES plan,    \* StateManager's Plan
          guarded, \* not config.DisablePlanCacheProtection
          mode,    \* react, or planner (StructuralDecomposition)
          own,     \* the PlannerLoop's slice
          i,       \* the task it is at
          pc,      \* decompose, loop or over
          result,  \* none, done, suspended, failed
          claimed, \* titles the model last said were completed
          twins,   \* two tasks of one normalised title came with one list
          steps

vars == <<plan, guarded, mode, own, i, pc, result, claimed, twins, steps>>

Item(ticks) == [title : Title, status : ticks]
Words(ticks) == UNION {[1..n -> Item(ticks)] : n \in 1..MaxWords}

Open(p) == \E k \in DOMAIN p : p[k].status \in {"pending", "in_progress"}
Weight(s) == CASE s = "completed" -> 3 [] s = "in_progress" -> 2
               [] s = "pending" -> 1 [] OTHER -> 0
HasTwins(p) == \E j, k \in DOMAIN p : j # k /\ Norm[p[j].title] = Norm[p[k].title]
SameTask(t) == {u \in Title : Norm[u] = Norm[t]}

(* The task a title names: the last of that title, else the last of its    *)
(* normalised title; 0 when there is none.                                 *)
Find(p, t) ==
    LET exact == {k \in DOMAIN p : p[k].title = t}
        close == {k \in DOMAIN p : Norm[p[k].title] = Norm[t]}
    IN IF exact # {} THEN Max(exact) ELSE IF close # {} THEN Max(close) ELSE 0

(* What a word of a list does to the task k it names: it is appended, kept *)
(* because it is further already, or takes the new status.                 *)
Take(q, w, k, guard) ==
    IF k = 0 THEN Append(q, w)
    ELSE IF guard /\ Weight(w.status) < Weight(q[k].status) THEN q
    ELSE [q EXCEPT ![k].status = w.status]

(* Deviation: the maps are not told of the task that is appended.           *)
MergedForgetful(p, words, guard) ==
    LET after[n \in 0..Len(words)] ==
            IF n = 0 THEN p ELSE Take(after[n-1], words[n], Find(p, words[n].title), guard)
    IN after[Len(words)]

(* A list merged into a plan: a task it names takes the new status, unless *)
(* the guard finds it further already; any other is appended.              *)
Put(q, w, guard) == Take(q, w, Find(q, w.title), guard)
Merged(p, words, guard) ==
    LET after[n \in 0..Len(words)] == IF n = 0 THEN p ELSE Put(after[n-1], words[n], guard)
    IN after[Len(words)]

(* What the model has claimed completed, after one more list.               *)
Hear(c, w, guard) == IF w.status = "completed" THEN c \cup {w.title}
                     ELSE IF guard THEN c ELSE c \ SameTask(w.title)
Claims(words, guard) ==
    LET after[n \in 0..Len(words)] == IF n = 0 THEN claimed ELSE Hear(after[n-1], words[n], guard)
    IN after[Len(words)]
Completed(words) == {w.title : w \in {x \in ToSet(words) : x.status = "completed"}}

Step == pc = "loop" /\ steps < MaxSteps /\ steps' = steps + 1
kept == <<guarded, mode, own, i>>

Init ==
    /\ plan = <<>> /\ own = <<>> /\ i = 0
    /\ guarded \in BOOLEAN
    /\ mode \in {"react", "planner"}
    /\ pc = IF mode = "planner" THEN "decompose" ELSE "loop"
    /\ result = "none" /\ claimed = {} /\ twins = FALSE /\ steps = 0

-----------------------------------------------------------------------------
(* A message with a checklist.  The first list becomes the plan as it is.   *)
UpdatePlannerFromMessage ==
    /\ Step
    /\ \E words \in Words(Ticks) :
          /\ plan' = (IF plan = <<>> THEN words ELSE Merged(plan, words, guarded))
          /\ Len(plan') <= MaxItems
          /\ claimed' = IF plan = <<>>
                           \* of two tasks of one title the list decides alone
                           THEN Completed(words) ELSE Claims(words, guarded)
          /\ twins' = IF plan = <<>> THEN HasTwins(words) ELSE twins
    /\ UNCHANGED <<kept, pc, result>>

(* manage_plan "create": the plan is replaced.                              *)
CreatePlan ==
    /\ Step
    /\ \E words \in Words(Status) :
          /\ plan' = words
          /\ claimed' = Completed(words)
          /\ twins' = HasTwins(words)
    /\ UNCHANGED <<kept, pc, result>>

(* manage_plan "update": any status may follow any; without a plan it is   *)
(* refused.                                                                *)
UpdatePlan ==
    /\ Step /\ plan # <<>>
    /\ \E words \in Words(Status) :
          /\ plan' = Merged(plan, words, FALSE)
          /\ Len(plan') <= MaxItems
          /\ claimed' = Claims(words, FALSE)
    /\ UNCHANGED <<kept, pc, result, twins>>

(* Tests that fail add a task, unless the plan has one of that name already *)
(* (done or not).                                                          *)
AddCorrection ==
    /\ Step /\ Len(plan) < MaxItems
    /\ plan' = IF Find(plan, Fix) # 0 THEN plan
               ELSE Append(plan, [title |-> Fix, status |-> "in_progress"])
    /\ UNCHANGED <<kept, pc, result, claimed, twins>>

-----------------------------------------------------------------------------
(* A run of the core loop returns without an error: the whole run is over, *)
(* or the PlannerLoop ticks its task in its own slice, writes the slice    *)
(* over the plan and begins the next task.                                 *)
Ticked(k, p) == [p EXCEPT ![k].status = "completed"]
Begun(k, p) == IF k \in DOMAIN p THEN [p EXCEPT ![k].status = "in_progress"] ELSE p

CoreReturns(left, words) ==
    IF mode = "react"
    THEN /\ pc' = "over" /\ result' = words /\ plan' = left
         /\ UNCHANGED <<own, i, claimed, twins>>
    ELSE /\ own' = Begun(i + 1, Ticked(i, own))
         /\ plan' = own'
         /\ i' = i + 1
         /\ claimed' = {}
         /\ twins' = HasTwins(own')
         /\ IF i < Len(own) THEN UNCHANGED <<pc, result>>
            ELSE pc' = "over" /\ result' = "done"

(* The loop ends with no task open, or drops the plan: the answer is       *)
(* conversational or says it is done, or the last warning has been given.  *)
Finish ==
    /\ pc = "loop"
    /\ CoreReturns(IF Open(plan) THEN <<>> ELSE plan, "done")
    /\ UNCHANGED <<guarded, mode, steps>>

(* A timer the model has set ends the loop early, without an error.         *)
Suspend ==
    /\ pc = "loop"
    /\ CoreReturns(plan, "suspended")
    /\ UNCHANGED <<guarded, mode, steps>>

(* An error of the loop: the task of the PlannerLoop has failed.            *)
CoreFails ==
    /\ pc = "loop"
    /\ pc' = "over" /\ result' = "failed"
    /\ own' = IF mode = "react" THEN own ELSE [own EXCEPT ![i].status = "failed"]
    /\ plan' = IF mode = "react" THEN plan ELSE own'
    /\ claimed' = IF mode = "react" THEN claimed ELSE {}
    /\ twins' = IF mode = "react" THEN twins ELSE HasTwins(own')
    /\ UNCHANGED <<guarded, mode, i, steps>>

(* The PlannerLoop asks the model for a list of tasks; an answer that is no *)
(* JSON list is an error, an empty list the end.                           *)
Decompose ==
    /\ pc = "decompose"
    /\ \E n \in 0..MaxWords : \E names \in [1..n -> Title] :
          /\ own' = Begun(1, [k \in 1..n |-> [title |-> names[k], status |-> "pending"]])
          /\ i' = 1
          /\ plan' = own'
          /\ twins' = HasTwins(own')
          /\ pc' = IF n = 0 THEN "over" ELSE "loop"
          /\ result' = IF n = 0 THEN "done" ELSE "none"
    /\ UNCHANGED <<guarded, mode, claimed, steps>>

DecomposeFails ==
    /\ pc = "decompose"
    /\ pc' = "over" /\ result' = "failed"
    /\ UNCHANGED <<plan, kept, claimed, twins, steps>>

Next == \/ UpdatePlannerFromMessage \/ CreatePlan \/ UpdatePlan \/ AddCorrection
        \/ Finish \/ Suspend \/ CoreFails \/ Decompose \/ DecomposeFails

Spec == Init /\ [][Next]_vars

-----------------------------------------------------------------------------
(* Every variable of the plan has its type.                                 *)
TypeOK ==
    /\ \A p \in {plan, own} : p \in Seq(Item(Status)) /\ Len(p) <= MaxItems
    /\ guarded \in BOOLEAN /\ twins \in BOOLEAN
    /\ mode \in {"react", "planner"} /\ pc \in {"decompose", "loop", "over"}
    /\ i \in Nat /\ steps \in 0..MaxSteps
    /\ result \in {"none", "done", "suspended", "failed"}
    /\ claimed \subseteq Title

(* Merging makes no twins: two tasks of one normalised title are there only *)
(* when one list brought both.                                             *)
TwinsAreBorn == HasTwins(plan) => twins

(* What the model has said is completed stays completed until it says       *)
(* otherwise, in a plan without twins.                                     *)
ClaimIsKept ==
    ~twins /\ plan # <<>> =>
        \A t \in claimed : Find(plan, t) # 0 /\ plan[Find(plan, t)].status = "completed"

(* A run that says it is done leaves no task open, in either mode, and the  *)
(* structural mode has then ticked every task it began with.               *)
DoneLeavesNothingOpen ==
    result = "done" =>
        ~Open(plan) /\ (mode = "planner" => \A k \in DOMAIN own : own[k].status = "completed")

(* The plan is sound.                                                       *)
PlanSound == TypeOK /\ TwinsAreBorn /\ ClaimIsKept /\ DoneLeavesNothingOpen
=============================================================================
