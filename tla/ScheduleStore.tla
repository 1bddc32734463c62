---------------------------- MODULE ScheduleStore ----------------------------
(***************************************************************************)
(* internal/daemon/agent_endpoints.go, server.go and internal/cron: the    *)
(* scheduled tasks.  scheduled_tasks.json and the entries of the cron      *)
(* scheduler are two copies of one list; the HTTP handlers load the file,  *)
(* change the scheduler and write the file back in place, with no lock     *)
(* around the three.  A daemon that starts schedules what the file has.  A *)
(* task's run is started by its entry at its time, or by a request, which  *)
(* starts the copy it has loaded.                                          *)
(***************************************************************************)
EXTENDS Naturals

CONSTANTS Request,    \* HTTP requests, each handled once
          Task,       \* ids of scheduled tasks
          NoFile, Empty, Torn, \* no file, just truncated, does not parse
          MaxRestarts \* bound: deaths of the daemon

VARIABLES tasks,    \* the file
          entries,  \* the jobs of the cron scheduler
          at,       \* new, loaded, scheduled, opened, done or refused, per request
          list,     \* the tasks a request has loaded
          wants,    \* "post", "delete" or "run"
          target,   \* the task each request is about
          restarts, \* deaths so far
          gone,     \* history: tasks whose deletion was acknowledged
          ghosts,   \* history: tasks that were started after that
          half,     \* history: tasks whose request ended between scheduler and file
          met       \* history: two requests were between load and save together

vars == <<tasks, entries, at, list, wants, target, restarts, gone, ghosts,
          half, met>>

Whole == tasks \notin {Empty, Torn}
loadTasks == IF tasks = NoFile THEN {} ELSE tasks
Busy(r) == at[r] \in {"loaded", "scheduled", "opened"}
NewTask(t) == \A r \in Request : target[r] # t

Init ==
    /\ tasks = NoFile
    /\ entries = {}
    /\ at = [r \in Request |-> "new"]
    /\ list = [r \in Request |-> {}]
    /\ wants = [r \in Request |-> "none"]
    /\ target = [r \in Request |-> "none"]
    /\ restarts = 0
    /\ gone = {} /\ ghosts = {} /\ half = {}
    /\ met = FALSE

-----------------------------------------------------------------------------
Load(r, op, t, found) ==
    /\ at[r] = "new"
    /\ at' = [at EXCEPT ![r] = IF Whole /\ found THEN "loaded" ELSE "refused"]
    /\ list' = [list EXCEPT ![r] = IF Whole THEN loadTasks ELSE {}]
    /\ wants' = [wants EXCEPT ![r] = op]
    /\ target' = [target EXCEPT ![r] = t]
    /\ met' = (met \/ (Whole /\ found /\ \E o \in Request : Busy(o)))
    /\ UNCHANGED <<tasks, entries, restarts, gone, ghosts, half>>

handlePostSchedule(r, t) == NewTask(t) /\ Load(r, "post", t, TRUE)

handleDeleteSchedule(r, t) == Load(r, "delete", t, t \in loadTasks)

handleRunSchedule(r, t) == Load(r, "run", t, t \in loadTasks)

(* AddJob fails on an expression that does not parse: nothing is saved.    *)
AddJob(r) ==
    /\ at[r] = "loaded"
    /\ wants[r] = "post"
    /\ \/ /\ entries' = entries \cup {target[r]}
          /\ at' = [at EXCEPT ![r] = "scheduled"]
          /\ list' = [list EXCEPT ![r] = @ \cup {target[r]}]
       \/ /\ at' = [at EXCEPT ![r] = "refused"]
          /\ UNCHANGED <<entries, list>>
    /\ UNCHANGED <<tasks, wants, target, restarts, gone, ghosts, half, met>>

RemoveJob(r) ==
    /\ at[r] = "loaded"
    /\ wants[r] = "delete"
    /\ entries' = entries \ {target[r]}
    /\ at' = [at EXCEPT ![r] = "scheduled"]
    /\ list' = [list EXCEPT ![r] = @ \ {target[r]}]
    /\ UNCHANGED <<tasks, wants, target, restarts, gone, ghosts, half, met>>

Truncate(r) ==
    /\ at[r] = "scheduled"
    /\ at' = [at EXCEPT ![r] = "opened"]
    /\ tasks' = Empty
    /\ UNCHANGED <<entries, list, wants, target, restarts, gone, ghosts, half, met>>

saveTasks(r) ==
    /\ at[r] = "opened"
    /\ at' = [at EXCEPT ![r] = "done"]
    /\ tasks' \in IF tasks = Empty THEN {list[r]} ELSE {list[r], Torn}
    /\ gone' = IF wants[r] = "delete" THEN gone \cup {target[r]} ELSE gone
    /\ UNCHANGED <<entries, list, wants, target, restarts, ghosts, half, met>>

(* The file cannot be opened or written: what the scheduler did stays.     *)
SaveFails(r) ==
    /\ at[r] \in {"scheduled", "opened"}
    /\ at' = [at EXCEPT ![r] = "refused"]
    /\ tasks' = IF at[r] = "opened" THEN Torn ELSE tasks
    /\ half' = half \cup {target[r]}
    /\ UNCHANGED <<entries, list, wants, target, restarts, gone, ghosts, met>>

-----------------------------------------------------------------------------
(* A run begins.                                                           *)
Started(t) == ghosts' = ghosts \cup ({t} \cap gone)

(* The copy of the task a request has loaded.                              *)
triggerScheduledTask(r) ==
    /\ at[r] = "loaded"
    /\ wants[r] = "run"
    /\ at' = [at EXCEPT ![r] = "done"]
    /\ Started(target[r])
    /\ UNCHANGED <<tasks, entries, list, wants, target, restarts, gone, half, met>>

(* The time of an entry has come.                                          *)
Fire(t) ==
    /\ t \in entries
    /\ Started(t)
    /\ UNCHANGED <<tasks, entries, at, list, wants, target, restarts, gone, half, met>>

-----------------------------------------------------------------------------
(* The daemon dies and starts again: requests are lost, and the tasks of   *)
(* the file, if it parses, are scheduled.                                  *)
Restart ==
    LET cut == {r \in Request : Busy(r)} IN
    /\ restarts < MaxRestarts
    /\ restarts' = restarts + 1
    /\ \E file \in {tasks} \cup (IF \E r \in cut : at[r] = "opened" THEN {Torn} ELSE {}) :
          /\ tasks' = file
          /\ entries' = IF file \in {NoFile, Empty, Torn} THEN {} ELSE file
    /\ at' = [r \in Request |-> IF r \in cut THEN "refused" ELSE at[r]]
    /\ half' = {}
    /\ UNCHANGED <<list, wants, target, gone, ghosts, met>>

Next == \/ \E r \in Request : \/ \E t \in Task : \/ handlePostSchedule(r, t)
                                                \/ handleDeleteSchedule(r, t)
                                                \/ handleRunSchedule(r, t)
                              \/ AddJob(r) \/ RemoveJob(r) \/ triggerScheduledTask(r)
                              \/ Truncate(r) \/ saveTasks(r) \/ SaveFails(r)
        \/ \E t \in Task : Fire(t)
        \/ Restart

Spec == Init /\ [][Next]_vars

-----------------------------------------------------------------------------
TypeOK ==
    /\ tasks \in (SUBSET Task) \cup {NoFile, Empty, Torn}
    /\ entries \subseteq Task
    /\ at \in [Request -> {"new", "loaded", "scheduled", "opened", "done", "refused"}]
    /\ list \in [Request -> SUBSET Task]
    /\ wants \in [Request -> {"none", "post", "delete", "run"}]
    /\ target \in [Request -> Task \cup {"none"}]
    /\ restarts \in 0..MaxRestarts
    /\ gone \subseteq Task /\ ghosts \subseteq Task /\ half \subseteq Task
    /\ met \in BOOLEAN

(* Requests one after the other: when none is on its way, what runs at its *)
(* time is what the file lists, but for tasks whose save failed.           *)
JobsMatchTasks ==
    ~met /\ Whole /\ (\A r \in Request : ~Busy(r))
        => entries \ half = loadTasks \ half

(* A task whose deletion was acknowledged is not started any more, not by  *)
(* its entry nor by a request, and no restart brings it back.              *)
DeletedStaysDeleted ==
    ~met => /\ ghosts = {}
            /\ gone \cap entries = {}
            /\ Whole => gone \cap loadTasks = {}

(* The two copies of the schedule.                                         *)
ScheduleSound == TypeOK /\ JobsMatchTasks /\ DeletedStaysDeleted
=============================================================================
