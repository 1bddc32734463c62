---------------------------- MODULE CompletionGate ----------------------------
(***************************************************************************)
(* internal/loop/agentic/core/execute_verification.go: what an answer      *)
(* without calls has to pass before the run may end.  In a Godot project   *)
(* what was built should have been tried (one reminder per history); the   *)
(* files that the user and the model announced (loop/planner.go) should be *)
(* on disk; and once the session has changed a file, the tests found in    *)
(* the workspace should pass.  History and counters outlive the run.       *)
(*                                                                         *)
(* A path is the sequence of its names.  Pending tasks are looked at       *)
(* before all this, in ReactLoop and Planner: of the plan only the task is *)
(* kept that failed tests add.                                             *)
(***************************************************************************)
EXTENDS Naturals, Sequences, SequencesExt

CONSTANTS Announceable, \* paths in texts, with prefixes the model makes up
          Place,        \* paths of the workspace's files, none a directory
          MaxSteps      \* bound: announcements and changes

Labels == {"NEW", "MODIFY", "DELETE"}
Suites == {"none", "passes", "fails", "slow"}

VARIABLES godot,     \* there is a project.godot
          announced, \* labels and paths in the texts of user and model
          used,      \* kinds of Godot tools that have answered
          nudged,    \* the reminder is in the history
          disk,      \* the files of the workspace
          touched,   \* FilesCreated > 0 or FilesValidated > 0
          suite,     \* what the workspace's tests do
          fix,       \* the correction task: absent, open or done
          pc,        \* works or over
          verdict,   \* of the last answer: none, verify, missing, tests, ended
          nudges,    \* history: reminders given
          owed,      \* history: paths announced and not written, or deleted since
          steps

project == <<godot, touched, suite>>
told == <<announced, used, nudged, nudges>>
vars == <<project, told, disk, fix, pc, verdict, owed, steps>>

Step == pc = "works" /\ steps < MaxSteps /\ steps' = steps + 1

Init ==
    /\ godot \in BOOLEAN
    /\ announced = {} /\ used = {} /\ nudged = FALSE
    /\ disk = {} /\ touched = FALSE /\ suite = "none"
    /\ fix = "absent" /\ pc = "works" /\ verdict = "none"
    /\ nudges = 0 /\ owed = {} /\ steps = 0

-----------------------------------------------------------------------------
(* A text of the user or the model has a label or a link with a path.       *)
Announce(label, p) ==
    /\ Step
    /\ announced' = announced \cup {<<label, p>>}
    /\ owed' = IF label # "DELETE" /\ Suffixes(p) \cap disk = {}
                  THEN owed \cup {p} ELSE owed
    /\ UNCHANGED <<project, used, nudged, nudges, disk, fix, pc, verdict>>

(* A file appears, or one that was there goes.                              *)
Appears(q) == /\ disk' = disk \cup {q}
              /\ owed' = {p \in owed : q \notin Suffixes(p)}
Goes(q) == /\ q \in disk
           /\ disk' = disk \ {q}
           /\ owed' = owed \cup {p \in Announceable : q \in Suffixes(p)
                                    /\ \E l \in Labels \ {"DELETE"} : <<l, p>> \in announced}

(* write_file or edit_file: counted before the file is validated.           *)
EditFile(q) ==
    /\ Step
    /\ Appears(q)
    /\ touched' = TRUE
    /\ suite' \in Suites
    /\ UNCHANGED <<godot, told, fix, pc, verdict>>

(* Commands, other tools and the user: not counted.                         *)
OtherChange(q) ==
    /\ Step
    /\ Appears(q) \/ Goes(q)
    /\ suite' \in Suites
    /\ UNCHANGED <<godot, touched, told, fix, pc, verdict>>

UseGodot(kind) ==
    /\ Step /\ godot
    /\ used' = used \cup {kind}
    /\ UNCHANGED <<project, announced, nudged, nudges, disk, fix, pc, verdict, owed>>

(* The model ticks the correction task.                                     *)
TickFix ==
    /\ Step /\ fix = "open"
    /\ fix' = "done"
    /\ UNCHANGED <<project, told, disk, pc, verdict, owed>>

-----------------------------------------------------------------------------
(* A path stands for any file that one of its ends names.                   *)
Resolves(p) == Suffixes(p) \cap disk # {}

(* DELETE is a label like the others.                                       *)
Missing == {p \in Announceable : (\E l \in Labels : <<l, p>> \in announced) /\ ~Resolves(p)}

GateGodot == godot /\ "build" \in used /\ "verify" \notin used /\ ~nudged

(* A test that takes more than ten seconds is killed, which is a failure;   *)
(* nothing is run in a Godot project.                                      *)
TestsFail == touched /\ ~godot /\ suite \in {"fails", "slow"}

(* An answer that gets past the pending tasks: they are done or dropped.    *)
Answer ==
    LET left == IF fix = "open" THEN "absent" ELSE fix IN
    /\ pc = "works"
    /\ verdict' = CASE GateGodot -> "verify"
                    [] ~GateGodot /\ Missing # {} -> "missing"
                    [] ~GateGodot /\ Missing = {} /\ TestsFail -> "tests"
                    [] OTHER -> "ended"
    /\ nudged' = (nudged \/ GateGodot)
    /\ nudges' = nudges + (IF GateGodot THEN 1 ELSE 0)
    /\ fix' = IF verdict' = "tests" /\ left = "absent" THEN "open" ELSE left
    /\ pc' = IF verdict' = "ended" THEN "over" ELSE "works"
    /\ UNCHANGED <<project, announced, used, disk, owed, steps>>

(* The next intent of the session.                                          *)
Intent ==
    /\ pc = "over"
    /\ pc' = "works" /\ verdict' = "none"
    /\ UNCHANGED <<project, told, disk, fix, owed, steps>>

Next == \/ \E label \in Labels, p \in Announceable : Announce(label, p)
        \/ \E q \in Place : EditFile(q) \/ OtherChange(q)
        \/ \E kind \in {"build", "verify"} : UseGodot(kind)
        \/ TickFix \/ Answer \/ Intent

Spec == Init /\ [][Next]_vars

-----------------------------------------------------------------------------
TypeOK ==
    /\ godot \in BOOLEAN /\ touched \in BOOLEAN /\ nudged \in BOOLEAN
    /\ announced \subseteq Labels \X Announceable
    /\ used \subseteq {"build", "verify"}
    /\ disk \subseteq Place /\ owed \subseteq Announceable
    /\ suite \in Suites /\ fix \in {"absent", "open", "done"}
    /\ pc \in {"works", "over"}
    /\ verdict \in {"none", "verify", "missing", "tests", "ended"}
    /\ nudges \in 0..1 /\ steps \in 0..MaxSteps

(* Over all runs of a session the reminder is given once, and a run ends    *)
(* only after it, or after a try, when something was built.                 *)
BuildsAreTried ==
    /\ nudges = 1 <=> nudged
    /\ verdict = "ended" /\ pc = "over" /\ godot /\ "build" \in used
          => nudged \/ "verify" \in used

(* A file that is asked for was announced and not written, or is gone      *)
(* again, whatever made-up prefix announced it; or it is one whose removal  *)
(* was announced: once removed, it is asked for for ever.                  *)
OnlyUnkeptPromisesSendBack ==
    Missing \subseteq owed \cup {p \in Announceable : <<"DELETE", p>> \in announced}

(* What a run passes before it ends.                                       *)
GateSound == TypeOK /\ BuildsAreTried /\ OnlyUnkeptPromisesSendBack
=============================================================================
