---------------------------- MODULE EditRollback ----------------------------
(***************************************************************************)
(* One file of a workspace under the editing tools of one agent.  For      *)
(* write_file and edit_file executeCoreLoop keeps a backup, validates what *)
(* was written, counts the failed validations in a row (linterFailures)    *)
(* and rolls the third one back.  edit_file_by_line writes without any of  *)
(* this, and undo_last_edit restores whatever backup lies beside the file. *)
(***************************************************************************)
EXTENDS EditParams, Naturals

RollbackLimit == 3

Present == Content \union {Torn}

VARIABLES file,       \* what is on the disk
          bak,        \* what is on the disk beside it, as <path>.bak
          pc,         \* idle, begun (backup taken), written (not validated yet)
          kept,       \* backupContent; Absent without backup (~existedBefore)
          failures,   \* linterFailures of the file
          before,     \* history: the content before the last edit
          blind,      \* history: no backup was taken of a file that exists
          outdated,   \* history: an older backup may have been left
          crashes

vars == <<file, bak, pc, kept, failures, before, blind, outdated, crashes>>

Init ==
    /\ file \in Content \union {Absent} /\ bak = Absent
    /\ pc = "idle" /\ kept = Absent /\ failures = 0
    /\ before = file /\ blind = FALSE /\ outdated = FALSE /\ crashes = 0

-----------------------------------------------------------------------------
(* write_file and edit_file, called by executeCoreLoop.                    *)

(* Deviation: a backup that is there is not written again.                 *)
TakeFirstBackup ==
    IF file = Absent THEN bak' = bak /\ kept' = Absent
    ELSE bak' = (IF bak = Absent THEN file ELSE bak) /\ kept' = file

TakeBackup == IF file = Absent THEN bak' = bak /\ kept' = Absent
                               ELSE bak' = file /\ kept' = file

(* The arguments are JSON at once; or only after FixUnescapedQuotesInJSON, *)
(* and then no backup is taken and the file counts as new.                 *)
BeginEdit ==
    /\ pc = "idle"
    /\ pc' = "begun"
    /\ \/ /\ TakeBackup
          /\ blind' = FALSE
          /\ outdated' = (outdated /\ file = Absent)
       \/ /\ kept' = Absent /\ UNCHANGED bak
          /\ blind' = (file # Absent)
          /\ outdated' = (outdated \/ blind')
    /\ UNCHANGED <<file, failures, before, crashes>>

(* Success = FALSE: nothing matches, too much matches, no such file.       *)
Refuse ==
    /\ pc = "begun"
    /\ pc' = "idle"
    /\ UNCHANGED <<file, bak, kept, failures, before, blind, outdated, crashes>>

(* edit_file takes a backup of its own.  c is the content after            *)
(* runAutoFormatter.                                                       *)
Write(c) ==
    /\ pc = "begun"
    /\ pc' = "written"
    /\ file' = c
    /\ bak' \in (IF file = Absent THEN {bak} ELSE {bak, file})
    /\ before' = file
    /\ UNCHANGED <<kept, failures, blind, outdated, crashes>>

(* Only the loop's own backup is removed.                                  *)
DropBackup == bak' = IF kept # Absent THEN Absent ELSE bak

Accept ==
    /\ pc = "written" /\ file \in Valid
    /\ pc' = "idle"
    /\ failures' = 0
    /\ DropBackup
    /\ UNCHANGED <<file, kept, before, blind, outdated, crashes>>

Reject ==
    /\ pc = "written" /\ file \notin Valid
    /\ failures + 1 < RollbackLimit
    /\ pc' = "idle"
    /\ failures' = failures + 1
    /\ DropBackup
    /\ UNCHANGED <<file, kept, before, blind, outdated, crashes>>

(* Deviation: a file that did not exist before is left where it is.        *)
RollBackExisting ==
    /\ pc = "written" /\ file \notin Valid
    /\ failures + 1 >= RollbackLimit
    /\ pc' = "idle"
    /\ file' = IF kept # Absent THEN kept ELSE file
    /\ failures' = 0
    /\ DropBackup
    /\ UNCHANGED <<kept, before, blind, outdated, crashes>>

(* backupContent is written back, or the file is removed.                  *)
RollBack ==
    /\ pc = "written" /\ file \notin Valid
    /\ failures + 1 >= RollbackLimit
    /\ pc' = "idle"
    /\ file' = kept
    /\ failures' = 0
    /\ DropBackup
    /\ UNCHANGED <<kept, before, blind, outdated, crashes>>

-----------------------------------------------------------------------------
(* The tools the loop does not look after.                                 *)

Unattended == pc = "idle" /\ UNCHANGED <<pc, kept, failures, blind, crashes>>

(* The backup is taken before start_line is compared with the file.        *)
EditByLine == /\ Unattended
              /\ file # Absent
              /\ bak' = file /\ outdated' = FALSE
              /\ \/ UNCHANGED <<file, before>>
                 \/ file' \in Content /\ before' = file

Undo == /\ Unattended
        /\ bak # Absent
        /\ file' = bak
        /\ bak' = Absent
        /\ UNCHANGED <<before, outdated>>

(* delete_file leaves the backup of the file where it is.                  *)
Delete == /\ Unattended
          /\ file # Absent
          /\ file' = Absent
          /\ before' = file
          /\ outdated' = (bak # Absent)
          /\ UNCHANGED bak

-----------------------------------------------------------------------------
(* The process dies, within the write of the backup or of the file         *)
(* perhaps; the next one starts with linterFailures empty.                 *)
Crash ==
    /\ crashes < MaxCrashes
    /\ crashes' = crashes + 1
    /\ pc' = "idle" /\ failures' = 0
    /\ \/ UNCHANGED <<file, bak, before, outdated>>
       \/ /\ pc = "begun" /\ kept # Absent
          /\ bak' = Torn /\ outdated' = TRUE
          /\ UNCHANGED <<file, before>>
       \/ /\ pc = "begun"
          /\ file' = Torn /\ before' = file
          /\ UNCHANGED <<bak, outdated>>
    /\ UNCHANGED <<kept, blind>>

Next == \/ BeginEdit \/ Refuse \/ (\E c \in Content : Write(c))
        \/ Accept \/ Reject \/ RollBack
        \/ EditByLine \/ Undo \/ Delete
        \/ Crash

Spec == Init /\ [][Next]_vars

-----------------------------------------------------------------------------
(* Properties.                                                             *)

(* Types; the failures in a row stay below the limit.                      *)
TypeOK ==
    /\ {file, bak, kept, before} \subseteq Present \union {Absent}
    /\ pc \in {"idle", "begun", "written"}
    /\ failures \in 0..RollbackLimit-1
    /\ blind \in BOOLEAN /\ outdated \in BOOLEAN
    /\ crashes \in 0..MaxCrashes

(* "Reverte a última modificação [...] restaurando-o para o estado         *)
(* anterior": whatever tools were used, failed, or died half way,          *)
(* undo_last_edit takes back the last edit or nothing.  Only three steps   *)
(* leave an older backup: a blind edit, delete_file, and a death within    *)
(* the write of the backup.                                                *)
UndoTakesBackOneEdit == pc = "idle" /\ bak # Absent => bak \in {file, before} \/ outdated

RollsBack == /\ pc = "written" /\ pc' = "idle" /\ crashes' = crashes
             /\ failures + 1 >= RollbackLimit /\ file \notin Valid

(* "Suas modificações foram revertidas para o estado original": a rollback *)
(* leaves the file as the attempt that caused it found it: what was there  *)
(* before is there again, what was not is gone.                            *)
RollbackUndoesAttempt == [][RollsBack => file' = before]_vars

(* The same, where the loop took a backup or there was nothing to take.    *)
RollbackUndoesSeenAttempt == [][RollsBack /\ ~blind => file' = before]_vars

TornInWrite == pc = "begun" /\ pc' = "idle" /\ file' = Torn /\ file \in Content

(* A process that dies while it overwrites a file leaves the content it    *)
(* was overwriting beside it.                                              *)
DeathLeavesBackup == [][TornInWrite /\ ~blind => bak' = file]_vars
=============================================================================
