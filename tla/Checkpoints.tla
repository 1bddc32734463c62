----------------------------- MODULE Checkpoints -----------------------------
(***************************************************************************)
(* internal/tools/checkpoint: checkpoints of a workspace and of the        *)
(* messages of its session.  In a git repository the files go into a stash *)
(* (which also takes them back to the last commit) and the messages into a *)
(* directory of the checkpoint under .crom; outside one only the messages  *)
(* are kept.  What git does is external.  Unless the repository ignores    *)
(* .crom, "stash -u" takes the other checkpoints' messages away as well.   *)
(***************************************************************************)
EXTENDS Naturals, Sequences

CONSTANTS CpName,    \* names of checkpoints
          Within,    \* Within[n]: the names that contain n
          NoMsgs,    \* no messages.json for this name
          MaxEdits   \* bound: changes of files or messages, and stashes less one

VARIABLES isGit,    \* the workspace is a git repository
          inPlace,  \* the process runs in the workspace
          ignored,  \* the repository ignores .crom
          tree,     \* the files: a version, 0 the last commit
          messages, \* the messages: a version
          stash,    \* the stash list, newest first: name and files
          stored,   \* the messages kept for each name
          edits,    \* changes so far
          created,  \* history: what the last checkpoint of each name was taken from
          clean,    \* history: names whose last checkpoint found no change of the files
          told      \* the answer of the last call: none, ok or error, and the name

vars == <<isGit, inPlace, ignored, tree, messages, stash, stored, edits, created, clean, told>>

Mixed == MaxEdits + 1
Nothing == [answer |-> "none"]

Init ==
    /\ isGit \in BOOLEAN
    /\ inPlace \in BOOLEAN
    /\ ignored \in BOOLEAN
    /\ tree = 0 /\ messages = 0
    /\ stash = <<>>
    /\ stored = [n \in CpName |-> NoMsgs]
    /\ edits = 0
    /\ created = [n \in CpName |-> Nothing]
    /\ clean = {}
    /\ told = Nothing

-----------------------------------------------------------------------------
EditFiles ==
    /\ edits < MaxEdits
    /\ edits' = edits + 1
    /\ tree' = edits + 1
    /\ told' = Nothing
    /\ UNCHANGED <<isGit, inPlace, ignored, messages, stash, stored, created, clean>>

Talk ==
    /\ edits < MaxEdits
    /\ edits' = edits + 1
    /\ messages' = edits + 1
    /\ told' = Nothing
    /\ UNCHANGED <<isGit, inPlace, ignored, tree, stash, stored, created, clean>>

(* With nothing to stash git succeeds and makes no entry; the session's    *)
(* own files are always there to stash when .crom is not ignored.          *)
NoStored == [n \in CpName |-> NoMsgs]

Stashed == isGit /\ (tree # 0 \/ ~ignored)

Create(n) ==
    /\ Len(stash) <= MaxEdits
    /\ IF Stashed
          THEN /\ stash' = <<[name |-> n, files |-> tree, kept |-> stored]>> \o stash
               /\ tree' = 0
          ELSE UNCHANGED <<stash, tree>>
    /\ stored' = [(IF Stashed /\ ~ignored THEN NoStored ELSE stored) EXCEPT ![n] = messages]
    /\ created' = [created EXCEPT ![n] = [answer |-> "ok", files |-> tree, msgs |-> messages]]
    /\ clean' = IF Stashed THEN clean \ {n} ELSE clean \cup {n}
    /\ told' = Nothing
    /\ UNCHANGED <<isGit, inPlace, ignored, messages, edits>>

(* The lines that contain the name.                                        *)
FoundBy(n) == {i \in 1..Len(stash) : stash[i].name \in Within[n]}

(* Deviation: the oldest entry of the name is applied.                     *)
findOldest(n) == CHOOSE i \in FoundBy(n) : \A j \in FoundBy(n) : i >= j

(* The first of them is taken.                                             *)
findStashByName(n) == CHOOSE i \in FoundBy(n) : \A j \in FoundBy(n) : i <= j

RestoreMessages(n) ==
    messages' = IF stored[n] = NoMsgs THEN messages ELSE stored[n]

(* reset and clean run in the directory of the process, not in that of the *)
(* workspace: elsewhere the stash meets what is there now, and git refuses *)
(* it, merges what it can, or fails half-way at files of .crom.            *)
ApplyStash(n, entry) ==
    \/ /\ inPlace \/ (ignored /\ tree = 0)
       /\ tree' = entry.files
       /\ stored' = IF ignored THEN stored ELSE entry.kept
       /\ told' = [answer |-> "ok", name |-> n]
    \/ /\ ~inPlace /\ ignored /\ tree # 0
       /\ \/ tree' = Mixed /\ told' = [answer |-> "ok", name |-> n]
          \/ tree' = tree /\ told' = [answer |-> "error", name |-> n]
       /\ UNCHANGED stored
    \/ /\ ~inPlace /\ ~ignored
       /\ tree' \in {tree, Mixed, entry.files}
       /\ told' = [answer |-> "error", name |-> n]
       /\ UNCHANGED stored

Restore(n) ==
    /\ RestoreMessages(n)
    /\ IF isGit /\ FoundBy(n) # {}
          THEN ApplyStash(n, stash[findStashByName(n)])
          ELSE /\ told' = [answer |-> IF isGit THEN "error" ELSE "ok", name |-> n]
               /\ UNCHANGED <<tree, stored>>
    /\ UNCHANGED <<isGit, inPlace, ignored, stash, edits, created, clean>>

Next == \/ EditFiles \/ Talk
        \/ \E n \in CpName : Create(n) \/ Restore(n)

Spec == Init /\ [][Next]_vars

-----------------------------------------------------------------------------
TypeOK ==
    /\ isGit \in BOOLEAN /\ inPlace \in BOOLEAN /\ ignored \in BOOLEAN
    /\ tree \in 0..Mixed /\ messages \in 0..MaxEdits /\ edits \in 0..MaxEdits
    /\ \A i \in 1..Len(stash) : stash[i].name \in CpName /\ stash[i].files \in 0..Mixed
    /\ stored \in [CpName -> 0..MaxEdits \cup {NoMsgs}]
    /\ clean \subseteq CpName

Unmistakable(n) == \A m \in CpName \ {n} : m \in Within[n] => created[m] = Nothing

(* A restore that reports success puts back the files and the messages     *)
(* that the last checkpoint of the name was taken from, provided that the  *)
(* process runs in the workspace, .crom is ignored, no other checkpoint's  *)
(* name contains the name, and that checkpoint had a change of the files   *)
(* to keep.                                                                *)
RestoreIsExact ==
    /\ TypeOK
    /\ told.answer = "ok" /\ isGit /\ inPlace /\ ignored
           /\ Unmistakable(told.name) /\ told.name \notin clean
           => /\ tree = created[told.name].files
              /\ messages = created[told.name].msgs
=============================================================================
