------------------------------ MODULE Recordings ------------------------------
(***************************************************************************)
(* internal/daemon/agent_endpoints.go: the sound and screen recorders of   *)
(* the HTTP API, and the transcription of what they recorded.  A kind of   *)
(* recording has a mutex, which its handlers hold to their end, one        *)
(* process and one file in /tmp.  Transcriptions that no service makes     *)
(* share one temporary file and no mutex.                                  *)
(***************************************************************************)
EXTENDS Naturals

CONSTANTS Kind,    \* audio, screen
          Request, \* requests for a transcription
          NoTake,  \* no recording, or nobody's sound
          Torn,    \* a file opened for writing and not yet filled
          MaxTakes,   \* bound: recordings
          MaxRestarts \* bound: deaths of the daemon

VARIABLES cmd,      \* kind -> activeAudioCmd, activeScreenCmd
          recorder, \* kind -> recordings whose process runs
          file,     \* kind -> the recording its file in /tmp is of
          takes,    \* recordings so far
          restarts, \* deaths so far
          orphans,  \* recordings whose daemon died
          given,    \* the answers of handleRecordStop: what was asked, what was sent
          at,       \* request -> idle, open, filled, run or end
          keys,     \* request -> a key of a service is configured
          temp,     \* what crom_transcribe_temp.wav holds
          heard,    \* request -> whose sound its text is of
          met       \* requests that ran at the same time as another

vars == <<cmd, recorder, file, takes, restarts, orphans, given, at, keys, temp, heard, met>>

Init ==
    /\ cmd = [k \in Kind |-> NoTake]
    /\ recorder = [k \in Kind |-> {}]
    /\ file = [k \in Kind |-> NoTake]
    /\ takes = 0 /\ restarts = 0
    /\ orphans = {} /\ given = {}
    /\ at = [r \in Request |-> "idle"]
    /\ keys \in [Request -> BOOLEAN]
    /\ temp = NoTake
    /\ heard = [r \in Request |-> NoTake]
    /\ met = {}

transcripts == <<at, keys, temp, heard, met>>

-----------------------------------------------------------------------------
(* Deviation: what the recorder before has left in /tmp stays there.        *)
StartOverOld(k) ==
    /\ takes < MaxTakes
    /\ takes' = takes + 1
    /\ cmd' = [cmd EXCEPT ![k] = takes']
    /\ recorder' = [recorder EXCEPT ![k] = (@ \ {cmd[k]}) \cup {takes'}]
    /\ UNCHANGED <<file, restarts, orphans, given, transcripts>>

(* The recorder that runs is interrupted and waited for, and its file goes *)
(* before the new one starts or fails to.                                  *)
handleRecordStart(k) ==
    /\ takes < MaxTakes
    /\ takes' = takes + 1
    /\ \/ /\ cmd' = [cmd EXCEPT ![k] = takes']
          /\ recorder' = [recorder EXCEPT ![k] = (@ \ {cmd[k]}) \cup {takes'}]
       \/ /\ cmd' = [cmd EXCEPT ![k] = NoTake]
          /\ recorder' = [recorder EXCEPT ![k] = @ \ {cmd[k]}]
    /\ file' = [file EXCEPT ![k] = NoTake]
    /\ UNCHANGED <<restarts, orphans, given, transcripts>>

(* The recorder opens its file when it gets its device, or ends by itself. *)
Record(k, t) ==
    /\ t \in recorder[k]
    /\ \/ file[k] = NoTake /\ t = cmd[k] /\ file' = [file EXCEPT ![k] = t] /\ UNCHANGED recorder
       \/ recorder' = [recorder EXCEPT ![k] = @ \ {t}] /\ UNCHANGED file
    /\ UNCHANGED <<cmd, takes, restarts, orphans, given, transcripts>>

handleRecordStop(k) ==
    /\ cmd[k] # NoTake
    /\ cmd' = [cmd EXCEPT ![k] = NoTake]
    /\ recorder' = [recorder EXCEPT ![k] = @ \ {cmd[k]}]
    /\ given' = given \cup {[asked |-> cmd[k], sent |-> file[k]]}
    /\ file' = [file EXCEPT ![k] = NoTake]
    /\ UNCHANGED <<takes, restarts, orphans, transcripts>>

-----------------------------------------------------------------------------
Busy(r) == at[r] \notin {"idle", "end"}
Goes(r, from, to) == /\ at[r] = from
                     /\ at' = [at EXCEPT ![r] = to]
                     /\ UNCHANGED <<cmd, recorder, file, takes, restarts, orphans, given>>

(* A configured service transcribes the body of the request and nothing    *)
(* else, or the request fails.                                             *)
AskService(r) ==
    /\ keys[r]
    /\ Goes(r, "idle", "end")
    /\ heard' \in {[heard EXCEPT ![r] = r], heard}
    /\ UNCHANGED <<keys, temp, met>>

OpenTemp(r) ==
    /\ ~keys[r]
    /\ Goes(r, "idle", "open")
    /\ temp' = Torn
    /\ met' = met \cup (IF \E q \in Request \ {r} : Busy(q)
                           THEN {r} \cup {q \in Request : Busy(q)} ELSE {})
    /\ UNCHANGED <<keys, heard>>

(* Another request may have removed the name since, or opened the file     *)
(* again: then the sound goes nowhere, or into what is now the other's.    *)
FillTemp(r) ==
    /\ Goes(r, "open", "filled")
    /\ \/ temp # NoTake /\ temp' = r
       \/ r \in met /\ UNCHANGED temp
    /\ UNCHANGED <<keys, heard, met>>

(* transcribe.py reads the file; a missing or broken one is an error.      *)
Transcribe(r) ==
    /\ Goes(r, "filled", "run")
    /\ heard' = [heard EXCEPT ![r] = IF temp = Torn THEN NoTake ELSE temp]
    /\ UNCHANGED <<keys, temp, met>>

RemoveTemp(r) ==
    /\ Goes(r, "run", "end")
    /\ temp' = NoTake
    /\ UNCHANGED <<keys, heard, met>>

handleTranscribe(r) ==
    AskService(r) \/ OpenTemp(r) \/ FillTemp(r) \/ Transcribe(r) \/ RemoveTemp(r)

(* The daemon dies and is started again: its recorders go on without it.   *)
Restart ==
    /\ restarts < MaxRestarts
    /\ restarts' = restarts + 1
    /\ cmd' = [k \in Kind |-> NoTake]
    /\ orphans' = orphans \cup UNION {recorder[k] : k \in Kind}
    /\ at' = [r \in Request |-> IF Busy(r) THEN "end" ELSE at[r]]
    /\ UNCHANGED <<recorder, file, takes, given, keys, temp, heard, met>>

Next ==
    \/ \E k \in Kind : \/ handleRecordStart(k) \/ handleRecordStop(k)
                       \/ \E t \in 1..MaxTakes : Record(k, t)
    \/ \E r \in Request : handleTranscribe(r)
    \/ Restart

Spec == Init /\ [][Next]_vars

-----------------------------------------------------------------------------
TypeOK ==
    /\ \A k \in Kind : cmd[k] \in 1..MaxTakes \cup {NoTake}
    /\ temp \in Request \cup {NoTake, Torn}
    /\ \A r \in Request : heard[r] \in Request \cup {NoTake}

(* Who stops a recording gets the one that was started last, or an error.  *)
OwnRecording == \A g \in given : g.sent \in {g.asked, NoTake}

(* At most one recorder of a kind runs, but for those of a dead daemon,    *)
(* which nothing can stop any more.                                        *)
OneRecorder == \A k \in Kind : recorder[k] \ orphans \subseteq {cmd[k]}

(* A text is of the sound that was sent with its request, unless two       *)
(* requests without a service met in the temporary file.                   *)
OwnTranscript == \A r \in Request : heard[r] \in {r, NoTake} \/ r \in met

MediaIsOwn == TypeOK /\ OwnRecording /\ OneRecorder /\ OwnTranscript
=============================================================================
