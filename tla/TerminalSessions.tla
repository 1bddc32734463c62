-------------------------- MODULE TerminalSessions --------------------------
(***************************************************************************)
(* internal/daemon/handlers_terminal.go: the interactive shells of the     *)
(* daemon.  A session is a shell on a pseudo-terminal with a goroutine     *)
(* that reads it; viewers are WebSocket connections, each with a channel   *)
(* the reader sends to without waiting.  terminalSessionsMu guards the     *)
(* table of sessions, a mutex per session its buffer and its listeners;    *)
(* the flag "closed" is also read without the latter.                      *)
(***************************************************************************)
EXTENDS Naturals, Sequences

CONSTANTS TermId,    \* terminal ids
          Session,   \* one element per call of NewTerminalSession
          Viewer,    \* WebSocket connections
          NoSession, \* no session
          Capacity,  \* capacity of a viewer's channel
          MaxChunks  \* bound: chunks of output of a session

VARIABLES terminalSessions, \* the table
          phase,            \* unused, open, closing or closed, per session
          shells,           \* sessions whose shell lives
          written,          \* chunks of output so far, per session
          listeners,        \* viewers registered with each session
          place,            \* away, found, attached, leaving or gone, per viewer
          watched,          \* the session of each viewer
          outChan,          \* the channel of each viewer
          closedChans,      \* viewers whose channel is closed
          seen,             \* the last chunk each viewer got
          lost,             \* history: viewers a chunk was dropped for
          closer            \* the session handleTerminalClose is closing, with
                            \* the table locked meanwhile

vars == <<terminalSessions, phase, shells, written, listeners, place, watched,
              outChan, closedChans, seen, lost, closer>>

Init ==
    /\ terminalSessions = [t \in TermId |-> NoSession]
    /\ phase = [s \in Session |-> "unused"]
    /\ shells = {}
    /\ written = [s \in Session |-> 0]
    /\ listeners = [s \in Session |-> {}]
    /\ place = [v \in Viewer |-> "away"]
    /\ watched = [v \in Viewer |-> NoSession]
    /\ outChan = [v \in Viewer |-> <<>>]
    /\ closedChans = {}
    /\ seen = [v \in Viewer |-> 0]
    /\ lost = {}
    /\ closer = NoSession

viewUnchanged == UNCHANGED <<outChan, closedChans, seen, lost>>

-----------------------------------------------------------------------------
(* A viewer comes: the session under its id is taken if it does not look   *)
(* closed.  Nothing orders the test after a Close the reader has begun, so *)
(* a session that is not open may look either way.                         *)
Find(v, t) ==
    LET s == terminalSessions[t] IN
    /\ place[v] = "away"
    /\ closer = NoSession
    /\ s # NoSession
    /\ place' = [place EXCEPT ![v] = "found"]
    /\ watched' = [watched EXCEPT ![v] = s]
    /\ UNCHANGED <<terminalSessions, phase, shells, written, listeners, closer>>
    /\ viewUnchanged

Open(v, t, s) ==
    /\ place[v] = "away"
    /\ closer = NoSession
    /\ terminalSessions[t] # NoSession => phase[terminalSessions[t]] # "open"
    /\ phase[s] = "unused"
    /\ phase' = [phase EXCEPT ![s] = "open"]
    /\ shells' = shells \cup {s}
    /\ terminalSessions' = [terminalSessions EXCEPT ![t] = s]
    /\ place' = [place EXCEPT ![v] = "found"]
    /\ watched' = [watched EXCEPT ![v] = s]
    /\ UNCHANGED <<written, listeners, closer>>
    /\ viewUnchanged

(* Deviation: the history is copied before the listener is registered.     *)
AttachLate(v) ==
    /\ place[v] = "found"
    /\ place' = [place EXCEPT ![v] = "attached"]
    /\ listeners' = [listeners EXCEPT ![watched[v]] = @ \cup {v}]
    /\ \E n \in 0..written[watched[v]] : seen' = [seen EXCEPT ![v] = n]
    /\ UNCHANGED <<terminalSessions, phase, shells, written, watched, outChan, closedChans,
                   lost, closer>>

(* Registered, with the history, in one critical section of the session.   *)
Attach(v) ==
    /\ place[v] = "found"
    /\ place' = [place EXCEPT ![v] = "attached"]
    /\ listeners' = [listeners EXCEPT ![watched[v]] = @ \cup {v}]
    /\ seen' = [seen EXCEPT ![v] = written[watched[v]]]
    /\ UNCHANGED <<terminalSessions, phase, shells, written, watched, outChan, closedChans,
                   lost, closer>>

(* The reader appends a chunk and offers it to each listener.              *)
Output(s) ==
    LET full == {v \in listeners[s] : Len(outChan[v]) = Capacity} IN
    /\ s \in shells
    /\ written[s] < MaxChunks
    /\ written' = [written EXCEPT ![s] = @ + 1]
    /\ outChan' = [v \in Viewer |-> IF v \in listeners[s] \ full
                                    THEN Append(outChan[v], written[s] + 1) ELSE outChan[v]]
    /\ lost' = lost \cup full
    /\ UNCHANGED <<terminalSessions, phase, shells, listeners, place, watched, closedChans,
                   seen, closer>>

(* The writing goroutine of a viewer.                                      *)
Show(v) ==
    /\ place[v] = "attached"
    /\ outChan[v] # <<>>
    /\ seen' = [seen EXCEPT ![v] = Head(outChan[v])]
    /\ outChan' = [outChan EXCEPT ![v] = Tail(@)]
    /\ UNCHANGED <<terminalSessions, phase, shells, written, listeners, place, watched,
                   closedChans, lost, closer>>

(* The connection is gone: off the list first, then the channel closes.    *)
Leave(v) ==
    /\ place[v] = "attached"
    /\ place' = [place EXCEPT ![v] = "leaving"]
    /\ listeners' = [listeners EXCEPT ![watched[v]] = @ \ {v}]
    /\ UNCHANGED <<terminalSessions, phase, shells, written, watched, closer>>
    /\ viewUnchanged

Left(v) ==
    /\ place[v] = "leaving"
    /\ place' = [place EXCEPT ![v] = "gone"]
    /\ closedChans' = closedChans \cup {v}
    /\ UNCHANGED <<terminalSessions, phase, shells, written, listeners, watched, outChan,
                   seen, lost, closer>>

-----------------------------------------------------------------------------
(* TerminalSession.Close, from the reader when the shell ends and from the *)
(* handler: only the first call does anything.                             *)
ReaderCloses(s) ==
    /\ phase[s] = "open"
    /\ phase' = [phase EXCEPT ![s] = "closing"]
    /\ UNCHANGED <<terminalSessions, shells, written, listeners, place, watched, closer>>
    /\ viewUnchanged

(* Kills the shell; closes the channels of the listeners and drops them.   *)
FinishClose(s) ==
    /\ phase[s] = "closing"
    /\ phase' = [phase EXCEPT ![s] = "closed"]
    /\ shells' = shells \ {s}
    /\ closedChans' = closedChans \cup listeners[s]
    /\ listeners' = [listeners EXCEPT ![s] = {}]
    /\ IF closer = s
          THEN /\ terminalSessions' = [t \in TermId |-> IF terminalSessions[t] = s
                                                        THEN NoSession
                                                        ELSE terminalSessions[t]]
               /\ closer' = NoSession
          ELSE UNCHANGED <<terminalSessions, closer>>
    /\ UNCHANGED <<written, place, watched, outChan, seen, lost>>

(* handleTerminalClose keeps the table locked until Close has returned.    *)
HandlerCloses(t) ==
    LET s == terminalSessions[t] IN
    /\ closer = NoSession
    /\ s # NoSession
    /\ IF phase[s] = "open"
          THEN /\ phase' = [phase EXCEPT ![s] = "closing"]
               /\ closer' = s
               /\ UNCHANGED terminalSessions
          ELSE /\ terminalSessions' = [terminalSessions EXCEPT ![t] = NoSession]
               /\ UNCHANGED <<phase, closer>>
    /\ UNCHANGED <<shells, written, listeners, place, watched>>
    /\ viewUnchanged

-----------------------------------------------------------------------------
Next == \/ \E v \in Viewer : \/ \E t \in TermId : Find(v, t)
                             \/ \E t \in TermId, s \in Session : Open(v, t, s)
                             \/ Attach(v) \/ Show(v) \/ Leave(v) \/ Left(v)
        \/ \E s \in Session : Output(s) \/ ReaderCloses(s) \/ FinishClose(s)
        \/ \E t \in TermId : HandlerCloses(t)

Spec == Init /\ [][Next]_vars

-----------------------------------------------------------------------------
TypeOK ==
    /\ terminalSessions \in [TermId -> Session \cup {NoSession}]
    /\ phase \in [Session -> {"unused", "open", "closing", "closed"}]
    /\ shells \subseteq Session
    /\ written \in [Session -> 0..MaxChunks]
    /\ listeners \in [Session -> SUBSET Viewer]
    /\ place \in [Viewer -> {"away", "found", "attached", "leaving", "gone"}]
    /\ watched \in [Viewer -> Session \cup {NoSession}]
    /\ \A v \in Viewer : Len(outChan[v]) <= Capacity
    /\ closedChans \subseteq Viewer /\ lost \subseteq Viewer
    /\ seen \in [Viewer -> 0..MaxChunks]
    /\ closer \in Session \cup {NoSession}

(* The reader never sends on a closed channel, which would end the daemon: *)
(* whoever is still on a list has an open channel.                         *)
SendsAreSafe == \A s \in Session : listeners[s] \cap closedChans = {}

(* A shell that nobody has begun to close can be reached under some id.    *)
NoOrphanShell == \A s \in Session : phase[s] = "open" =>
                     \E t \in TermId : terminalSessions[t] = s

(* A viewer for which nothing was dropped has seen, or has in its channel, *)
(* each chunk of its shell: between the history it was given and the first *)
(* chunk it is sent nothing is missing or double.                          *)
NothingSkipped ==
    \A s \in Session : \A v \in listeners[s] \ lost :
        outChan[v] = [i \in 1..(written[s] - seen[v]) |-> seen[v] + i]

(* The shells of the daemon: safe sends, no orphans, no gap for a viewer.  *)
TerminalsSound == TypeOK /\ SendsAreSafe /\ NoOrphanShell /\ NothingSkipped
=============================================================================
