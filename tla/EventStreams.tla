----------------------------- MODULE EventStreams -----------------------------
(***************************************************************************)
(* internal/daemon: the events of the agents on their way to the clients.  *)
(* The router (ipc.go) keeps the channels registered for each workspace    *)
(* and sends to them without waiting, under its mutex.  A WebSocket        *)
(* (handlers_ws.go) has one channel, that moves from workspace to          *)
(* workspace, a goroutine that reads its client's messages and one that    *)
(* writes; a gRPC or telemetry stream has one channel and one workspace;   *)
(* a run over the IPC socket has a channel until the run's last event.     *)
(***************************************************************************)
EXTENDS Naturals, Sequences, SequencesExt

CONSTANTS Workspace,
          Ws,        \* WebSocket connections
          Pull,      \* gRPC and telemetry streams
          Ipc,       \* runs asked for over the IPC socket
          None,      \* subscribed to no workspace yet
          Capacity,  \* of a channel
          MaxEvents, \* bound: events broadcast
          MaxMoves   \* bound: messages of a WebSocket client that move its channel

VARIABLES listeners, \* the router's table
          chan,      \* the channels
          writer,    \* the goroutine that writes: new, open, leaving or closed
          reader,    \* the one that reads: reading, moving, sending or gone
          current,   \* the workspace a WebSocket is subscribed to
          moves,     \* such messages so far
          events,    \* events so far
          since,     \* history: events before the last move
          cut        \* history: WebSockets that were closed before their reader ended

vars == <<listeners, chan, writer, reader, current, moves, events, since, cut>>

Stream == Ws \cup Pull \cup Ipc
Own == [n |-> 0, workspace |-> None, final |-> FALSE]

Init ==
    /\ listeners = [w \in Workspace |-> {}]
    /\ chan = [s \in Stream |-> <<>>]
    /\ writer = [s \in Stream |-> "new"]
    /\ reader = [s \in Ws |-> "gone"]
    /\ current = [s \in Stream |-> None]
    /\ moves = 0 /\ events = 0
    /\ since = [s \in Stream |-> 0]
    /\ cut = {}

Unregistered(s, w) == [v \in Workspace |-> IF v = w THEN listeners[v] \ {s} ELSE listeners[v]]
Registered(s, w) == [listeners EXCEPT ![w] = @ \cup {s}]

-----------------------------------------------------------------------------
(* A channel that is full misses the event.                                *)
Broadcast(w, final) ==
    LET event == [n |-> events + 1, workspace |-> w, final |-> final] IN
    /\ events < MaxEvents
    /\ events' = events + 1
    /\ chan' = [s \in Stream |-> IF s \in listeners[w] /\ Len(chan[s]) < Capacity
                                    THEN Append(chan[s], event) ELSE chan[s]]
    /\ UNCHANGED <<listeners, writer, reader, current, moves, since, cut>>

Connect(s) ==
    /\ s \in Ws
    /\ writer[s] = "new"
    /\ writer' = [writer EXCEPT ![s] = "open"]
    /\ reader' = [reader EXCEPT ![s] = "reading"]
    /\ UNCHANGED <<listeners, chan, current, moves, events, since, cut>>

(* StreamEvents, handleAgentTelemetryWS, "run" over the socket.            *)
StreamEvents(s, w) ==
    /\ s \in Pull \cup Ipc
    /\ writer[s] = "new"
    /\ writer' = [writer EXCEPT ![s] = "open"]
    /\ current' = [current EXCEPT ![s] = w]
    /\ listeners' = Registered(s, w)
    /\ UNCHANGED <<chan, reader, moves, events, since, cut>>

-----------------------------------------------------------------------------
(* "subscribe" and "run": the channel leaves one workspace ...             *)
Move(s, w) ==
    /\ reader[s] = "reading"
    /\ moves < MaxMoves
    /\ moves' = moves + 1
    /\ reader' = [reader EXCEPT ![s] = "moving"]
    /\ current' = [current EXCEPT ![s] = w]
    /\ since' = [since EXCEPT ![s] = events]
    /\ UNCHANGED <<chan, writer, events, cut>>

(* Deviation: the channel stays registered where it was.                   *)
SubscribeTwice(s, w) == Move(s, w) /\ UNCHANGED listeners

Subscribe(s, w) == Move(s, w) /\ listeners' = Unregistered(s, current[s])

(* ... and enters the other; a run is announced through the channel.       *)
Register(s) ==
    /\ reader[s] = "moving"
    /\ listeners' = Registered(s, current[s])
    /\ reader' \in {[reader EXCEPT ![s] = "reading"], [reader EXCEPT ![s] = "sending"]}
    /\ UNCHANGED <<chan, writer, current, moves, events, since, cut>>

(* An injected message or a stop is confirmed through the channel, too.    *)
Confirm(s) ==
    /\ reader[s] = "reading"
    /\ reader' = [reader EXCEPT ![s] = "sending"]
    /\ UNCHANGED <<listeners, chan, writer, current, moves, events, since, cut>>

(* The reader waits for room, even when nobody takes from the channel.     *)
Send(s) ==
    /\ reader[s] = "sending"
    /\ Len(chan[s]) < Capacity
    /\ chan' = [chan EXCEPT ![s] = Append(@, Own)]
    /\ reader' = [reader EXCEPT ![s] = "reading"]
    /\ UNCHANGED <<listeners, writer, current, moves, events, since, cut>>

(* The client has left or the connection is closed; until the reader sees  *)
(* it, it goes on with the messages it has.                                *)
ReadFails(s) ==
    /\ reader[s] = "reading"
    /\ reader' = [reader EXCEPT ![s] = "gone"]
    /\ UNCHANGED <<listeners, chan, writer, current, moves, events, since, cut>>

-----------------------------------------------------------------------------
(* The last event of a run ends its IPC stream.                            *)
Deliver(s) ==
    /\ writer[s] = "open"
    /\ chan[s] # <<>>
    /\ chan' = [chan EXCEPT ![s] = Tail(@)]
    /\ writer' = IF s \in Ipc /\ Head(chan[s]).final THEN [writer EXCEPT ![s] = "leaving"]
                                                     ELSE writer
    /\ UNCHANGED <<listeners, reader, current, moves, events, since, cut>>

(* The reader has ended; or a write failed, which an IPC stream ignores.   *)
Leave(s) ==
    /\ writer[s] = "open"
    /\ s \in Ws => reader[s] = "gone" \/ chan[s] # <<>>
    /\ writer' = [writer EXCEPT ![s] = "leaving"]
    /\ UNCHANGED <<listeners, chan, reader, current, moves, events, since, cut>>

(* The deferred call takes the workspace of this moment.                   *)
Unregister(s) ==
    /\ writer[s] = "leaving"
    /\ writer' = [writer EXCEPT ![s] = "closed"]
    /\ listeners' = Unregistered(s, current[s])
    /\ cut' = IF s \in Ws /\ reader[s] # "gone" THEN cut \cup {s} ELSE cut
    /\ UNCHANGED <<chan, reader, current, moves, events, since>>

(* The agent could not be started: the stream waits on, for no event.      *)
StartRefused(s) ==
    /\ s \in Ipc
    /\ writer[s] = "open"
    /\ listeners' = Unregistered(s, current[s])
    /\ UNCHANGED <<chan, writer, reader, current, moves, events, since, cut>>

Next == \/ \E w \in Workspace, final \in BOOLEAN : Broadcast(w, final)
        \/ \E s \in Ws : \/ Connect(s) \/ Register(s) \/ Confirm(s) \/ Send(s) \/ ReadFails(s)
                         \/ \E w \in Workspace : Subscribe(s, w)
        \/ \E s \in Stream : \/ Deliver(s) \/ Leave(s) \/ Unregister(s) \/ StartRefused(s)
                             \/ \E w \in Workspace : StreamEvents(s, w)

Spec == Init /\ [][Next]_vars

-----------------------------------------------------------------------------
Event == [n : 0..MaxEvents, workspace : Workspace \cup {None}, final : BOOLEAN]

TypeOK ==
    /\ listeners \in [Workspace -> SUBSET Stream]
    /\ \A s \in Stream : Len(chan[s]) <= Capacity /\ ToSet(chan[s]) \subseteq Event
    /\ writer \in [Stream -> {"new", "open", "leaving", "closed"}]
    /\ reader \in [Ws -> {"reading", "moving", "sending", "gone"}]
    /\ current \in [Stream -> Workspace \cup {None}]
    /\ moves \in 0..MaxMoves /\ events \in 0..MaxEvents
    /\ since \in [Stream -> 0..MaxEvents]
    /\ cut \subseteq Ws

(* A channel nobody takes from any more is in no workspace, unless its     *)
(* reader was still busy when the connection was closed; and none is ever  *)
(* in two.                                                                 *)
DeadChannelsLeave ==
    \A s \in Stream, v, w \in Workspace :
        /\ s \in listeners[v] /\ writer[s] = "closed" => s \in cut
        /\ s \in listeners[v] \cap listeners[w] => v = w

(* What enters a channel after a move is of the workspace it moved to:     *)
(* only what was in it before may still reach the client, who cannot tell. *)
EventsOfCurrent ==
    \A s \in Stream : \A e \in ToSet(chan[s]) : e.n > since[s] => e.workspace = current[s]

(* The events reach who asked for them, and nobody else.                   *)
StreamsSound == TypeOK /\ DeadChannelsLeave /\ EventsOfCurrent
=============================================================================
