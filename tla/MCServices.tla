------------------------------ MODULE MCServices ------------------------------
(***************************************************************************)
(* What the agents and the daemon run and serve, for TLC: shell commands,  *)
(* terminals, MCP servers, event streams, editor buffers and the daemon    *)
(* process itself.  The components share no variable and no mutex, so      *)
(* their interleavings show nothing that each alone does not: "part" says  *)
(* which of them moves.                                                    *)
(***************************************************************************)
EXTENDS Naturals, Sequences, TLC

CONSTANTS None,
          Cmd, BgId, Workspace, Home, c1, c2, w1, w2,
          TermId, Session, Viewer, NoSession, TermCapacity, MaxChunks,
          Call, PipeCap, Server, Agent, MaxStarts,
          Watched, Ws, Pull, Ipc, WsCapacity, MaxEvents, MaxMoves,
          Update, NoContent, Subscriber, BufCapacity, MaxVersion,
          Daemon

VARIABLES part,
          activeProc, backgroundProcs, stage, id, running, reader, released,
          killing, killed, reported, reused, raced, terminalSessions, phase,
          shells, written, listeners, place, watched, outChan, closedChans,
          seen, lost, closer, mcpStage, pending, mcpChan, late, isClosed,
          stdin, stdout, read, server, listener, servers, starting, live,
          starts, tools, wsListeners, wsChan, writer, wsReader, current,
          moves, events, since, cut, stored, at, sends, todo, subscribers,
          bufChan, view, dropped, bufMet, dmnStage, pidFile, socket, api,
          grpc, streaming, cli, victim, dmnMet

(* Each command runs in a workspace of its own.                            *)
SomeHome == (c1 :> w1) @@ (c2 :> w2)

Procs == INSTANCE TerminalProcs
Terms == INSTANCE TerminalSessions WITH
    Capacity <- TermCapacity
Client == INSTANCE McpClient WITH
    stage <- mcpStage, chan <- mcpChan
Servers == INSTANCE McpManager
Streams == INSTANCE EventStreams WITH
    Workspace <- Watched, Capacity <- WsCapacity, listeners <- wsListeners,
    chan <- wsChan, reader <- wsReader
Buffers == INSTANCE BufferSync WITH
    Capacity <- BufCapacity, chan <- bufChan, met <- bufMet
Daemons == INSTANCE DaemonLifecycle WITH
    stage <- dmnStage, met <- dmnMet

procsVars == <<activeProc, backgroundProcs, stage, id, running, reader,
               released, killing, killed, reported, reused, raced>>
termsVars == <<terminalSessions, phase, shells, written, listeners, place,
               watched, outChan, closedChans, seen, lost, closer>>
clientVars == <<mcpStage, pending, mcpChan, late, isClosed, stdin, stdout,
                read, server, listener>>
serversVars == <<servers, starting, live, starts, tools>>
streamsVars == <<wsListeners, wsChan, writer, wsReader, current, moves,
                 events, since, cut>>
buffersVars == <<stored, at, sends, todo, subscribers, bufChan, view, dropped,
                 bufMet>>
daemonsVars == <<dmnStage, pidFile, socket, api, grpc, streaming, cli, victim,
                 dmnMet>>
vars == <<part, procsVars, termsVars, clientVars, serversVars, streamsVars,
        buffersVars, daemonsVars>>

(* What stands for nobody is nobody, and the bounds are numbers.           *)
ProcApart == None \notin Cmd /\ None \notin BgId
TermApart == NoSession \notin Session /\ TermCapacity \in Nat /\ MaxChunks \in Nat
ClientBounds == PipeCap \in Nat
ServerNamed == None \notin Server /\ MaxStarts \in Nat
StreamBounds == WsCapacity \in Nat /\ MaxEvents \in Nat /\ MaxMoves \in Nat
BufferBounds == BufCapacity \in Nat /\ MaxVersion \in Nat
DaemonNamed == None \notin Daemon

ASSUME ServicesAssumption ==
    /\ ProcApart /\ TermApart /\ ClientBounds /\ ServerNamed
    /\ StreamBounds /\ BufferBounds /\ DaemonNamed

Init == /\ part \in {"commands", "terminals", "client", "servers", "streams",
                      "buffers", "daemons"}
        /\ Procs!Init
        /\ Terms!Init
        /\ Client!Init
        /\ Servers!Init
        /\ Streams!Init
        /\ Buffers!Init
        /\ Daemons!Init

InProcs(A) == /\ part = "commands" /\ A
              /\ UNCHANGED <<part, termsVars, clientVars, serversVars, streamsVars,
                             buffersVars, daemonsVars>>
InTerms(A) == /\ part = "terminals" /\ A
              /\ UNCHANGED <<part, procsVars, clientVars, serversVars, streamsVars,
                             buffersVars, daemonsVars>>
InClient(A) == /\ part = "client" /\ A
               /\ UNCHANGED <<part, procsVars, termsVars, serversVars, streamsVars,
                              buffersVars, daemonsVars>>
InServers(A) == /\ part = "servers" /\ A
                /\ UNCHANGED <<part, procsVars, termsVars, clientVars, streamsVars,
                               buffersVars, daemonsVars>>
InStreams(A) == /\ part = "streams" /\ A
                /\ UNCHANGED <<part, procsVars, termsVars, clientVars, serversVars,
                               buffersVars, daemonsVars>>
InBuffers(A) == /\ part = "buffers" /\ A
                /\ UNCHANGED <<part, procsVars, termsVars, clientVars, serversVars,
                               streamsVars, daemonsVars>>
InDaemons(A) == /\ part = "daemons" /\ A
                /\ UNCHANGED <<part, procsVars, termsVars, clientVars, serversVars,
                               streamsVars, buffersVars>>

Next == \/ InProcs(Procs!Next)
        \/ InTerms(Terms!Next)
        \/ InClient(Client!Next)
        \/ InServers(Servers!Next)
        \/ InStreams(Streams!Next)
        \/ InBuffers(Buffers!Next)
        \/ InDaemons(Daemons!Next)

(* The goroutine that waits for a background command is not held up; the   *)
(* deadline of a call passes and its caller runs; the steps of a stop and  *)
(* of "daemon stop" are taken.                                             *)
FairSpec ==
    /\ Init /\ [][Next]_vars
    /\ \A c \in Cmd : WF_vars(InProcs(Procs!Reap(c)))
    /\ \A c \in Call : /\ WF_vars(InClient(Client!Expire(c) /\ c \notin late))
                       /\ WF_vars(InClient(Client!Cancelled(c)))
                       /\ WF_vars(InClient(Client!Forget(c)))
    /\ \A d \in Daemon : WF_vars(InDaemons(Daemons!StopStep(d)))
    /\ WF_vars(InDaemons(Daemons!CliKill))

(* TerminalProcs: the slot holds the one foreground command, what runs on  *)
(* its own is in the table, and ends are reported.                         *)
CommandsAccounted == Procs!SlotIsTheForeground /\ Procs!CommandsAccounted
(* TerminalProcs: no dead command keeps its entry.                         *)
DeadEntryLeaves == Procs!DeadEntryLeaves
(* TerminalSessions: safe sends, no shell out of reach, no gap for a viewer. *)
TerminalsSound == Terms!TerminalsSound
(* McpClient, McpManager: a call that returned leaves no entry and never   *)
(* blocks the reader; no server runs outside the table.                    *)
McpSound == Client!PendingSound /\ Servers!NoOrphanServer
(* McpClient: a call whose request was written returns.                    *)
CallsReturn == Client!CallsReturn
(* EventStreams, BufferSync: events and contents reach who is subscribed.  *)
StreamsSound == Streams!StreamsSound /\ Buffers!SubscribersAgree
(* DaemonLifecycle: one daemon serves, and can be found.                   *)
OneDaemon == Daemons!OneDaemon
(* DaemonLifecycle: a stop comes to its end.                               *)
DaemonsEnd == Daemons!DaemonsEnd
=============================================================================
