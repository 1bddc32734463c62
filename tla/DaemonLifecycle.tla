--------------------------- MODULE DaemonLifecycle ---------------------------
(***************************************************************************)
(* internal/daemon/daemon.go and internal/cli/daemon.go: daemons that      *)
(* start and stop, and "daemon stop".  The PID file says who is running;   *)
(* a start reads it first and writes it later, then takes the socket, that *)
(* it removes from whoever has it, and the two ports, that it cannot take. *)
(* Stop runs in the goroutine that gets the signal; the process ends when  *)
(* its main goroutine sees the closed channels.                            *)
(***************************************************************************)
EXTENDS Naturals

CONSTANTS Daemon, \* processes; also their PIDs
          None    \* no file, or a port nobody has

VARIABLES stage,     \* how far each process has come
          pidFile,   \* the PID in the file
          socket,    \* whose socket the path leads to
          api, grpc, \* who has the ports
          streaming, \* daemons with a gRPC client that reads events
          cli,       \* daemon stop: idle, read, waiting, killed or done
          victim,    \* the PID it read
          met        \* history: a start met another start, a stop or a daemon stop

vars == <<stage, pidFile, socket, api, grpc, streaming, cli, victim, met>>

Gone == {"new", "gone"}
Alive(d) == stage[d] \notin Gone
Starting == {"checked", "written", "listening", "http", "served"}
Stopping == {"stopping", "noIpc", "noApi", "noGrpc", "quit", "cleaned"}

Init ==
    /\ stage = [d \in Daemon |-> "new"]
    /\ pidFile = None /\ socket = None /\ api = None /\ grpc = None
    /\ streaming = {}
    /\ cli = "idle" /\ victim = None
    /\ met = FALSE

To(d, s) == stage' = [stage EXCEPT ![d] = s]
filesUnchanged == UNCHANGED <<pidFile, socket>>
portsUnchanged == UNCHANGED <<api, grpc>>
restUnchanged == UNCHANGED <<cli, victim, met>>
Released(port, d) == IF port = d THEN None ELSE port

(* What the system takes back from a process that has ended.               *)
Ends(d) ==
    /\ To(d, "gone")
    /\ api' = Released(api, d) /\ grpc' = Released(grpc, d)
    /\ streaming' = streaming \ {d}

-----------------------------------------------------------------------------
(* isDaemonRunning: there is a file, and a process with its PID.           *)
Check(d) ==
    /\ stage[d] = "new"
    /\ IF pidFile # None /\ Alive(pidFile)
          THEN To(d, "gone") /\ UNCHANGED met
          ELSE /\ To(d, "checked")
               /\ met' = (met \/ cli \in {"read", "waiting", "killed"}
                              \/ \E o \in Daemon \ {d} : Alive(o))
    /\ UNCHANGED <<streaming, cli, victim>> /\ filesUnchanged /\ portsUnchanged

WritePid(d) ==
    /\ stage[d] = "checked"
    /\ To(d, "written")
    /\ pidFile' = d
    /\ UNCHANGED <<socket, streaming>> /\ portsUnchanged /\ restUnchanged

(* Deviation: a socket that is there is not removed.                       *)
ListenIfNone(d) ==
    /\ stage[d] = "written"
    /\ To(d, "listening")
    /\ socket' = IF socket = None THEN d ELSE socket
    /\ UNCHANGED <<pidFile, streaming>> /\ portsUnchanged /\ restUnchanged

(* ipc.Start removes the old socket and makes its own.                     *)
ListenIpc(d) ==
    /\ stage[d] = "written"
    /\ To(d, "listening")
    /\ socket' = d
    /\ UNCHANGED <<pidFile, streaming>> /\ portsUnchanged /\ restUnchanged

ListenApi(d) ==
    /\ stage[d] = "listening"
    /\ api = None
    /\ To(d, "http")
    /\ api' = d
    /\ UNCHANGED <<grpc, streaming>> /\ filesUnchanged /\ restUnchanged

ListenGrpc(d) ==
    /\ stage[d] = "http"
    /\ grpc = None
    /\ To(d, "served")
    /\ grpc' = d
    /\ UNCHANGED <<api, streaming>> /\ filesUnchanged /\ restUnchanged

(* The port is taken: cleanup removes the files, whosever they are.        *)
StartFails(d) ==
    /\ \/ stage[d] = "listening" /\ api # None
       \/ stage[d] = "http" /\ grpc # None
    /\ Ends(d)
    /\ pidFile' = None /\ socket' = None
    /\ restUnchanged

(* The MCP servers have been started; from here on signals are handled.    *)
HandleSignals(d) ==
    /\ stage[d] = "served"
    /\ To(d, "running")
    /\ UNCHANGED streaming /\ filesUnchanged /\ portsUnchanged /\ restUnchanged

-----------------------------------------------------------------------------
(* A client of StreamEvents comes, until GracefulStop, or goes.            *)
ClientStreams(d) ==
    /\ grpc = d
    /\ stage[d] \in {"served", "running", "stopping", "noIpc"}
    /\ streaming' = streaming \cup {d}
    /\ UNCHANGED stage /\ filesUnchanged /\ portsUnchanged /\ restUnchanged

ClientLeaves(d) ==
    /\ d \in streaming
    /\ streaming' = streaming \ {d}
    /\ UNCHANGED stage /\ filesUnchanged /\ portsUnchanged /\ restUnchanged

(* Before signals are handled they end the process; of those that follow   *)
(* the first nobody takes notice.                                          *)
Signalled(d) ==
    \/ /\ stage[d] \in Starting
       /\ Ends(d)
    \/ /\ stage[d] = "running"
       /\ To(d, "stopping")
       /\ UNCHANGED streaming /\ portsUnchanged
    \/ /\ stage[d] \in Stopping
       /\ UNCHANGED <<stage, streaming>> /\ portsUnchanged

Signal(d) == Signalled(d) /\ filesUnchanged /\ restUnchanged

(* Stop: the agents and MCP servers, the socket, the HTTP server, ...      *)
StopIpc(d) ==
    /\ stage[d] = "stopping"
    /\ To(d, "noIpc")
    /\ socket' = None
    /\ UNCHANGED <<pidFile, streaming>> /\ portsUnchanged /\ restUnchanged

StopApi(d) ==
    /\ stage[d] = "noIpc"
    /\ To(d, "noApi")
    /\ api' = None
    /\ UNCHANGED <<grpc, streaming>> /\ filesUnchanged /\ restUnchanged

(* ... and the gRPC server, which waits for its streams to end, ...        *)
StopGrpc(d) ==
    /\ stage[d] = "noApi"
    /\ d \notin streaming
    /\ To(d, "noGrpc")
    /\ grpc' = None
    /\ UNCHANGED <<api, streaming>> /\ filesUnchanged /\ restUnchanged

(* ... then the channels are closed and the files removed.                 *)
CloseQuit(d) ==
    /\ stage[d] = "noGrpc"
    /\ To(d, "quit")
    /\ UNCHANGED streaming /\ filesUnchanged /\ portsUnchanged /\ restUnchanged

cleanup(d) ==
    /\ stage[d] = "quit"
    /\ To(d, "cleaned")
    /\ pidFile' = None /\ socket' = None
    /\ UNCHANGED streaming /\ portsUnchanged /\ restUnchanged

(* The main goroutine returns, whether or not cleanup has run.             *)
Exit(d) ==
    /\ stage[d] \in {"quit", "cleaned"}
    /\ Ends(d)
    /\ filesUnchanged /\ restUnchanged

Crash(d) ==
    /\ Alive(d)
    /\ Ends(d)
    /\ filesUnchanged /\ restUnchanged

-----------------------------------------------------------------------------
(* daemon stop.                                                            *)
CliRead ==
    /\ cli = "idle"
    /\ victim' = pidFile
    /\ cli' = IF pidFile = None THEN "done" ELSE "read"
    /\ met' = (met \/ \E d \in Daemon : stage[d] \in Starting)
    /\ UNCHANGED <<stage, streaming>> /\ filesUnchanged /\ portsUnchanged

CliSignal ==
    /\ cli = "read"
    /\ IF Alive(victim)
          THEN Signalled(victim) /\ cli' = "waiting" /\ UNCHANGED pidFile
          ELSE pidFile' = None /\ cli' = "done" /\ UNCHANGED <<stage, streaming>> /\ portsUnchanged
    /\ UNCHANGED <<socket, victim, met>>

CliSeesEnd ==
    /\ cli = "waiting"
    /\ ~Alive(victim)
    /\ cli' = "done"
    /\ UNCHANGED <<stage, streaming, victim, met>> /\ filesUnchanged /\ portsUnchanged

(* Deviation: after five seconds it gives up.                              *)
GiveUp ==
    /\ cli = "waiting"
    /\ Alive(victim)
    /\ cli' = "done"
    /\ UNCHANGED <<stage, streaming, victim, met>> /\ filesUnchanged /\ portsUnchanged

CliKill ==
    /\ cli = "waiting"
    /\ Alive(victim)
    /\ Ends(victim)
    /\ cli' = "killed"
    /\ UNCHANGED <<victim, met>> /\ filesUnchanged

CliRemove ==
    /\ cli = "killed"
    /\ cli' = "done"
    /\ pidFile' = None
    /\ UNCHANGED <<stage, socket, streaming, victim, met>> /\ portsUnchanged

StopStep(d) == StopIpc(d) \/ StopApi(d) \/ StopGrpc(d) \/ CloseQuit(d) \/ Exit(d)

Next == \/ \E d \in Daemon : \/ Check(d) \/ WritePid(d) \/ ListenIpc(d) \/ ListenApi(d)
                             \/ ListenGrpc(d) \/ StartFails(d) \/ HandleSignals(d)
                             \/ ClientStreams(d) \/ ClientLeaves(d)
                             \/ Signal(d) \/ StopStep(d) \/ cleanup(d) \/ Crash(d)
        \/ CliRead \/ CliSignal \/ CliSeesEnd \/ CliKill \/ CliRemove

Spec == Init /\ [][Next]_vars

-----------------------------------------------------------------------------
TypeOK ==
    /\ stage \in [Daemon -> Gone \cup Starting \cup {"running"} \cup Stopping]
    /\ {pidFile, socket, api, grpc, victim} \subseteq Daemon \cup {None}
    /\ streaming \subseteq Daemon
    /\ cli \in {"idle", "read", "waiting", "killed", "done"}
    /\ met \in BOOLEAN

(* Two daemons never serve at once, however the starts interleave; and one *)
(* that runs is the one the PID file names and the socket leads to, unless *)
(* a start met another start or a stop: a start that fails then takes away *)
(* the files of the daemon that runs.                                      *)
OneDaemon ==
    /\ TypeOK
    /\ \A d, e \in Daemon : {stage[d], stage[e]} \subseteq {"served", "running"} => d = e
    /\ \A d \in Daemon : stage[d] = "running" /\ ~met => pidFile = d /\ socket = d

(* A daemon that stops ends once no client streams any more, and daemon    *)
(* stop ends the one it signalled in any case.                             *)
DaemonsEnd ==
    \A d \in Daemon :
        /\ stage[d] \in Stopping \ {"stopping", "noIpc"} /\ d \notin streaming ~> stage[d] = "gone"
        /\ cli = "waiting" /\ victim = d ~> stage[d] = "gone"
=============================================================================
