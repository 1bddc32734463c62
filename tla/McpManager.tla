------------------------------ MODULE McpManager ------------------------------
(***************************************************************************)
(* internal/orchestrator/mcp_manager.go: the MCP servers of the daemon.    *)
(* A server is started under the mutex, which is held until the handshake  *)
(* and the list of its tools have succeeded or failed; the ones that did   *)
(* are in the table.  A run of an agent takes the tools of the servers it  *)
(* finds, and keeps them.  A server may die by itself: nobody notices.     *)
(***************************************************************************)
EXTENDS Naturals, FiniteSets

CONSTANTS Server,   \* names in the configuration
          Agent,    \* runs of agents
          None,     \* no server is being started
          MaxStarts \* bound: starts of a process or connection

VARIABLES servers,  \* the table: names
          starting, \* the server whose handshake holds the mutex
          live,     \* processes and connections that are open, per name
          starts,   \* starts so far
          tools     \* the servers whose tools each run has

vars == <<servers, starting, live, starts, tools>>

Init ==
    /\ servers = {}
    /\ starting = None
    /\ live = [s \in Server |-> 0]
    /\ starts = 0
    /\ tools = [a \in Agent |-> {}]

Free == starting = None

-----------------------------------------------------------------------------
(* A name that is in the table is refused, live or not.  A command that    *)
(* cannot be run, a wrong status, or neither command nor URL: no change.   *)
StartServer(s) ==
    /\ Free
    /\ s \notin servers
    /\ starts < MaxStarts
    /\ starts' = starts + 1
    /\ starting' = s
    /\ live' = [live EXCEPT ![s] = @ + 1]
    /\ UNCHANGED <<servers, tools>>

HandshakeDone ==
    /\ ~Free
    /\ servers' = servers \cup {starting}
    /\ starting' = None
    /\ UNCHANGED <<live, starts, tools>>

(* An error, the ten seconds of a call, or the death of the server.        *)
HandshakeFails ==
    /\ ~Free
    /\ live' = [live EXCEPT ![starting] = 0]
    /\ starting' = None
    /\ UNCHANGED <<servers, starts, tools>>

StopServer(s) ==
    /\ Free
    /\ s \in servers
    /\ servers' = servers \ {s}
    /\ live' = [live EXCEPT ![s] = 0]
    /\ UNCHANGED <<starting, starts, tools>>

StopAll ==
    /\ Free
    /\ servers # {}
    /\ servers' = {}
    /\ live' = [s \in Server |-> IF s \in servers THEN 0 ELSE live[s]]
    /\ UNCHANGED <<starting, starts, tools>>

Dies(s) ==
    /\ live[s] > 0
    /\ live' = [live EXCEPT ![s] = 0]
    /\ UNCHANGED <<servers, starting, starts, tools>>

(* StartAgent waits for the mutex.                                         *)
GetAllTools(a) ==
    /\ Free
    /\ tools' = [tools EXCEPT ![a] = servers]
    /\ UNCHANGED <<servers, starting, live, starts>>

Next == \/ \E s \in Server : StartServer(s) \/ StopServer(s) \/ Dies(s)
        \/ HandshakeDone \/ HandshakeFails
        \/ StopAll
        \/ \E a \in Agent : GetAllTools(a)

Spec == Init /\ [][Next]_vars

-----------------------------------------------------------------------------
TypeOK ==
    /\ servers \subseteq Server
    /\ starting \in Server \cup {None}
    /\ live \in [Server -> 0..MaxStarts]
    /\ starts \in 0..MaxStarts
    /\ tools \in [Agent -> SUBSET Server]

(* No process of a server runs outside the table, where StopAll would not  *)
(* find it, but the one whose handshake is under way; and no name has two. *)
NoOrphanServer ==
    /\ TypeOK
    /\ \A s \in Server : /\ live[s] <= 1
                         /\ live[s] > 0 => s \in servers \cup {starting}
=============================================================================
