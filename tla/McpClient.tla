------------------------------ MODULE McpClient ------------------------------
(***************************************************************************)
(* internal/mcp/client.go: JSON-RPC calls to an MCP server over the pipes  *)
(* of its process.  Each call has an id of its own, an entry in the table  *)
(* of pending calls and a channel for one answer; one goroutine reads the  *)
(* lines of the server and hands them over under the mutex.  Every caller  *)
(* of the program gives its context a deadline.  The server is external:   *)
(* it may answer late, twice or never, send requests of its own, write     *)
(* something too long to scan, stop reading, and die.                      *)
(***************************************************************************)
EXTENDS Naturals, Sequences

CONSTANTS Call,    \* calls; their ids
          PipeCap  \* lines a pipe holds

VARIABLES stage,     \* how far each call has come
          pending,   \* the table
          chan,      \* what is in the channel of each call
          late,      \* calls whose deadline has passed
          isClosed,  \* the client: no, flagged, yes (pipes closed)
          stdin,     \* calls written and not read by the server
          stdout,    \* lines the server wrote: the id and what it is
          read,      \* calls the server has read
          server,    \* up or dead
          listener   \* scanning or ended

vars == <<stage, pending, chan, late, isClosed, stdin, stdout, read, server, listener>>

Nothing == "empty"
Returned == {"answered", "failed", "cancelled"}

Init ==
    /\ stage = [c \in Call |-> "new"]
    /\ pending = {}
    /\ chan = [c \in Call |-> Nothing]
    /\ late = {}
    /\ isClosed = "no"
    /\ stdin = <<>> /\ stdout = <<>>
    /\ read = {}
    /\ server = "up"
    /\ listener = "scanning"

To(c, s) == stage' = [stage EXCEPT ![c] = s]
pipesUnchanged == UNCHANGED <<isClosed, stdin, stdout, read, server, listener>>

-----------------------------------------------------------------------------
(* Call: a closed client refuses.                                          *)
Register(c) ==
    /\ stage[c] = "new"
    /\ IF isClosed # "no" THEN To(c, "failed") /\ UNCHANGED pending
                          ELSE To(c, "registered") /\ pending' = pending \cup {c}
    /\ UNCHANGED <<chan, late>> /\ pipesUnchanged

PipeBroken == server = "dead" \/ isClosed = "yes"

(* The write blocks, deadline or not, while the pipe is full.              *)
Write(c) ==
    /\ stage[c] = "registered"
    /\ IF PipeBroken
          THEN /\ To(c, "failed")
               /\ pending' = pending \ {c}
               /\ UNCHANGED stdin
          ELSE /\ Len(stdin) < PipeCap
               /\ To(c, "waiting")
               /\ stdin' = Append(stdin, c)
               /\ UNCHANGED pending
    /\ UNCHANGED <<chan, late, isClosed, stdout, read, server, listener>>

Expire(c) ==
    /\ stage[c] \in {"registered", "waiting"}
    /\ late' = late \cup {c}
    /\ UNCHANGED <<stage, pending, chan>> /\ pipesUnchanged

(* Deviation: the deadline is looked at only while the client is open.     *)
CancelledWhileOpen(c) ==
    /\ stage[c] = "waiting"
    /\ c \in late
    /\ isClosed = "no"
    /\ To(c, "cancelling")
    /\ UNCHANGED <<pending, chan, late>> /\ pipesUnchanged

(* The answer and the deadline may both be there: select takes either.     *)
Answered(c) ==
    /\ stage[c] = "waiting"
    /\ chan[c] # Nothing
    /\ To(c, "answered")
    /\ chan' = [chan EXCEPT ![c] = Nothing]
    /\ UNCHANGED <<pending, late>> /\ pipesUnchanged

Cancelled(c) ==
    /\ stage[c] = "waiting"
    /\ c \in late
    /\ To(c, "cancelling")
    /\ UNCHANGED <<pending, chan, late>> /\ pipesUnchanged

(* Deviation: a cancelled call leaves its entry behind.                    *)
ForgetNothing(c) ==
    /\ stage[c] = "cancelling"
    /\ To(c, "cancelled")
    /\ UNCHANGED <<pending, chan, late>> /\ pipesUnchanged

Forget(c) ==
    /\ stage[c] = "cancelling"
    /\ To(c, "cancelled")
    /\ pending' = pending \ {c}
    /\ UNCHANGED <<chan, late>> /\ pipesUnchanged

(* Close: the flag first, then the pipes and the process.                  *)
Close ==
    /\ isClosed = "no"
    /\ isClosed' = "flagged"
    /\ UNCHANGED <<stage, pending, chan, late, stdin, stdout, read, server, listener>>

Kill ==
    /\ isClosed = "flagged"
    /\ isClosed' = "yes"
    /\ server' = "dead"
    /\ UNCHANGED <<stage, pending, chan, late, stdin, stdout, read, listener>>

-----------------------------------------------------------------------------
(* listen: a line whose id is pending goes to that call, whatever it is;   *)
(* the send is under the mutex and would block on a full channel.          *)
listen ==
    LET line == Head(stdout) IN
    /\ listener = "scanning"
    /\ isClosed # "yes"
    /\ stdout # <<>>
    /\ line.id \in pending => chan[line.id] = Nothing
    /\ stdout' = Tail(stdout)
    /\ IF line.id \in pending
          THEN /\ chan' = [chan EXCEPT ![line.id] = line.what]
               /\ pending' = pending \ {line.id}
          ELSE UNCHANGED <<chan, pending>>
    /\ UNCHANGED <<stage, late, isClosed, stdin, read, server, listener>>

(* The end of the output, a closed pipe or a line longer than the buffer   *)
(* of the scanner: the goroutine ends and tells nobody.                    *)
ListenerEnds ==
    /\ listener = "scanning"
    /\ \/ stdout = <<>> /\ server = "dead"
       \/ isClosed = "yes"
       \/ server = "up"
    /\ listener' = "ended"
    /\ UNCHANGED <<stage, pending, chan, late, isClosed, stdin, stdout, read, server>>

-----------------------------------------------------------------------------
ServerReads ==
    /\ server = "up"
    /\ stdin # <<>>
    /\ stdin' = Tail(stdin)
    /\ read' = read \cup {Head(stdin)}
    /\ UNCHANGED <<stage, pending, chan, late, isClosed, stdout, server, listener>>

ServerWrites(c, what) ==
    /\ server = "up"
    /\ Len(stdout) < PipeCap
    /\ what = "answer" => c \in read
    /\ stdout' = Append(stdout, [id |-> c, what |-> what])
    /\ UNCHANGED <<stage, pending, chan, late, isClosed, stdin, read, server, listener>>

ServerDies ==
    /\ server = "up"
    /\ server' = "dead"
    /\ UNCHANGED <<stage, pending, chan, late, isClosed, stdin, stdout, read, listener>>

Next ==
    \/ \E c \in Call : \/ Register(c) \/ Write(c) \/ Expire(c) \/ Answered(c)
                       \/ Cancelled(c) \/ Forget(c)
                       \/ \E what \in {"answer", "request"} : ServerWrites(c, what)
    \/ Close \/ Kill
    \/ listen \/ ListenerEnds
    \/ ServerReads \/ ServerDies

Spec == Init /\ [][Next]_vars

-----------------------------------------------------------------------------
TypeOK ==
    /\ stage \in [Call -> {"new", "registered", "waiting", "cancelling"} \cup Returned]
    /\ pending \subseteq Call
    /\ chan \in [Call -> {Nothing, "answer", "request"}]
    /\ late \subseteq Call /\ read \subseteq Call
    /\ isClosed \in {"no", "flagged", "yes"}
    /\ stdin \in Seq(Call) /\ Len(stdin) <= PipeCap
    /\ Len(stdout) <= PipeCap
    /\ server \in {"up", "dead"} /\ listener \in {"scanning", "ended"}

(* The goroutine that reads never blocks on a call, so that one call that  *)
(* gave up cannot hold up the others; and no call that has returned has an *)
(* entry in the table, whichever of answer, deadline and failure came      *)
(* first.                                                                  *)
PendingSound ==
    /\ TypeOK
    /\ \A c \in pending : chan[c] = Nothing /\ stage[c] \notin Returned \cup {"new"}

(* A call whose request was written returns, though the server dies, never *)
(* answers or ends the reader; one that waits for room in the pipe has no  *)
(* such promise.                                                           *)
CallsReturn ==
    \A c \in Call : stage[c] = "waiting" ~> stage[c] \in Returned
=============================================================================
