------------------------------ MODULE BufferSync ------------------------------
(***************************************************************************)
(* internal/state/buffer.go: the content of a file that an editor and the  *)
(* agents have open.  An update is stored under the mutex when its version *)
(* is not older, and sent to every subscriber afterwards, stored or not; a *)
(* patch takes the next version, and reads it again for the subscribers    *)
(* after it has given the mutex back.                                      *)
(***************************************************************************)
EXTENDS Naturals, Sequences

CONSTANTS Update,     \* calls of UpdateBuffer or ApplyPatch; also the content each leaves
          NoContent,  \* before the first
          Subscriber,
          Capacity,   \* of a subscriber's channel
          MaxVersion  \* bound: versions

VARIABLES stored,      \* content and version
          at,          \* new, stored, notifying or done, per call
          sends,       \* what a call sends
          todo,        \* the subscribers it has still to reach
          subscribers, \* who has a channel
          chan,        \* the channels
          view,        \* what each subscriber shows
          dropped,     \* history: subscribers a full channel cost an update
          met          \* history: two calls were between store and last send together

vars == <<stored, at, sends, todo, subscribers, chan, view, dropped, met>>

Blank == [content |-> NoContent, version |-> 0]

Init ==
    /\ stored = Blank
    /\ at = [u \in Update |-> "new"]
    /\ sends = [u \in Update |-> Blank]
    /\ todo = [u \in Update |-> {}]
    /\ subscribers = Subscriber
    /\ chan = [s \in Subscriber |-> <<>>]
    /\ view = [s \in Subscriber |-> Blank]
    /\ dropped = {}
    /\ met = FALSE

Under(u) == at[u] \in {"stored", "notifying"}
Reading == \E u \in Update : at[u] = "notifying"

-----------------------------------------------------------------------------
Enter(u) ==
    /\ at[u] = "new"
    /\ at' = [at EXCEPT ![u] = "stored"]
    /\ met' = (met \/ \E o \in Update : Under(o))
    /\ UNCHANGED <<todo, subscribers, chan, view, dropped>>

UpdateBuffer(u, n) ==
    /\ Enter(u)
    /\ stored' = IF n >= stored.version THEN [content |-> u, version |-> n] ELSE stored
    /\ sends' = [sends EXCEPT ![u] = [content |-> u, version |-> n]]

(* The target occurs once, or the patch is refused.                        *)
ApplyPatch(u) ==
    /\ stored # Blank
    /\ stored.version < MaxVersion
    /\ Enter(u)
    /\ stored' = [content |-> u, version |-> stored.version + 1]
    /\ sends' = [sends EXCEPT ![u] = [content |-> u, version |-> 0]]

(* The read lock; the version a patch announces is the one stored now.     *)
Notify(u) ==
    /\ at[u] = "stored"
    /\ at' = [at EXCEPT ![u] = "notifying"]
    /\ todo' = [todo EXCEPT ![u] = subscribers]
    /\ sends' = IF sends[u].version = 0 THEN [sends EXCEPT ![u].version = stored.version] ELSE sends
    /\ UNCHANGED <<stored, subscribers, chan, view, dropped, met>>

Reach(u, s) ==
    /\ at[u] = "notifying"
    /\ s \in todo[u]
    /\ todo' = [todo EXCEPT ![u] = @ \ {s}]
    /\ IF Len(chan[s]) < Capacity
          THEN chan' = [chan EXCEPT ![s] = Append(@, sends[u])] /\ UNCHANGED dropped
          ELSE dropped' = dropped \cup {s} /\ UNCHANGED chan
    /\ UNCHANGED <<stored, at, sends, subscribers, view, met>>

Notified(u) ==
    /\ at[u] = "notifying"
    /\ todo[u] = {}
    /\ at' = [at EXCEPT ![u] = "done"]
    /\ UNCHANGED <<stored, sends, todo, subscribers, chan, view, dropped, met>>

(* A subscriber shows what is not older than what it shows.                *)
Receive(s) ==
    /\ chan[s] # <<>>
    /\ chan' = [chan EXCEPT ![s] = Tail(@)]
    /\ view' = IF Head(chan[s]).version >= view[s].version
                  THEN [view EXCEPT ![s] = Head(chan[s])] ELSE view
    /\ UNCHANGED <<stored, at, sends, todo, subscribers, dropped, met>>

(* Unsubscribe waits for the readers of the lock, and closes the channel.  *)
Unsubscribe(s) ==
    /\ s \in subscribers
    /\ ~Reading
    /\ subscribers' = subscribers \ {s}
    /\ UNCHANGED <<stored, at, sends, todo, chan, view, dropped, met>>

Next == \/ \E u \in Update : \/ \E n \in 1..MaxVersion : UpdateBuffer(u, n)
                             \/ ApplyPatch(u) \/ Notify(u) \/ Notified(u)
                             \/ \E s \in Subscriber : Reach(u, s)
        \/ \E s \in Subscriber : Receive(s) \/ Unsubscribe(s)

Spec == Init /\ [][Next]_vars

-----------------------------------------------------------------------------
Held == [content : Update \cup {NoContent}, version : 0..MaxVersion]

TypeOK ==
    /\ stored \in Held
    /\ at \in [Update -> {"new", "stored", "notifying", "done"}]
    /\ sends \in [Update -> Held]
    /\ todo \in [Update -> SUBSET Subscriber]
    /\ subscribers \subseteq Subscriber
    /\ \A s \in Subscriber : Len(chan[s]) <= Capacity
    /\ view \in [Subscriber -> Held]
    /\ dropped \subseteq Subscriber
    /\ met \in BOOLEAN

(* A send never meets a closed channel, which would end the process; and   *)
(* when no two calls overlapped, a subscriber who missed nothing and has   *)
(* read everything shows what is stored.                                   *)
SubscribersAgree ==
    /\ TypeOK
    /\ \A u \in Update : todo[u] \subseteq subscribers
    /\ \A s \in subscribers \ dropped :
           ~met /\ chan[s] = <<>> /\ (\A u \in Update : ~Under(u)) => view[s] = stored
=============================================================================
