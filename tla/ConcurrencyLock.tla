--------------------------- MODULE ConcurrencyLock ---------------------------
(***************************************************************************)
(* internal/tools/concurrency_lock: advisory locks on files between the    *)
(* agents of a process.  A lock has an owner, the name the agent gives or  *)
(* that of its session, and the time it was taken; a goroutine sweeps the  *)
(* table every ten seconds and drops what is older than a minute.          *)
(***************************************************************************)
EXTENDS Naturals

CONSTANTS Agent,     \* agents that use the tool
          Path,      \* files
          OwnerOf,   \* the owner each agent acts as
          Default,   \* "default-orchestrator", when there is no name
          NoOwner,   \* no lock
          LockTTL,   \* the life of a lock, in ticks of the clock
          MaxAge     \* bound: ages beyond it are not told apart

VARIABLES locks,   \* the owner of the lock of each file
          age,     \* ticks since it was taken
          holds,   \* history: agents told that they own a lock they have not given back
          expired, \* history: those whose lock a sweep dropped
          ousted   \* history: those whose lock the default owner released

vars == <<locks, age, holds, expired, ousted>>

Init ==
    /\ locks = [p \in Path |-> NoOwner]
    /\ age = [p \in Path |-> 0]
    /\ holds = {}
    /\ expired = {}
    /\ ousted = {}

Holders(p) == {h \in holds : h[2] = p /\ OwnerOf[h[1]] = locks[p]}

-----------------------------------------------------------------------------
Grant(a, p) ==
    /\ holds' = holds \cup {<<a, p>>}
    /\ expired' = expired \ {<<a, p>>}
    /\ ousted' = ousted \ {<<a, p>>}

(* Only a new lock gets a time: an owner who asks again is told that the   *)
(* lock is already its own, and the minute is not begun anew.              *)
Acquire(a, p) ==
    \/ /\ locks[p] = NoOwner
       /\ locks' = [locks EXCEPT ![p] = OwnerOf[a]]
       /\ age' = [age EXCEPT ![p] = 0]
       /\ Grant(a, p)
    \/ /\ locks[p] = OwnerOf[a]
       /\ Grant(a, p)
       /\ UNCHANGED <<locks, age>>

(* Deviation: whoever asks may release.                                    *)
ReleaseAnyones(a, p) ==
    /\ locks' = [locks EXCEPT ![p] = NoOwner]
    /\ holds' = holds \ {<<a, p>>}
    /\ UNCHANGED <<age, expired, ousted>>

(* The owner, or the default owner, which also takes the locks of others.  *)
Release(a, p) ==
    /\ locks[p] # NoOwner => OwnerOf[a] \in {locks[p], Default}
    /\ locks' = [locks EXCEPT ![p] = NoOwner]
    /\ holds' = holds \ {<<a, p>>}
    /\ ousted' = (ousted \cup Holders(p)) \ {<<a, p>>}
    /\ UNCHANGED <<age, expired>>

Tick ==
    /\ \E p \in Path : locks[p] # NoOwner /\ age[p] < MaxAge
    /\ age' = [p \in Path |-> IF locks[p] = NoOwner \/ age[p] = MaxAge THEN age[p] ELSE age[p] + 1]
    /\ UNCHANGED <<locks, holds, expired, ousted>>

Sweep ==
    LET old == {p \in Path : locks[p] # NoOwner /\ age[p] > LockTTL} IN
    /\ old # {}
    /\ locks' = [p \in Path |-> IF p \in old THEN NoOwner ELSE locks[p]]
    /\ expired' = expired \cup UNION {Holders(p) : p \in old}
    /\ UNCHANGED <<age, holds, ousted>>

Next == \/ \E a \in Agent, p \in Path : Acquire(a, p) \/ Release(a, p)
        \/ Tick \/ Sweep

Spec == Init /\ [][Next]_vars

-----------------------------------------------------------------------------
TypeOK ==
    /\ locks \in [Path -> {OwnerOf[a] : a \in Agent} \cup {NoOwner}]
    /\ age \in [Path -> 0..MaxAge]
    /\ holds \subseteq Agent \X Path
    /\ expired \subseteq Agent \X Path /\ ousted \subseteq Agent \X Path

(* Two agents that act under different names both hold the lock of a file  *)
(* only when one of the locks had run out or the default owner released    *)
(* it: nothing else takes a lock away.                                     *)
LockExcludes ==
    TypeOK /\ \A h \in holds \ (expired \cup ousted) : locks[h[2]] = OwnerOf[h[1]]
=============================================================================
