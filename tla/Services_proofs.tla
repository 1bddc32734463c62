------------------------------ MODULE Services_proofs ------------------------------
(***************************************************************************)
(* What the agents and the daemon run and serve: shell commands,           *)
(* terminals, MCP clients and servers, event streams, editor buffers and   *)
(* the daemon itself. For any sets of commands, terminals, calls, servers, *)
(* streams, updates and daemons, and any bounds.                           *)
(***************************************************************************)
EXTENDS MCServices, SequenceTheorems, TLAPS

-----------------------------------------------------------------------------
(* Unless two commands passed the test together, one at most is between the *)
(* test and the end of its wait; from its start on it has the slot.        *)
ProcClaims(c) == stage[c] \in {"admitted", "foreground", "detaching"}
ProcSlot == ~raced => /\ \A c, d \in Cmd : ProcClaims(c) /\ ProcClaims(d) => c = d
                      /\ \A c \in Procs!Foreground : activeProc = c

(* Who has an id: a command that was started, alone unless the id is reused. *)
ProcStarted == {"foreground", "detaching", "detached", "left", "background"}
ProcIds == /\ \A c \in Cmd : stage[c] \in {"unused", "admitted"} => id[c] = None
           /\ \A c \in Cmd : stage[c] \in ProcStarted => id[c] # None
           /\ \A c, d \in Cmd : id[c] = id[d] /\ id[c] # None /\ id[c] \notin reused => c = d
           /\ \A i \in BgId : Procs!Known(i) => id[backgroundProcs[i]] = i
           /\ killing # None => \E c \in Cmd : id[c] = killing

(* Where a command is tells who reads it and whether its process may live. *)
ProcPlaces == \A c \in Cmd :
    /\ c \in running => stage[c] \in {"foreground", "detaching", "detached", "background"}
    /\ stage[c] \in {"foreground", "detaching", "detached", "left"} => reader[c] # "none"
    /\ stage[c] \in {"unused", "admitted", "background"} => reader[c] = "none"
    /\ reader[c] = "delivered" => c \notin running
    /\ \A i \in BgId : backgroundProcs[i] = c =>
          stage[c] \in {"detached", "left", "background", "over"}

(* A command that runs by itself has its entry, until its process is gone; *)
(* the one whose entry kill is about to remove was killed.                 *)
ProcEntry(c) == backgroundProcs[id[c]] = c
ProcTabled == \A c \in Cmd : id[c] \notin reused =>
    /\ c \in running \ Procs!Foreground => ProcEntry(c)
    /\ stage[c] = "background" => ProcEntry(c) \/ c \in killed
    /\ id[c] = killing /\ killing # None => c \in killed \ running /\ ~ProcClaims(c)

ProcIInv == Procs!TypeOK /\ ProcSlot /\ ProcIds /\ ProcPlaces /\ ProcTabled /\
  Procs!EndIsReported

LEMMA ProcInitInv == ProcApart /\ Procs!Init => ProcIInv
<1> SUFFICES ASSUME ProcApart, Procs!Init PROVE ProcIInv
  OBVIOUS
<1>1. Procs!TypeOK
  BY DEF Procs!Init, Procs!TypeOK
<1>2. /\ \A c \in Cmd : stage[c] = "unused" /\ id[c] = None /\ reader[c] = "none"
      /\ activeProc = None /\ running = {} /\ killing = None /\ killed = {}
      /\ \A i \in BgId : backgroundProcs[i] = None
  BY DEF Procs!Init
<1>3. ProcSlot
  BY <1>2 DEF ProcSlot, ProcClaims, Procs!Foreground
<1>4. ProcIds
  BY <1>2 DEF ProcApart, ProcIds, ProcStarted, Procs!Known
<1>5. ProcPlaces
  BY <1>2 DEF ProcApart, ProcPlaces
<1>6. ProcTabled
  BY <1>2 DEF ProcTabled
<1>7. Procs!EndIsReported
  BY <1>2 DEF Procs!Init, Procs!EndIsReported
<1> QED BY <1>1, <1>3, <1>4, <1>5, <1>6, <1>7 DEF ProcIInv

-----------------------------------------------------------------------------
LEMMA ProcStepInv == ASSUME ProcApart, ProcIInv, [Procs!Next]_(Procs!vars) PROVE ProcIInv'
<1> USE DEF ProcApart
<1>0. Procs!TypeOK /\ ProcSlot /\ ProcIds /\ ProcPlaces /\ ProcTabled /\ Procs!EndIsReported
  BY DEF ProcIInv
<1>1. ASSUME NEW c \in Cmd, Procs!Admit(c) PROVE ProcIInv'
  <2>1. /\ stage[c] = "unused" /\ activeProc = None
        /\ stage' = [stage EXCEPT ![c] = "admitted"]
        /\ raced' = (raced \/ \E d \in Cmd : stage[d] = "admitted")
        /\ UNCHANGED <<activeProc, backgroundProcs, id, running, reader, released, killing,
                       killed, reported, reused>>
    BY <1>1 DEF Procs!Admit, Procs!To
  <2>2. Procs!TypeOK'
    BY <1>0, <2>1 DEF Procs!TypeOK
  <2>3. ProcSlot'
    BY <1>0, <2>1 DEF Procs!TypeOK, ProcSlot, ProcClaims, Procs!Foreground
  <2>4. ProcIds'
    BY <1>0, <2>1 DEF Procs!TypeOK, ProcIds, ProcStarted, Procs!Known
  <2>5. ProcPlaces'
    BY <1>0, <2>1 DEF Procs!TypeOK, ProcPlaces, ProcIds, ProcStarted, Procs!Known
  <2>6. ProcTabled'
    BY <1>0, <2>1
       DEF Procs!TypeOK, ProcTabled, ProcEntry, ProcClaims, Procs!Foreground, ProcIds,
           ProcStarted, Procs!Known, ProcPlaces
  <2>7. Procs!EndIsReported'
    BY <1>0, <2>1
       DEF Procs!TypeOK, Procs!EndIsReported, ProcIds, ProcStarted, Procs!Known, ProcPlaces,
           ProcTabled, ProcEntry
  <2> QED BY <2>2, <2>3, <2>4, <2>5, <2>6, <2>7 DEF ProcIInv
<1>2. ASSUME NEW c \in Cmd, Procs!StartFails(c) PROVE ProcIInv'
  <2>1. /\ stage[c] = "admitted" /\ stage' = [stage EXCEPT ![c] = "over"]
        /\ UNCHANGED <<activeProc, backgroundProcs, id, running, reader, released, killing,
                       killed, reported, reused, raced>>
    BY <1>2 DEF Procs!StartFails, Procs!To, Procs!history
  <2>2. Procs!TypeOK'
    BY <1>0, <2>1 DEF Procs!TypeOK
  <2>3. ProcSlot'
    BY <1>0, <2>1 DEF Procs!TypeOK, ProcSlot, ProcClaims, Procs!Foreground
  <2>4. ProcIds'
    BY <1>0, <2>1 DEF Procs!TypeOK, ProcIds, ProcStarted, Procs!Known
  <2>5. ProcPlaces'
    BY <1>0, <2>1 DEF Procs!TypeOK, ProcPlaces, ProcIds, ProcStarted, Procs!Known
  <2>6. ProcTabled'
    BY <1>0, <2>1
       DEF Procs!TypeOK, ProcTabled, ProcEntry, ProcClaims, Procs!Foreground, ProcIds,
           ProcStarted, Procs!Known, ProcPlaces
  <2>7. Procs!EndIsReported'
    BY <1>0, <2>1
       DEF Procs!TypeOK, Procs!EndIsReported, ProcIds, ProcStarted, Procs!Known, ProcPlaces,
           ProcTabled, ProcEntry
  <2> QED BY <2>2, <2>3, <2>4, <2>5, <2>6, <2>7 DEF ProcIInv
<1>3. ASSUME NEW c \in Cmd, NEW i \in BgId, Procs!StartForeground(c, i) PROVE ProcIInv'
  <2>1. /\ stage[c] = "admitted" /\ stage' = [stage EXCEPT ![c] = "foreground"]
        /\ id' = [id EXCEPT ![c] = i] /\ activeProc' = c
        /\ running' = running \cup {c} /\ reader' = [reader EXCEPT ![c] = "reading"]
        /\ reused' = IF \E d \in Cmd : id[d] = i THEN reused \cup {i} ELSE reused
        /\ UNCHANGED <<backgroundProcs, released, killing, killed, reported, raced>>
    BY <1>3 DEF Procs!StartForeground, Procs!Named, Procs!To
  <2>2. reused' \subseteq BgId /\ reused \subseteq reused' /\ \A d \in Cmd : id[d] = i =>
        i \in reused'
    BY <1>3, <2>1, <1>0 DEF Procs!TypeOK
  <2>3. \A j \in BgId : backgroundProcs[j] # c
    BY <1>3, <2>1, <1>0 DEF ProcPlaces, Procs!TypeOK
  <2>4. Procs!TypeOK'
    BY <1>0, <2>1, <2>2, <2>3 DEF Procs!TypeOK
  <2>5. ProcSlot'
    BY <1>0, <2>1, <2>2, <2>3 DEF Procs!TypeOK, ProcSlot, ProcClaims, Procs!Foreground
  <2>6. ProcIds'
    BY <1>0, <2>1, <2>2, <2>3 DEF Procs!TypeOK, ProcIds, ProcStarted, Procs!Known
  <2>7. ProcPlaces'
    BY <1>0, <2>1, <2>2, <2>3
       DEF Procs!TypeOK, ProcPlaces, ProcIds, ProcStarted, Procs!Known
  <2>8. ProcTabled'
    BY <1>0, <2>1, <2>2, <2>3
       DEF Procs!TypeOK, ProcTabled, ProcEntry, ProcClaims, Procs!Foreground, ProcIds,
           ProcStarted, Procs!Known, ProcPlaces
  <2>9. Procs!EndIsReported'
    BY <1>0, <2>1, <2>2, <2>3
       DEF Procs!TypeOK, Procs!EndIsReported, ProcIds, ProcStarted, Procs!Known, ProcPlaces,
           ProcTabled, ProcEntry
  <2> QED BY <2>4, <2>5, <2>6, <2>7, <2>8, <2>9 DEF ProcIInv
<1>4. ASSUME NEW c \in Cmd, NEW i \in BgId, Procs!StartBackground(c, i) PROVE ProcIInv'
  <2>1. /\ stage[c] = "unused" /\ stage' = [stage EXCEPT ![c] = "background"]
        /\ id' = [id EXCEPT ![c] = i] /\ running' = running \cup {c}
        /\ backgroundProcs' = [backgroundProcs EXCEPT ![i] = c]
        /\ reused' = IF \E d \in Cmd : id[d] = i THEN reused \cup {i} ELSE reused
        /\ UNCHANGED <<activeProc, reader, released, killing, killed, reported, raced>>
    BY <1>4 DEF Procs!StartBackground, Procs!Named, Procs!To
  <2>2. reused' \subseteq BgId /\ reused \subseteq reused' /\ \A d \in Cmd : id[d] = i =>
        i \in reused'
    BY <1>4, <2>1, <1>0 DEF Procs!TypeOK
  <2>3. \A j \in BgId : backgroundProcs[j] # c
    BY <1>4, <2>1, <1>0 DEF ProcPlaces, Procs!TypeOK
  <2>4. Procs!TypeOK'
    BY <1>0, <2>1, <2>2, <2>3 DEF Procs!TypeOK
  <2>5. ProcSlot'
    BY <1>0, <2>1, <2>2, <2>3 DEF Procs!TypeOK, ProcSlot, ProcClaims, Procs!Foreground
  <2>6. ProcIds'
    BY <1>0, <2>1, <2>2, <2>3 DEF Procs!TypeOK, ProcIds, ProcStarted, Procs!Known
  <2>7. ProcPlaces'
    BY <1>0, <2>1, <2>2, <2>3
       DEF Procs!TypeOK, ProcPlaces, ProcIds, ProcStarted, Procs!Known
  <2>8. ProcTabled'
    BY <1>0, <2>1, <2>2, <2>3
       DEF Procs!TypeOK, ProcTabled, ProcEntry, ProcClaims, Procs!Foreground, ProcIds,
           ProcStarted, Procs!Known, ProcPlaces
  <2>9. Procs!EndIsReported'
    BY <1>0, <2>1, <2>2, <2>3
       DEF Procs!TypeOK, Procs!EndIsReported, ProcIds, ProcStarted, Procs!Known, ProcPlaces,
           ProcTabled, ProcEntry
  <2> QED BY <2>4, <2>5, <2>6, <2>7, <2>8, <2>9 DEF ProcIInv
<1>5. ASSUME NEW c \in Cmd, Procs!ProcessExits(c) \/ Procs!ReaderDelivers(c) \/
      Procs!ReaderQuits(c) \/ Procs!ReaderAborts(c)
      PROVE  ProcIInv'
  BY <1>0, <1>5
     DEF Procs!ProcessExits, Procs!ReaderDelivers, Procs!ReaderQuits, Procs!ReaderAborts,
         ProcIInv, Procs!TypeOK, ProcSlot, ProcClaims, Procs!Foreground, ProcIds,
         ProcStarted, Procs!Known, ProcPlaces, ProcTabled, ProcEntry, Procs!EndIsReported,
         Procs!history
<1>6. ASSUME NEW c \in Cmd, Procs!ReaderReports(c) PROVE ProcIInv'
  <2>1. /\ reader[c] = "reading" /\ c \notin running
        /\ stage[c] \in {"detaching", "detached", "left"}
        /\ reader' = [reader EXCEPT ![c] = "gone"]
        /\ backgroundProcs' = [backgroundProcs EXCEPT ![id[c]] = None]
        /\ reported' = IF Procs!Known(id[c]) THEN reported \cup {c} ELSE reported
        /\ UNCHANGED <<activeProc, stage, id, running, released, killing, killed, reused,
           raced>>
    BY <1>6 DEF Procs!ReaderReports, Procs!Detached, Procs!Retire
  <2>2. id[c] \in BgId
    BY <1>6, <2>1, <1>0 DEF Procs!TypeOK, ProcIds, ProcStarted
  <2>3. Procs!TypeOK'
    BY <1>0, <2>1, <2>2 DEF Procs!TypeOK
  <2>4. ProcSlot'
    BY <1>0, <2>1, <2>2 DEF Procs!TypeOK, ProcSlot, ProcClaims, Procs!Foreground
  <2>5. ProcIds'
    BY <1>0, <2>1, <2>2 DEF Procs!TypeOK, ProcIds, ProcStarted, Procs!Known
  <2>6. ProcPlaces'
    BY <1>0, <2>1, <2>2 DEF Procs!TypeOK, ProcPlaces, ProcIds, ProcStarted, Procs!Known
  <2>7. ProcTabled'
    BY <1>0, <2>1, <2>2
       DEF Procs!TypeOK, ProcTabled, ProcEntry, ProcClaims, Procs!Foreground, ProcIds,
           ProcStarted, Procs!Known, ProcPlaces
  <2>8. Procs!EndIsReported'
    BY <1>0, <2>1, <2>2
       DEF Procs!TypeOK, Procs!EndIsReported, ProcIds, ProcStarted, Procs!Known, ProcPlaces,
           ProcTabled, ProcEntry
  <2> QED BY <2>3, <2>4, <2>5, <2>6, <2>7, <2>8 DEF ProcIInv
<1>7. ASSUME NEW c \in Cmd, Procs!Reap(c) PROVE ProcIInv'
  <2>1. /\ stage[c] = "background" /\ c \notin running
        /\ stage' = [stage EXCEPT ![c] = "over"]
        /\ backgroundProcs' = [backgroundProcs EXCEPT ![id[c]] = None]
        /\ reported' = IF Procs!Known(id[c]) THEN reported \cup {c} ELSE reported
        /\ UNCHANGED <<activeProc, id, running, reader, released, killing, killed, reused,
           raced>>
    BY <1>7 DEF Procs!Reap, Procs!Retire, Procs!To
  <2>2. id[c] \in BgId
    BY <1>7, <2>1, <1>0 DEF Procs!TypeOK, ProcIds, ProcStarted
  <2>3. Procs!TypeOK'
    BY <1>0, <2>1, <2>2 DEF Procs!TypeOK
  <2>4. ProcSlot'
    BY <1>0, <2>1, <2>2 DEF Procs!TypeOK, ProcSlot, ProcClaims, Procs!Foreground
  <2>5. ProcIds'
    BY <1>0, <2>1, <2>2 DEF Procs!TypeOK, ProcIds, ProcStarted, Procs!Known
  <2>6. ProcPlaces'
    BY <1>0, <2>1, <2>2 DEF Procs!TypeOK, ProcPlaces, ProcIds, ProcStarted, Procs!Known
  <2>7. ProcTabled'
    BY <1>0, <2>1, <2>2
       DEF Procs!TypeOK, ProcTabled, ProcEntry, ProcClaims, Procs!Foreground, ProcIds,
           ProcStarted, Procs!Known, ProcPlaces
  <2>8. Procs!EndIsReported'
    BY <1>0, <2>1, <2>2
       DEF Procs!TypeOK, Procs!EndIsReported, ProcIds, ProcStarted, Procs!Known, ProcPlaces,
           ProcTabled, ProcEntry
  <2> QED BY <2>3, <2>4, <2>5, <2>6, <2>7, <2>8 DEF ProcIInv
<1>8. ASSUME NEW c \in Cmd, Procs!Complete(c) \/ Procs!Abandon(c) PROVE ProcIInv'
  <2>1. /\ stage[c] = "foreground" /\ stage' = [stage EXCEPT ![c] = "over"]
        /\ running' \subseteq running /\ released' = released \cup {c} /\ activeProc' = None
        /\ c \in running' => reader[c] = "delivered"
        /\ UNCHANGED <<backgroundProcs, id, reader, killing, killed, reported, reused, raced>>
    BY <1>8 DEF Procs!Complete, Procs!Abandon, Procs!To, Procs!history
  <2>2. Procs!TypeOK'
    BY <1>0, <2>1 DEF Procs!TypeOK
  <2>3. ProcSlot'
    BY <1>0, <2>1 DEF Procs!TypeOK, ProcSlot, ProcClaims, Procs!Foreground
  <2>4. ProcIds'
    BY <1>0, <2>1 DEF Procs!TypeOK, ProcIds, ProcStarted, Procs!Known
  <2>5. ProcPlaces'
    BY <1>0, <2>1 DEF Procs!TypeOK, ProcPlaces, ProcIds, ProcStarted, Procs!Known
  <2>6. ProcTabled'
    BY <1>0, <2>1
       DEF Procs!TypeOK, ProcTabled, ProcEntry, ProcClaims, Procs!Foreground, ProcIds,
           ProcStarted, Procs!Known, ProcPlaces
  <2>7. Procs!EndIsReported'
    BY <1>0, <2>1
       DEF Procs!TypeOK, Procs!EndIsReported, ProcIds, ProcStarted, Procs!Known, ProcPlaces,
           ProcTabled, ProcEntry
  <2> QED BY <2>2, <2>3, <2>4, <2>5, <2>6, <2>7 DEF ProcIInv
<1>9. ASSUME NEW c \in Cmd, Procs!Detach(c) \/ Procs!CallEnds(c) PROVE ProcIInv'
  <2>1. /\ \/ stage[c] = "foreground" /\ stage' = [stage EXCEPT ![c] = "detaching"]
              /\ UNCHANGED <<running, released>>
           \/ stage[c] = "detached" /\ stage' = [stage EXCEPT ![c] = "left"]
              /\ running' = running \ {c} /\ released' = released \cup {c}
        /\ UNCHANGED <<activeProc, backgroundProcs, id, reader, killing, killed, reported,
           reused, raced>>
    BY <1>9 DEF Procs!Detach, Procs!CallEnds, Procs!To, Procs!history
  <2>2. Procs!TypeOK'
    BY <1>0, <2>1 DEF Procs!TypeOK
  <2>3. ProcSlot'
    BY <1>0, <2>1 DEF Procs!TypeOK, ProcSlot, ProcClaims, Procs!Foreground
  <2>4. ProcIds'
    BY <1>0, <2>1 DEF Procs!TypeOK, ProcIds, ProcStarted, Procs!Known
  <2>5. ProcPlaces'
    BY <1>0, <2>1 DEF Procs!TypeOK, ProcPlaces, ProcIds, ProcStarted, Procs!Known
  <2>6. ProcTabled'
    BY <1>0, <2>1
       DEF Procs!TypeOK, ProcTabled, ProcEntry, ProcClaims, Procs!Foreground, ProcIds,
           ProcStarted, Procs!Known, ProcPlaces
  <2>7. Procs!EndIsReported'
    BY <1>0, <2>1
       DEF Procs!TypeOK, Procs!EndIsReported, ProcIds, ProcStarted, Procs!Known, ProcPlaces,
           ProcTabled, ProcEntry
  <2> QED BY <2>2, <2>3, <2>4, <2>5, <2>6, <2>7 DEF ProcIInv
<1>10. ASSUME NEW c \in Cmd, Procs!Tabulate(c) PROVE ProcIInv'
  <2>1. /\ stage[c] = "detaching" /\ stage' = [stage EXCEPT ![c] = "detached"]
        /\ backgroundProcs' = [backgroundProcs EXCEPT ![id[c]] = c] /\ activeProc' = None
        /\ UNCHANGED <<id, running, reader, released, killing, killed, reported, reused, raced>>
    BY <1>10 DEF Procs!Tabulate, Procs!To, Procs!history
  <2>2. id[c] \in BgId
    BY <1>10, <2>1, <1>0 DEF Procs!TypeOK, ProcIds, ProcStarted
  <2>3. Procs!TypeOK'
    BY <1>0, <2>1, <2>2 DEF Procs!TypeOK
  <2>4. ProcSlot'
    BY <1>0, <2>1, <2>2 DEF Procs!TypeOK, ProcSlot, ProcClaims, Procs!Foreground
  <2>5. ProcIds'
    BY <1>0, <2>1, <2>2 DEF Procs!TypeOK, ProcIds, ProcStarted, Procs!Known
  <2>6. ProcPlaces'
    BY <1>0, <2>1, <2>2 DEF Procs!TypeOK, ProcPlaces, ProcIds, ProcStarted, Procs!Known
  <2>7. ProcTabled'
    BY <1>0, <2>1, <2>2
       DEF Procs!TypeOK, ProcTabled, ProcEntry, ProcClaims, Procs!Foreground, ProcIds,
           ProcStarted, Procs!Known, ProcPlaces
  <2>8. Procs!EndIsReported'
    BY <1>0, <2>1, <2>2
       DEF Procs!TypeOK, Procs!EndIsReported, ProcIds, ProcStarted, Procs!Known, ProcPlaces,
           ProcTabled, ProcEntry
  <2> QED BY <2>3, <2>4, <2>5, <2>6, <2>7, <2>8 DEF ProcIInv
<1>11. ASSUME NEW i \in BgId, Procs!Kill(i) PROVE ProcIInv'
  BY <1>0, <1>11
     DEF Procs!Kill, ProcIInv, Procs!TypeOK, ProcSlot, ProcClaims, Procs!Foreground,
         ProcIds, ProcStarted, Procs!Known, ProcPlaces, ProcTabled, ProcEntry,
         Procs!EndIsReported
<1>12. CASE Procs!Forget \/ Procs!Interrupt
  BY <1>0, <1>12
     DEF Procs!Forget, Procs!Interrupt, Procs!history, ProcIInv, Procs!TypeOK, ProcSlot,
         ProcClaims, Procs!Foreground, ProcIds, ProcStarted, Procs!Known, ProcPlaces,
         ProcTabled, ProcEntry, Procs!EndIsReported
<1>13. ASSUME NEW w \in Workspace, Procs!KillAll(w) PROVE ProcIInv'
  BY <1>0, <1>13
     DEF Procs!KillAll, ProcIInv, Procs!TypeOK, ProcSlot, ProcClaims, Procs!Foreground,
         ProcIds, ProcStarted, Procs!Known, ProcPlaces, ProcTabled, ProcEntry,
         Procs!EndIsReported
<1>14. CASE UNCHANGED Procs!vars
  BY <1>0, <1>14
     DEF Procs!vars, ProcIInv, Procs!TypeOK, ProcSlot, ProcClaims, Procs!Foreground,
         ProcIds, ProcStarted, Procs!Known, ProcPlaces, ProcTabled, ProcEntry,
         Procs!EndIsReported
<1> QED BY <1>1, <1>2, <1>3, <1>4, <1>5, <1>6, <1>7, <1>8, <1>9, <1>10, <1>11, <1>12, <1>13,
           <1>14
        DEF Procs!Next, Procs!Reading, Procs!Waiting

LEMMA ProcConsequences == ProcIInv => Procs!SlotIsTheForeground /\ Procs!CommandsAccounted
<1> SUFFICES ASSUME ProcIInv PROVE Procs!SlotIsTheForeground /\ Procs!CommandsAccounted
  OBVIOUS
<1>1. Procs!SlotIsTheForeground
  <2> SUFFICES ASSUME ~raced, NEW c \in Procs!Foreground
      PROVE activeProc = c /\ Procs!Foreground = {c}
    BY DEF Procs!SlotIsTheForeground
  <2>1. activeProc = c /\ \A d \in Procs!Foreground : d = c
    BY DEF ProcIInv, ProcSlot, ProcClaims, Procs!Foreground
  <2> QED BY <2>1
<1>2. Procs!NoProcessForgotten
  BY DEF ProcIInv, Procs!TypeOK, ProcTabled, ProcEntry, Procs!NoProcessForgotten
<1> QED BY <1>1, <1>2 DEF ProcIInv, Procs!CommandsAccounted

LEMMA ProcAccounted == ASSUME ProcApart
    PROVE Procs!Spec => [](Procs!SlotIsTheForeground /\ Procs!CommandsAccounted)
<1>1. Procs!Init => ProcIInv
  BY ProcInitInv
<1>2. ProcIInv /\ [Procs!Next]_(Procs!vars) => ProcIInv'
  BY ProcStepInv
<1> QED BY <1>1, <1>2, ProcConsequences, PTL DEF Procs!Spec

(* The composition runs the shell commands as it is specified: the other   *)
(* parts leave its variables alone.                                        *)
LEMMA ProcsRuns == FairSpec => Procs!Spec
<1>1. Init => Procs!Init
  BY DEF Init
<1>2. [Next]_vars => [Procs!Next]_(Procs!vars)
  BY DEF Next, vars, procsVars, Procs!vars, InProcs, InTerms, InClient, InServers,
         InStreams, InBuffers, InDaemons
<1> QED BY <1>1, <1>2, PTL DEF FairSpec, Procs!Spec

(* The slot of a workspace holds its one foreground command, a command     *)
(* that runs on its own is in the table under its id, and the end of each  *)
(* is reported, unless two passed the test of the slot together (bash.go). *)
THEOREM ServicesAccountForCommands == FairSpec => []CommandsAccounted
<1>1. ProcApart
  BY ServicesAssumption
<1>2. Procs!Spec => [](Procs!SlotIsTheForeground /\ Procs!CommandsAccounted)
  BY <1>1, ProcAccounted
<1> QED BY <1>2, ProcsRuns, PTL DEF CommandsAccounted

-----------------------------------------------------------------------------
-----------------------------------------------------------------------------
TermChans == outChan \in [Viewer -> Seq(1..MaxChunks)]

(* Who is on a list watches that session and has not left; who has found   *)
(* one only has an empty, open channel.                                    *)
TermListening == \A s \in Session : \A v \in listeners[s] : place[v] = "attached" /\
  watched[v] = s
TermBefore == \A v \in Viewer : place[v] \in {"away", "found"} => outChan[v] = <<>> /\
  v \notin closedChans
TermFinders == \A v \in Viewer : place[v] \in {"found", "attached"} => watched[v] \in Session

(* What a viewer on a list has seen and has in its channel is what was written. *)
TermCaught(v, s) == /\ seen[v] <= written[s]
                    /\ Len(outChan[v]) = written[s] - seen[v]
                    /\ \A i \in 1..Len(outChan[v]) : outChan[v][i] = seen[v] + i
TermCaughtUp == \A s \in Session : \A v \in listeners[s] \ lost : TermCaught(v, s)

TermIInv == Terms!TypeOK /\ TermChans /\ TermListening /\ TermBefore /\ TermFinders /\
  Terms!SendsAreSafe /\ Terms!NoOrphanShell /\ TermCaughtUp

LEMMA TermInitInv == ASSUME TermApart, Terms!Init PROVE TermIInv
<1>1. Terms!TypeOK
  BY DEF TermApart, Terms!Init, Terms!TypeOK
<1>2. TermChans
  BY DEF Terms!Init, TermChans
<1>3. TermListening /\ TermBefore /\ TermFinders /\ Terms!SendsAreSafe /\
      Terms!NoOrphanShell /\ TermCaughtUp
  BY DEF Terms!Init, TermListening, TermBefore, TermFinders, Terms!SendsAreSafe,
         Terms!NoOrphanShell, TermCaughtUp
<1> QED BY <1>1, <1>2, <1>3 DEF TermIInv

-----------------------------------------------------------------------------
LEMMA TermStepInv == ASSUME TermApart, TermIInv, [Terms!Next]_(Terms!vars) PROVE TermIInv'
<1> USE DEF TermApart
<1>0. Terms!TypeOK /\ TermChans /\ TermListening /\ TermBefore /\ TermFinders /\
      Terms!SendsAreSafe /\ Terms!NoOrphanShell /\ TermCaughtUp
  BY DEF TermIInv
<1>1. ASSUME NEW v \in Viewer, NEW t \in TermId, Terms!Find(v, t) PROVE TermIInv'
  <2>1. /\ place[v] = "away" /\ terminalSessions[t] # NoSession
        /\ place' = [place EXCEPT ![v] = "found"]
        /\ watched' = [watched EXCEPT ![v] = terminalSessions[t]]
        /\ UNCHANGED <<terminalSessions, phase, shells, written, listeners, outChan,
           closedChans, seen, lost, closer>>
    BY <1>1 DEF Terms!Find, Terms!viewUnchanged
  <2>2. Terms!TypeOK'
    BY <1>0, <2>1 DEF Terms!TypeOK, TermChans, TermFinders
  <2>3. TermChans'
    BY <1>0, <2>1 DEF Terms!TypeOK, TermChans, TermFinders
  <2>4. TermListening'
    BY <1>0, <2>1 DEF Terms!TypeOK, TermListening, TermFinders
  <2>5. TermBefore'
    BY <1>0, <2>1 DEF Terms!TypeOK, TermBefore, TermChans, TermListening
  <2>6. TermFinders'
    BY <1>0, <2>1 DEF Terms!TypeOK, TermFinders
  <2>7. Terms!SendsAreSafe'
    BY <1>0, <2>1
       DEF Terms!TypeOK, Terms!SendsAreSafe, TermListening, TermBefore, TermFinders
  <2>8. Terms!NoOrphanShell'
    BY <1>0, <2>1 DEF Terms!TypeOK, Terms!NoOrphanShell
  <2>9. TermCaughtUp'
    BY <1>0, <2>1
       DEF Terms!TypeOK, TermChans, TermCaughtUp, TermCaught, TermListening, TermBefore,
           TermFinders
  <2> QED BY <2>2, <2>3, <2>4, <2>5, <2>6, <2>7, <2>8, <2>9 DEF TermIInv
<1>2. ASSUME NEW v \in Viewer, NEW t \in TermId, NEW s \in Session, Terms!Open(v, t, s)
      PROVE TermIInv'
  <2>1. /\ place[v] = "away"
        /\ terminalSessions[t] # NoSession => phase[terminalSessions[t]] # "open"
        /\ phase[s] = "unused" /\ phase' = [phase EXCEPT ![s] = "open"] /\
           shells' = shells \cup {s}
        /\ terminalSessions' = [terminalSessions EXCEPT ![t] = s]
        /\ place' = [place EXCEPT ![v] = "found"] /\ watched' = [watched EXCEPT ![v] = s]
        /\ UNCHANGED <<written, listeners, outChan, closedChans, seen, lost, closer>>
    BY <1>2 DEF Terms!Open, Terms!viewUnchanged
  <2>2. Terms!TypeOK'
    BY <1>0, <2>1 DEF Terms!TypeOK, TermChans, TermFinders
  <2>3. TermChans'
    BY <1>0, <2>1 DEF Terms!TypeOK, TermChans, TermFinders
  <2>4. TermListening'
    BY <1>0, <2>1 DEF Terms!TypeOK, TermListening, TermFinders
  <2>5. TermBefore'
    BY <1>0, <2>1 DEF Terms!TypeOK, TermBefore, TermChans, TermListening
  <2>6. TermFinders'
    BY <1>0, <2>1 DEF Terms!TypeOK, TermFinders
  <2>7. Terms!SendsAreSafe'
    BY <1>0, <2>1
       DEF Terms!TypeOK, Terms!SendsAreSafe, TermListening, TermBefore, TermFinders
  <2>8. Terms!NoOrphanShell'
    BY <1>0, <2>1 DEF Terms!TypeOK, Terms!NoOrphanShell
  <2>9. TermCaughtUp'
    BY <1>0, <2>1
       DEF Terms!TypeOK, TermChans, TermCaughtUp, TermCaught, TermListening, TermBefore,
           TermFinders
  <2> QED BY <2>2, <2>3, <2>4, <2>5, <2>6, <2>7, <2>8, <2>9 DEF TermIInv
<1>3. ASSUME NEW v \in Viewer, Terms!Attach(v) PROVE TermIInv'
  <2>1. /\ place[v] = "found" /\ place' = [place EXCEPT ![v] = "attached"]
        /\ listeners' = [listeners EXCEPT ![watched[v]] = listeners[watched[v]] \cup {v}]
        /\ seen' = [seen EXCEPT ![v] = written[watched[v]]]
        /\ UNCHANGED <<terminalSessions, phase, shells, written, watched, outChan,
           closedChans, lost, closer>>
    BY <1>3 DEF Terms!Attach, Terms!viewUnchanged
  <2>2. Terms!TypeOK'
    BY <1>0, <2>1 DEF Terms!TypeOK, TermChans, TermFinders
  <2>3. TermChans'
    BY <1>0, <2>1 DEF Terms!TypeOK, TermChans, TermFinders
  <2>4. TermListening'
    BY <1>0, <2>1 DEF Terms!TypeOK, TermListening, TermFinders
  <2>5. TermBefore'
    BY <1>0, <2>1 DEF Terms!TypeOK, TermBefore, TermChans, TermListening
  <2>6. TermFinders'
    BY <1>0, <2>1 DEF Terms!TypeOK, TermFinders
  <2>7. Terms!SendsAreSafe'
    BY <1>0, <2>1
       DEF Terms!TypeOK, Terms!SendsAreSafe, TermListening, TermBefore, TermFinders
  <2>8. Terms!NoOrphanShell'
    BY <1>0, <2>1 DEF Terms!TypeOK, Terms!NoOrphanShell
  <2>9. TermCaughtUp'
    BY <1>0, <2>1
       DEF Terms!TypeOK, TermChans, TermCaughtUp, TermCaught, TermListening, TermBefore,
           TermFinders
  <2> QED BY <2>2, <2>3, <2>4, <2>5, <2>6, <2>7, <2>8, <2>9 DEF TermIInv
<1>4. ASSUME NEW s \in Session, Terms!Output(s) PROVE TermIInv'
  <2>1. /\ written[s] < MaxChunks /\ written' = [written EXCEPT ![s] = written[s] + 1]
        /\ outChan' = [v \in Viewer |->
                         IF v \in listeners[s] /\ Len(outChan[v]) # TermCapacity
                            THEN Append(outChan[v], written[s] + 1) ELSE outChan[v]]
        /\ lost' = lost \cup {v \in listeners[s] : Len(outChan[v]) = TermCapacity}
        /\ UNCHANGED <<terminalSessions, phase, shells, listeners, place, watched,
           closedChans, seen, closer>>
    BY <1>4 DEF Terms!Output, Terms!viewUnchanged
  <2>2. Terms!TypeOK'
    BY <1>0, <2>1 DEF Terms!TypeOK, TermChans, TermFinders
  <2>3. TermChans'
    <3>1. written[s] + 1 \in 1..MaxChunks
      BY <1>0, <2>1 DEF Terms!TypeOK
    <3>2. ASSUME NEW v \in Viewer PROVE outChan'[v] \in Seq(1..MaxChunks)
      <4>1. outChan[v] \in Seq(1..MaxChunks)
        BY <1>0 DEF TermChans
      <4>2. Append(outChan[v], written[s] + 1) \in Seq(1..MaxChunks)
        BY <3>1, <4>1
      <4> QED BY <2>1, <4>1, <4>2
    <3> QED BY <2>1, <3>2 DEF TermChans
  <2>4. TermListening'
    BY <1>0, <2>1 DEF Terms!TypeOK, TermListening, TermFinders
  <2>5. TermBefore'
    BY <1>0, <2>1 DEF Terms!TypeOK, TermBefore, TermChans, TermListening
  <2>6. TermFinders'
    BY <1>0, <2>1 DEF Terms!TypeOK, TermFinders
  <2>7. Terms!SendsAreSafe'
    BY <1>0, <2>1
       DEF Terms!TypeOK, Terms!SendsAreSafe, TermListening, TermBefore, TermFinders
  <2>8. Terms!NoOrphanShell'
    BY <1>0, <2>1 DEF Terms!TypeOK, Terms!NoOrphanShell
  <2>9. TermCaughtUp'
    <3> SUFFICES ASSUME NEW d \in Session, NEW v \in listeners[d] \ lost'
        PROVE TermCaught(v, d)'
      BY <2>1 DEF TermCaughtUp
    <3>1. TermCaught(v, d) /\ v \in Viewer /\ outChan[v] \in Seq(1..MaxChunks)
      BY <1>0, <2>1 DEF TermCaughtUp, Terms!TypeOK, TermChans
    <3>2. CASE d = s
      <4>1. outChan'[v] = Append(outChan[v], written[s] + 1)
        BY <1>0, <2>1, <3>1, <3>2 DEF Terms!TypeOK
      <4>2. /\ Len(outChan'[v]) = Len(outChan[v]) + 1
            /\ \A i \in 1..Len(outChan[v]) : outChan'[v][i] = outChan[v][i]
            /\ outChan'[v][Len(outChan[v]) + 1] = written[s] + 1
        BY <3>1, <4>1
      <4>3. written'[s] = written[s] + 1 /\ written[s] \in Nat /\ seen[v] \in Nat /\
            seen'[v] = seen[v]
        <5>1. written'[s] = written[s] + 1 /\ seen' = seen
          BY <1>0, <2>1 DEF Terms!TypeOK
        <5>2. written[s] \in 0..MaxChunks /\ seen[v] \in 0..MaxChunks
          BY <1>0, <3>1 DEF Terms!TypeOK
        <5> QED BY <5>1, <5>2
      <4>4. Len(outChan[v]) \in Nat /\ Len(outChan[v]) = written[s] - seen[v] /\
            seen[v] <= written[s]
        BY <3>1, <3>2 DEF TermCaught
      <4>5. Len(outChan'[v]) = written'[s] - seen'[v] /\ seen'[v] <= written'[s]
        BY <4>2, <4>3, <4>4
      <4>6. ASSUME NEW i \in 1..Len(outChan'[v]) PROVE outChan'[v][i] = seen'[v] + i
        <5>1. CASE i = Len(outChan[v]) + 1
          BY <4>2, <4>3, <4>4, <5>1
        <5>2. CASE i # Len(outChan[v]) + 1
          <6>1. i \in 1..Len(outChan[v])
            BY <4>2, <4>4, <5>2
          <6>2. outChan'[v][i] = outChan[v][i]
            BY <4>2, <6>1
          <6>3. outChan[v][i] = seen[v] + i
            BY <3>1, <3>2, <6>1 DEF TermCaught
          <6> QED BY <4>3, <6>2, <6>3
        <5> QED BY <5>1, <5>2
      <4> QED BY <3>2, <4>5, <4>6 DEF TermCaught
    <3>3. CASE d # s
      <4>1. v \notin listeners[s]
        BY <1>0, <2>1, <3>3 DEF TermListening
      <4> QED BY <1>0, <2>1, <3>1, <3>3, <4>1 DEF Terms!TypeOK, TermCaught
    <3> QED BY <3>2, <3>3
  <2> QED BY <2>2, <2>3, <2>4, <2>5, <2>6, <2>7, <2>8, <2>9 DEF TermIInv
<1>5. ASSUME NEW v \in Viewer, Terms!Show(v) PROVE TermIInv'
  <2>1. /\ place[v] = "attached" /\ outChan[v] # <<>>
        /\ seen' = [seen EXCEPT ![v] = Head(outChan[v])]
        /\ outChan' = [outChan EXCEPT ![v] = Tail(outChan[v])]
        /\ UNCHANGED <<terminalSessions, phase, shells, written, listeners, place, watched,
           closedChans, lost, closer>>
    BY <1>5 DEF Terms!Show, Terms!viewUnchanged
  <2>2. /\ outChan[v] \in Seq(1..MaxChunks) /\ Len(outChan[v]) > 0 /\
           Head(outChan[v]) = outChan[v][1]
        /\ Head(outChan[v]) \in 1..MaxChunks /\ Tail(outChan[v]) \in Seq(1..MaxChunks)
        /\ Len(Tail(outChan[v])) = Len(outChan[v]) - 1
        /\ \A i \in 1..(Len(outChan[v]) - 1) : Tail(outChan[v])[i] = outChan[v][i + 1]
    BY <1>0, <2>1 DEF TermChans
  <2>3. Terms!TypeOK'
    BY <1>0, <2>1, <2>2 DEF Terms!TypeOK, TermChans, TermFinders
  <2>4. TermChans'
    BY <1>0, <2>1, <2>2 DEF Terms!TypeOK, TermChans, TermFinders
  <2>5. TermListening'
    BY <1>0, <2>1, <2>2 DEF Terms!TypeOK, TermListening, TermFinders
  <2>6. TermBefore'
    BY <1>0, <2>1, <2>2 DEF Terms!TypeOK, TermBefore, TermChans, TermListening
  <2>7. TermFinders'
    BY <1>0, <2>1, <2>2 DEF Terms!TypeOK, TermFinders
  <2>8. Terms!SendsAreSafe'
    BY <1>0, <2>1, <2>2
       DEF Terms!TypeOK, Terms!SendsAreSafe, TermListening, TermBefore, TermFinders
  <2>9. Terms!NoOrphanShell'
    BY <1>0, <2>1, <2>2 DEF Terms!TypeOK, Terms!NoOrphanShell
  <2>10. TermCaughtUp'
    <3> SUFFICES ASSUME NEW d \in Session, NEW x \in listeners[d] \ lost PROVE TermCaught(x, d)'
      BY <2>1 DEF TermCaughtUp
    <3>1. TermCaught(x, d) /\ x \in Viewer /\ outChan \in [Viewer -> Seq(1..MaxChunks)]
      BY <1>0 DEF TermCaughtUp, Terms!TypeOK, TermChans
    <3>2. CASE x = v
      <4>1. outChan'[v] = Tail(outChan[v]) /\ seen'[v] = outChan[v][1] /\ written' = written
        BY <1>0, <2>1, <2>2 DEF Terms!TypeOK, TermChans
      <4>2. seen'[v] = seen[v] + 1
        BY <2>2, <3>1, <3>2, <4>1 DEF TermCaught
      <4>3. written[d] \in Nat /\ seen[v] \in Nat /\ Len(outChan[v]) \in Nat
        BY <1>0, <2>2 DEF Terms!TypeOK
      <4>4. Len(outChan[v]) = written[d] - seen[v] /\ seen[v] <= written[d]
            /\ \A i \in 1..Len(outChan[v]) : outChan[v][i] = seen[v] + i
        BY <3>1, <3>2 DEF TermCaught
      <4>5. Len(outChan'[v]) = written'[d] - seen'[v] /\ seen'[v] <= written'[d]
        <5>1. Len(outChan'[v]) = Len(outChan[v]) - 1
          BY <2>2, <4>1
        <5>2. written'[d] = written[d]
          BY <4>1
        <5>3. Len(outChan[v]) > 0
          BY <2>2
        <5> QED BY <4>2, <4>3, <4>4, <5>1, <5>2, <5>3
      <4>6. ASSUME NEW i \in 1..Len(outChan'[v]) PROVE outChan'[v][i] = seen'[v] + i
        <5>1. i \in 1..(Len(outChan[v]) - 1) /\ i + 1 \in 1..Len(outChan[v])
          BY <2>2, <4>1, <4>3
        <5>2. outChan'[v][i] = outChan[v][i + 1]
          <6>1. \A k \in 1..(Len(outChan[v]) - 1) : outChan'[v][k] = outChan[v][k + 1]
            BY <2>2, <4>1, Zenon
          <6> QED BY <5>1, <6>1
        <5>3. outChan[v][i + 1] = seen[v] + (i + 1)
          BY <4>4, <5>1
        <5>4. i \in Nat
          OBVIOUS
        <5>5. seen[v] \in Nat
          BY <4>3
        <5>6. seen[v] + (i + 1) = (seen[v] + 1) + i
          BY <5>4, <5>5
        <5> QED BY <4>2, <5>2, <5>3, <5>6
      <4> QED BY <3>2, <4>5, <4>6 DEF TermCaught
    <3>3. CASE x # v
      <4>1. outChan'[x] = outChan[x] /\ seen'[x] = seen[x] /\ written' = written
        BY <1>0, <2>1, <3>1, <3>3 DEF Terms!TypeOK
      <4> QED BY <3>1, <4>1 DEF TermCaught
    <3> QED BY <3>2, <3>3
  <2> QED BY <2>3, <2>4, <2>5, <2>6, <2>7, <2>8, <2>9, <2>10 DEF TermIInv
<1>6. ASSUME NEW v \in Viewer, Terms!Leave(v) PROVE TermIInv'
  <2>1. /\ place[v] = "attached" /\ place' = [place EXCEPT ![v] = "leaving"]
        /\ listeners' = [listeners EXCEPT ![watched[v]] = listeners[watched[v]] \ {v}]
        /\ UNCHANGED <<terminalSessions, phase, shells, written, watched, outChan,
           closedChans, seen, lost, closer>>
    BY <1>6 DEF Terms!Leave, Terms!viewUnchanged
  <2>2. Terms!TypeOK'
    BY <1>0, <2>1 DEF Terms!TypeOK, TermChans, TermFinders
  <2>3. TermChans'
    BY <1>0, <2>1 DEF Terms!TypeOK, TermChans, TermFinders
  <2>4. TermListening'
    BY <1>0, <2>1 DEF Terms!TypeOK, TermListening, TermFinders
  <2>5. TermBefore'
    BY <1>0, <2>1 DEF Terms!TypeOK, TermBefore, TermChans, TermListening
  <2>6. TermFinders'
    BY <1>0, <2>1 DEF Terms!TypeOK, TermFinders
  <2>7. Terms!SendsAreSafe'
    BY <1>0, <2>1
       DEF Terms!TypeOK, Terms!SendsAreSafe, TermListening, TermBefore, TermFinders
  <2>8. Terms!NoOrphanShell'
    BY <1>0, <2>1 DEF Terms!TypeOK, Terms!NoOrphanShell
  <2>9. TermCaughtUp'
    BY <1>0, <2>1
       DEF Terms!TypeOK, TermChans, TermCaughtUp, TermCaught, TermListening, TermBefore,
           TermFinders
  <2> QED BY <2>2, <2>3, <2>4, <2>5, <2>6, <2>7, <2>8, <2>9 DEF TermIInv
<1>7. ASSUME NEW v \in Viewer, Terms!Left(v) PROVE TermIInv'
  <2>1. /\ place[v] = "leaving" /\ place' = [place EXCEPT ![v] = "gone"]
        /\ closedChans' = closedChans \cup {v}
        /\ UNCHANGED <<terminalSessions, phase, shells, written, listeners, watched,
           outChan, seen, lost, closer>>
    BY <1>7 DEF Terms!Left, Terms!viewUnchanged
  <2>2. Terms!TypeOK'
    BY <1>0, <2>1 DEF Terms!TypeOK, TermChans, TermFinders
  <2>3. TermChans'
    BY <1>0, <2>1 DEF Terms!TypeOK, TermChans, TermFinders
  <2>4. TermListening'
    BY <1>0, <2>1 DEF Terms!TypeOK, TermListening, TermFinders
  <2>5. TermBefore'
    BY <1>0, <2>1 DEF Terms!TypeOK, TermBefore, TermChans, TermListening
  <2>6. TermFinders'
    BY <1>0, <2>1 DEF Terms!TypeOK, TermFinders
  <2>7. Terms!SendsAreSafe'
    BY <1>0, <2>1
       DEF Terms!TypeOK, Terms!SendsAreSafe, TermListening, TermBefore, TermFinders
  <2>8. Terms!NoOrphanShell'
    BY <1>0, <2>1 DEF Terms!TypeOK, Terms!NoOrphanShell
  <2>9. TermCaughtUp'
    BY <1>0, <2>1
       DEF Terms!TypeOK, TermChans, TermCaughtUp, TermCaught, TermListening, TermBefore,
           TermFinders
  <2> QED BY <2>2, <2>3, <2>4, <2>5, <2>6, <2>7, <2>8, <2>9 DEF TermIInv
<1>8. ASSUME NEW s \in Session, Terms!ReaderCloses(s) PROVE TermIInv'
  <2>1. /\ phase[s] = "open" /\ phase' = [phase EXCEPT ![s] = "closing"]
        /\ UNCHANGED <<terminalSessions, shells, written, listeners, place, watched,
           outChan, closedChans, seen, lost, closer>>
    BY <1>8 DEF Terms!ReaderCloses, Terms!viewUnchanged
  <2>2. Terms!TypeOK'
    BY <1>0, <2>1 DEF Terms!TypeOK, TermChans, TermFinders
  <2>3. TermChans'
    BY <1>0, <2>1 DEF Terms!TypeOK, TermChans, TermFinders
  <2>4. TermListening'
    BY <1>0, <2>1 DEF Terms!TypeOK, TermListening, TermFinders
  <2>5. TermBefore'
    BY <1>0, <2>1 DEF Terms!TypeOK, TermBefore, TermChans, TermListening
  <2>6. TermFinders'
    BY <1>0, <2>1 DEF Terms!TypeOK, TermFinders
  <2>7. Terms!SendsAreSafe'
    BY <1>0, <2>1
       DEF Terms!TypeOK, Terms!SendsAreSafe, TermListening, TermBefore, TermFinders
  <2>8. Terms!NoOrphanShell'
    BY <1>0, <2>1 DEF Terms!TypeOK, Terms!NoOrphanShell
  <2>9. TermCaughtUp'
    BY <1>0, <2>1
       DEF Terms!TypeOK, TermChans, TermCaughtUp, TermCaught, TermListening, TermBefore,
           TermFinders
  <2> QED BY <2>2, <2>3, <2>4, <2>5, <2>6, <2>7, <2>8, <2>9 DEF TermIInv
<1>9. ASSUME NEW s \in Session, Terms!FinishClose(s) PROVE TermIInv'
  <2>1. /\ phase[s] = "closing" /\ phase' = [phase EXCEPT ![s] = "closed"] /\
           shells' = shells \ {s}
        /\ closedChans' = closedChans \cup listeners[s] /\
           listeners' = [listeners EXCEPT ![s] = {}]
        /\ terminalSessions' \in [TermId -> Session \cup {NoSession}] /\
           closer' \in {closer, NoSession}
        /\ \A t \in TermId : terminalSessions[t] # s =>
           terminalSessions'[t] = terminalSessions[t]
        /\ UNCHANGED <<written, place, watched, outChan, seen, lost>>
    BY <1>0, <1>9 DEF Terms!FinishClose, Terms!TypeOK, Terms!viewUnchanged
  <2>2. Terms!TypeOK'
    BY <1>0, <2>1 DEF Terms!TypeOK, TermChans, TermFinders
  <2>3. TermChans'
    BY <1>0, <2>1 DEF Terms!TypeOK, TermChans, TermFinders
  <2>4. TermListening'
    BY <1>0, <2>1 DEF Terms!TypeOK, TermListening, TermFinders
  <2>5. TermBefore'
    BY <1>0, <2>1 DEF Terms!TypeOK, TermBefore, TermChans, TermListening
  <2>6. TermFinders'
    BY <1>0, <2>1 DEF Terms!TypeOK, TermFinders
  <2>7. Terms!SendsAreSafe'
    BY <1>0, <2>1
       DEF Terms!TypeOK, Terms!SendsAreSafe, TermListening, TermBefore, TermFinders
  <2>8. Terms!NoOrphanShell'
    BY <1>0, <2>1 DEF Terms!TypeOK, Terms!NoOrphanShell
  <2>9. TermCaughtUp'
    BY <1>0, <2>1
       DEF Terms!TypeOK, TermChans, TermCaughtUp, TermCaught, TermListening, TermBefore,
           TermFinders
  <2> QED BY <2>2, <2>3, <2>4, <2>5, <2>6, <2>7, <2>8, <2>9 DEF TermIInv
<1>10. ASSUME NEW t \in TermId, Terms!HandlerCloses(t) PROVE TermIInv'
  <2>1. /\ terminalSessions[t] # NoSession
        /\ \/ /\ phase' = [phase EXCEPT ![terminalSessions[t]] = "closing"]
              /\ closer' = terminalSessions[t] /\ terminalSessions' = terminalSessions
           \/ /\ phase[terminalSessions[t]] # "open"
              /\ terminalSessions' = [terminalSessions EXCEPT ![t] = NoSession]
              /\ phase' = phase /\ closer' = closer
        /\ UNCHANGED <<shells, written, listeners, place, watched, outChan, closedChans,
           seen, lost>>
    BY <1>10 DEF Terms!HandlerCloses, Terms!viewUnchanged
  <2>2. Terms!TypeOK'
    BY <1>0, <2>1 DEF Terms!TypeOK, TermChans, TermFinders
  <2>3. TermChans'
    BY <1>0, <2>1 DEF Terms!TypeOK, TermChans, TermFinders
  <2>4. TermListening'
    BY <1>0, <2>1 DEF Terms!TypeOK, TermListening, TermFinders
  <2>5. TermBefore'
    BY <1>0, <2>1 DEF Terms!TypeOK, TermBefore, TermChans, TermListening
  <2>6. TermFinders'
    BY <1>0, <2>1 DEF Terms!TypeOK, TermFinders
  <2>7. Terms!SendsAreSafe'
    BY <1>0, <2>1
       DEF Terms!TypeOK, Terms!SendsAreSafe, TermListening, TermBefore, TermFinders
  <2>8. Terms!NoOrphanShell'
    BY <1>0, <2>1 DEF Terms!TypeOK, Terms!NoOrphanShell
  <2>9. TermCaughtUp'
    BY <1>0, <2>1
       DEF Terms!TypeOK, TermChans, TermCaughtUp, TermCaught, TermListening, TermBefore,
           TermFinders
  <2> QED BY <2>2, <2>3, <2>4, <2>5, <2>6, <2>7, <2>8, <2>9 DEF TermIInv
<1>11. CASE UNCHANGED Terms!vars
  BY <1>0, <1>11
     DEF Terms!vars, TermIInv, Terms!TypeOK, TermChans, TermListening, TermBefore,
         TermFinders, Terms!SendsAreSafe, Terms!NoOrphanShell, TermCaughtUp, TermCaught
<1> QED BY <1>1, <1>2, <1>3, <1>4, <1>5, <1>6, <1>7, <1>8, <1>9, <1>10, <1>11 DEF Terms!Next

LEMMA TermSeen == ASSUME TermApart, TermIInv PROVE Terms!NothingSkipped
<1> SUFFICES ASSUME NEW s \in Session, NEW v \in listeners[s] \ lost
             PROVE  outChan[v] = [i \in 1..(written[s] - seen[v]) |-> seen[v] + i]
  BY DEF Terms!NothingSkipped
<1>1. TermCaught(v, s) /\ outChan[v] \in Seq(1..MaxChunks)
  BY DEF TermIInv, Terms!TypeOK, TermChans, TermCaughtUp
<1>2. DOMAIN outChan[v] = 1..Len(outChan[v]) /\
      outChan[v] = [i \in DOMAIN outChan[v] |-> outChan[v][i]]
  BY <1>1
<1> QED BY <1>1, <1>2 DEF TermCaught

LEMMA TermSound == ASSUME TermApart PROVE Terms!Spec => []Terms!TerminalsSound
<1>1. Terms!Init => TermIInv
  BY TermInitInv
<1>2. TermIInv /\ [Terms!Next]_(Terms!vars) => TermIInv'
  BY TermStepInv
<1>3. TermIInv => Terms!TerminalsSound
  BY TermSeen DEF TermIInv, Terms!TerminalsSound
<1> QED BY <1>1, <1>2, <1>3, PTL DEF Terms!Spec

(* The composition runs the terminals as it is specified: the other parts  *)
(* leave its variables alone.                                              *)
LEMMA TermsRuns == FairSpec => Terms!Spec
<1>1. Init => Terms!Init
  BY DEF Init
<1>2. [Next]_vars => [Terms!Next]_(Terms!vars)
  BY DEF Next, vars, termsVars, Terms!vars, InProcs, InTerms, InClient, InServers,
         InStreams, InBuffers, InDaemons
<1> QED BY <1>1, <1>2, PTL DEF FairSpec, Terms!Spec

(* No chunk is sent to a closed channel, no shell runs without an entry    *)
(* that leads to it, and a viewer who fell behind is known to have         *)
(* (terminal.go).                                                          *)
THEOREM ServicesTerminalsSound == FairSpec => []TerminalsSound
<1>1. TermApart
  BY ServicesAssumption
<1>2. Terms!Spec => []Terms!TerminalsSound
  BY <1>1, TermSound
<1> QED BY <1>2, TermsRuns, PTL DEF TerminalsSound

-----------------------------------------------------------------------------
ClientLine == [id : Call, what : {"answer", "request"}]
ClientActive == {"registered", "waiting", "cancelling"}

(* The types with that of the lines.                                       *)
ClientTyped == Client!TypeOK /\ stdout \in Seq(ClientLine)
(* An entry of the table belongs to a call on its way, with a free channel. *)
ClientEntries == \A c \in pending : mcpChan[c] = Client!Nothing /\ mcpStage[c] \in ClientActive
(* A call that has not begun has an empty channel.                         *)
ClientFresh == \A c \in Call : mcpStage[c] = "new" => mcpChan[c] = Client!Nothing

ClientIInv == ClientTyped /\ ClientEntries /\ ClientFresh

-----------------------------------------------------------------------------
(* A queue with room stays within its capacity, one that is read gets      *)
(* shorter; both keep the type of their elements.                          *)
LEMMA ClientPutKeeps ==
    ASSUME NEW S, NEW q \in Seq(S), NEW x \in S, NEW n, n \in Nat, Len(q) < n
    PROVE  Append(q, x) \in Seq(S) /\ Len(Append(q, x)) <= n
OBVIOUS

LEMMA ClientTakeKeeps ==
    ASSUME NEW S, NEW q \in Seq(S), q # <<>>, NEW n, n \in Nat, Len(q) <= n
    PROVE  Head(q) \in S /\ Tail(q) \in Seq(S) /\ Len(Tail(q)) <= n
<1>1. Len(q) \in Nat /\ Len(q) # 0
  BY EmptySeq
<1>2. Head(q) \in S /\ Tail(q) \in Seq(S) /\ Len(Tail(q)) = Len(q) - 1
  BY HeadTailProperties
<1> QED BY <1>1, <1>2

LEMMA ClientInitInv == PipeCap \in Nat /\ Client!Init => ClientIInv
BY DEF Client!Init, ClientIInv, ClientTyped, Client!TypeOK, ClientEntries, ClientFresh,
       Client!Nothing, ClientLine

-----------------------------------------------------------------------------
LEMMA ClientStepInv == ASSUME PipeCap \in Nat, ClientIInv, [Client!Next]_(Client!vars)
    PROVE ClientIInv'
<1> USE DEF Client!Nothing, Client!Returned, ClientActive
<1>0. ClientTyped /\ ClientEntries /\ ClientFresh
  BY DEF ClientIInv
<1>a. \A c, s : Client!To(c, s) => mcpStage' = [mcpStage EXCEPT ![c] = s]
  BY DEF Client!To
<1>1. ASSUME NEW c \in Call, Client!Register(c) PROVE ClientIInv'
  <2>1. UNCHANGED <<mcpChan, late, isClosed, stdin, stdout, read, server, listener>>
    BY <1>1 DEF Client!Register, Client!pipesUnchanged
  <2>2. CASE isClosed # "no"
    <3>1. mcpStage' = [mcpStage EXCEPT ![c] = "failed"] /\ pending' = pending
      BY <1>1, <2>2 DEF Client!Register, Client!To
    <3>2. mcpStage[c] = "new" /\ c \notin pending
      BY <1>0, <1>1 DEF Client!Register, ClientEntries
    <3> QED BY <1>0, <2>1, <3>1, <3>2
               DEF ClientIInv, ClientTyped, Client!TypeOK, ClientEntries, ClientFresh
  <2>3. CASE isClosed = "no"
    <3>1. mcpStage' = [mcpStage EXCEPT ![c] = "registered"] /\ pending' = pending \cup {c}
      BY <1>1, <2>3 DEF Client!Register, Client!To
    <3>2. mcpStage[c] = "new" /\ mcpChan[c] = Client!Nothing
      BY <1>0, <1>1 DEF Client!Register, ClientFresh
    <3> QED BY <1>0, <2>1, <3>1, <3>2
               DEF ClientIInv, ClientTyped, Client!TypeOK, ClientEntries, ClientFresh
  <2> QED BY <2>2, <2>3
<1>2. ASSUME NEW c \in Call, Client!Write(c) PROVE ClientIInv'
  <2>1. UNCHANGED <<mcpChan, late, isClosed, stdout, read, server, listener>>
    BY <1>2 DEF Client!Write
  <2>2. CASE Client!PipeBroken
    <3>1. mcpStage' = [mcpStage EXCEPT ![c] = "failed"] /\ pending' = pending \ {c} /\
          stdin' = stdin
      BY <1>2, <2>2 DEF Client!Write, Client!To
    <3> QED BY <1>0, <2>1, <3>1
               DEF ClientIInv, ClientTyped, Client!TypeOK, ClientEntries, ClientFresh
  <2>3. CASE ~Client!PipeBroken
    <3>1. /\ Len(stdin) < PipeCap
          /\ mcpStage' = [mcpStage EXCEPT ![c] = "waiting"]
          /\ stdin' = Append(stdin, c)
          /\ pending' = pending
      BY <1>2, <2>3 DEF Client!Write, Client!To
    <3>2. stdin' \in Seq(Call) /\ Len(stdin') <= PipeCap
      BY <1>0, <3>1, ClientPutKeeps DEF ClientTyped, Client!TypeOK
    <3> QED BY <1>0, <2>1, <3>1, <3>2
               DEF ClientIInv, ClientTyped, Client!TypeOK, ClientEntries, ClientFresh
  <2> QED BY <2>2, <2>3
<1>3. ASSUME NEW c \in Call, Client!Expire(c) PROVE ClientIInv'
  BY <1>0, <1>3
     DEF Client!Expire, Client!pipesUnchanged, ClientIInv, ClientTyped, Client!TypeOK,
         ClientEntries, ClientFresh
<1>4. ASSUME NEW c \in Call, Client!Answered(c) PROVE ClientIInv'
  <2>1. c \notin pending
    BY <1>0, <1>4 DEF Client!Answered, ClientEntries
  <2>2. /\ mcpStage' = [mcpStage EXCEPT ![c] = "answered"]
        /\ mcpChan' = [mcpChan EXCEPT ![c] = Client!Nothing]
        /\ UNCHANGED <<pending, late, isClosed, stdin, stdout, read, server, listener>>
    BY <1>4 DEF Client!Answered, Client!To, Client!pipesUnchanged
  <2> QED BY <1>0, <2>1, <2>2
             DEF ClientIInv, ClientTyped, Client!TypeOK, ClientEntries, ClientFresh
<1>5. ASSUME NEW c \in Call, Client!Cancelled(c) PROVE ClientIInv'
  <2>1. /\ mcpStage' = [mcpStage EXCEPT ![c] = "cancelling"]
        /\ UNCHANGED <<pending, mcpChan, late, isClosed, stdin, stdout, read, server, listener>>
    BY <1>5 DEF Client!Cancelled, Client!To, Client!pipesUnchanged
  <2> QED BY <1>0, <2>1
             DEF ClientIInv, ClientTyped, Client!TypeOK, ClientEntries, ClientFresh
<1>6. ASSUME NEW c \in Call, Client!Forget(c) PROVE ClientIInv'
  <2>1. /\ mcpStage' = [mcpStage EXCEPT ![c] = "cancelled"]
        /\ pending' = pending \ {c}
        /\ UNCHANGED <<mcpChan, late, isClosed, stdin, stdout, read, server, listener>>
    BY <1>6 DEF Client!Forget, Client!To, Client!pipesUnchanged
  <2> QED BY <1>0, <2>1
             DEF ClientIInv, ClientTyped, Client!TypeOK, ClientEntries, ClientFresh
<1>7. ASSUME NEW c \in Call, NEW what \in {"answer", "request"}, Client!ServerWrites(c, what)
      PROVE  ClientIInv'
  <2>1. [id |-> c, what |-> what] \in ClientLine
    BY DEF ClientLine
  <2>2. stdout' \in Seq(ClientLine) /\ Len(stdout') <= PipeCap
    BY <1>0, <1>7, <2>1, ClientPutKeeps DEF Client!ServerWrites, ClientTyped, Client!TypeOK
  <2> QED BY <1>0, <1>7, <2>2
             DEF Client!ServerWrites, ClientIInv, ClientTyped, Client!TypeOK, ClientEntries,
                 ClientFresh
<1>8. ASSUME Client!Close \/ Client!Kill \/ Client!ServerDies \/ Client!ListenerEnds
      PROVE ClientIInv'
  BY <1>0, <1>8
     DEF Client!Close, Client!Kill, Client!ServerDies, Client!ListenerEnds, ClientIInv,
         ClientTyped, Client!TypeOK, ClientEntries, ClientFresh
<1>9. ASSUME Client!listen PROVE ClientIInv'
  <2> DEFINE line == Head(stdout)
  <2>1. stdout # <<>> /\ stdout' = Tail(stdout)
        /\ UNCHANGED <<mcpStage, late, isClosed, stdin, read, server, listener>>
    BY <1>9 DEF Client!listen
  <2>2. line \in ClientLine /\ stdout' \in Seq(ClientLine) /\ Len(stdout') <= PipeCap
    BY <1>0, <2>1, ClientTakeKeeps DEF ClientTyped, Client!TypeOK
  <2>3. \/ /\ line.id \in pending
           /\ mcpChan' = [mcpChan EXCEPT ![line.id] = line.what]
           /\ pending' = pending \ {line.id}
        \/ UNCHANGED <<mcpChan, pending>>
    BY <1>9 DEF Client!listen
  <2>4. line.id \in Call /\ line.what \in {"answer", "request"}
    BY <2>2 DEF ClientLine
  <2> HIDE DEF line
  <2>5. CASE UNCHANGED <<mcpChan, pending>>
    BY <1>0, <2>1, <2>2, <2>5
       DEF ClientIInv, ClientTyped, Client!TypeOK, ClientEntries, ClientFresh
  <2>6. CASE /\ line.id \in pending
             /\ mcpChan' = [mcpChan EXCEPT ![line.id] = line.what]
             /\ pending' = pending \ {line.id}
    <3>1. mcpStage[line.id] # "new"
      BY <1>0, <2>6 DEF ClientEntries
    <3> QED BY <1>0, <2>1, <2>2, <2>4, <2>6, <3>1
               DEF ClientIInv, ClientTyped, Client!TypeOK, ClientEntries, ClientFresh
  <2> QED BY <2>3, <2>5, <2>6
<1>10. ASSUME Client!ServerReads PROVE ClientIInv'
  <2>1. Head(stdin) \in Call /\ stdin' \in Seq(Call) /\ Len(stdin') <= PipeCap
    BY <1>0, <1>10, ClientTakeKeeps DEF Client!ServerReads, ClientTyped, Client!TypeOK
  <2> QED BY <1>0, <1>10, <2>1
             DEF Client!ServerReads, ClientIInv, ClientTyped, Client!TypeOK, ClientEntries,
                 ClientFresh
<1>11. CASE UNCHANGED Client!vars
  BY <1>0, <1>11
     DEF Client!vars, ClientIInv, ClientTyped, Client!TypeOK, ClientEntries, ClientFresh
<1> QED BY <1>1, <1>2, <1>3, <1>4, <1>5, <1>6, <1>7, <1>8, <1>9, <1>10, <1>11
           DEF Client!Next

-----------------------------------------------------------------------------
(* The table holds calls on their way, each with a free channel: whatever   *)
(* the server sends, and whenever deadlines pass, the reader can go on.     *)
THEOREM ClientPendingIsSound == ASSUME PipeCap \in Nat
    PROVE Client!Spec => []Client!PendingSound
<1>1. Client!Init => ClientIInv
  BY ClientInitInv
<1>2. ClientIInv /\ [Client!Next]_(Client!vars) => ClientIInv'
  BY ClientStepInv
<1>3. ClientIInv => Client!PendingSound
  BY DEF ClientIInv, ClientTyped, ClientEntries, Client!PendingSound, ClientActive,
         Client!Returned
<1> QED BY <1>1, <1>2, <1>3, PTL DEF Client!Spec

(* While it runs, the reader always has a step when there is a line.        *)
THEOREM ClientReaderNeverBlocks ==
    ASSUME PipeCap \in Nat
    PROVE  Client!Spec => [](listener = "scanning" /\ stdout # <<>>
                         => (Head(stdout).id \in pending =>
                           mcpChan[Head(stdout).id] = Client!Nothing))
<1>1. Client!PendingSound => (listener = "scanning" /\ stdout # <<>>
                         => (Head(stdout).id \in pending =>
                           mcpChan[Head(stdout).id] = Client!Nothing))
  BY DEF Client!PendingSound
<1> QED BY <1>1, ClientPendingIsSound, PTL

(* The composition runs a client of an MCP server as it is specified: the  *)
(* other parts leave its variables alone.                                  *)
LEMMA ClientRuns == FairSpec => Client!Spec
<1>1. Init => Client!Init
  BY DEF Init
<1>2. [Next]_vars => [Client!Next]_(Client!vars)
  BY DEF Next, vars, clientVars, Client!vars, InProcs, InTerms, InClient, InServers,
         InStreams, InBuffers, InDaemons
<1> QED BY <1>1, <1>2, PTL DEF FairSpec, Client!Spec

-----------------------------------------------------------------------------
(* NoOrphanServer is inductive as it stands: the mutex is held from the    *)
(* start of a process to its entry in the table.                           *)
LEMMA ServerNoOrphan == ASSUME ServerNamed PROVE Servers!Spec => []Servers!NoOrphanServer
<1>1. Servers!Init => Servers!NoOrphanServer
  BY DEF Servers!Init, Servers!NoOrphanServer, Servers!TypeOK, ServerNamed
<1>2. Servers!NoOrphanServer /\ [Servers!Next]_(Servers!vars) => Servers!NoOrphanServer'
  <2> SUFFICES ASSUME Servers!NoOrphanServer, [Servers!Next]_(Servers!vars)
               PROVE  Servers!NoOrphanServer'
    OBVIOUS
  <2> USE DEF Servers!NoOrphanServer, Servers!TypeOK, ServerNamed, Servers!Free
  <2>1. ASSUME NEW s \in Server, Servers!StartServer(s)
        PROVE  Servers!NoOrphanServer'
    <3>1. live[s] = 0
      BY <2>1 DEF Servers!StartServer
    <3> QED BY <2>1, <3>1 DEF Servers!StartServer
  <2>2. ASSUME NEW s \in Server, Servers!StopServer(s) \/ Servers!Dies(s)
        PROVE  Servers!NoOrphanServer'
    BY <2>2 DEF Servers!StopServer, Servers!Dies
  <2>3. CASE Servers!HandshakeDone
    BY <2>3 DEF Servers!HandshakeDone
  <2>4. CASE Servers!HandshakeFails
    BY <2>4 DEF Servers!HandshakeFails
  <2>5. CASE Servers!StopAll
    BY <2>5 DEF Servers!StopAll
  <2>6. ASSUME NEW a \in Agent, Servers!GetAllTools(a)
        PROVE  Servers!NoOrphanServer'
    BY <2>6 DEF Servers!GetAllTools
  <2>7. CASE UNCHANGED Servers!vars
    BY <2>7 DEF Servers!vars
  <2> QED BY <2>1, <2>2, <2>3, <2>4, <2>5, <2>6, <2>7 DEF Servers!Next
<1> QED BY <1>1, <1>2, PTL DEF Servers!Spec

(* The composition runs the MCP servers as it is specified: the other      *)
(* parts leave its variables alone.                                        *)
LEMMA ServersRuns == FairSpec => Servers!Spec
<1>1. Init => Servers!Init
  BY DEF Init
<1>2. [Next]_vars => [Servers!Next]_(Servers!vars)
  BY DEF Next, vars, serversVars, Servers!vars, InProcs, InTerms, InClient, InServers,
         InStreams, InBuffers, InDaemons
<1> QED BY <1>1, <1>2, PTL DEF FairSpec, Servers!Spec

(* A call that returned has no entry in the table of pending calls and the *)
(* reader never blocks on one; and no MCP server runs outside the          *)
(* manager's table (client.go, manager.go).                                *)
THEOREM ServicesMcpSound == FairSpec => []McpSound
<1>1. PipeCap \in Nat /\ ServerNamed
  BY ServicesAssumption DEF ClientBounds
<1>2. Client!Spec => []Client!PendingSound
  BY <1>1, ClientPendingIsSound
<1>3. Servers!Spec => []Servers!NoOrphanServer
  BY <1>1, ServerNoOrphan
<1> QED BY <1>2, <1>3, ClientRuns, ServersRuns, PTL DEF McpSound

-----------------------------------------------------------------------------
-----------------------------------------------------------------------------
StreamChans == wsChan \in [Streams!Stream -> Seq(Streams!Event)]

(* A channel is registered where its stream is, if it is anywhere.         *)
StreamListed == \A s \in Streams!Stream, w \in Watched : s \in wsListeners[w] => w = current[s]

(* A stream that has not begun has no events and is registered nowhere; a  *)
(* WebSocket has no reader before.                                         *)
StreamFresh == \A s \in Streams!Stream : writer[s] = "new" =>
             /\ wsChan[s] = <<>>
             /\ \A w \in Watched : s \notin wsListeners[w]
             /\ s \in Ws => wsReader[s] = "gone"

(* What is left in a channel has been broadcast; and a closed stream is    *)
(* registered only when its reader was cut off, the one who may do it.     *)
StreamPast == \A s \in Streams!Stream : \A e \in Streams!ToSet(wsChan[s]) : e.n <= events
StreamClosed == \A s \in Streams!Stream : writer[s] = "closed" /\ s \notin cut =>
                   /\ \A w \in Watched : s \notin wsListeners[w]
                   /\ s \in Ws => wsReader[s] = "gone"

StreamIInv == Streams!TypeOK /\ StreamChans /\ StreamListed /\ StreamFresh /\ StreamPast /\
  StreamClosed /\ Streams!EventsOfCurrent

-----------------------------------------------------------------------------
LEMMA StreamAppendSet == ASSUME NEW S, NEW q \in Seq(S), NEW e \in S
                         PROVE Streams!ToSet(Append(q, e)) = Streams!ToSet(q) \cup {e}
<1>1. /\ DOMAIN q = 1..Len(q) /\ Len(q) \in Nat
      /\ DOMAIN Append(q, e) = 1..(Len(q) + 1)
      /\ \A i \in 1..Len(q) : Append(q, e)[i] = q[i]
      /\ Append(q, e)[Len(q) + 1] = e
      OBVIOUS
<1>2. 1..(Len(q) + 1) = (1..Len(q)) \cup {Len(q) + 1} BY <1>1
<1> QED BY <1>1, <1>2 DEF Streams!ToSet

LEMMA StreamTailSet == ASSUME NEW S, NEW q \in Seq(S), q # <<>>
                       PROVE Streams!ToSet(Tail(q)) \subseteq Streams!ToSet(q)
<1>1. /\ DOMAIN q = 1..Len(q) /\ Len(q) \in Nat
      /\ DOMAIN Tail(q) = 1..(Len(q) - 1)
      /\ \A i \in 1..(Len(q) - 1) : Tail(q)[i] = q[i + 1]
      OBVIOUS
<1>2. \A i \in 1..(Len(q) - 1) : i + 1 \in 1..Len(q) BY <1>1
<1> QED BY <1>1, <1>2 DEF Streams!ToSet

LEMMA StreamSeqSet == ASSUME NEW S, NEW q \in Seq(S) PROVE Streams!ToSet(q) \subseteq S
BY DEF Streams!ToSet

LEMMA StreamNoneSet == ASSUME NEW q, q = <<>> PROVE Streams!ToSet(q) = {}
BY DEF Streams!ToSet

LEMMA StreamOwnEvent == ASSUME StreamBounds PROVE Streams!Own \in Streams!Event
<1>1. 0 \in 0..MaxEvents /\ FALSE \in BOOLEAN /\ None \in Watched \cup {None}
      BY DEF StreamBounds
<1> QED BY <1>1 DEF Streams!Own, Streams!Event

-----------------------------------------------------------------------------
(* What is in a channel after a step: it was there, is the stream's own    *)
(* confirmation, or was broadcast to the workspace it is registered for.   *)
StreamNew(s, e) == \/ e \in Streams!ToSet(wsChan[s])
                   \/ e.n = 0
                   \/ /\ e.n = events + 1 /\ events' = events + 1
                      /\ \E w \in Watched : s \in wsListeners[w] /\ e.workspace = w
                      /\ UNCHANGED <<current, since>>
StreamFilled(s) == writer'[s] = "new" /\ wsChan[s] = <<>> =>
                 \/ wsChan'[s] = <<>>
                 \/ \E w \in Watched : s \in wsListeners[w]
                 \/ s \in Ws /\ wsReader[s] # "gone"

(* What a step does to the channels.                                       *)
LEMMA StreamChanStep ==
    ASSUME StreamBounds, Streams!TypeOK, StreamChans, [Streams!Next]_(Streams!vars)
    PROVE  /\ StreamChans'
           /\ \A s \in Streams!Stream : /\ Len(wsChan'[s]) <= WsCapacity
                                        /\ \A e \in Streams!ToSet(wsChan'[s]) : StreamNew(s, e)
                                        /\ StreamFilled(s)
<1>0. /\ WsCapacity \in Nat /\ MaxEvents \in Nat
      /\ events \in 0..MaxEvents /\ wsChan \in [Streams!Stream -> Seq(Streams!Event)]
      /\ \A s \in Streams!Stream : Len(wsChan[s]) <= WsCapacity
      BY DEF StreamBounds, Streams!TypeOK, StreamChans
<1>1. ASSUME UNCHANGED wsChan
      PROVE /\ StreamChans' /\ \A s \in Streams!Stream : wsChan'[s] = wsChan[s] /\
               Len(wsChan'[s]) <= WsCapacity
      BY <1>0, <1>1 DEF StreamChans
<1> USE DEF StreamNew, StreamFilled
<1> DEFINE Goal == /\ StreamChans'
                   /\ \A s \in Streams!Stream : /\ Len(wsChan'[s]) <= WsCapacity
                                                /\ \A e \in Streams!ToSet(wsChan'[s]) : StreamNew(s, e)
                                                /\ StreamFilled(s)
<1>2. UNCHANGED wsChan => Goal
  <2> SUFFICES ASSUME UNCHANGED wsChan PROVE Goal OBVIOUS
  <2> QED BY <1>1
<1>3. ASSUME NEW w \in Watched, NEW final \in BOOLEAN, Streams!Broadcast(w, final) PROVE Goal
  <2> DEFINE event == [n |-> events + 1, workspace |-> w, final |-> final]
  <2>1. events < MaxEvents /\ events' = events + 1 /\ UNCHANGED <<current, since>>
        BY <1>3 DEF Streams!Broadcast
  <2>2. events + 1 \in 0..MaxEvents BY <1>0, <2>1
  <2>3. event \in Streams!Event BY <2>2 DEF Streams!Event
  <2>a. event.n = events + 1 /\ event.workspace = w OBVIOUS
  <2>4. wsChan' = [s \in Streams!Stream |-> IF s \in wsListeners[w] /\ Len(wsChan[s]) < WsCapacity
                                    THEN Append(wsChan[s], event) ELSE wsChan[s]]
        BY <1>3 DEF Streams!Broadcast
  <2> HIDE DEF event
  <2>5. ASSUME NEW s \in Streams!Stream
        PROVE /\ wsChan'[s] \in Seq(Streams!Event) /\ Len(wsChan'[s]) <= WsCapacity
              /\ \A e \in Streams!ToSet(wsChan'[s]) : StreamNew(s, e)
              /\ StreamFilled(s)
    <3>1. wsChan[s] \in Seq(Streams!Event) /\ Len(wsChan[s]) <= WsCapacity BY <1>0
    <3>2. CASE s \in wsListeners[w] /\ Len(wsChan[s]) < WsCapacity
      <4>1. wsChan'[s] = Append(wsChan[s], event) BY <2>4, <3>2
      <4>2. wsChan'[s] \in Seq(Streams!Event) /\ Len(wsChan'[s]) <= WsCapacity
            BY <1>0, <2>3, <3>1, <3>2, <4>1
      <4>3. Streams!ToSet(wsChan'[s]) = Streams!ToSet(wsChan[s]) \cup {event}
            BY <2>3, <3>1, <4>1, StreamAppendSet
      <4> QED BY <2>1, <2>a, <3>2, <4>2, <4>3
    <3>3. CASE ~(s \in wsListeners[w] /\ Len(wsChan[s]) < WsCapacity)
      <4>1. wsChan'[s] = wsChan[s] BY <2>4, <3>3
      <4> QED BY <3>1, <4>1
    <3> QED BY <3>2, <3>3
  <2>6. StreamChans' BY <2>4, <2>5 DEF StreamChans, Streams!Event
  <2> QED BY <2>5, <2>6
<1>4. ASSUME NEW r \in Ws, Streams!Send(r) PROVE Goal
  <2>1. /\ Len(wsChan[r]) < WsCapacity /\ wsReader[r] = "sending"
        /\ wsChan' = [wsChan EXCEPT ![r] = Append(@, Streams!Own)]
        BY <1>4 DEF Streams!Send
  <2>2. Streams!Own \in Streams!Event /\ Streams!Own.n = 0 BY StreamOwnEvent DEF Streams!Own
  <2>3. r \in Streams!Stream BY DEF Streams!Stream
  <2>4. ASSUME NEW s \in Streams!Stream
        PROVE /\ wsChan'[s] \in Seq(Streams!Event) /\ Len(wsChan'[s]) <= WsCapacity
              /\ \A e \in Streams!ToSet(wsChan'[s]) : StreamNew(s, e)
              /\ StreamFilled(s)
    <3>1. wsChan[s] \in Seq(Streams!Event) /\ Len(wsChan[s]) <= WsCapacity BY <1>0
    <3>2. CASE s = r
      <4>1. wsChan'[s] = Append(wsChan[s], Streams!Own) BY <1>0, <2>1, <3>2
      <4>2. wsChan'[s] \in Seq(Streams!Event) /\ Len(wsChan'[s]) <= WsCapacity
            BY <1>0, <2>1, <2>2, <3>1, <3>2, <4>1
      <4>3. Streams!ToSet(wsChan'[s]) = Streams!ToSet(wsChan[s]) \cup {Streams!Own}
            BY <2>2, <3>1, <4>1, StreamAppendSet
      <4> QED BY <2>1, <2>2, <3>2, <4>2, <4>3
    <3>3. CASE s # r BY <1>0, <2>1, <3>1, <3>3
    <3> QED BY <3>2, <3>3
  <2>5. StreamChans' BY <1>0, <2>1, <2>4 DEF StreamChans, Streams!Event
  <2> QED BY <2>4, <2>5
<1>5. ASSUME NEW r \in Streams!Stream, Streams!Deliver(r) PROVE Goal
  <2>1. wsChan[r] # <<>> /\ wsChan' = [wsChan EXCEPT ![r] = Tail(@)] BY <1>5 DEF Streams!Deliver
  <2>2. ASSUME NEW s \in Streams!Stream
        PROVE /\ wsChan'[s] \in Seq(Streams!Event) /\ Len(wsChan'[s]) <= WsCapacity
              /\ Streams!ToSet(wsChan'[s]) \subseteq Streams!ToSet(wsChan[s])
              /\ wsChan[s] = <<>> => wsChan'[s] = <<>>
    <3>1. wsChan[s] \in Seq(Streams!Event) /\ Len(wsChan[s]) <= WsCapacity BY <1>0
    <3>2. CASE s = r
      <4>1. wsChan'[s] = Tail(wsChan[s]) /\ wsChan[s] # <<>> BY <1>0, <2>1, <3>2
      <4>2. wsChan'[s] \in Seq(Streams!Event) /\ Len(wsChan'[s]) <= WsCapacity
            BY <1>0, <3>1, <4>1
      <4> QED BY <3>1, <4>1, <4>2, StreamTailSet
    <3>3. CASE s # r BY <1>0, <2>1, <3>1, <3>3
    <3> QED BY <3>2, <3>3
  <2>3. StreamChans' BY <1>0, <2>1, <2>2 DEF StreamChans, Streams!Event
  <2> QED BY <2>2, <2>3
<1>6. UNCHANGED wsChan \/ (\E w \in Watched, final \in BOOLEAN : Streams!Broadcast(w, final))
      \/ (\E s \in Ws : Streams!Send(s)) \/ (\E s \in Streams!Stream : Streams!Deliver(s))
      BY DEF Streams!Next, Streams!vars, Streams!Connect, Streams!StreamEvents,
             Streams!Subscribe, Streams!Move, Streams!Register, Streams!Confirm,
             Streams!ReadFails, Streams!Leave, Streams!Unregister, Streams!StartRefused
<1>7. Goal
  <2> HIDE DEF StreamNew, StreamFilled
  <2> QED BY <1>2, <1>3, <1>4, <1>5, <1>6
<1> HIDE DEF StreamNew, StreamFilled
<1> QED BY <1>7

LEMMA StreamTypeStep ==
    ASSUME StreamBounds, Streams!TypeOK, StreamChans, [Streams!Next]_(Streams!vars)
      PROVE Streams!TypeOK' /\ StreamChans'
<1>1. /\ StreamChans' /\ \A s \in Streams!Stream : Len(wsChan'[s]) <= WsCapacity
      BY StreamChanStep
<1>2. \A s \in Streams!Stream : Len(wsChan'[s]) <= WsCapacity /\
      Streams!ToSet(wsChan'[s]) \subseteq Streams!Event'
  <2>1. Streams!Event' = Streams!Event BY DEF Streams!Event
  <2>2. \A s \in Streams!Stream : wsChan'[s] \in Seq(Streams!Event)
        BY <1>1, <2>1 DEF StreamChans
  <2> QED BY <1>1, <2>1, <2>2, StreamSeqSet
<1>3. /\ wsListeners \in [Watched -> SUBSET Streams!Stream]
      /\ writer \in [Streams!Stream -> {"new", "open", "leaving", "closed"}]
      /\ wsReader \in [Ws -> {"reading", "moving", "sending", "gone"}]
      /\ current \in [Streams!Stream -> Watched \cup {None}]
      /\ moves \in 0..MaxMoves /\ events \in 0..MaxEvents
      /\ since \in [Streams!Stream -> 0..MaxEvents]
      /\ cut \subseteq Ws
      BY DEF Streams!TypeOK
<1>4. \A s \in Ws : s \in Streams!Stream BY DEF Streams!Stream
<1>5. \A s \in Streams!Stream : \A w : Streams!Unregistered(s,
      w) \in [Watched -> SUBSET Streams!Stream]
      BY <1>3 DEF Streams!Unregistered
<1>6. \A s \in Streams!Stream : \A w : Streams!Registered(s,
      w) \in [Watched -> SUBSET Streams!Stream]
      BY <1>3 DEF Streams!Registered
<1> DEFINE Rest == /\ wsListeners' \in [Watched -> SUBSET Streams!Stream]
                   /\ writer' \in [Streams!Stream -> {"new", "open", "leaving", "closed"}]
                   /\ wsReader' \in [Ws -> {"reading", "moving", "sending", "gone"}]
                   /\ current' \in [Streams!Stream -> Watched \cup {None}]
                   /\ moves' \in 0..MaxMoves /\ events' \in 0..MaxEvents
                   /\ since' \in [Streams!Stream -> 0..MaxEvents]
                   /\ cut' \subseteq Ws
<1>7. ASSUME NEW w \in Watched, NEW final \in BOOLEAN, Streams!Broadcast(w, final) PROVE Rest
  <2>1. events' \in 0..MaxEvents BY <1>3, <1>7 DEF Streams!Broadcast, StreamBounds
  <2> QED BY <1>3, <1>7, <2>1 DEF Streams!Broadcast
<1>8. ASSUME NEW s \in Ws, NEW w \in Watched, Streams!Subscribe(s, w) PROVE Rest
  <2>1. moves' \in 0..MaxMoves BY <1>3, <1>8 DEF Streams!Subscribe, Streams!Move, StreamBounds
  <2>2. wsListeners' \in [Watched -> SUBSET Streams!Stream]
        BY <1>4, <1>5, <1>8 DEF Streams!Subscribe
  <2>3. since' \in [Streams!Stream -> 0..MaxEvents]
        BY <1>3, <1>8 DEF Streams!Subscribe, Streams!Move
  <2> QED BY <1>3, <1>8, <2>1, <2>2, <2>3 DEF Streams!Subscribe, Streams!Move
<1>9. ASSUME NEW s \in Ws, Streams!Connect(s) \/ Streams!Confirm(s) \/ Streams!Send(s) \/
      Streams!ReadFails(s) PROVE Rest
      BY <1>3, <1>9 DEF Streams!Connect, Streams!Confirm, Streams!Send, Streams!ReadFails
<1>10. ASSUME NEW s \in Ws, Streams!Register(s) PROVE Rest
  <2>1. wsListeners' \in [Watched -> SUBSET Streams!Stream]
        BY <1>4, <1>6, <1>10 DEF Streams!Register
  <2> QED BY <1>3, <1>10, <2>1 DEF Streams!Register
<1>11. ASSUME NEW s \in Streams!Stream, Streams!Deliver(s) \/ Streams!Leave(s) PROVE Rest
       BY <1>3, <1>11 DEF Streams!Deliver, Streams!Leave
<1>12. ASSUME NEW s \in Streams!Stream, Streams!Unregister(s) PROVE Rest
  <2>1. wsListeners' \in [Watched -> SUBSET Streams!Stream]
        BY <1>5, <1>12 DEF Streams!Unregister
  <2> QED BY <1>3, <1>12, <2>1 DEF Streams!Unregister
<1>13. ASSUME NEW s \in Streams!Stream, Streams!StartRefused(s) PROVE Rest
  <2>1. wsListeners' \in [Watched -> SUBSET Streams!Stream]
        BY <1>5, <1>13 DEF Streams!StartRefused
  <2> QED BY <1>3, <1>13, <2>1 DEF Streams!StartRefused
<1>14. ASSUME NEW s \in Streams!Stream, NEW w \in Watched, Streams!StreamEvents(s, w) PROVE Rest
  <2>1. wsListeners' \in [Watched -> SUBSET Streams!Stream]
        BY <1>6, <1>14 DEF Streams!StreamEvents
  <2> QED BY <1>3, <1>14, <2>1 DEF Streams!StreamEvents
<1>15. Rest
  <2>1. UNCHANGED Streams!vars => Rest BY <1>3 DEF Streams!vars
  <2> QED BY <1>7, <1>8, <1>9, <1>10, <1>11, <1>12, <1>13, <1>14, <2>1 DEF Streams!Next
<1> QED BY <1>1, <1>2, <1>15 DEF Streams!TypeOK

(* Where the registrations go: only a stream that is there or comes there  *)
(* now is registered, and it keeps its workspace while it is.              *)
LEMMA StreamListedStep ==
    ASSUME Streams!TypeOK, StreamListed, StreamFresh, [Streams!Next]_(Streams!vars)
      PROVE StreamListed'
<1>1. /\ wsListeners \in [Watched -> SUBSET Streams!Stream]
      /\ current \in [Streams!Stream -> Watched \cup {None}]
      BY DEF Streams!TypeOK
<1> USE <1>1 DEF StreamListed
<1>2. ASSUME NEW r \in Ws, NEW v \in Watched, Streams!Subscribe(r, v) PROVE StreamListed'
  <2>1. wsListeners' = Streams!Unregistered(r, current[r]) /\
        current' = [current EXCEPT ![r] = v]
        BY <1>2 DEF Streams!Subscribe, Streams!Move
  <2>2. ASSUME NEW s \in Streams!Stream, NEW w \in Watched, s \in wsListeners'[w]
        PROVE w = current'[s]
    <3>1. s \in wsListeners[w] /\ ~(w = current[r] /\ s = r)
          BY <2>1, <2>2 DEF Streams!Unregistered
    <3> QED BY <2>1, <3>1
  <2> QED BY <2>2
<1>3. ASSUME NEW r \in Streams!Stream, Streams!Unregister(r) \/ Streams!StartRefused(r)
      PROVE StreamListed'
  <2>1. wsListeners' = Streams!Unregistered(r, current[r]) /\ current' = current
        BY <1>3 DEF Streams!Unregister, Streams!StartRefused
  <2> QED BY <2>1 DEF Streams!Unregistered
<1>4. ASSUME NEW r \in Ws, Streams!Register(r) PROVE StreamListed'
  <2>1. wsListeners' = Streams!Registered(r, current[r]) /\ current' = current
        BY <1>4 DEF Streams!Register
  <2> QED BY <2>1 DEF Streams!Registered
<1>5. ASSUME NEW r \in Streams!Stream, NEW v \in Watched, Streams!StreamEvents(r, v)
      PROVE StreamListed'
  <2>1. /\ wsListeners' = Streams!Registered(r, v) /\ current' = [current EXCEPT ![r] = v]
        /\ writer[r] = "new"
        BY <1>5 DEF Streams!StreamEvents
  <2>2. \A w \in Watched : r \notin wsListeners[w] BY <2>1 DEF StreamFresh
  <2>3. ASSUME NEW s \in Streams!Stream, NEW w \in Watched, s \in wsListeners'[w]
        PROVE w = current'[s]
    <3>1. s \in wsListeners[w] \/ (s = r /\ w = v) BY <2>1, <2>3 DEF Streams!Registered
    <3>2. s \in wsListeners[w] => s # r BY <2>2
    <3> QED BY <2>1, <3>1, <3>2
  <2> QED BY <2>3
<1>6. UNCHANGED <<wsListeners, current>> => StreamListed' OBVIOUS
<1>7. \/ \E r \in Ws, v \in Watched : Streams!Subscribe(r, v)
      \/ \E r \in Streams!Stream : Streams!Unregister(r) \/ Streams!StartRefused(r)
      \/ \E r \in Ws : Streams!Register(r)
      \/ \E r \in Streams!Stream, v \in Watched : Streams!StreamEvents(r, v)
      \/ UNCHANGED <<wsListeners, current>>
      BY DEF Streams!Next, Streams!vars, Streams!Broadcast, Streams!Connect,
             Streams!Confirm, Streams!Send, Streams!ReadFails, Streams!Deliver,
             Streams!Leave
<1> QED BY <1>2, <1>3, <1>4, <1>5, <1>6, <1>7

LEMMA StreamFreshStep ==
    ASSUME StreamBounds, Streams!TypeOK, StreamChans, StreamFresh,
      [Streams!Next]_(Streams!vars) PROVE StreamFresh'
<1>1. /\ wsListeners \in [Watched -> SUBSET Streams!Stream]
      /\ writer \in [Streams!Stream -> {"new", "open", "leaving", "closed"}]
      /\ wsReader \in [Ws -> {"reading", "moving", "sending", "gone"}]
      BY DEF Streams!TypeOK
<1>2. \A s \in Streams!Stream : StreamFilled(s) BY StreamChanStep
<1> DEFINE Stays(s) == /\ writer[s] = "new"
                       /\ \A w \in Watched : s \in wsListeners'[w] =>
                             s \in wsListeners[w] \/ (s \in Ws /\ wsReader[s] = "moving")
                       /\ s \in Ws => wsReader'[s] = "gone" \/ wsReader[s] # "gone"
<1>3. ASSUME NEW s \in Streams!Stream, writer'[s] = "new" PROVE Stays(s)
  <2>1. ASSUME NEW r \in Ws, NEW v \in Watched, Streams!Subscribe(r, v) PROVE Stays(s)
        BY <1>1, <1>3, <2>1 DEF Streams!Subscribe, Streams!Move, Streams!Unregistered
  <2>2. ASSUME NEW r \in Ws, Streams!Connect(r) PROVE Stays(s)
        BY <1>1, <1>3, <2>2 DEF Streams!Connect
  <2>3. ASSUME NEW r \in Ws, Streams!Confirm(r) \/ Streams!Send(r) \/ Streams!ReadFails(r)
        PROVE Stays(s)
        BY <1>1, <1>3, <2>3 DEF Streams!Confirm, Streams!Send, Streams!ReadFails
  <2>4. ASSUME NEW r \in Ws, Streams!Register(r) PROVE Stays(s)
        BY <1>1, <1>3, <2>4 DEF Streams!Register, Streams!Registered
  <2>5. ASSUME NEW r \in Streams!Stream, Streams!Deliver(r) \/ Streams!Leave(r) PROVE Stays(s)
        BY <1>1, <1>3, <2>5 DEF Streams!Deliver, Streams!Leave
  <2>6. ASSUME NEW r \in Streams!Stream, Streams!Unregister(r) \/ Streams!StartRefused(r)
        PROVE Stays(s)
        BY <1>1, <1>3, <2>6
           DEF Streams!Unregister, Streams!StartRefused, Streams!Unregistered
  <2>7. ASSUME NEW r \in Streams!Stream, NEW v \in Watched, Streams!StreamEvents(r, v)
        PROVE Stays(s)
        BY <1>1, <1>3, <2>7 DEF Streams!StreamEvents, Streams!Registered
  <2>8. ASSUME NEW v \in Watched, NEW final \in BOOLEAN, Streams!Broadcast(v, final)
        PROVE Stays(s)
        BY <1>1, <1>3, <2>8 DEF Streams!Broadcast
  <2>9. ASSUME UNCHANGED Streams!vars PROVE Stays(s)
        BY <1>1, <1>3, <2>9 DEF Streams!vars
  <2> HIDE DEF Stays
  <2> QED BY <2>1, <2>2, <2>3, <2>4, <2>5, <2>6, <2>7, <2>8, <2>9 DEF Streams!Next
<1>4. ASSUME NEW s \in Streams!Stream, writer'[s] = "new"
      PROVE /\ wsChan'[s] = <<>>
            /\ \A w \in Watched : s \notin wsListeners'[w]
            /\ s \in Ws => wsReader'[s] = "gone"
  <2>1. /\ wsChan[s] = <<>> /\ \A w \in Watched : s \notin wsListeners[w]
        /\ s \in Ws => wsReader[s] = "gone"
        BY <1>3, <1>4 DEF StreamFresh
  <2>2. wsChan'[s] = <<>> BY <1>2, <1>4, <2>1 DEF StreamFilled
  <2> QED BY <1>3, <1>4, <2>1, <2>2
<1> QED BY <1>4 DEF StreamFresh

LEMMA StreamPastStep ==
    ASSUME StreamBounds, Streams!TypeOK, StreamChans, StreamPast,
      [Streams!Next]_(Streams!vars) PROVE StreamPast'
<1>1. events \in 0..MaxEvents BY DEF Streams!TypeOK
<1>2. events' = events \/ events' = events + 1
      BY DEF Streams!Next, Streams!vars, Streams!Broadcast, Streams!Connect,
             Streams!StreamEvents, Streams!Subscribe, Streams!Move, Streams!Register,
             Streams!Confirm, Streams!Send, Streams!ReadFails, Streams!Deliver,
             Streams!Leave, Streams!Unregister, Streams!StartRefused
<1>3. ASSUME NEW s \in Streams!Stream, NEW e \in Streams!ToSet(wsChan'[s]) PROVE e.n <= events'
  <2>1. StreamNew(s, e) BY StreamChanStep
  <2>2. CASE e \in Streams!ToSet(wsChan[s])
    <3>1. e \in Streams!Event BY <2>2, StreamSeqSet DEF StreamChans
    <3>2. e.n \in Nat /\ e.n <= events BY <2>2, <3>1 DEF StreamPast, Streams!Event
    <3> QED BY <1>1, <1>2, <3>2
  <2>3. CASE e.n = 0 BY <1>1, <1>2, <2>3
  <2>4. CASE e.n = events + 1 /\ events' = events + 1 BY <1>1, <2>4
  <2> QED BY <2>1, <2>2, <2>3, <2>4 DEF StreamNew
<1> QED BY <1>3 DEF StreamPast

LEMMA StreamClosedStep ==
    ASSUME Streams!TypeOK, StreamListed, StreamClosed, [Streams!Next]_(Streams!vars)
      PROVE StreamClosed'
<1>1. /\ wsListeners \in [Watched -> SUBSET Streams!Stream]
      /\ writer \in [Streams!Stream -> {"new", "open", "leaving", "closed"}]
      /\ wsReader \in [Ws -> {"reading", "moving", "sending", "gone"}]
      BY DEF Streams!TypeOK
<1>2. ASSUME NEW r \in Streams!Stream, Streams!Unregister(r) PROVE StreamClosed'
  <2>1. /\ writer' = [writer EXCEPT ![r] = "closed"]
        /\ wsListeners' = Streams!Unregistered(r, current[r]) /\ UNCHANGED <<wsReader, current>>
        /\ cut' = IF r \in Ws /\ wsReader[r] # "gone" THEN cut \cup {r} ELSE cut
        BY <1>2 DEF Streams!Unregister
  <2>2. ASSUME NEW s \in Streams!Stream, writer'[s] = "closed", s \notin cut'
        PROVE /\ \A w \in Watched : s \notin wsListeners'[w]
              /\ s \in Ws => wsReader'[s] = "gone"
    <3>1. CASE s = r
      <4>1. \A w \in Watched : s \notin wsListeners'[w]
            BY <1>1, <2>1, <3>1 DEF Streams!Unregistered, StreamListed
      <4> QED BY <2>1, <2>2, <3>1, <4>1
    <3>2. CASE s # r
      <4>1. writer[s] = "closed" /\ s \notin cut BY <1>1, <2>1, <2>2, <3>2
      <4>2. \A w \in Watched : s \notin wsListeners[w] BY <4>1 DEF StreamClosed
      <4>3. \A w \in Watched : s \notin wsListeners'[w] BY <2>1, <4>2 DEF Streams!Unregistered
      <4> QED BY <2>1, <4>1, <4>3 DEF StreamClosed
    <3> QED BY <3>1, <3>2
  <2> QED BY <2>2 DEF StreamClosed
<1>3. ASSUME UNCHANGED cut,
             \A s \in Streams!Stream : writer'[s] = "closed" =>
                /\ writer[s] = "closed"
                /\ \A w \in Watched : s \in wsListeners'[w] =>
                      s \in wsListeners[w] \/ (s \in Ws /\ wsReader[s] = "moving")
                /\ s \in Ws => wsReader'[s] = "gone" \/ wsReader[s] # "gone"
      PROVE StreamClosed'
  <2>1. ASSUME NEW s \in Streams!Stream, writer'[s] = "closed", s \notin cut'
        PROVE /\ \A w \in Watched : s \notin wsListeners'[w]
              /\ s \in Ws => wsReader'[s] = "gone"
    <3>1. /\ \A w \in Watched : s \notin wsListeners[w]
          /\ s \in Ws => wsReader[s] = "gone"
          BY <1>3, <2>1 DEF StreamClosed
    <3> QED BY <1>3, <2>1, <3>1
  <2> QED BY <2>1 DEF StreamClosed
<1>4. ASSUME NEW r \in Ws, NEW v \in Watched, Streams!Subscribe(r, v) PROVE StreamClosed'
      BY <1>1, <1>3, <1>4 DEF Streams!Subscribe, Streams!Move, Streams!Unregistered
<1>5. ASSUME NEW r \in Ws, Streams!Connect(r) PROVE StreamClosed'
      BY <1>1, <1>3, <1>5 DEF Streams!Connect
<1>6. ASSUME NEW r \in Ws, Streams!Confirm(r) \/ Streams!Send(r) \/ Streams!ReadFails(r)
      PROVE StreamClosed'
      BY <1>1, <1>3, <1>6 DEF Streams!Confirm, Streams!Send, Streams!ReadFails
<1>7. ASSUME NEW r \in Ws, Streams!Register(r) PROVE StreamClosed'
      BY <1>1, <1>3, <1>7 DEF Streams!Register, Streams!Registered
<1>8. ASSUME NEW r \in Streams!Stream, Streams!Deliver(r) \/ Streams!Leave(r)
      PROVE StreamClosed'
      BY <1>1, <1>3, <1>8 DEF Streams!Deliver, Streams!Leave
<1>9. ASSUME NEW r \in Streams!Stream, Streams!StartRefused(r) PROVE StreamClosed'
      BY <1>1, <1>3, <1>9 DEF Streams!StartRefused, Streams!Unregistered
<1>10. ASSUME NEW r \in Streams!Stream, NEW v \in Watched, Streams!StreamEvents(r, v)
       PROVE StreamClosed'
      BY <1>1, <1>3, <1>10 DEF Streams!StreamEvents, Streams!Registered
<1>11. ASSUME NEW v \in Watched, NEW final \in BOOLEAN, Streams!Broadcast(v, final)
       PROVE StreamClosed'
      BY <1>1, <1>3, <1>11 DEF Streams!Broadcast
<1>12. ASSUME UNCHANGED Streams!vars PROVE StreamClosed'
      BY <1>1, <1>3, <1>12 DEF Streams!vars
<1> QED BY <1>2, <1>4, <1>5, <1>6, <1>7, <1>8, <1>9, <1>10, <1>11, <1>12 DEF Streams!Next

(* A stream moves only to see what is broadcast from then on.              *)
LEMMA StreamCurrentStep ==
    ASSUME StreamBounds, Streams!TypeOK, StreamChans, StreamListed, StreamFresh, StreamPast,
      Streams!EventsOfCurrent, [Streams!Next]_(Streams!vars)
    PROVE  Streams!EventsOfCurrent'
<1>1. /\ current \in [Streams!Stream -> Watched \cup {None}] /\ events \in 0..MaxEvents
      /\ since \in [Streams!Stream -> 0..MaxEvents]
      /\ writer \in [Streams!Stream -> {"new", "open", "leaving", "closed"}]
      BY DEF Streams!TypeOK
<1>2. \A s \in Streams!Stream : since[s] \in Nat BY <1>1
<1> DEFINE Goes(s) == \/ current'[s] = current[s] /\ since'[s] = since[s]
                      \/ since'[s] = events /\ UNCHANGED <<wsChan, events>>
                      \/ UNCHANGED <<wsChan, since>> /\ writer[s] = "new"
<1>3. ASSUME NEW s \in Streams!Stream PROVE Goes(s)
  <2>1. ASSUME NEW r \in Ws, NEW v \in Watched, Streams!Subscribe(r, v) PROVE Goes(s)
        BY <1>1, <2>1 DEF Streams!Subscribe, Streams!Move
  <2>2. ASSUME NEW r \in Streams!Stream, NEW v \in Watched, Streams!StreamEvents(r, v)
        PROVE Goes(s)
        BY <1>1, <2>2 DEF Streams!StreamEvents
  <2>3. UNCHANGED <<current, since>> => Goes(s) OBVIOUS
  <2>4. \/ \E r \in Ws, v \in Watched : Streams!Subscribe(r, v)
        \/ \E r \in Streams!Stream, v \in Watched : Streams!StreamEvents(r, v)
        \/ UNCHANGED <<current, since>>
        BY DEF Streams!Next, Streams!vars, Streams!Broadcast, Streams!Connect,
               Streams!Register, Streams!Confirm, Streams!Send, Streams!ReadFails,
               Streams!Deliver, Streams!Leave, Streams!Unregister, Streams!StartRefused
  <2> QED BY <2>1, <2>2, <2>3, <2>4
<1>4. ASSUME NEW s \in Streams!Stream, NEW e \in Streams!ToSet(wsChan'[s]), e.n > since'[s]
      PROVE e.workspace = current'[s]
  <2>1. StreamNew(s, e) BY StreamChanStep
  <2>2. CASE current'[s] = current[s] /\ since'[s] = since[s]
    <3>1. CASE e \in Streams!ToSet(wsChan[s]) BY <1>4, <2>2, <3>1 DEF Streams!EventsOfCurrent
    <3>2. CASE e.n = 0 BY <1>2, <1>4, <2>2, <3>2
    <3>3. CASE \E w \in Watched : s \in wsListeners[w] /\ e.workspace = w
          BY <2>2, <3>3 DEF StreamListed
    <3> QED BY <2>1, <3>1, <3>2, <3>3 DEF StreamNew
  <2>3. CASE since'[s] = events /\ UNCHANGED <<wsChan, events>>
    <3>1. e \in Streams!ToSet(wsChan[s]) BY <2>3
    <3>2. e.n <= events /\ e \in Streams!Event BY <3>1, StreamSeqSet DEF StreamPast, StreamChans
    <3>3. e.n \in Nat BY <3>2 DEF Streams!Event
    <3> QED BY <1>1, <1>4, <2>3, <3>2, <3>3
  <2>4. CASE UNCHANGED <<wsChan, since>> /\ writer[s] = "new"
    <3>1. wsChan'[s] = <<>> BY <2>4 DEF StreamFresh
    <3> QED BY <1>4, <3>1, StreamNoneSet
  <2> QED BY <1>3, <2>2, <2>3, <2>4
<1> QED BY <1>4 DEF Streams!EventsOfCurrent

-----------------------------------------------------------------------------
LEMMA StreamInitInv == ASSUME StreamBounds PROVE Streams!Init => StreamIInv
<1> SUFFICES ASSUME Streams!Init PROVE StreamIInv OBVIOUS
<1>0. WsCapacity \in Nat /\ MaxEvents \in Nat /\ MaxMoves \in Nat BY DEF StreamBounds
<1>1. \A s \in Streams!Stream : wsChan[s] = <<>> /\ Len(wsChan[s]) = 0 /\
      Streams!ToSet(wsChan[s]) = {}
      BY StreamNoneSet DEF Streams!Init
<1>2. Streams!TypeOK
  <2>1. \A s \in Streams!Stream : Len(wsChan[s]) <= WsCapacity /\
        Streams!ToSet(wsChan[s]) \subseteq Streams!Event
        BY <1>0, <1>1
  <2>2. 0 \in 0..MaxEvents /\ 0 \in 0..MaxMoves BY <1>0
  <2> QED BY <2>1, <2>2 DEF Streams!Init, Streams!TypeOK
<1>3. StreamChans BY DEF Streams!Init, StreamChans
<1>4. StreamListed /\ StreamFresh /\ StreamClosed
      BY DEF Streams!Init, StreamListed, StreamFresh, StreamClosed, Streams!Stream
<1>5. StreamPast /\ Streams!EventsOfCurrent BY <1>1 DEF StreamPast, Streams!EventsOfCurrent
<1> QED BY <1>2, <1>3, <1>4, <1>5 DEF StreamIInv

LEMMA StreamStepInv == ASSUME StreamBounds, StreamIInv, [Streams!Next]_(Streams!vars)
    PROVE StreamIInv'
BY StreamTypeStep, StreamListedStep, StreamFreshStep, StreamPastStep, StreamClosedStep,
   StreamCurrentStep
   DEF StreamIInv

(* The events reach who asked for them and nobody else: a closed channel   *)
(* leaves the router's table, none is in it twice, and what enters one     *)
(* after a move is of the workspace it moved to (ipc.go, handlers_ws.go).  *)
LEMMA StreamSound == ASSUME StreamBounds PROVE Streams!Spec => []Streams!StreamsSound
<1>1. Streams!Init => StreamIInv BY StreamInitInv
<1>2. StreamIInv /\ [Streams!Next]_(Streams!vars) => StreamIInv' BY StreamStepInv
<1>3. StreamIInv => Streams!StreamsSound
  <2> SUFFICES ASSUME StreamIInv PROVE Streams!StreamsSound OBVIOUS
  <2>1. Streams!DeadChannelsLeave
    <3>1. \A s \in Streams!Stream, v, w \in Watched :
             s \in wsListeners[v] /\ writer[s] = "closed" => s \in cut
          BY DEF StreamIInv, StreamClosed
    <3>2. \A s \in Streams!Stream, v, w \in Watched :
             s \in wsListeners[v] \cap wsListeners[w] => v = w
          BY DEF StreamIInv, StreamListed
    <3> QED BY <3>1, <3>2 DEF Streams!DeadChannelsLeave
  <2> QED BY <2>1 DEF StreamIInv, Streams!StreamsSound
<1> QED BY <1>1, <1>2, <1>3, PTL DEF Streams!Spec

(* The composition runs the event streams as it is specified: the other    *)
(* parts leave its variables alone.                                        *)
LEMMA StreamsRuns == FairSpec => Streams!Spec
<1>1. Init => Streams!Init
  BY DEF Init
<1>2. [Next]_vars => [Streams!Next]_(Streams!vars)
  BY DEF Next, vars, streamsVars, Streams!vars, InProcs, InTerms, InClient, InServers,
         InStreams, InBuffers, InDaemons
<1> QED BY <1>1, <1>2, PTL DEF FairSpec, Streams!Spec

-----------------------------------------------------------------------------
-----------------------------------------------------------------------------
BufferChans == bufChan \in [Subscriber -> Seq(Buffers!Held)]

(* A call has somebody left to reach only while it holds the read lock,    *)
(* and they are subscribed.                                                *)
BufferReached == \A u \in Update : /\ todo[u] # {} => at[u] = "notifying"
                                   /\ todo[u] \subseteq subscribers

(* Nothing under way to a subscriber is newer than what is stored.         *)
BufferNotNewer(s) == /\ view[s].version <= stored.version
                     /\ \A i \in 1..Len(bufChan[s]) : bufChan[s][i].version <= stored.version

(* What is stored is what the subscriber shows or is under way to it, and  *)
(* everything behind it is older: it will be shown and stay.               *)
BufferBehind(s, k) == \A i \in 1..Len(bufChan[s]) : i > k =>
  bufChan[s][i].version < stored.version
BufferSettled(s) == \/ view[s] = stored /\ BufferBehind(s, 0)
                    \/ \E k \in 1..Len(bufChan[s]) : bufChan[s][k] = stored /\
                       BufferBehind(s, k)

(* A call that has still to send to s: what it has stored, or, when it was *)
(* too old to be stored, something older.                                  *)
BufferOwes(u, s) == at[u] = "stored" \/ (at[u] = "notifying" /\ s \in todo[u])
BufferAccepted(u) == /\ sends[u].content = stored.content
                     /\ \/ sends[u].version = stored.version
                        \/ sends[u].version = 0 /\ at[u] = "stored"
BufferRefused(u) == sends[u].version \in 1..MaxVersion /\ sends[u].version < stored.version

BufferAlone == ~bufMet =>
    /\ \A u, o \in Update : Buffers!Under(u) /\ Buffers!Under(o) => u = o
    /\ \A s \in subscribers \ dropped : BufferNotNewer(s)
    /\ \A s \in subscribers \ dropped :
          BufferSettled(s) \/ \E u \in Update : BufferOwes(u, s) /\ BufferAccepted(u)
    /\ \A u \in Update : Buffers!Under(u) => BufferAccepted(u) \/ BufferRefused(u)

BufferIInv == Buffers!TypeOK /\ BufferChans /\ BufferReached /\ BufferAlone
-----------------------------------------------------------------------------
LEMMA BufferBlankHeld == ASSUME BufferBounds PROVE Buffers!Blank \in Buffers!Held
<1>1. 0 \in 0..MaxVersion BY DEF BufferBounds
<1>2. NoContent \in Update \cup {NoContent} OBVIOUS
<1>3. Buffers!Blank = [content |-> NoContent, version |-> 0] BY DEF Buffers!Blank
<1>4. [content |-> NoContent, version |-> 0] \in Buffers!Held BY <1>1, <1>2 DEF Buffers!Held
<1> QED BY <1>3, <1>4

LEMMA BufferInitInv == ASSUME BufferBounds PROVE Buffers!Init => BufferIInv
<1> SUFFICES ASSUME Buffers!Init PROVE BufferIInv OBVIOUS
<1>0. MaxVersion \in Nat /\ BufCapacity \in Nat BY DEF BufferBounds
<1>a. 0 \in 0..MaxVersion BY <1>0
<1>b. Buffers!Blank \in Buffers!Held BY BufferBlankHeld
<1>1. Buffers!TypeOK
  <2>1. \A s \in Subscriber : Len(bufChan[s]) = 0 BY DEF Buffers!Init
  <2>2. stored \in Buffers!Held /\ sends \in [Update -> Buffers!Held] /\
        view \in [Subscriber -> Buffers!Held]
        BY <1>b DEF Buffers!Init
  <2>3. \A s \in Subscriber : Len(bufChan[s]) <= BufCapacity BY <1>0, <2>1
  <2> QED BY <2>2, <2>3 DEF Buffers!Init, Buffers!TypeOK
<1>2. BufferChans BY DEF Buffers!Init, BufferChans
<1>3. BufferReached BY DEF Buffers!Init, BufferReached
<1>4. BufferAlone
  <2>1. ASSUME NEW s \in Subscriber
        PROVE bufChan[s] = <<>> /\ Len(bufChan[s]) = 0 /\ view[s] = stored
        BY DEF Buffers!Init
  <2>2. stored.version \in Nat BY <1>b, <1>0 DEF Buffers!Init, Buffers!Held
  <2>3. \A s \in Subscriber : BufferNotNewer(s) /\ BufferSettled(s)
        BY <2>1, <2>2 DEF BufferNotNewer, BufferSettled, BufferBehind
  <2>4. \A u \in Update : ~Buffers!Under(u) BY DEF Buffers!Init, Buffers!Under
  <2> QED BY <2>3, <2>4 DEF BufferAlone, Buffers!Init
<1> QED BY <1>1, <1>2, <1>3, <1>4 DEF BufferIInv

(* The channels keep their type.                                           *)
LEMMA BufferTypeStep ==
    ASSUME BufferBounds, Buffers!TypeOK, BufferChans, [Buffers!Next]_(Buffers!vars)
      PROVE Buffers!TypeOK' /\ BufferChans'
<1>0. MaxVersion \in Nat /\ BufCapacity \in Nat BY DEF BufferBounds
<1>1. /\ stored \in Buffers!Held
      /\ at \in [Update -> {"new", "stored", "notifying", "done"}]
      /\ sends \in [Update -> Buffers!Held]
      /\ todo \in [Update -> SUBSET Subscriber]
      /\ subscribers \subseteq Subscriber
      /\ view \in [Subscriber -> Buffers!Held]
      /\ dropped \subseteq Subscriber
      /\ bufMet \in BOOLEAN
      BY DEF Buffers!TypeOK
<1>2. \A s \in Subscriber : Len(bufChan[s]) <= BufCapacity BY DEF Buffers!TypeOK
<1>3. bufChan \in [Subscriber -> Seq(Buffers!Held)] BY DEF BufferChans
<1>4. stored.version \in 0..MaxVersion /\ \A u \in Update : sends[u] \in Buffers!Held
      BY <1>1 DEF Buffers!Held
<1>5. ASSUME NEW u \in Update, NEW n \in 1..MaxVersion, Buffers!UpdateBuffer(u, n)
      PROVE Buffers!TypeOK' /\ BufferChans'
  <2>1. [content |-> u, version |-> n] \in Buffers!Held BY <1>0 DEF Buffers!Held
  <2>2. stored' \in Buffers!Held /\ sends' \in [Update -> Buffers!Held]
        BY <1>1, <1>5, <2>1 DEF Buffers!UpdateBuffer
  <2>3. /\ at' \in [Update -> {"new", "stored", "notifying", "done"}]
        /\ bufMet' \in BOOLEAN
        /\ UNCHANGED <<todo, subscribers, bufChan, view, dropped>>
        BY <1>1, <1>5 DEF Buffers!UpdateBuffer, Buffers!Enter
  <2> QED BY <1>1, <1>2, <1>3, <2>2, <2>3 DEF Buffers!TypeOK, BufferChans, Buffers!Held
<1>6. ASSUME NEW u \in Update, Buffers!ApplyPatch(u) PROVE Buffers!TypeOK' /\ BufferChans'
  <2>1. stored.version < MaxVersion BY <1>6 DEF Buffers!ApplyPatch
  <2>2. stored.version + 1 \in 0..MaxVersion BY <1>0, <1>4, <2>1
  <2>3. /\ [content |-> u, version |-> stored.version + 1] \in Buffers!Held
        /\ [content |-> u, version |-> 0] \in Buffers!Held
        BY <1>0, <2>2 DEF Buffers!Held
  <2>4. stored' \in Buffers!Held /\ sends' \in [Update -> Buffers!Held]
        BY <1>1, <1>6, <2>3 DEF Buffers!ApplyPatch
  <2>5. /\ at' \in [Update -> {"new", "stored", "notifying", "done"}]
        /\ bufMet' \in BOOLEAN
        /\ UNCHANGED <<todo, subscribers, bufChan, view, dropped>>
        BY <1>1, <1>6 DEF Buffers!ApplyPatch, Buffers!Enter
  <2> QED BY <1>1, <1>2, <1>3, <2>4, <2>5 DEF Buffers!TypeOK, BufferChans, Buffers!Held
<1>7. ASSUME NEW u \in Update, Buffers!Notify(u) PROVE Buffers!TypeOK' /\ BufferChans'
  <2>1. [sends[u] EXCEPT !.version = stored.version] \in Buffers!Held BY <1>4 DEF Buffers!Held
  <2>2. sends' \in [Update -> Buffers!Held] BY <1>1, <1>7, <2>1 DEF Buffers!Notify
  <2> QED BY <1>1, <1>2, <1>3, <1>7, <2>2
             DEF Buffers!TypeOK, BufferChans, Buffers!Held, Buffers!Notify
<1>8. ASSUME NEW u \in Update, NEW s \in Subscriber, Buffers!Reach(u, s)
      PROVE Buffers!TypeOK' /\ BufferChans'
  <2>0. todo' \in [Update -> SUBSET Subscriber] BY <1>1, <1>8 DEF Buffers!Reach
  <2>1. CASE Len(bufChan[s]) < BufCapacity
    <3>1. bufChan' = [bufChan EXCEPT ![s] = Append(@, sends[u])] /\ UNCHANGED dropped
          BY <1>8, <2>1 DEF Buffers!Reach
    <3>2. /\ Append(bufChan[s], sends[u]) \in Seq(Buffers!Held)
          /\ Len(Append(bufChan[s], sends[u])) <= BufCapacity
          BY <1>0, <1>3, <1>4, <2>1
    <3> QED BY <1>1, <1>2, <1>3, <1>8, <2>0, <3>1, <3>2
               DEF Buffers!TypeOK, BufferChans, Buffers!Held, Buffers!Reach
  <2>2. CASE ~(Len(bufChan[s]) < BufCapacity)
        BY <1>1, <1>2, <1>3, <1>8, <2>0, <2>2
           DEF Buffers!TypeOK, BufferChans, Buffers!Held, Buffers!Reach
  <2> QED BY <2>1, <2>2
<1>9. ASSUME NEW u \in Update, Buffers!Notified(u) PROVE Buffers!TypeOK' /\ BufferChans'
      BY <1>1, <1>2, <1>3, <1>9
         DEF Buffers!TypeOK, BufferChans, Buffers!Held, Buffers!Notified
<1>10. ASSUME NEW s \in Subscriber, Buffers!Receive(s) PROVE Buffers!TypeOK' /\ BufferChans'
  <2>1. bufChan[s] \in Seq(Buffers!Held) /\ bufChan[s] # <<>> BY <1>3, <1>10 DEF Buffers!Receive
  <2>2. /\ Tail(bufChan[s]) \in Seq(Buffers!Held) /\ Head(bufChan[s]) \in Buffers!Held
        /\ Len(Tail(bufChan[s])) = Len(bufChan[s]) - 1 /\ Len(bufChan[s]) \in Nat
        BY <2>1
  <2>3. view' \in [Subscriber -> Buffers!Held] BY <1>1, <1>10, <2>2 DEF Buffers!Receive
  <2>4. bufChan' = [bufChan EXCEPT ![s] = Tail(bufChan[s])] BY <1>10 DEF Buffers!Receive
  <2>5. bufChan' \in [Subscriber -> Seq(Buffers!Held)] BY <1>3, <2>2, <2>4
  <2>6. \A o \in Subscriber : Len(bufChan'[o]) <= BufCapacity BY <1>0, <1>2, <1>3, <2>2, <2>4
  <2> QED BY <1>1, <1>10, <2>3, <2>5, <2>6
             DEF Buffers!TypeOK, BufferChans, Buffers!Held, Buffers!Receive
<1>11. ASSUME NEW s \in Subscriber, Buffers!Unsubscribe(s) PROVE Buffers!TypeOK' /\ BufferChans'
       BY <1>1, <1>2, <1>3, <1>11
          DEF Buffers!TypeOK, BufferChans, Buffers!Held, Buffers!Unsubscribe
<1>12. ASSUME UNCHANGED Buffers!vars PROVE Buffers!TypeOK' /\ BufferChans'
       BY <1>1, <1>2, <1>3, <1>12
          DEF Buffers!TypeOK, BufferChans, Buffers!Held, Buffers!vars
<1> QED BY <1>5, <1>6, <1>7, <1>8, <1>9, <1>10, <1>11, <1>12 DEF Buffers!Next

LEMMA BufferReachedStep ==
    ASSUME Buffers!TypeOK, BufferReached, [Buffers!Next]_(Buffers!vars) PROVE BufferReached'
<1>1. /\ at \in [Update -> {"new", "stored", "notifying", "done"}]
      /\ todo \in [Update -> SUBSET Subscriber]
      BY DEF Buffers!TypeOK
<1> USE <1>1 DEF BufferReached
<1>2. ASSUME NEW u \in Update, NEW n \in 1..MaxVersion, Buffers!UpdateBuffer(u, n)
      PROVE BufferReached'
      BY <1>2 DEF Buffers!UpdateBuffer, Buffers!Enter
<1>3. ASSUME NEW u \in Update, Buffers!ApplyPatch(u) PROVE BufferReached'
      BY <1>3 DEF Buffers!ApplyPatch, Buffers!Enter
<1>4. ASSUME NEW u \in Update, Buffers!Notify(u) PROVE BufferReached'
      BY <1>4 DEF Buffers!Notify
<1>5. ASSUME NEW u \in Update, NEW s \in Subscriber, Buffers!Reach(u, s) PROVE BufferReached'
      BY <1>5 DEF Buffers!Reach
<1>6. ASSUME NEW u \in Update, Buffers!Notified(u) PROVE BufferReached'
      BY <1>6 DEF Buffers!Notified
<1>7. ASSUME NEW s \in Subscriber, Buffers!Receive(s) PROVE BufferReached'
      BY <1>7 DEF Buffers!Receive
<1>8. ASSUME NEW s \in Subscriber, Buffers!Unsubscribe(s) PROVE BufferReached'
      BY <1>8 DEF Buffers!Unsubscribe, Buffers!Reading
<1>9. ASSUME UNCHANGED Buffers!vars PROVE BufferReached'
      BY <1>9 DEF Buffers!vars
<1> QED BY <1>2, <1>3, <1>4, <1>5, <1>6, <1>7, <1>8, <1>9 DEF Buffers!Next

(* Entering: a call that enters while no other is between its store and    *)
(* its last send finds every subscriber settled.                           *)
LEMMA BufferQuiet ==
    ASSUME BufferReached, BufferAlone, ~bufMet, \A u \in Update : ~Buffers!Under(u)
                     PROVE \A s \in subscribers \ dropped : BufferNotNewer(s) /\
                       BufferSettled(s)
BY DEF BufferAlone, BufferOwes, Buffers!Under

LEMMA BufferAloneEnter ==
    ASSUME BufferBounds, Buffers!TypeOK, BufferChans, BufferReached, BufferAlone,
                                 NEW u \in Update, NEW n \in 1..MaxVersion,
                                 Buffers!UpdateBuffer(u, n) \/ Buffers!ApplyPatch(u)
                          PROVE BufferAlone'
<1> SUFFICES ASSUME ~bufMet' PROVE BufferAlone' BY DEF BufferAlone
<1>0. MaxVersion \in Nat /\ BufCapacity \in Nat BY DEF BufferBounds
<1>1. Buffers!Enter(u) BY DEF Buffers!UpdateBuffer, Buffers!ApplyPatch
<1>2. /\ ~bufMet /\ \A o \in Update : ~Buffers!Under(o)
      /\ at[u] = "new" /\ at' = [at EXCEPT ![u] = "stored"]
      /\ UNCHANGED <<todo, subscribers, bufChan, view, dropped>>
      BY <1>1 DEF Buffers!Enter
<1>3. \A s \in subscribers \ dropped : BufferNotNewer(s) /\ BufferSettled(s)
      BY <1>2, BufferQuiet
<1>4. at \in [Update -> {"new", "stored", "notifying", "done"}] BY DEF Buffers!TypeOK
<1>5. \A o \in Update : Buffers!Under(o)' <=> o = u BY <1>2, <1>4 DEF Buffers!Under
<1>6. stored.version \in 0..MaxVersion /\ sends \in [Update -> Buffers!Held]
      BY DEF Buffers!TypeOK, Buffers!Held
<1>7. at'[u] = "stored" /\ \A s \in Subscriber : BufferOwes(u, s)' BY <1>2, <1>4 DEF BufferOwes
<1>a. subscribers \subseteq Subscriber BY DEF Buffers!TypeOK
<1>8. CASE stored' # stored
  <2>1. stored'.version >= stored.version /\ stored'.version \in Nat /\ BufferAccepted(u)'
    <3>1. CASE Buffers!UpdateBuffer(u, n)
      <4>1. sends'[u] = [content |-> u, version |-> n] BY <1>6, <3>1 DEF Buffers!UpdateBuffer
      <4>2. n >= stored.version /\ stored' = [content |-> u, version |-> n]
            BY <1>8, <3>1 DEF Buffers!UpdateBuffer
      <4> QED BY <1>0, <4>1, <4>2 DEF BufferAccepted
    <3>2. CASE Buffers!ApplyPatch(u)
      <4>1. sends'[u] = [content |-> u, version |-> 0] BY <1>6, <3>2 DEF Buffers!ApplyPatch
      <4>2. stored' = [content |-> u, version |-> stored.version + 1]
            BY <3>2 DEF Buffers!ApplyPatch
      <4> QED BY <1>0, <1>6, <1>7, <4>1, <4>2 DEF BufferAccepted
    <3> QED BY <3>1, <3>2
  <2>2. ASSUME NEW s \in subscribers \ dropped PROVE BufferNotNewer(s)'
    <3>1. BufferNotNewer(s) BY <1>3
    <3>0. s \in Subscriber /\ view \in [Subscriber -> Buffers!Held] BY <1>a DEF Buffers!TypeOK
    <3>2. view[s].version \in Nat /\ bufChan[s] \in Seq(Buffers!Held)
      <4>1. view[s] \in Buffers!Held BY <3>0
      <4>2. view[s].version \in Nat BY <4>1 DEF Buffers!Held
      <4> QED BY <3>0, <4>2 DEF BufferChans
    <3>3. \A i \in 1..Len(bufChan[s]) : bufChan[s][i].version \in Nat
      <4>1. \A i \in 1..Len(bufChan[s]) : bufChan[s][i] \in Buffers!Held BY <3>2
      <4> QED BY <4>1 DEF Buffers!Held
    <3>4. stored.version \in Nat BY <1>6
    <3> QED BY <1>2, <2>1, <3>1, <3>2, <3>3, <3>4 DEF BufferNotNewer
  <2> QED BY <1>2, <1>5, <1>7, <1>a, <2>1, <2>2 DEF BufferAlone
<1>9. CASE stored' = stored
  <2>1. CASE Buffers!UpdateBuffer(u, n)
    <3>1. sends'[u] = [content |-> u, version |-> n] BY <1>6, <2>1 DEF Buffers!UpdateBuffer
    <3>2. BufferAccepted(u)' \/ BufferRefused(u)'
      <4>1. CASE n >= stored.version
            BY <2>1, <3>1, <4>1 DEF BufferAccepted, Buffers!UpdateBuffer
      <4>2. CASE ~(n >= stored.version)
            BY <1>0, <1>6, <1>9, <3>1, <4>2 DEF BufferRefused
      <4> QED BY <4>1, <4>2
    <3>3. \A s \in subscribers \ dropped : BufferNotNewer(s)' /\ BufferSettled(s)'
          BY <1>2, <1>3, <1>9 DEF BufferNotNewer, BufferSettled, BufferBehind
    <3> QED BY <1>2, <1>5, <3>2, <3>3 DEF BufferAlone
  <2>2. CASE Buffers!ApplyPatch(u)
    <3>1. stored' = [content |-> u, version |-> stored.version + 1]
          BY <2>2 DEF Buffers!ApplyPatch
    <3>2. stored'.version = stored.version + 1 BY <3>1
    <3> QED BY <1>6, <1>9, <3>2
  <2> QED BY <2>1, <2>2
<1> QED BY <1>8, <1>9

LEMMA BufferAloneNotify ==
    ASSUME Buffers!TypeOK, BufferAlone, NEW u \in Update, Buffers!Notify(u) PROVE BufferAlone'
<1> SUFFICES ASSUME ~bufMet' PROVE BufferAlone' BY DEF BufferAlone
<1>1. /\ ~bufMet /\ at[u] = "stored" /\ at' = [at EXCEPT ![u] = "notifying"]
      /\ todo' = [todo EXCEPT ![u] = subscribers]
      /\ UNCHANGED <<stored, subscribers, bufChan, view, dropped, bufMet>>
      BY DEF Buffers!Notify
<1>2. /\ at \in [Update -> {"new", "stored", "notifying", "done"}]
      /\ todo \in [Update -> SUBSET Subscriber] /\ sends \in [Update -> Buffers!Held]
      BY DEF Buffers!TypeOK
<1>3. /\ \A v, o \in Update : Buffers!Under(v) /\ Buffers!Under(o) => v = o
      /\ \A s \in subscribers \ dropped : BufferNotNewer(s)
      /\ \A s \in subscribers \ dropped :
            BufferSettled(s) \/ \E v \in Update : BufferOwes(v, s) /\ BufferAccepted(v)
      /\ \A v \in Update : Buffers!Under(v) => BufferAccepted(v) \/ BufferRefused(v)
      BY <1>1 DEF BufferAlone
<1>4. \A v \in Update : Buffers!Under(v)' <=> Buffers!Under(v) BY <1>1, <1>2 DEF Buffers!Under
<1>5. Buffers!Under(u) BY <1>1 DEF Buffers!Under
<1>6. \A v \in Update : Buffers!Under(v) => v = u BY <1>3, <1>5
<1>7. BufferAccepted(u) => BufferAccepted(u)'
  <2>1. CASE sends[u].version = 0
    <3>1. sends' = [sends EXCEPT ![u].version = stored.version] BY <2>1 DEF Buffers!Notify
    <3>2. /\ sends'[u].version = stored.version
          /\ sends'[u].content = sends[u].content
          BY <1>2, <3>1 DEF Buffers!Held
    <3> QED BY <1>1, <3>2 DEF BufferAccepted
  <2>2. CASE sends[u].version # 0 BY <1>1, <2>2 DEF Buffers!Notify, BufferAccepted
  <2> QED BY <2>1, <2>2
<1>8. BufferRefused(u) => BufferRefused(u)'
  <2> SUFFICES ASSUME BufferRefused(u) PROVE BufferRefused(u)' OBVIOUS
  <2>1. sends[u].version # 0 BY DEF BufferRefused
  <2> QED BY <1>1, <2>1 DEF Buffers!Notify, BufferRefused
<1>9. ASSUME NEW s \in subscribers \ dropped
      PROVE BufferSettled(s)' \/ \E v \in Update : BufferOwes(v, s)' /\ BufferAccepted(v)'
  <2>1. CASE BufferSettled(s) BY <1>1, <2>1 DEF BufferSettled, BufferBehind
  <2>2. CASE \E v \in Update : BufferOwes(v, s) /\ BufferAccepted(v)
    <3>1. BufferAccepted(u) BY <1>6, <2>2 DEF BufferOwes, Buffers!Under
    <3>2. BufferOwes(u, s)' BY <1>1, <1>2 DEF BufferOwes
    <3> QED BY <1>7, <3>1, <3>2
  <2> QED BY <1>3, <2>1, <2>2
<1>10. \A s \in subscribers \ dropped : BufferNotNewer(s)' BY <1>1, <1>3 DEF BufferNotNewer
<1>11. \A v \in Update : Buffers!Under(v)' => BufferAccepted(v)' \/ BufferRefused(v)'
       BY <1>3, <1>4, <1>6, <1>7, <1>8
<1> QED BY <1>1, <1>3, <1>4, <1>9, <1>10, <1>11 DEF BufferAlone

LEMMA BufferAloneReach ==
    ASSUME Buffers!TypeOK, BufferChans, BufferAlone, NEW u \in Update, NEW r \in Subscriber,
                                 Buffers!Reach(u, r)
                          PROVE BufferAlone'
<1> SUFFICES ASSUME ~bufMet' PROVE BufferAlone' BY DEF BufferAlone
<1>1. /\ at[u] = "notifying" /\ r \in todo[u]
      /\ todo' = [todo EXCEPT ![u] = @ \ {r}]
      /\ UNCHANGED <<stored, at, sends, subscribers, view, bufMet>>
      BY DEF Buffers!Reach
<1>2. /\ todo \in [Update -> SUBSET Subscriber] /\ subscribers \subseteq Subscriber
      /\ sends[u] \in Buffers!Held /\ stored \in Buffers!Held
      BY DEF Buffers!TypeOK
<1>3. /\ \A v, o \in Update : Buffers!Under(v) /\ Buffers!Under(o) => v = o
      /\ \A s \in subscribers \ dropped : BufferNotNewer(s)
      /\ \A s \in subscribers \ dropped :
            BufferSettled(s) \/ \E v \in Update : BufferOwes(v, s) /\ BufferAccepted(v)
      /\ \A v \in Update : Buffers!Under(v) => BufferAccepted(v) \/ BufferRefused(v)
      BY <1>1 DEF BufferAlone
<1>4. \A v \in Update : /\ (Buffers!Under(v)' <=> Buffers!Under(v)) /\
                           (BufferAccepted(v)' <=> BufferAccepted(v))
                        /\ (BufferRefused(v)' <=> BufferRefused(v))
      BY <1>1 DEF Buffers!Under, BufferAccepted, BufferRefused
<1>5. Buffers!Under(u) BY <1>1 DEF Buffers!Under
<1>6. stored.version \in Nat /\ sends[u].version \in Nat BY <1>2 DEF Buffers!Held
<1>7. sends[u] = stored \/ sends[u].version < stored.version
  <2>1. CASE BufferAccepted(u)
    <3>1. sends[u].content = stored.content /\ sends[u].version = stored.version
          BY <1>1, <2>1 DEF BufferAccepted
    <3> QED BY <1>2, <3>1 DEF Buffers!Held
  <2>2. CASE BufferRefused(u) BY <2>2 DEF BufferRefused
  <2> QED BY <1>3, <1>5, <2>1, <2>2
<1>8. sends[u].version <= stored.version BY <1>6, <1>7
<1>9. ASSUME NEW s \in subscribers \ dropped'
      PROVE BufferNotNewer(s)' /\ (BufferSettled(s)' \/
        \E v \in Update : BufferOwes(v, s)' /\ BufferAccepted(v)')
  <2>0. s \in subscribers \ dropped /\ s \in Subscriber BY <1>2 DEF Buffers!Reach
  <2>1. BufferNotNewer(s) BY <1>3, <2>0
  <2>2. CASE s # r
    <3>1. bufChan'[s] = bufChan[s] BY <2>0, <2>2 DEF Buffers!Reach, BufferChans
    <3>2. BufferNotNewer(s)' BY <1>1, <2>1, <3>1 DEF BufferNotNewer
    <3>3. BufferSettled(s) => BufferSettled(s)' BY <1>1, <3>1 DEF BufferSettled, BufferBehind
    <3>4. ASSUME NEW v \in Update, BufferOwes(v, s) PROVE BufferOwes(v, s)'
      <4>1. s \in todo[v] => s \in todo'[v] BY <1>1, <1>2, <2>2
      <4> QED BY <1>1, <3>4, <4>1 DEF BufferOwes
    <3> QED BY <1>3, <1>4, <2>0, <3>2, <3>3, <3>4
  <2>3. CASE s = r
    <3>0. Len(bufChan[s]) < BufCapacity BY <2>3 DEF Buffers!Reach
    <3>1. bufChan[s] \in Seq(Buffers!Held) /\ bufChan'[s] = Append(bufChan[s], sends[u])
          BY <2>0, <2>3, <3>0 DEF Buffers!Reach, BufferChans
    <3>2. /\ Len(bufChan'[s]) = Len(bufChan[s]) + 1 /\ Len(bufChan[s]) \in Nat
          /\ \A i \in 1..Len(bufChan[s]) : bufChan'[s][i] = bufChan[s][i]
          /\ bufChan'[s][Len(bufChan[s]) + 1] = sends[u]
          BY <1>2, <3>1
    <3> DEFINE n == Len(bufChan[s])
    <3>3. \A i \in 1..(n + 1) : i \in 1..n \/ i = n + 1 BY <3>2
    <3>4. BufferNotNewer(s)'
      <4>1. \A i \in 1..(n + 1) : bufChan'[s][i].version <= stored.version
            BY <1>8, <2>1, <3>2, <3>3 DEF BufferNotNewer
      <4> QED BY <1>1, <2>1, <3>2, <4>1 DEF BufferNotNewer
    <3>5. CASE sends[u] = stored
      <4>0. PICK k \in Nat : k = n + 1 BY <3>2
      <4>1. BufferBehind(s, k)' BY <1>1, <3>2, <4>0 DEF BufferBehind
      <4>2. k \in 1..Len(bufChan'[s]) BY <3>2, <4>0
      <4>3. bufChan'[s][k] = stored' BY <1>1, <3>2, <3>5, <4>0
      <4> QED BY <3>4, <4>1, <4>2, <4>3 DEF BufferSettled
    <3>6. CASE sends[u].version < stored.version
      <4>1. BufferSettled(s)
        <5>1. ASSUME NEW v \in Update, BufferOwes(v, s), BufferAccepted(v) PROVE FALSE
          <6>1. v = u BY <1>3, <1>5, <5>1 DEF BufferOwes, Buffers!Under
          <6>2. BufferRefused(u)
            <7>1. sends[u].version # stored.version BY <1>6, <3>6
            <7>2. ~BufferAccepted(u) BY <1>1, <7>1 DEF BufferAccepted
            <7> QED BY <1>3, <1>5, <7>2
          <6>3. sends[u].version # 0 /\ sends[u].version # stored.version
                BY <1>6, <3>6, <6>2 DEF BufferRefused
          <6> QED BY <5>1, <6>1, <6>3 DEF BufferAccepted
        <5> QED BY <1>3, <2>0, <5>1
      <4>2. \A k \in 0..n : BufferBehind(s, k) => BufferBehind(s, k)'
            BY <1>1, <3>2, <3>3, <3>6 DEF BufferBehind
      <4>3. CASE view[s] = stored /\ BufferBehind(s, 0)
            BY <1>1, <3>2, <3>4, <4>2, <4>3 DEF BufferSettled
      <4>4. CASE \E k \in 1..Len(bufChan[s]) : bufChan[s][k] = stored /\ BufferBehind(s, k)
        <5>1. PICK k \in 1..Len(bufChan[s]) : bufChan[s][k] = stored /\ BufferBehind(s, k)
              BY <4>4
        <5>2. k \in 0..n /\ k \in 1..(n + 1) BY <3>2
        <5>3. BufferBehind(s, k)' BY <4>2, <5>1, <5>2
        <5>4. bufChan'[s][k] = stored' BY <1>1, <3>2, <5>1
        <5> QED BY <3>2, <3>4, <5>2, <5>3, <5>4 DEF BufferSettled
      <4> QED BY <4>1, <4>3, <4>4 DEF BufferSettled
    <3> QED BY <1>7, <3>5, <3>6
  <2> QED BY <2>2, <2>3
<1> QED BY <1>1, <1>3, <1>4, <1>9 DEF BufferAlone

LEMMA BufferAloneReceive ==
    ASSUME Buffers!TypeOK, BufferChans, BufferAlone, NEW r \in Subscriber, Buffers!Receive(r)
                            PROVE BufferAlone'
<1> SUFFICES ASSUME ~bufMet' PROVE BufferAlone' BY DEF BufferAlone
<1>1. /\ bufChan[r] # <<>> /\ bufChan' = [bufChan EXCEPT ![r] = Tail(@)]
      /\ UNCHANGED <<stored, at, sends, todo, subscribers, dropped, bufMet>>
      BY DEF Buffers!Receive
<1>2. /\ subscribers \subseteq Subscriber /\ view \in [Subscriber -> Buffers!Held]
      /\ stored \in Buffers!Held /\ bufChan \in [Subscriber -> Seq(Buffers!Held)]
      BY DEF Buffers!TypeOK, BufferChans
<1>3. /\ \A v, o \in Update : Buffers!Under(v) /\ Buffers!Under(o) => v = o
      /\ \A s \in subscribers \ dropped : BufferNotNewer(s)
      /\ \A s \in subscribers \ dropped :
            BufferSettled(s) \/ \E v \in Update : BufferOwes(v, s) /\ BufferAccepted(v)
      /\ \A v \in Update : Buffers!Under(v) => BufferAccepted(v) \/ BufferRefused(v)
      BY <1>1 DEF BufferAlone
<1>4. \A v \in Update : /\ (Buffers!Under(v)' <=> Buffers!Under(v)) /\
                           (BufferAccepted(v)' <=> BufferAccepted(v))
                        /\ (BufferRefused(v)' <=> BufferRefused(v))
                        /\ \A s \in Subscriber : (BufferOwes(v, s)' <=> BufferOwes(v, s))
      BY <1>1 DEF Buffers!Under, BufferAccepted, BufferRefused, BufferOwes
<1>5. ASSUME NEW s \in subscribers \ dropped
      PROVE BufferNotNewer(s)' /\ (BufferSettled(s) => BufferSettled(s)')
  <2>0. s \in Subscriber BY <1>2
  <2>1. BufferNotNewer(s) BY <1>3
  <2>2. CASE s # r
    <3>1. bufChan'[s] = bufChan[s] /\ view'[s] = view[s]
          BY <1>1, <1>2, <2>0, <2>2 DEF Buffers!Receive
    <3> QED BY <1>1, <2>1, <3>1 DEF BufferNotNewer, BufferSettled, BufferBehind
  <2>3. CASE s = r
    <3> DEFINE n == Len(bufChan[s])
    <3>1. bufChan[s] \in Seq(Buffers!Held) /\ bufChan[s] # <<>> /\
          bufChan'[s] = Tail(bufChan[s])
          BY <1>1, <1>2, <2>0, <2>3
    <3>2. /\ n \in Nat /\ n >= 1 /\ Len(bufChan'[s]) = n - 1
          /\ \A i \in 1..(n - 1) : bufChan'[s][i] = bufChan[s][i + 1]
          /\ Head(bufChan[s]) = bufChan[s][1]
          /\ \A i \in 1..n : bufChan[s][i] \in Buffers!Held
          BY <3>1
    <3> HIDE DEF n
    <3>3. /\ view'[s] = IF bufChan[s][1].version >= view[s].version THEN bufChan[s][1] ELSE view[s]
          BY <1>2, <2>0, <2>3, <3>2 DEF Buffers!Receive
    <3>4. /\ view[s].version <= stored.version
          /\ \A i \in 1..n : bufChan[s][i].version <= stored.version
          BY <2>1 DEF BufferNotNewer, n
    <3>5. \A i \in 1..(n - 1) : i + 1 \in 1..n BY <3>2
    <3>6. 1 \in 1..n BY <3>2
    <3>7. BufferNotNewer(s)'
      <4>1. view'[s].version <= stored.version BY <3>3, <3>4, <3>6
      <4>2. \A i \in 1..(n - 1) : bufChan'[s][i].version <= stored.version
            BY <3>2, <3>4, <3>5
      <4> QED BY <1>1, <3>2, <4>1, <4>2 DEF BufferNotNewer
    <3>8. view[s] \in Buffers!Held /\ bufChan[s][1] \in Buffers!Held BY <1>2, <2>0, <3>2, <3>6
    <3>9. view[s].version \in Nat /\ bufChan[s][1].version \in Nat /\ stored.version \in Nat
          BY <1>2, <3>8 DEF Buffers!Held
    <3>10. CASE view[s] = stored /\ BufferBehind(s, 0)
      <4>1. \A i \in 1..n : bufChan[s][i].version < stored.version
            BY <3>2, <3>10 DEF BufferBehind, n
      <4>2. view'[s] = view[s] BY <3>3, <3>6, <3>9, <3>10, <4>1
      <4>3. \A i \in 1..(n - 1) : bufChan'[s][i].version < stored.version
            BY <3>2, <3>5, <4>1
      <4>4. BufferBehind(s, 0)' BY <1>1, <3>2, <4>3 DEF BufferBehind
      <4> QED BY <1>1, <3>7, <3>10, <4>2, <4>4 DEF BufferSettled
    <3>11. ASSUME NEW k \in 1..Len(bufChan[s]), bufChan[s][k] = stored, BufferBehind(s, k)
           PROVE BufferSettled(s)'
      <4>1. \A i \in 1..n : i > k => bufChan[s][i].version < stored.version
            BY <3>11 DEF BufferBehind, n
      <4>2. k \in 1..n BY DEF n
      <4>3. CASE k = 1
        <5>1. view'[s] = stored BY <3>3, <3>4, <3>9, <3>11, <4>3
        <5>2. \A i \in 1..(n - 1) : bufChan'[s][i].version < stored.version
          <6>1. \A i \in 1..(n - 1) : i + 1 > 1 OBVIOUS
          <6> QED BY <3>2, <3>5, <4>1, <4>3, <6>1
        <5>3. BufferBehind(s, 0)' BY <1>1, <3>2, <5>2 DEF BufferBehind
        <5> QED BY <1>1, <5>1, <5>3 DEF BufferSettled
      <4>4. CASE k # 1
        <5>1. k - 1 \in 1..(n - 1) /\ (k - 1) + 1 = k BY <3>2, <4>2, <4>4
        <5>2. bufChan'[s][k - 1] = stored' BY <1>1, <3>2, <3>11, <5>1
        <5>3. \A i \in 1..(n - 1) : i > k - 1 => i + 1 > k BY <4>2
        <5>4. \A i \in 1..(n - 1) : i > k - 1 => bufChan'[s][i].version < stored.version
              BY <3>2, <3>5, <4>1, <5>3
        <5>5. BufferBehind(s, k - 1)' BY <1>1, <3>2, <5>4 DEF BufferBehind
        <5>6. k - 1 \in 1..Len(bufChan'[s]) BY <3>2, <5>1
        <5> QED BY <5>2, <5>5, <5>6 DEF BufferSettled
      <4> QED BY <4>3, <4>4
    <3> QED BY <3>7, <3>10, <3>11 DEF BufferSettled
  <2> QED BY <2>2, <2>3
<1> QED BY <1>1, <1>2, <1>3, <1>4, <1>5 DEF BufferAlone

(* A subscriber leaves or a call ends: nobody who was behind is forgotten. *)
LEMMA BufferAloneRest == ASSUME Buffers!TypeOK, BufferAlone,
                                \/ \E u \in Update : Buffers!Notified(u)
                                \/ \E s \in Subscriber : Buffers!Unsubscribe(s)
                                \/ UNCHANGED Buffers!vars
                         PROVE BufferAlone'
<1> SUFFICES ASSUME ~bufMet' PROVE BufferAlone' BY DEF BufferAlone
<1>1. UNCHANGED <<stored, sends, todo, bufChan, view, dropped, bufMet>> /\
      subscribers' \subseteq subscribers
      BY DEF Buffers!Notified, Buffers!Unsubscribe, Buffers!vars
<1>2. /\ \A v, o \in Update : Buffers!Under(v) /\ Buffers!Under(o) => v = o
      /\ \A s \in subscribers \ dropped : BufferNotNewer(s)
      /\ \A s \in subscribers \ dropped :
            BufferSettled(s) \/ \E v \in Update : BufferOwes(v, s) /\ BufferAccepted(v)
      /\ \A v \in Update : Buffers!Under(v) => BufferAccepted(v) \/ BufferRefused(v)
      BY <1>1 DEF BufferAlone
<1>3. at \in [Update -> {"new", "stored", "notifying", "done"}] BY DEF Buffers!TypeOK
<1>4. ASSUME NEW v \in Update
      PROVE /\ at'[v] = at[v] \/ (at[v] = "notifying" /\ at'[v] = "done" /\ todo[v] = {})
  <2>1. ASSUME NEW u \in Update, Buffers!Notified(u)
        PROVE at'[v] = at[v] \/ (at[v] = "notifying" /\ at'[v] = "done" /\ todo[v] = {})
        BY <1>3, <2>1 DEF Buffers!Notified
  <2>2. ASSUME NEW s \in Subscriber, Buffers!Unsubscribe(s) PROVE at'[v] = at[v]
        BY <2>2 DEF Buffers!Unsubscribe
  <2> QED BY <2>1, <2>2 DEF Buffers!vars
<1>5. ASSUME NEW v \in Update, Buffers!Under(v)'
      PROVE Buffers!Under(v) /\ (BufferAccepted(v) => BufferAccepted(v)') /\
        (BufferRefused(v) => BufferRefused(v)')
      BY <1>1, <1>4, <1>5 DEF Buffers!Under, BufferAccepted, BufferRefused
<1>6. ASSUME NEW v \in Update, NEW s \in Subscriber, BufferOwes(v, s), BufferAccepted(v)
      PROVE BufferOwes(v, s)' /\ BufferAccepted(v)'
      BY <1>1, <1>4, <1>6 DEF BufferOwes, BufferAccepted
<1>7. ASSUME NEW s \in subscribers'
      PROVE (BufferSettled(s) => BufferSettled(s)') /\ (BufferNotNewer(s) => BufferNotNewer(s)')
      BY <1>1 DEF BufferSettled, BufferNotNewer, BufferBehind
<1>8. subscribers \subseteq Subscriber BY DEF Buffers!TypeOK
<1> QED BY <1>1, <1>2, <1>5, <1>6, <1>7, <1>8 DEF BufferAlone

LEMMA BufferStepInv == ASSUME BufferBounds, BufferIInv, [Buffers!Next]_(Buffers!vars)
    PROVE BufferIInv'
<1>1. Buffers!TypeOK /\ BufferChans /\ BufferReached /\ BufferAlone BY DEF BufferIInv
<1>2. Buffers!TypeOK' /\ BufferChans' BY <1>1, BufferTypeStep
<1>3. BufferReached' BY <1>1, BufferReachedStep
<1>4. BufferAlone'
  <2>1. ASSUME NEW u \in Update, NEW n \in 1..MaxVersion, Buffers!UpdateBuffer(u, n)
        PROVE BufferAlone'
        BY <1>1, <2>1, BufferAloneEnter
  <2>2. ASSUME NEW u \in Update, Buffers!ApplyPatch(u) PROVE BufferAlone'
    <3>1. MaxVersion \in Nat /\ stored.version < MaxVersion /\ stored.version \in Nat
          BY <1>1, <2>2 DEF BufferBounds, Buffers!ApplyPatch, Buffers!TypeOK, Buffers!Held
    <3>2. 1 \in 1..MaxVersion BY <3>1
    <3> QED BY <1>1, <2>2, <3>2, BufferAloneEnter
  <2>3. ASSUME NEW u \in Update, Buffers!Notify(u) PROVE BufferAlone'
        BY <1>1, <2>3, BufferAloneNotify
  <2>4. ASSUME NEW u \in Update, NEW s \in Subscriber, Buffers!Reach(u, s) PROVE BufferAlone'
        BY <1>1, <2>4, BufferAloneReach
  <2>5. ASSUME NEW s \in Subscriber, Buffers!Receive(s) PROVE BufferAlone'
        BY <1>1, <2>5, BufferAloneReceive
  <2> QED BY <1>1, <2>1, <2>2, <2>3, <2>4, <2>5, BufferAloneRest DEF Buffers!Next
<1> QED BY <1>2, <1>3, <1>4 DEF BufferIInv

(* A send never meets a closed channel; and when no two calls overlapped,  *)
(* a subscriber who missed nothing and has read everything shows what is   *)
(* stored (BufferManager.UpdateBuffer, ApplyPatch, Subscribe).             *)
LEMMA BufferAgree == ASSUME BufferBounds PROVE Buffers!Spec => []Buffers!SubscribersAgree
<1>1. Buffers!Init => BufferIInv BY BufferInitInv
<1>2. BufferIInv /\ [Buffers!Next]_(Buffers!vars) => BufferIInv' BY BufferStepInv
<1>3. BufferIInv => Buffers!SubscribersAgree
  <2> SUFFICES ASSUME BufferIInv PROVE Buffers!SubscribersAgree OBVIOUS
  <2>1. Buffers!TypeOK /\ BufferChans /\ BufferReached /\ BufferAlone BY DEF BufferIInv
  <2>2. \A u \in Update : todo[u] \subseteq subscribers BY <2>1 DEF BufferReached
  <2>3. ASSUME NEW s \in subscribers \ dropped, ~bufMet, bufChan[s] = <<>>,
               \A u \in Update : ~Buffers!Under(u)
        PROVE view[s] = stored
    <3>1. BufferSettled(s) BY <2>1, <2>3 DEF BufferAlone, BufferOwes, Buffers!Under
    <3>2. Len(bufChan[s]) = 0 BY <2>3
    <3> QED BY <3>1, <3>2 DEF BufferSettled
  <2> QED BY <2>1, <2>2, <2>3 DEF Buffers!SubscribersAgree
<1> QED BY <1>1, <1>2, <1>3, PTL DEF Buffers!Spec

(* The composition runs the editor buffers as it is specified: the other   *)
(* parts leave its variables alone.                                        *)
LEMMA BuffersRuns == FairSpec => Buffers!Spec
<1>1. Init => Buffers!Init
  BY DEF Init
<1>2. [Next]_vars => [Buffers!Next]_(Buffers!vars)
  BY DEF Next, vars, buffersVars, Buffers!vars, InProcs, InTerms, InClient, InServers,
         InStreams, InBuffers, InDaemons
<1> QED BY <1>1, <1>2, PTL DEF FairSpec, Buffers!Spec

(* Events reach who asked for them and nobody else, a channel nobody reads *)
(* leaves the router's table, and a subscriber of a buffer who missed      *)
(* nothing shows what is stored (ipc.go, handlers_ws.go, buffer.go).       *)
THEOREM ServicesStreamsSound == FairSpec => []StreamsSound
<1>1. StreamBounds /\ BufferBounds
  BY ServicesAssumption
<1>2. Streams!Spec => []Streams!StreamsSound
  BY <1>1, StreamSound
<1>3. Buffers!Spec => []Buffers!SubscribersAgree
  BY <1>1, BufferAgree
<1> QED BY <1>2, <1>3, StreamsRuns, BuffersRuns, PTL DEF StreamsSound

-----------------------------------------------------------------------------
-----------------------------------------------------------------------------
(* A daemon has its ports from the step that takes them to the one that     *)
(* gives them back, so that nobody else can be as far.                     *)
DaemonPorts == \A d \in Daemon :
    /\ dmnStage[d] \in {"http", "served", "running", "stopping", "noIpc"} => api = d
    /\ dmnStage[d] \in {"served", "running", "stopping", "noIpc", "noApi"} => grpc = d

(* Daemon stop has read a PID, and has killed who it says it has killed.   *)
DaemonBusy == cli \in {"read", "waiting", "killed"}
DaemonVictim == /\ DaemonBusy => victim \in Daemon
                /\ cli = "killed" => dmnStage[victim] = "gone"

(* While starts have met nothing: one daemon at most is alive, it has the  *)
(* files that it has written, and daemon stop goes for the one that runs.  *)
DaemonAlone == \A d, o \in Daemon : Daemons!Alive(d) /\ Daemons!Alive(o) => d = o
DaemonHasFiles == \A d \in Daemon :
    /\ dmnStage[d] \in {"written", "listening", "http", "served", "running"} => pidFile = d
    /\ dmnStage[d] \in {"listening", "http", "served", "running"} => socket = d
DaemonQuiet == DaemonBusy => \A d \in Daemon : /\ dmnStage[d] \notin Daemons!Starting
                                               /\ dmnStage[d] = "running" => victim = d

DaemonIInv == /\ Daemons!TypeOK /\ DaemonPorts /\ DaemonVictim
              /\ ~dmnMet => DaemonAlone /\ DaemonHasFiles /\ DaemonQuiet

LEMMA DaemonInitInv == DaemonNamed /\ Daemons!Init => DaemonIInv
BY DEF DaemonNamed, Daemons!Init, DaemonIInv, Daemons!TypeOK, DaemonPorts, DaemonVictim,
       DaemonBusy, DaemonAlone, DaemonHasFiles, DaemonQuiet, Daemons!Alive, Daemons!Gone,
       Daemons!Starting, Daemons!Stopping

(* A step of the start or the stop of d, or of its end.                    *)
LEMMA DaemonStepInv == ASSUME DaemonNamed, DaemonIInv, [Daemons!Next]_(Daemons!vars)
    PROVE DaemonIInv'
<1> USE DEF DaemonNamed, DaemonIInv, Daemons!TypeOK, DaemonPorts, DaemonVictim, DaemonBusy,
    DaemonAlone, DaemonHasFiles, DaemonQuiet, Daemons!Alive, Daemons!Gone,
        Daemons!Starting, Daemons!Stopping, Daemons!To, Daemons!filesUnchanged,
          Daemons!portsUnchanged, Daemons!restUnchanged, Daemons!Released
<1>1. ASSUME NEW d \in Daemon, Daemons!Check(d) PROVE DaemonIInv'
  <2>1. CASE pidFile # None /\ Daemons!Alive(pidFile)
    BY <1>1, <2>1 DEF Daemons!Check
  <2>2. CASE ~(pidFile # None /\ Daemons!Alive(pidFile))
    <3>1. /\ dmnStage[d] = "new" /\ dmnStage' = [dmnStage EXCEPT ![d] = "checked"]
          /\ UNCHANGED <<pidFile, socket, api, grpc, streaming, cli, victim>>
          /\ dmnMet' \in BOOLEAN
          /\ ~dmnMet' => ~dmnMet /\ ~DaemonBusy /\ \A o \in Daemon \ {d} : ~Daemons!Alive(o)
      BY <1>1, <2>2 DEF Daemons!Check
    <3> QED BY <3>1
  <2> QED BY <2>1, <2>2
<1>2. ASSUME NEW d \in Daemon, Daemons!WritePid(d) \/ Daemons!ListenIpc(d) PROVE DaemonIInv'
  BY <1>2 DEF Daemons!WritePid, Daemons!ListenIpc
<1>3. ASSUME NEW d \in Daemon, Daemons!ListenApi(d) \/ Daemons!ListenGrpc(d) PROVE DaemonIInv'
  BY <1>3 DEF Daemons!ListenApi, Daemons!ListenGrpc
<1>4. ASSUME NEW d \in Daemon, Daemons!StartFails(d) PROVE DaemonIInv'
  BY <1>4 DEF Daemons!StartFails, Daemons!Ends
<1>5. ASSUME NEW d \in Daemon, Daemons!HandleSignals(d) \/ Daemons!ClientStreams(d) \/
      Daemons!ClientLeaves(d)
      PROVE  DaemonIInv'
  BY <1>5 DEF Daemons!HandleSignals, Daemons!ClientStreams, Daemons!ClientLeaves
<1>6. ASSUME NEW d \in Daemon, Daemons!Signal(d) PROVE DaemonIInv'
  BY <1>6 DEF Daemons!Signal, Daemons!Signalled, Daemons!Ends
<1>7. ASSUME NEW d \in Daemon, Daemons!StopIpc(d) \/ Daemons!StopApi(d) \/
      Daemons!StopGrpc(d) \/ Daemons!CloseQuit(d)
      PROVE  DaemonIInv'
  BY <1>7 DEF Daemons!StopIpc, Daemons!StopApi, Daemons!StopGrpc, Daemons!CloseQuit
<1>8. ASSUME NEW d \in Daemon, Daemons!Exit(d) \/ Daemons!Crash(d) \/ Daemons!cleanup(d)
      PROVE DaemonIInv'
  BY <1>8 DEF Daemons!Exit, Daemons!Crash, Daemons!cleanup, Daemons!Ends
<1>9. CASE Daemons!CliRead
  <2>1. CASE pidFile = None
    BY <1>9, <2>1 DEF Daemons!CliRead
  <2>2. CASE pidFile # None
    <3>1. /\ victim' = pidFile /\ cli' = "read" /\
             UNCHANGED <<dmnStage, streaming, pidFile, socket, api, grpc>>
          /\ dmnMet' \in BOOLEAN /\ (~dmnMet' => ~dmnMet /\
             \A d \in Daemon : dmnStage[d] \notin Daemons!Starting)
      BY <1>9, <2>2 DEF Daemons!CliRead
    <3>2. pidFile \in Daemon
      BY <2>2
    <3>3. Daemons!TypeOK' /\ DaemonPorts'
      BY <3>1, <3>2
    <3>4. DaemonVictim'
      BY <3>1, <3>2
    <3>5. ~dmnMet' => DaemonAlone' /\ DaemonHasFiles'
      BY <3>1
    <3>6. ~dmnMet' => DaemonQuiet'
      BY <2>2, <3>1
    <3> QED BY <3>1, <3>5, <3>6, <3>3, <3>4, <1>9 DEF Daemons!CliRead
  <2> QED BY <2>1, <2>2
<1>10. CASE Daemons!CliSignal
  BY <1>10 DEF Daemons!CliSignal, Daemons!Signalled, Daemons!Ends
<1>11. CASE Daemons!CliSeesEnd \/ Daemons!CliRemove
  BY <1>11 DEF Daemons!CliSeesEnd, Daemons!CliRemove
<1>12. CASE Daemons!CliKill
  BY <1>12 DEF Daemons!CliKill, Daemons!Ends
<1>13. CASE UNCHANGED Daemons!vars
  BY <1>13 DEF Daemons!vars
<1> HIDE DEF DaemonIInv
<1> QED BY <1>1, <1>2, <1>3, <1>4, <1>5, <1>6, <1>7, <1>8, <1>9, <1>10, <1>11, <1>12, <1>13
        DEF Daemons!Next, Daemons!StopStep

LEMMA DaemonConsequences == ASSUME DaemonNamed, DaemonIInv PROVE Daemons!OneDaemon
<1>1. \A d \in Daemon : dmnStage[d] \in {"served", "running"} => d = grpc
  BY DEF DaemonIInv, DaemonPorts
<1>2. \A d, e \in Daemon : {dmnStage[d], dmnStage[e]} \subseteq {"served", "running"} => d = e
  BY <1>1
<1>3. \A d \in Daemon : dmnStage[d] = "running" /\ ~dmnMet => pidFile = d /\ socket = d
  BY DEF DaemonIInv, DaemonHasFiles
<1> QED BY <1>2, <1>3 DEF DaemonIInv, Daemons!OneDaemon

LEMMA DaemonOneServes == ASSUME DaemonNamed PROVE Daemons!Spec => []Daemons!OneDaemon
<1>1. Daemons!Init => DaemonIInv
  BY DaemonInitInv
<1>2. DaemonIInv /\ [Daemons!Next]_(Daemons!vars) => DaemonIInv'
  BY DaemonStepInv
<1>3. DaemonIInv => Daemons!OneDaemon
  BY DaemonConsequences
<1> QED BY <1>1, <1>2, <1>3, PTL DEF Daemons!Spec

(* The composition runs the daemons of a home directory as it is           *)
(* specified: the other parts leave its variables alone.                   *)
LEMMA DaemonsRuns == FairSpec => Daemons!Spec
<1>1. Init => Daemons!Init
  BY DEF Init
<1>2. [Next]_vars => [Daemons!Next]_(Daemons!vars)
  BY DEF Next, vars, daemonsVars, Daemons!vars, InProcs, InTerms, InClient, InServers,
         InStreams, InBuffers, InDaemons
<1> QED BY <1>1, <1>2, PTL DEF FairSpec, Daemons!Spec

(* Two daemons never serve at once, and the one that runs is the one the   *)
(* PID file names and the socket leads to, unless a start met another      *)
(* start or a stop (daemon.go).                                            *)
THEOREM ServicesOneDaemon == FairSpec => []OneDaemon
<1>1. DaemonNamed
  BY ServicesAssumption
<1>2. Daemons!Spec => []Daemons!OneDaemon
  BY <1>1, DaemonOneServes
<1> QED BY <1>2, DaemonsRuns, PTL DEF OneDaemon
=============================================================================
