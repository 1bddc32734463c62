------------------------------- MODULE Storage_proofs -------------------------------
(***************************************************************************)
(* What is on disk: with one writer at a time sessions, the lock table,    *)
(* backups of edited files, grants and settings; lists that are saved      *)
(* whole and in place, what runs remember, checkpoints and recordings. For *)
(* any sets of managers, agents, fields, files, targets, keys, requests,   *)
(* names, tasks, writers and checkpoints, and any bounds.                  *)
(***************************************************************************)
EXTENDS MCStorage, SequenceTheorems, TLAPS

SessionStates == [Session!Fields -> 0..writes]
SessionFiles == SessionStates \cup {NoFile, Empty, Torn}
SessionCovers(s) == \A f \in Session!Fields : s[f] >= acked[f]
SessionBusy(m) == phase[m] \in {"marshalled", "opened", "filled", "renamed", "exporting"}

(* Types, where no number is above that of the changes so far.             *)
SessionNumbered ==
    /\ mem \in [SessionManager -> SessionStates] /\
       sesCopy \in [SessionManager -> SessionStates]
    /\ phase \in [SessionManager -> {"down", "idle", "marshalled", "opened", "filled",
       "renamed",
                                     "exporting"}]
    /\ fd \in [SessionManager -> {"tmp", "main"}]
    /\ due \subseteq SessionManager
    /\ tmp \in SessionFiles /\ main \in SessionFiles /\ unified \in SessionFiles
    /\ writes \in 0..MaxWrites /\ sesCrashes \in 0..SessionCrashes
    /\ acked \in SessionStates
    /\ overlapped \in BOOLEAN /\ broken \in BOOLEAN

SessionOneUp == \A m, o \in SessionManager : phase[m] # "down" /\ phase[o] # "down" => m = o

SessionStage(m) ==
    /\ phase[m] # "down" => SessionCovers(mem[m])
    /\ SessionBusy(m) => sesCopy[m] = mem[m]
    /\ phase[m] \in {"opened", "filled"} => fd[m] = "tmp"
    /\ phase[m] = "opened" => tmp = Empty
    /\ phase[m] = "filled" => tmp = sesCopy[m]
    /\ phase[m] \in {"renamed", "exporting"} => main = sesCopy[m]
    /\ phase[m] = "exporting" => unified = Empty
SessionStages == \A m \in SessionManager : SessionStage(m)

SessionMainKept == /\ Session!Whole(main)
                   /\ main # NoFile => SessionCovers(main)
                   /\ main = NoFile => acked = Session!newDefaultState
SessionExporting == \E m \in SessionManager : phase[m] \in {"renamed", "exporting"}
SessionFollowed == broken \/ SessionExporting \/ unified = main

SessionSole == SessionOneUp /\ SessionStages /\ SessionMainKept /\ SessionFollowed
SessionIInv == SessionNumbered /\ (~overlapped => SessionSole)

-----------------------------------------------------------------------------
LEMMA SessionDefaultIsState == writes \in Nat => Session!newDefaultState \in SessionStates
BY DEF Session!newDefaultState, SessionStates

(* Numbers only grow.                                                      *)
LEMMA SessionStatesGrow ==
    ASSUME writes \in Nat, writes' = writes \/ writes' = writes + 1
    PROVE  SessionStates \subseteq SessionStates' /\ SessionFiles \subseteq SessionFiles'
<1>1. 0..writes \subseteq 0..writes'
  OBVIOUS
<1>2. SessionStates \subseteq SessionStates'
  BY <1>1 DEF SessionStates
<1> QED BY <1>2 DEF SessionFiles

LEMMA SessionInitInv == SessionMarksAreApart /\ Session!Init => SessionIInv
<1> SUFFICES ASSUME SessionMarksAreApart, Session!Init PROVE SessionIInv
  OBVIOUS
<1>1. Session!newDefaultState \in SessionStates
  BY SessionDefaultIsState DEF Session!Init
<1>2. SessionNumbered
  <2>1. mem \in [SessionManager -> SessionStates] /\
        sesCopy \in [SessionManager -> SessionStates] /\ acked \in SessionStates
    BY <1>1 DEF Session!Init
  <2>2. tmp \in SessionFiles /\ main \in SessionFiles /\ unified \in SessionFiles
    BY DEF Session!Init, SessionFiles
  <2>3. writes \in 0..MaxWrites /\ sesCrashes \in 0..SessionCrashes
    BY DEF Session!Init, SessionMarksAreApart
  <2>4. overlapped \in BOOLEAN /\ broken \in BOOLEAN
    BY DEF Session!Init
  <2>5. /\ phase \in [SessionManager -> {"down", "idle", "marshalled", "opened", "filled",
           "renamed",
                                        "exporting"}]
        /\ fd \in [SessionManager -> {"tmp", "main"}]
        /\ due \subseteq SessionManager
    BY DEF Session!Init
  <2> QED BY <2>1, <2>2, <2>3, <2>4, <2>5 DEF SessionNumbered
<1>3. SessionOneUp /\ SessionFollowed
  BY DEF Session!Init, SessionOneUp, SessionFollowed
<1>4. SessionStages
  BY DEF Session!Init, SessionStages, SessionStage, SessionBusy
<1>5. SessionMainKept
  BY DEF Session!Init, SessionMainKept, Session!Whole, SessionMarksAreApart
<1> QED BY <1>2, <1>3, <1>4, <1>5 DEF SessionIInv, SessionSole

(* A state is a whole file.                                                *)
LEMMA SessionStatesAreWhole ==
    ASSUME SessionMarksAreApart, writes \in Nat, NEW s \in SessionStates
    PROVE  Session!Whole(s) /\ s # NoFile
<1>1. s \in [Session!Fields -> Nat]
  BY DEF SessionStates
<1> QED BY <1>1 DEF SessionMarksAreApart, Session!Whole

LEMMA SessionFilledIsFile ==
    ASSUME NEW s \in SessionStates, NEW file, NEW out \in Session!Filled(file, s)
    PROVE  out \in SessionFiles
BY DEF Session!Filled, SessionFiles

-----------------------------------------------------------------------------
(* The steps that change no file.                                          *)
LEMMA SessionLoadInv ==
    ASSUME SessionMarksAreApart, SessionIInv, NEW m \in SessionManager, Session!LoadState(m)
    PROVE  SessionIInv'
<1>0. SessionNumbered
  BY DEF SessionIInv
<1>1. /\ phase[m] = "down"
      /\ mem' = [mem EXCEPT ![m] = IF main = NoFile \/
         ~Session!Whole(main) THEN Session!newDefaultState ELSE main]
      /\ sesCopy' = [sesCopy EXCEPT ![m] = Session!newDefaultState]
      /\ phase' = [phase EXCEPT ![m] = IF main = NoFile THEN "marshalled" ELSE "idle"]
      /\ overlapped' = (overlapped \/ \E o \in SessionManager \ {m} : phase[o] # "down")
      /\ UNCHANGED <<fd, due, writes, sesCrashes, acked, broken, tmp, main, unified>>
  BY DEF Session!LoadState, Session!Load, Session!filesUnchanged
<1>2. Session!newDefaultState \in SessionStates /\ SessionStates' = SessionStates /\
      SessionFiles' = SessionFiles
  BY <1>0, <1>1, SessionDefaultIsState DEF SessionNumbered, SessionStates, SessionFiles
<1>3. main = NoFile \/ ~Session!Whole(main) \/ main \in SessionStates
  BY <1>0 DEF SessionNumbered, SessionFiles, Session!Whole
<1>4. mem' \in [SessionManager -> SessionStates] /\
      sesCopy' \in [SessionManager -> SessionStates]
  BY <1>0, <1>1, <1>2, <1>3 DEF SessionNumbered
<1>5. overlapped' \in BOOLEAN
  BY <1>1
<1>6. SessionNumbered'
  BY <1>0, <1>1, <1>2, <1>4, <1>5 DEF SessionNumbered
<1>7. ASSUME ~overlapped' PROVE SessionSole'
  <2>1. SessionSole /\ \A o \in SessionManager \ {m} : phase[o] = "down"
    BY <1>1, <1>7 DEF SessionIInv
  <2>2. \A o \in SessionManager \ {m} : phase'[o] = "down" /\ mem'[o] = mem[o] /\
        sesCopy'[o] = sesCopy[o]
    BY <1>0, <1>1, <2>1 DEF SessionNumbered
  <2>3. SessionOneUp'
    BY <2>2 DEF SessionOneUp
  <2>4. SessionMainKept' /\ Session!Whole(main)
    BY <1>1, <2>1
       DEF SessionSole, SessionMainKept, Session!Whole, SessionCovers,
           Session!newDefaultState
  <2>5. phase'[m] \in {"marshalled", "idle"} /\ phase[m] = "down"
    BY <1>0, <1>1 DEF SessionNumbered
  <2>6. SessionFollowed'
    BY <1>1, <2>1, <2>2, <2>5 DEF SessionSole, SessionFollowed, SessionExporting
  <2>7. mem'[m] = (IF main = NoFile THEN Session!newDefaultState ELSE main)
    BY <1>0, <1>1, <2>4 DEF SessionNumbered
  <2>8. \A f \in Session!Fields : Session!newDefaultState[f] >= Session!newDefaultState[f]
    BY DEF Session!newDefaultState
  <2>9. SessionCovers(mem[m])'
    BY <1>1, <2>1, <2>7, <2>8 DEF SessionSole, SessionMainKept, SessionCovers
  <2>10. SessionBusy(m)' => sesCopy'[m] = mem'[m]
    <3>1. phase'[m] = "marshalled" => main = NoFile
      BY <1>0, <1>1 DEF SessionNumbered
    <3>2. sesCopy'[m] = Session!newDefaultState
      BY <1>0, <1>1 DEF SessionNumbered
    <3> QED BY <2>5, <2>7, <3>1, <3>2 DEF SessionBusy
  <2>11. SessionStage(m)'
    BY <2>5, <2>9, <2>10 DEF SessionStage
  <2>12. SessionStages'
    BY <2>2, <2>11 DEF SessionStages, SessionStage, SessionBusy
  <2> QED BY <2>3, <2>4, <2>6, <2>12 DEF SessionSole
<1> QED BY <1>6, <1>7 DEF SessionIInv

LEMMA SessionSetInv ==
    ASSUME SessionMarksAreApart, SessionIInv, NEW m \in SessionManager, NEW f \in Field,
      Session!SetField(m, f)
    PROVE  SessionIInv'
<1> DEFINE now == [mem[m] EXCEPT ![f] = writes + 1]
<1>0. SessionNumbered
  BY DEF SessionIInv
<1>1. /\ phase[m] = "idle" /\ writes < MaxWrites /\ writes' = writes + 1
      /\ mem' = [mem EXCEPT ![m] = now] /\ sesCopy' = [sesCopy EXCEPT ![m] = now]
      /\ phase' = [phase EXCEPT ![m] = "marshalled"]
      /\ UNCHANGED <<fd, due, sesCrashes, acked, overlapped, broken, tmp, main, unified>>
  BY DEF Session!SetField, Session!filesUnchanged
<1>2. SessionStates \subseteq SessionStates' /\ SessionFiles \subseteq SessionFiles' /\
      writes' \in 0..MaxWrites
  BY <1>0, <1>1, SessionStatesGrow DEF SessionNumbered, SessionMarksAreApart
<1>3. now \in SessionStates'
  <2>1. mem[m] \in SessionStates'
    BY <1>0, <1>2 DEF SessionNumbered
  <2>2. writes + 1 \in 0..writes'
    BY <1>0, <1>1 DEF SessionNumbered
  <2> QED BY <2>1, <2>2 DEF SessionStates
<1>4. mem' \in [SessionManager -> SessionStates'] /\
      sesCopy' \in [SessionManager -> SessionStates']
  BY <1>0, <1>1, <1>2, <1>3 DEF SessionNumbered
<1>5. SessionNumbered'
  BY <1>0, <1>1, <1>2, <1>4 DEF SessionNumbered
<1>6. ASSUME ~overlapped PROVE SessionSole'
  <2>1. SessionSole
    BY <1>6 DEF SessionIInv
  <2>2. \A o \in SessionManager \ {m} : phase'[o] = phase[o] /\ mem'[o] = mem[o] /\
        sesCopy'[o] = sesCopy[o]
    BY <1>0, <1>1 DEF SessionNumbered
  <2>3. phase'[m] = "marshalled" /\ mem'[m] = now /\ sesCopy'[m] = now
    BY <1>0, <1>1 DEF SessionNumbered
  <2>4. SessionOneUp'
    BY <1>1, <2>1, <2>2, <2>3 DEF SessionSole, SessionOneUp
  <2>5. SessionMainKept'
    BY <1>1, <2>1
       DEF SessionSole, SessionMainKept, Session!Whole, SessionCovers,
           Session!newDefaultState
  <2>6. SessionFollowed'
    BY <1>1, <2>1, <2>2, <2>3 DEF SessionSole, SessionFollowed, SessionExporting
  <2>7. ASSUME NEW g \in Session!Fields PROVE now[g] >= acked[g]
    <3>1. SessionCovers(mem[m])
      BY <1>1, <2>1 DEF SessionSole, SessionStages, SessionStage
    <3>2. mem[m] \in SessionStates /\ acked \in SessionStates /\ writes \in Nat
      BY <1>0 DEF SessionNumbered
    <3> QED BY <3>1, <3>2 DEF SessionCovers, SessionStates
  <2>8. SessionCovers(mem[m])' /\ sesCopy'[m] = mem'[m]
    <3> HIDE DEF now
    <3> QED BY <1>1, <2>3, <2>7 DEF SessionCovers
  <2>9. SessionStages'
    BY <1>1, <2>1, <2>2, <2>3, <2>8
       DEF SessionSole, SessionStages, SessionStage, SessionBusy, SessionCovers
  <2> QED BY <2>4, <2>5, <2>6, <2>9 DEF SessionSole
<1> QED BY <1>1, <1>5, <1>6 DEF SessionIInv

LEMMA SessionUpdateInv ==
    ASSUME SessionMarksAreApart, SessionIInv, NEW m \in SessionManager,
      Session!UpdateSummaryForAgent(m)
    PROVE  SessionIInv'
<1> DEFINE now == [mem[m] EXCEPT ![Summary] = writes + 1]
<1>0. SessionNumbered
  BY DEF SessionIInv
<1>1. /\ phase[m] = "idle" /\ writes < MaxWrites /\ writes' = writes + 1
      /\ mem' = [mem EXCEPT ![m] = now]
      /\ due' = due \cup {m}
      /\ UNCHANGED <<phase, sesCopy, fd, sesCrashes, acked, overlapped, broken, tmp, main,
         unified>>
  BY DEF Session!UpdateSummaryForAgent, Session!filesUnchanged
<1>2. SessionStates \subseteq SessionStates' /\ SessionFiles \subseteq SessionFiles' /\
      writes' \in 0..MaxWrites
  BY <1>0, <1>1, SessionStatesGrow DEF SessionNumbered, SessionMarksAreApart
<1>3. now \in SessionStates'
  <2>1. mem[m] \in SessionStates'
    BY <1>0, <1>2 DEF SessionNumbered
  <2>2. writes + 1 \in 0..writes'
    BY <1>0, <1>1 DEF SessionNumbered
  <2> QED BY <2>1, <2>2 DEF SessionStates
<1>4. mem' \in [SessionManager -> SessionStates'] /\
      sesCopy' \in [SessionManager -> SessionStates']
  BY <1>0, <1>1, <1>2, <1>3 DEF SessionNumbered
<1>5. SessionNumbered'
  BY <1>0, <1>1, <1>2, <1>4 DEF SessionNumbered
<1>6. ASSUME ~overlapped PROVE SessionSole'
  <2>1. SessionSole
    BY <1>6 DEF SessionIInv
  <2>2. \A o \in SessionManager \ {m} : mem'[o] = mem[o]
    BY <1>0, <1>1 DEF SessionNumbered
  <2>3. mem'[m] = now
    BY <1>0, <1>1 DEF SessionNumbered
  <2>4. SessionOneUp' /\ SessionMainKept' /\ SessionFollowed'
    BY <1>1, <2>1
       DEF SessionSole, SessionOneUp, SessionMainKept, Session!Whole, SessionCovers,
           Session!newDefaultState, SessionFollowed, SessionExporting
  <2>5. ASSUME NEW g \in Session!Fields PROVE now[g] >= acked[g]
    <3>1. SessionCovers(mem[m])
      BY <1>1, <2>1 DEF SessionSole, SessionStages, SessionStage
    <3>2. mem[m] \in SessionStates /\ acked \in SessionStates /\ writes \in Nat
      BY <1>0 DEF SessionNumbered
    <3> QED BY <3>1, <3>2 DEF SessionCovers, SessionStates
  <2>6. SessionCovers(mem[m])'
    <3> HIDE DEF now
    <3> QED BY <1>1, <2>3, <2>5 DEF SessionCovers
  <2>7. SessionStages'
    BY <1>1, <2>1, <2>2, <2>6
       DEF SessionSole, SessionStages, SessionStage, SessionBusy, SessionCovers
  <2> QED BY <2>4, <2>7 DEF SessionSole
<1> QED BY <1>1, <1>5, <1>6 DEF SessionIInv

LEMMA SessionSaveInv ==
    ASSUME SessionMarksAreApart, SessionIInv, NEW m \in SessionManager, Session!SaveState(m)
    PROVE  SessionIInv'
<1>0. SessionNumbered
  BY DEF SessionIInv
<1>1. /\ phase[m] = "idle" /\ due' = due \ {m}
      /\ sesCopy' = [sesCopy EXCEPT ![m] = mem[m]]
      /\ phase' = [phase EXCEPT ![m] = "marshalled"]
      /\ UNCHANGED <<mem, fd, writes, sesCrashes, acked, overlapped, broken, tmp, main,
         unified>>
  BY DEF Session!SaveState, Session!filesUnchanged
<1>2. SessionStates' = SessionStates /\ SessionFiles' = SessionFiles
  BY <1>1 DEF SessionStates, SessionFiles
<1>3. sesCopy' \in [SessionManager -> SessionStates]
  BY <1>0, <1>1 DEF SessionNumbered
<1>4. SessionNumbered'
  BY <1>0, <1>1, <1>2, <1>3 DEF SessionNumbered
<1>5. ASSUME ~overlapped PROVE SessionSole'
  <2>1. SessionSole
    BY <1>5 DEF SessionIInv
  <2>2. \A o \in SessionManager \ {m} : phase'[o] = phase[o] /\ sesCopy'[o] = sesCopy[o]
    BY <1>0, <1>1 DEF SessionNumbered
  <2>3. phase'[m] = "marshalled" /\ sesCopy'[m] = mem[m]
    BY <1>0, <1>1 DEF SessionNumbered
  <2>4. SessionOneUp' /\ SessionMainKept' /\ SessionFollowed'
    BY <1>1, <2>1, <2>2, <2>3
       DEF SessionSole, SessionOneUp, SessionMainKept, Session!Whole, SessionCovers,
           Session!newDefaultState, SessionFollowed, SessionExporting
  <2>5. SessionStages'
    BY <1>1, <2>1, <2>2, <2>3
       DEF SessionSole, SessionStages, SessionStage, SessionBusy, SessionCovers
  <2> QED BY <2>4, <2>5 DEF SessionSole
<1> QED BY <1>1, <1>4, <1>5 DEF SessionIInv

-----------------------------------------------------------------------------
(* The steps of a save.  While one manager is up the others are down, and   *)
(* say nothing of the files.                                               *)
LEMMA SessionAlone ==
    ASSUME SessionNumbered, SessionOneUp, NEW m \in SessionManager, phase[m] # "down",
           NEW p, phase' = [phase EXCEPT ![m] = p]
    PROVE  /\ phase'[m] = p /\ SessionOneUp'
           /\ \A o \in SessionManager \ {m} : phase[o] = "down" /\ phase'[o] = "down"
           /\ SessionStage(m)' => SessionStages'
<1>1. phase'[m] = p
  BY DEF SessionNumbered
<1>2. \A o \in SessionManager \ {m} : phase[o] = "down" /\ phase'[o] = "down"
  BY DEF SessionNumbered, SessionOneUp
<1>3. SessionOneUp'
  BY <1>2 DEF SessionOneUp
<1>4. SessionStage(m)' => SessionStages'
  BY <1>2 DEF SessionStages, SessionStage, SessionBusy
<1> QED BY <1>1, <1>2, <1>3, <1>4

LEMMA SessionOpenInv ==
    ASSUME SessionMarksAreApart, SessionIInv, NEW m \in SessionManager, Session!OpenTmp(m)
    PROVE  SessionIInv'
<1>0. SessionNumbered
  BY DEF SessionIInv
<1>1. /\ phase[m] = "marshalled" /\ phase' = [phase EXCEPT ![m] = "opened"]
      /\ fd' = [fd EXCEPT ![m] = "tmp"] /\ tmp' = Empty
      /\ overlapped' = (overlapped \/ \E o \in SessionManager \ {m} : Session!Saving(o))
      /\ UNCHANGED <<mem, sesCopy, due, main, unified, writes, sesCrashes, acked, broken>>
  BY DEF Session!OpenTmp
<1>2. SessionStates' = SessionStates /\ SessionFiles' = SessionFiles
  BY <1>1 DEF SessionStates, SessionFiles
<1>3. overlapped' \in BOOLEAN /\ tmp' \in SessionFiles
  BY <1>1 DEF SessionFiles
<1>4. SessionNumbered'
  BY <1>0, <1>1, <1>2, <1>3 DEF SessionNumbered
<1>5. ASSUME ~overlapped' PROVE SessionSole'
  <2>1. SessionSole
    BY <1>1, <1>5 DEF SessionIInv
  <2>2. /\ phase'[m] = "opened" /\ SessionOneUp' /\ (SessionStage(m)' => SessionStages')
        /\ \A o \in SessionManager \ {m} : phase[o] = "down" /\ phase'[o] = "down"
    BY <1>0, <1>1, <2>1, SessionAlone DEF SessionSole
  <2>3. fd'[m] = "tmp"
    BY <1>0, <1>1 DEF SessionNumbered
  <2>4. SessionStage(m)'
    BY <1>1, <2>1, <2>2, <2>3
       DEF SessionSole, SessionStages, SessionStage, SessionBusy, SessionCovers
  <2>5. SessionMainKept' /\ SessionFollowed'
    BY <1>1, <2>1, <2>2
       DEF SessionSole, SessionMainKept, Session!Whole, SessionCovers,
           Session!newDefaultState, SessionFollowed, SessionExporting
  <2> QED BY <2>2, <2>4, <2>5 DEF SessionSole
<1> QED BY <1>4, <1>5 DEF SessionIInv

LEMMA SessionFillTmpInv ==
    ASSUME SessionMarksAreApart, SessionIInv, NEW m \in SessionManager, Session!FillTmp(m)
    PROVE  SessionIInv'
<1>0. SessionNumbered
  BY DEF SessionIInv
<1>1. /\ phase[m] = "opened" /\ phase' = [phase EXCEPT ![m] = "filled"]
      /\ IF fd[m] = "tmp" THEN tmp' \in Session!Filled(tmp, sesCopy[m]) /\ UNCHANGED main
                          ELSE main' \in Session!Filled(main, sesCopy[m]) /\ UNCHANGED tmp
      /\ UNCHANGED <<mem, sesCopy, fd, due, unified, writes, sesCrashes, acked, overlapped,
         broken>>
  BY DEF Session!FillTmp
<1>2. SessionStates' = SessionStates /\ SessionFiles' = SessionFiles
  BY <1>1 DEF SessionStates, SessionFiles
<1>3. tmp' \in SessionFiles /\ main' \in SessionFiles
  <2>1. sesCopy[m] \in SessionStates
    BY <1>0 DEF SessionNumbered
  <2>2. Session!Filled(tmp, sesCopy[m]) \subseteq SessionFiles /\
        Session!Filled(main, sesCopy[m]) \subseteq SessionFiles
    BY <2>1, SessionFilledIsFile
  <2> QED BY <1>0, <1>1, <2>2 DEF SessionNumbered
<1>4. SessionNumbered'
  BY <1>0, <1>1, <1>2, <1>3 DEF SessionNumbered
<1>5. ASSUME ~overlapped PROVE SessionSole'
  <2>1. SessionSole /\ SessionStage(m)
    BY <1>5 DEF SessionIInv, SessionSole, SessionStages
  <2>2. /\ phase'[m] = "filled" /\ SessionOneUp' /\ (SessionStage(m)' => SessionStages')
        /\ \A o \in SessionManager \ {m} : phase[o] = "down" /\ phase'[o] = "down"
    BY <1>0, <1>1, <2>1, SessionAlone DEF SessionSole
  <2>3. tmp' = sesCopy[m] /\ main' = main
    BY <1>1, <2>1 DEF SessionStage, Session!Filled
  <2>4. SessionStage(m)'
    BY <1>1, <2>1, <2>2, <2>3 DEF SessionStage, SessionBusy, SessionCovers
  <2>5. SessionMainKept' /\ SessionFollowed'
    BY <1>1, <2>1, <2>2, <2>3
       DEF SessionSole, SessionMainKept, Session!Whole, SessionCovers,
           Session!newDefaultState, SessionFollowed, SessionExporting
  <2> QED BY <2>2, <2>4, <2>5 DEF SessionSole
<1> QED BY <1>1, <1>4, <1>5 DEF SessionIInv

LEMMA SessionWriteFailsInv ==
    ASSUME SessionMarksAreApart, SessionIInv, NEW m \in SessionManager, Session!WriteFails(m)
    PROVE  SessionIInv'
<1>0. SessionNumbered
  BY DEF SessionIInv
<1>1. /\ phase[m] = "opened" /\ phase' = [phase EXCEPT ![m] = "idle"]
      /\ IF fd[m] = "tmp" THEN tmp' = Torn /\ UNCHANGED main
                          ELSE main' = Torn /\ UNCHANGED tmp
      /\ UNCHANGED <<mem, sesCopy, fd, due, unified, writes, sesCrashes, acked, overlapped,
         broken>>
  BY DEF Session!WriteFails
<1>2. SessionStates' = SessionStates /\ SessionFiles' = SessionFiles
  BY <1>1 DEF SessionStates, SessionFiles
<1>3. tmp' \in SessionFiles /\ main' \in SessionFiles
  BY <1>0, <1>1 DEF SessionNumbered, SessionFiles
<1>4. SessionNumbered'
  BY <1>0, <1>1, <1>2, <1>3 DEF SessionNumbered
<1>5. ASSUME ~overlapped PROVE SessionSole'
  <2>1. SessionSole /\ SessionStage(m)
    BY <1>5 DEF SessionIInv, SessionSole, SessionStages
  <2>2. /\ phase'[m] = "idle" /\ SessionOneUp' /\ (SessionStage(m)' => SessionStages')
        /\ \A o \in SessionManager \ {m} : phase[o] = "down" /\ phase'[o] = "down"
    BY <1>0, <1>1, <2>1, SessionAlone DEF SessionSole
  <2>3. main' = main
    BY <1>1, <2>1 DEF SessionStage
  <2>4. SessionStage(m)'
    BY <1>1, <2>1, <2>2 DEF SessionStage, SessionBusy, SessionCovers
  <2>5. SessionMainKept' /\ SessionFollowed'
    BY <1>1, <2>1, <2>2, <2>3
       DEF SessionSole, SessionMainKept, Session!Whole, SessionCovers,
           Session!newDefaultState, SessionFollowed, SessionExporting
  <2> QED BY <2>2, <2>4, <2>5 DEF SessionSole
<1> QED BY <1>1, <1>4, <1>5 DEF SessionIInv

LEMMA SessionRenameInv ==
    ASSUME SessionMarksAreApart, SessionIInv, NEW m \in SessionManager, Session!Rename(m)
    PROVE  SessionIInv'
<1>0. SessionNumbered
  BY DEF SessionIInv
<1>1. /\ phase[m] = "filled"
      /\ UNCHANGED <<mem, sesCopy, due, unified, writes, sesCrashes, acked, overlapped, broken>>
      /\ \/ /\ tmp = NoFile /\ phase' = [phase EXCEPT ![m] = "idle"]
            /\ UNCHANGED <<fd, tmp, main>>
         \/ /\ phase' = [phase EXCEPT ![m] = "renamed"] /\ main' = tmp /\ tmp' = NoFile
            /\ fd' = [o \in SessionManager |-> "main"]
  BY DEF Session!Rename
<1>2. SessionStates' = SessionStates /\ SessionFiles' = SessionFiles
  BY <1>1 DEF SessionStates, SessionFiles
<1>3. tmp' \in SessionFiles /\ main' \in SessionFiles /\
      fd' \in [SessionManager -> {"tmp", "main"}]
  BY <1>0, <1>1 DEF SessionNumbered, SessionFiles
<1>4. SessionNumbered'
  BY <1>0, <1>1, <1>2, <1>3 DEF SessionNumbered
<1>5. ASSUME ~overlapped PROVE SessionSole'
  <2>1. SessionSole /\ SessionStage(m)
    BY <1>5 DEF SessionIInv, SessionSole, SessionStages
  <2>2. sesCopy[m] \in SessionStates /\ writes \in Nat
    BY <1>0 DEF SessionNumbered
  <2>3. tmp = sesCopy[m] /\ Session!Whole(sesCopy[m]) /\ sesCopy[m] # NoFile
    BY <1>1, <2>1, <2>2, SessionStatesAreWhole DEF SessionStage
  <2>4. phase' = [phase EXCEPT ![m] = "renamed"] /\ main' = sesCopy[m]
    BY <1>1, <2>3
  <2>5. /\ phase'[m] = "renamed" /\ SessionOneUp' /\ (SessionStage(m)' => SessionStages')
        /\ \A o \in SessionManager \ {m} : phase[o] = "down" /\ phase'[o] = "down"
    BY <1>0, <1>1, <2>1, <2>4, SessionAlone DEF SessionSole
  <2>6. SessionStage(m)'
    BY <1>1, <2>1, <2>4, <2>5 DEF SessionStage, SessionBusy, SessionCovers
  <2>7. SessionCovers(sesCopy[m])
    BY <1>1, <2>1 DEF SessionStage, SessionBusy
  <2>8. SessionMainKept'
    BY <1>1, <2>3, <2>4, <2>7 DEF SessionMainKept, Session!Whole, SessionCovers
  <2>9. SessionFollowed'
    BY <2>5 DEF SessionFollowed, SessionExporting
  <2> QED BY <2>5, <2>6, <2>8, <2>9 DEF SessionSole
<1> QED BY <1>1, <1>4, <1>5 DEF SessionIInv

LEMMA SessionOpenUnifiedInv ==
    ASSUME SessionMarksAreApart, SessionIInv, NEW m \in SessionManager, Session!OpenUnified(m)
    PROVE  SessionIInv'
<1>0. SessionNumbered
  BY DEF SessionIInv
<1>1. /\ phase[m] = "renamed" /\ phase' = [phase EXCEPT ![m] = "exporting"]
      /\ unified' = Empty
      /\ UNCHANGED <<mem, sesCopy, fd, due, tmp, main, writes, sesCrashes, acked,
         overlapped, broken>>
  BY DEF Session!OpenUnified
<1>2. SessionStates' = SessionStates /\ SessionFiles' = SessionFiles /\
      unified' \in SessionFiles
  BY <1>1 DEF SessionStates, SessionFiles
<1>3. SessionNumbered'
  BY <1>0, <1>1, <1>2 DEF SessionNumbered
<1>4. ASSUME ~overlapped PROVE SessionSole'
  <2>1. SessionSole /\ SessionStage(m)
    BY <1>4 DEF SessionIInv, SessionSole, SessionStages
  <2>2. phase'[m] = "exporting" /\ SessionOneUp' /\ (SessionStage(m)' => SessionStages')
    BY <1>0, <1>1, <2>1, SessionAlone DEF SessionSole
  <2>3. SessionStage(m)'
    BY <1>1, <2>1, <2>2 DEF SessionStage, SessionBusy, SessionCovers
  <2>4. SessionMainKept' /\ SessionFollowed'
    BY <1>1, <2>1, <2>2
       DEF SessionSole, SessionMainKept, Session!Whole, SessionCovers,
           Session!newDefaultState, SessionFollowed, SessionExporting
  <2> QED BY <2>2, <2>3, <2>4 DEF SessionSole
<1> QED BY <1>1, <1>3, <1>4 DEF SessionIInv

LEMMA SessionFillUnifiedInv ==
    ASSUME SessionMarksAreApart, SessionIInv, NEW m \in SessionManager, Session!FillUnified(m)
    PROVE  SessionIInv'
<1> DEFINE later == [f \in Session!Fields |-> IF sesCopy[m][f] > acked[f] THEN sesCopy[m][f] ELSE acked[f]]
<1>0. SessionNumbered
  BY DEF SessionIInv
<1>1. /\ phase[m] = "exporting" /\ phase' = [phase EXCEPT ![m] = "idle"]
      /\ unified' \in Session!Filled(unified, sesCopy[m])
      /\ acked' = later /\ broken' = FALSE
      /\ UNCHANGED <<mem, sesCopy, fd, due, tmp, main, writes, sesCrashes, overlapped>>
  BY DEF Session!FillUnified
<1>2. sesCopy[m] \in SessionStates /\ acked \in SessionStates /\ writes \in Nat
  BY <1>0 DEF SessionNumbered
<1>3. SessionStates' = SessionStates /\ SessionFiles' = SessionFiles /\
      unified' \in SessionFiles
  BY <1>1, <1>2, SessionFilledIsFile DEF SessionStates, SessionFiles
<1>4. later \in SessionStates
  BY <1>2 DEF SessionStates
<1>5. SessionNumbered'
  <2> HIDE DEF later
  <2> QED BY <1>0, <1>1, <1>3, <1>4 DEF SessionNumbered
<1>6. ASSUME ~overlapped PROVE SessionSole'
  <2>1. SessionSole /\ SessionStage(m)
    BY <1>6 DEF SessionIInv, SessionSole, SessionStages
  <2>2. /\ phase'[m] = "idle" /\ SessionOneUp' /\ (SessionStage(m)' => SessionStages')
    BY <1>0, <1>1, <2>1, SessionAlone DEF SessionSole
  <2>3. sesCopy[m] = mem[m] /\ main = sesCopy[m] /\ unified' = sesCopy[m] /\
        SessionCovers(sesCopy[m])
    BY <1>1, <2>1 DEF SessionStage, SessionBusy, Session!Filled
  <2>4. \A f \in Session!Fields : sesCopy[m][f] >= later[f]
    BY <1>2, <2>3 DEF SessionStates, SessionCovers
  <2>5. SessionCovers(sesCopy[m])'
    <3> HIDE DEF later
    <3> QED BY <1>1, <2>4 DEF SessionCovers
  <2>6. SessionStage(m)'
    <3> HIDE DEF later
    <3>1. SessionCovers(mem[m])'
      BY <1>1, <2>3, <2>5 DEF SessionCovers
    <3> QED BY <2>2, <3>1 DEF SessionStage, SessionBusy
  <2>7. SessionMainKept'
    <3> HIDE DEF later
    <3>1. Session!Whole(main) /\ main # NoFile
      BY <1>2, <2>3, SessionStatesAreWhole
    <3>2. SessionCovers(main)'
      BY <1>1, <2>3, <2>5 DEF SessionCovers
    <3> QED BY <1>1, <3>1, <3>2 DEF SessionMainKept, Session!Whole
  <2>8. SessionFollowed'
    BY <1>1, <2>3 DEF SessionFollowed
  <2> QED BY <2>2, <2>6, <2>7, <2>8 DEF SessionSole
<1> QED BY <1>1, <1>5, <1>6 DEF SessionIInv

LEMMA SessionCrashInv ==
    ASSUME SessionMarksAreApart, SessionIInv, NEW m \in SessionManager, Session!Crash(m)
    PROVE  SessionIInv'
<1>0. SessionNumbered
  BY DEF SessionIInv
<1>1. /\ phase[m] # "down" /\ sesCrashes < SessionCrashes /\ sesCrashes' = sesCrashes + 1
      /\ phase' = [phase EXCEPT ![m] = "down"] /\ due' = due \ {m}
      /\ IF fd[m] = "tmp" THEN tmp' \in Session!Torned("opened", m, tmp) /\ UNCHANGED main
                          ELSE main' \in Session!Torned("opened", m, main) /\ UNCHANGED tmp
      /\ unified' \in Session!Torned("exporting", m, unified)
      /\ broken' = (broken \/ phase[m] \in {"renamed", "exporting"})
      /\ UNCHANGED <<mem, sesCopy, fd, writes, acked, overlapped>>
  BY DEF Session!Crash
<1>2. SessionStates' = SessionStates /\ SessionFiles' = SessionFiles
  BY <1>1 DEF SessionStates, SessionFiles
<1>3. tmp' \in SessionFiles /\ main' \in SessionFiles /\ unified' \in SessionFiles
  BY <1>0, <1>1 DEF SessionNumbered, SessionFiles, Session!Torned
<1>4. sesCrashes' \in 0..SessionCrashes
  BY <1>0, <1>1 DEF SessionNumbered, SessionMarksAreApart
<1>5. broken' \in BOOLEAN
  BY <1>1
<1>6. SessionNumbered'
  BY <1>0, <1>1, <1>2, <1>3, <1>4, <1>5 DEF SessionNumbered
<1>7. ASSUME ~overlapped PROVE SessionSole'
  <2>1. SessionSole /\ SessionStage(m)
    BY <1>7 DEF SessionIInv, SessionSole, SessionStages
  <2>2. /\ phase'[m] = "down" /\ SessionOneUp' /\ (SessionStage(m)' => SessionStages')
        /\ \A o \in SessionManager \ {m} : phase[o] = "down" /\ phase'[o] = "down"
    BY <1>0, <1>1, <2>1, SessionAlone DEF SessionSole
  <2>3. SessionStage(m)'
    BY <2>2 DEF SessionStage, SessionBusy
  <2>4. main' = main
    BY <1>0, <1>1, <2>1 DEF SessionStage, Session!Torned, SessionNumbered
  <2>5. SessionMainKept'
    BY <1>1, <2>1, <2>4
       DEF SessionSole, SessionMainKept, Session!Whole, SessionCovers,
           Session!newDefaultState
  <2>6. SessionFollowed'
    BY <1>1, <2>1, <2>2, <2>4
       DEF SessionSole, SessionFollowed, SessionExporting, Session!Torned
  <2> QED BY <2>2, <2>3, <2>5, <2>6 DEF SessionSole
<1> QED BY <1>1, <1>6, <1>7 DEF SessionIInv

-----------------------------------------------------------------------------
LEMMA SessionStepInv ==
    ASSUME SessionMarksAreApart, SessionIInv, [Session!Next]_(Session!vars)
    PROVE  SessionIInv'
<1>1. CASE Session!Next
  BY <1>1, SessionLoadInv, SessionSetInv, SessionUpdateInv, SessionSaveInv, SessionOpenInv,
     SessionFillTmpInv, SessionWriteFailsInv, SessionRenameInv, SessionOpenUnifiedInv,
     SessionFillUnifiedInv, SessionCrashInv
     DEF Session!Next
<1>2. CASE UNCHANGED Session!vars
  BY <1>2
     DEF Session!vars, SessionIInv, SessionNumbered, SessionStates, SessionFiles,
         SessionSole, SessionOneUp, SessionStages, SessionStage, SessionBusy, SessionCovers,
         SessionMainKept, Session!Whole, Session!newDefaultState, SessionFollowed,
         SessionExporting
<1> QED BY <1>1, <1>2

LEMMA SessionConsequences ==
    ASSUME SessionMarksAreApart, SessionIInv
    PROVE  Session!SessionKept
<1>1. SessionNumbered /\ 0..writes \subseteq 0..MaxWrites
  BY DEF SessionIInv, SessionNumbered, SessionMarksAreApart
<1>2. SessionStates \subseteq [Session!Fields -> 0..MaxWrites]
  BY <1>1 DEF SessionStates
<1>3. SessionFiles \subseteq Session!File
  BY <1>2 DEF SessionFiles, Session!File
<1>4. Session!TypeOK
  <2>1. mem \in [SessionManager -> [Session!Fields -> 0..MaxWrites]]
    BY <1>1, <1>2 DEF SessionNumbered
  <2>2. sesCopy \in [SessionManager -> [Session!Fields -> 0..MaxWrites]]
    BY <1>1, <1>2 DEF SessionNumbered
  <2>3. acked \in [Session!Fields -> 0..MaxWrites] /\ tmp \in Session!File /\
        main \in Session!File /\ unified \in Session!File
    BY <1>1, <1>2, <1>3 DEF SessionNumbered
  <2> QED BY <1>1, <2>1, <2>2, <2>3 DEF SessionNumbered, Session!TypeOK
<1>5. Session!SavedIsKept
  BY DEF SessionIInv, SessionSole, SessionMainKept, SessionCovers, Session!SavedIsKept
<1>6. Session!UnifiedFollows
  BY DEF SessionIInv, SessionSole, SessionFollowed, SessionExporting, Session!UnifiedFollows
<1> QED BY <1>4, <1>5, <1>6 DEF Session!SessionKept

(* Whatever one manager at a time changes and saves and wherever its        *)
(* process dies, the session file parses and has every change whose setter *)
(* returned nil (saveStateLocked's rename), and the unified file is its    *)
(* copy but around a save.                                                 *)
THEOREM SessionSavesSurvive == ASSUME SessionMarksAreApart
    PROVE Session!Spec => []Session!SessionKept
<1>1. Session!Init => SessionIInv
  BY SessionInitInv
<1>2. SessionIInv /\ [Session!Next]_(Session!vars) => SessionIInv'
  BY SessionStepInv
<1>3. SessionIInv => Session!SessionKept
  BY SessionConsequences
<1> QED BY <1>1, <1>2, <1>3, PTL DEF Session!Spec

(* The composition runs the session store as it is specified: the other    *)
(* parts leave its variables alone.                                        *)
LEMMA SessionRuns == Spec => Session!Spec
<1>1. Init => Session!Init
  BY DEF Init
<1>2. [Next]_vars => [Session!Next]_(Session!vars)
  BY DEF Next, vars, sessionVars, Session!vars, InSession, InRegistry, InSchedule, InLocks,
         InChecks, InMemory, InMedia, InEdit, InConfig, InGrants
<1> QED BY <1>1, <1>2, PTL DEF Spec, Session!Spec

(* Whatever one manager at a time changes and saves and wherever its       *)
(* process dies, the session file parses and has every change whose setter *)
(* returned nil, and the unified file is its copy but around a save        *)
(* (saveStateLocked).                                                      *)
THEOREM StorageKeepsSessions == Spec => []SessionKept
<1>1. SessionMarksAreApart
  BY StorageAssumption
<1>2. Session!Spec => []Session!SessionKept
  BY <1>1, SessionSavesSurvive
<1> QED BY <1>2, SessionRuns, PTL DEF SessionKept

-----------------------------------------------------------------------------
(* What the sweep and a release do to the histories is in terms of Holders. *)
LEMMA LockHoldersAre ==
    ASSUME NEW p, NEW h \in holds
    PROVE  h \in Locks!Holders(p) <=> h[2] = p /\ OwnerOf[h[1]] = locks[p]
BY DEF Locks!Holders

LockOwned(h) == locks[h[2]] = OwnerOf[h[1]]
LockFirm == holds \ (expired \cup ousted)

LEMMA LockInitExcludes == MaxAge \in Nat /\ Locks!Init => Locks!LockExcludes
BY DEF Locks!Init, Locks!LockExcludes, Locks!TypeOK

(* No step takes a firm lock away.                                         *)
LEMMA LockStepExcludes ==
    ASSUME MaxAge \in Nat, \A a \in Agent : OwnerOf[a] # NoOwner,
           Locks!LockExcludes, [Locks!Next]_(Locks!vars)
    PROVE  Locks!LockExcludes'
<1> USE DEF Locks!TypeOK
<1>0. Locks!TypeOK /\ \A h \in LockFirm : LockOwned(h)
  BY DEF Locks!LockExcludes, LockFirm, LockOwned
<1>1. ASSUME NEW a \in Agent, NEW p \in LockPath, Locks!Acquire(a, p)
      PROVE  Locks!TypeOK' /\ \A h \in LockFirm' : LockOwned(h)'
  <2>1. OwnerOf[a] \in {OwnerOf[b] : b \in Agent}
    OBVIOUS
  <2>2. CASE locks[p] = NoOwner /\ locks' = [locks EXCEPT ![p] = OwnerOf[a]]
             /\ age' = [age EXCEPT ![p] = 0] /\ Locks!Grant(a, p)
    <3>1. Locks!TypeOK'
      BY <1>0, <2>1, <2>2 DEF Locks!Grant
    <3>2. ASSUME NEW h \in LockFirm' PROVE LockOwned(h)'
      <4>1. h \in holds' /\ h \in Agent \X LockPath
        BY <3>1 DEF LockFirm
      <4>2. CASE h[2] = p /\ h # <<a, p>>
        <5>1. h \in LockFirm
          BY <2>2, <4>2 DEF LockFirm, Locks!Grant
        <5> QED BY <1>0, <2>2, <4>1, <4>2, <5>1 DEF LockOwned
      <4>3. CASE h = <<a, p>>
        BY <1>0, <2>2, <4>3 DEF LockOwned
      <4>4. CASE h[2] # p
        <5>1. h \in LockFirm
          BY <2>2, <4>4 DEF LockFirm, Locks!Grant
        <5> QED BY <1>0, <2>2, <4>1, <4>4, <5>1 DEF LockOwned
      <4> QED BY <4>2, <4>3, <4>4
    <3> QED BY <3>1, <3>2
  <2>3. CASE locks[p] = OwnerOf[a] /\ Locks!Grant(a, p) /\ UNCHANGED <<locks, age>>
    <3>1. Locks!TypeOK'
      BY <1>0, <2>3 DEF Locks!Grant
    <3>2. ASSUME NEW h \in LockFirm' PROVE LockOwned(h)'
      <4>1. CASE h = <<a, p>>
        BY <2>3, <4>1 DEF LockOwned
      <4>2. CASE h # <<a, p>>
        <5>1. h \in LockFirm
          BY <2>3, <4>2 DEF LockFirm, Locks!Grant
        <5> QED BY <1>0, <2>3, <5>1 DEF LockOwned
      <4> QED BY <4>1, <4>2
    <3> QED BY <3>1, <3>2
  <2> QED BY <1>1, <2>2, <2>3 DEF Locks!Acquire
<1>2. ASSUME NEW a \in Agent, NEW p \in LockPath, Locks!Release(a, p)
      PROVE  Locks!TypeOK' /\ \A h \in LockFirm' : LockOwned(h)'
  <2>1. Locks!Holders(p) \subseteq holds
    BY DEF Locks!Holders
  <2>2. Locks!TypeOK'
    BY <1>0, <1>2, <2>1 DEF Locks!Release
  <2>3. ASSUME NEW h \in LockFirm' PROVE LockOwned(h)'
    <3>1. h \in holds /\ h # <<a, p>> /\ h \notin Locks!Holders(p) /\ h \in LockFirm
      BY <1>2, <2>3 DEF Locks!Release, LockFirm
    <3>2. LockOwned(h) /\ h \in Agent \X LockPath
      BY <1>0, <3>1
    <3>3. h[2] # p
      BY <3>1, <3>2, LockHoldersAre DEF LockOwned
    <3> QED BY <1>0, <1>2, <3>2, <3>3 DEF Locks!Release, LockOwned
  <2> QED BY <2>2, <2>3
<1>3. ASSUME Locks!Tick
      PROVE  Locks!TypeOK' /\ \A h \in LockFirm' : LockOwned(h)'
  <2>1. age' \in [LockPath -> 0..MaxAge]
    BY <1>0, <1>3 DEF Locks!Tick
  <2>2. Locks!TypeOK'
    BY <1>0, <1>3, <2>1 DEF Locks!Tick
  <2> QED BY <1>0, <1>3, <2>2 DEF Locks!Tick, LockFirm, LockOwned
<1>4. ASSUME Locks!Sweep
      PROVE  Locks!TypeOK' /\ \A h \in LockFirm' : LockOwned(h)'
  <2> DEFINE old == {p \in LockPath : locks[p] # NoOwner /\ age[p] > LockTTL}
  <2>1. /\ locks' = [p \in LockPath |-> IF p \in old THEN NoOwner ELSE locks[p]]
        /\ expired' = expired \cup UNION {Locks!Holders(p) : p \in old}
        /\ UNCHANGED <<age, holds, ousted>>
    BY <1>4 DEF Locks!Sweep
  <2>2. \A p \in old : p \in LockPath
    OBVIOUS
  <2> HIDE DEF old
  <2>3. UNION {Locks!Holders(p) : p \in old} \subseteq holds
    BY DEF Locks!Holders
  <2>4. Locks!TypeOK'
    BY <1>0, <2>1, <2>3
  <2>5. ASSUME NEW h \in LockFirm' PROVE LockOwned(h)'
    <3>1. h \in holds /\ h \in LockFirm /\ \A p \in old : h \notin Locks!Holders(p)
      BY <2>1 DEF LockFirm
    <3>2. LockOwned(h) /\ h \in Agent \X LockPath
      BY <1>0, <3>1
    <3>3. h[2] \notin old
      BY <3>1, <3>2, LockHoldersAre DEF LockOwned
    <3> QED BY <1>0, <2>1, <3>2, <3>3 DEF LockOwned
  <2> QED BY <2>4, <2>5
<1>5. CASE UNCHANGED Locks!vars
  BY <1>0, <1>5 DEF Locks!vars, Locks!LockExcludes
<1> QED BY <1>1, <1>2, <1>3, <1>4, <1>5
           DEF Locks!Next, Locks!LockExcludes, LockFirm, LockOwned

(* A firm lock is in the table under its owner's name, whatever the other   *)
(* agents of the process acquire and release.                              *)
THEOREM LockLocksExclude ==
    ASSUME MaxAge \in Nat, \A a \in Agent : OwnerOf[a] # NoOwner
    PROVE  Locks!Spec => []Locks!LockExcludes
<1>1. Locks!Init => Locks!LockExcludes
  BY LockInitExcludes
<1>2. Locks!LockExcludes /\ [Locks!Next]_(Locks!vars) => Locks!LockExcludes'
  BY LockStepExcludes
<1> QED BY <1>1, <1>2, PTL DEF Locks!Spec

(* Two agents of different names never both have a firm lock of one file:   *)
(* the tool excludes until a lock is a minute old.                         *)
THEOREM LockOneNamePerLock ==
    ASSUME MaxAge \in Nat, \A a \in Agent : OwnerOf[a] # NoOwner
    PROVE  Locks!Spec => [](\A a, b \in Agent, p \in LockPath :
                               <<a, p>> \in LockFirm /\ <<b, p>> \in LockFirm =>
                                 OwnerOf[a] = OwnerOf[b])
<1>1. Locks!LockExcludes => \A a, b \in Agent, p \in LockPath :
                               <<a, p>> \in LockFirm /\ <<b, p>> \in LockFirm =>
                                 OwnerOf[a] = OwnerOf[b]
  <2> SUFFICES ASSUME Locks!LockExcludes, NEW a \in Agent, NEW b \in Agent, NEW p \in LockPath,
                      <<a, p>> \in LockFirm, <<b, p>> \in LockFirm
               PROVE  OwnerOf[a] = OwnerOf[b]
    OBVIOUS
  <2>1. locks[p] = OwnerOf[a] /\ locks[p] = OwnerOf[b]
    BY DEF Locks!LockExcludes, LockFirm
  <2> QED BY <2>1
<1> QED BY <1>1, LockLocksExclude, PTL

(* The composition runs the lock table as it is specified: the other parts *)
(* leave its variables alone.                                              *)
LEMMA LocksRuns == Spec => Locks!Spec
<1>1. Init => Locks!Init
  BY DEF Init
<1>2. [Next]_vars => [Locks!Next]_(Locks!vars)
  BY DEF Next, vars, locksVars, Locks!vars, InSession, InRegistry, InSchedule, InLocks,
         InChecks, InMemory, InMedia, InEdit, InConfig, InGrants
<1> QED BY <1>1, <1>2, PTL DEF Spec, Locks!Spec

(* An agent that holds a lock that is neither a minute old nor taken under *)
(* the default name is the one the table names                             *)
(* (ConcurrencyManager.AcquireLock, ReleaseLock).                          *)
THEOREM StorageLocksExclude == Spec => []LockExcludes
<1>1. LockNamed
  BY StorageAssumption
<1>2. Locks!Spec => []Locks!LockExcludes
  BY <1>1, LockLocksExclude DEF LockNamed
<1> QED BY <1>2, LocksRuns, PTL DEF LockExcludes

-----------------------------------------------------------------------------
(* What backupContent is, from the backup to the validation.               *)
EditKept == /\ failures \in 0..Edit!RollbackLimit-1 /\ editCrashes \in 0..MaxCrashes
            /\ editPc \in {"idle", "begun", "written"}
            /\ editPc = "begun" /\ ~blind => kept = editFile
            /\ editPc = "written" /\ ~blind => kept = before
            /\ editPc # "idle" /\ blind => kept = Absent

LEMMA EditInitKept == Edit!Init => EditKept
  BY EditAssumption DEF Edit!Init, EditKept, Edit!RollbackLimit

LEMMA EditNextKept ==
    ASSUME EditKept, [Edit!Next]_(Edit!vars)
    PROVE  EditKept'
<1> USE EditAssumption DEF Edit!RollbackLimit
<1>1. CASE Edit!BeginEdit
  BY <1>1 DEF Edit!BeginEdit, Edit!TakeBackup, EditKept
<1>2. CASE Edit!Refuse
  BY <1>2 DEF Edit!Refuse, EditKept
<1>3. CASE \E c \in Content : Edit!Write(c)
  BY <1>3 DEF Edit!Write, EditKept
<1>4. CASE Edit!Accept
  BY <1>4 DEF Edit!Accept, EditKept
<1>5. CASE Edit!Reject
  BY <1>5 DEF Edit!Reject, EditKept
<1>6. CASE Edit!RollBack
  BY <1>6 DEF Edit!RollBack, EditKept
<1>7. CASE Edit!EditByLine \/ Edit!Undo \/ Edit!Delete
  BY <1>7 DEF Edit!EditByLine, Edit!Undo, Edit!Delete, Edit!Unattended, EditKept
<1>8. CASE Edit!Crash
  BY <1>8 DEF Edit!Crash, EditKept
<1>9. CASE UNCHANGED Edit!vars
  BY <1>9 DEF Edit!vars, EditKept
<1>10. QED
  BY <1>1, <1>2, <1>3, <1>4, <1>5, <1>6, <1>7, <1>8, <1>9 DEF Edit!Next

LEMMA EditAlwaysKept == Edit!Spec => []EditKept
<1>1. EditKept /\ [Edit!Next]_(Edit!vars) => EditKept'
  BY EditNextKept
<1>2. QED
  BY <1>1, EditInitKept, PTL DEF Edit!Spec

EditRollbackIsExact == Edit!RollsBack /\ ~blind => editFile' = before

LEMMA EditNextExact ==
    ASSUME EditKept, [Edit!Next]_(Edit!vars)
    PROVE  [EditRollbackIsExact]_(Edit!vars)
<1> SUFFICES ASSUME Edit!Next, Edit!RollsBack, ~blind
             PROVE  editFile' = before
  BY DEF EditRollbackIsExact
<1>1. failures \in Nat /\ editCrashes \in Nat
  BY EditAssumption DEF EditKept, Edit!RollbackLimit
<1>2. ~Edit!Accept /\ ~Edit!Reject
  BY <1>1 DEF Edit!RollsBack, Edit!Accept, Edit!Reject, Edit!RollbackLimit
<1>3. ~Edit!Crash
  BY <1>1 DEF Edit!Crash, Edit!RollsBack
<1>4. Edit!RollBack
  BY <1>2, <1>3
     DEF Edit!RollsBack, Edit!Next, Edit!BeginEdit, Edit!Refuse, Edit!Write,
         Edit!EditByLine, Edit!Undo, Edit!Delete, Edit!Unattended
<1>5. QED
  BY <1>4 DEF Edit!RollBack, Edit!RollsBack, EditKept

(* A rollback of executeCoreLoop restores exactly what its attempt found,  *)
(* a file that was not there included, unless the attempt was blind.       *)
THEOREM EditRollbacksAreExact == Edit!Spec => Edit!RollbackUndoesSeenAttempt
<1>1. EditKept /\ [Edit!Next]_(Edit!vars) => [EditRollbackIsExact]_(Edit!vars)
  BY EditNextExact
<1>2. QED
  BY <1>1, EditAlwaysKept, PTL
     DEF Edit!Spec, Edit!RollbackUndoesSeenAttempt, EditRollbackIsExact

-----------------------------------------------------------------------------
(* What the backup on the disk is at each stage, unless it is outdated.    *)

EditBacked == /\ outdated \in BOOLEAN
              /\ editPc = "begun" /\ ~blind /\ editFile # Absent => bak = editFile
              /\ editPc # "idle" /\ blind => outdated
              /\ editPc = "written" => editFile # Absent
              /\ outdated \/
               /\ editPc \in {"idle", "begun"} /\ editFile = Absent => bak = Absent
               /\ editPc = "idle" /\ bak # Absent => bak \in {editFile, before}
               /\ editPc = "written" => bak = before

LEMMA EditInitBacked == Edit!Init => EditBacked
  BY DEF Edit!Init, EditBacked

LEMMA EditNextBacked ==
    ASSUME EditKept, EditBacked, [Edit!Next]_(Edit!vars)
    PROVE  EditBacked'
<1>1. CASE Edit!BeginEdit
  <2>1. CASE Edit!TakeBackup /\ blind' = FALSE /\ outdated' = (outdated /\ editFile = Absent)
    <3>1. outdated' \in BOOLEAN
      BY <2>1 DEF EditBacked
    <3>2. QED
      BY <1>1, <2>1, <3>1 DEF Edit!BeginEdit, Edit!TakeBackup, EditBacked
  <2>2. CASE UNCHANGED bak /\ blind' = (editFile # Absent) /\ outdated' = (outdated \/ blind')
    <3>1. outdated' \in BOOLEAN
      BY <2>2 DEF EditBacked
    <3>2. QED
      BY <1>1, <2>2, <3>1 DEF Edit!BeginEdit, EditBacked
  <2>3. QED
    BY <1>1, <2>1, <2>2 DEF Edit!BeginEdit
<1>2. CASE Edit!Refuse
  BY <1>2 DEF Edit!Refuse, EditBacked
<1>3. ASSUME NEW c \in Content, Edit!Write(c)
      PROVE  EditBacked'
  <2>1. editFile' # Absent
    BY <1>3, EditAssumption DEF Edit!Write
  <2>2. outdated \/ bak' = before'
    BY <1>3 DEF Edit!Write, EditBacked
  <2>3. QED
    BY <1>3, <2>1, <2>2 DEF Edit!Write, EditBacked
<1>4. CASE Edit!Accept
  BY <1>4 DEF Edit!Accept, Edit!DropBackup, EditKept, EditBacked
<1>5. CASE Edit!Reject
  BY <1>5 DEF Edit!Reject, Edit!DropBackup, EditKept, EditBacked
<1>6. CASE Edit!RollBack
  BY <1>6 DEF Edit!RollBack, Edit!DropBackup, EditKept, EditBacked
<1>7. CASE Edit!EditByLine
  <2>1. editFile' # Absent
    BY <1>7, EditAssumption DEF Edit!EditByLine
  <2>2. bak' = editFile /\ (editFile' = editFile \/ before' = editFile)
    BY <1>7 DEF Edit!EditByLine
  <2>3. QED
    BY <1>7, <2>1, <2>2 DEF Edit!EditByLine, Edit!Unattended, EditBacked
<1>8. CASE Edit!Undo
  BY <1>8 DEF Edit!Undo, Edit!Unattended, EditBacked
<1>9. CASE Edit!Delete
  BY <1>9 DEF Edit!Delete, Edit!Unattended, EditBacked
<1>10. CASE Edit!Crash
  <2>1. editPc' = "idle" /\ blind' = blind
    BY <1>10 DEF Edit!Crash
  <2>2. CASE UNCHANGED <<editFile, bak, before, outdated>>
    BY <2>1, <2>2 DEF EditKept, EditBacked
  <2>3. CASE outdated' = TRUE
    BY <2>1, <2>3 DEF EditBacked
  <2>4. CASE /\ editPc = "begun"
             /\ editFile' = Torn /\ before' = editFile
             /\ UNCHANGED <<bak, outdated>>
    BY <2>1, <2>4, EditAssumption DEF EditBacked
  <2>5. QED
    BY <1>10, <2>2, <2>3, <2>4 DEF Edit!Crash
<1>11. CASE UNCHANGED Edit!vars
  BY <1>11 DEF Edit!vars, EditBacked
<1>12. QED
  BY <1>1, <1>2, <1>3, <1>4, <1>5, <1>6, <1>7, <1>8, <1>9, <1>10, <1>11 DEF Edit!Next

LEMMA EditAlwaysBacked == Edit!Spec => []EditBacked
<1>1. EditKept /\ EditBacked /\ [Edit!Next]_(Edit!vars) => EditBacked'
  BY EditNextBacked
<1>2. QED
  BY <1>1, EditInitBacked, EditAlwaysKept, PTL DEF Edit!Spec

(* undo_last_edit never takes back more than the last edit, whatever       *)
(* contents were written, refused, rolled back or left by a dead process,  *)
(* but for the three steps that leave an older backup.                     *)
THEOREM EditOneEditIsUndone == Edit!Spec => []Edit!UndoTakesBackOneEdit
<1>1. EditBacked => Edit!UndoTakesBackOneEdit
  BY DEF EditBacked, Edit!UndoTakesBackOneEdit
<1>2. QED
  BY <1>1, EditAlwaysBacked, PTL

-----------------------------------------------------------------------------

EditDeathIsSafe == Edit!TornInWrite /\ ~blind => bak' = editFile

LEMMA EditNextDeath ==
    ASSUME EditKept, EditBacked, [Edit!Next]_(Edit!vars)
    PROVE  [EditDeathIsSafe]_(Edit!vars)
<1> SUFFICES ASSUME Edit!Next, Edit!TornInWrite, ~blind
             PROVE  bak' = editFile
  BY DEF EditDeathIsSafe
<1>1. editFile # Absent /\ editFile # Torn
  BY EditAssumption DEF Edit!TornInWrite
<1>2. Edit!Crash
  BY <1>1
     DEF Edit!Next, Edit!TornInWrite, Edit!BeginEdit, Edit!Refuse, Edit!Write, Edit!Accept,
         Edit!Reject, Edit!RollBack, Edit!EditByLine, Edit!Undo, Edit!Delete,
         Edit!Unattended
<1>3. UNCHANGED bak
  BY <1>1, <1>2 DEF Edit!Crash, Edit!TornInWrite
<1>4. QED
  BY <1>1, <1>3 DEF EditBacked, Edit!TornInWrite

(* A process that dies within write_file or edit_file leaves the content   *)
(* it was overwriting in the backup.                                       *)
THEOREM EditDeathsLeaveBackup == Edit!Spec => Edit!DeathLeavesBackup
<1>1. EditKept /\ EditBacked /\ [Edit!Next]_(Edit!vars) => [EditDeathIsSafe]_(Edit!vars)
  BY EditNextDeath
<1>2. QED
  BY <1>1, EditAlwaysKept, EditAlwaysBacked, PTL
     DEF Edit!Spec, Edit!DeathLeavesBackup, EditDeathIsSafe

(* The composition runs the editing tools as it is specified: the other    *)
(* parts leave its variables alone.                                        *)
LEMMA EditRuns == Spec => Edit!Spec
<1>1. Init => Edit!Init
  BY DEF Init
<1>2. [Next]_vars => [Edit!Next]_(Edit!vars)
  BY DEF Next, vars, editVars, Edit!vars, InSession, InRegistry, InSchedule, InLocks,
         InChecks, InMemory, InMedia, InEdit, InConfig, InGrants
<1> QED BY <1>1, <1>2, PTL DEF Spec, Edit!Spec

(* undo_last_edit never takes back more than the last edit, but for the    *)
(* three steps that leave an older backup.                                 *)
THEOREM StorageUndoesOneEdit == Spec => []UndoTakesBackOneEdit
<1>1. Edit!Spec => []Edit!UndoTakesBackOneEdit
  BY EditOneEditIsUndone
<1> QED BY <1>1, EditRuns, PTL DEF UndoTakesBackOneEdit

(* A rollback leaves the file as the attempt that caused it found it,      *)
(* where the loop took a backup or there was nothing to take               *)
(* (execute_tools.go).                                                     *)
THEOREM StorageRollsBack == Spec => RollbackUndoesSeenAttempt
<1>1. Edit!Spec => Edit!RollbackUndoesSeenAttempt
  BY EditRollbacksAreExact
<1> QED BY <1>1, EditRuns, PTL DEF RollbackUndoesSeenAttempt

-----------------------------------------------------------------------------
LEMMA GrantConcludeType ==
    ASSUME Grants!TypeOK, NEW m \in Manager, NEW t \in Target, NEW approved \in BOOLEAN,
           NEW by \in {"mode", "grant", "user"}, Grants!Conclude(m, t, approved, by)
    PROVE  verdict' \in [Manager -> Grants!Verdict]
<1> DEFINE v == [target |-> t, approved |-> approved, by |-> by]
<1>1. v \in Grants!Verdict
  BY DEF Grants!Verdict
<1>2. verdict \in [Manager -> Grants!Verdict]
  BY DEF Grants!TypeOK
<1>3. verdict' = [verdict EXCEPT ![m] = v]
  BY DEF Grants!Conclude
<1> HIDE DEF v
<1>4. QED
  BY <1>1, <1>2, <1>3

LEMMA GrantInitTypeOK == Grants!Init => Grants!TypeOK
<1> SUFFICES ASSUME Grants!Init
             PROVE  Grants!TypeOK
  OBVIOUS
<1>1. verdict \in [Manager -> Grants!Verdict]
  BY DEF Grants!Init, Grants!NoVerdict, Grants!Verdict
<1>2. grants \in [Manager -> SUBSET Target]
  BY DEF Grants!Init
<1>3. permPc \in [Manager -> {"idle", "asking", "saving"}]
  BY DEF Grants!Init
<1>4. \A m \in Manager : permPc[m] = "asking" => request[m] # NoTarget
  BY DEF Grants!Init
<1>5. QED
  BY <1>1, <1>2, <1>3, <1>4 DEF Grants!Init, Grants!TypeOK

LEMMA GrantNextTypeOK == Grants!TypeOK /\ [Grants!Next]_(Grants!vars) => Grants!TypeOK'
<1> SUFFICES ASSUME Grants!TypeOK, [Grants!Next]_(Grants!vars)
             PROVE  Grants!TypeOK'
  OBVIOUS
<1> USE ManagerAssumption DEF Grants!deaths
<1>1. ASSUME NEW m \in Manager, NEW t \in Target, Grants!AuthorizeFreely(m, t)
      PROVE  Grants!TypeOK'
  <2>1. verdict' \in [Manager -> Grants!Verdict]
    BY <1>1, GrantConcludeType DEF Grants!AuthorizeFreely
  <2>2. QED
    BY <1>1, <2>1 DEF Grants!AuthorizeFreely, Grants!TypeOK
<1>2. ASSUME NEW m \in Manager, NEW t \in Target, Grants!AuthorizeByGrant(m, t)
      PROVE  Grants!TypeOK'
  <2>1. verdict' \in [Manager -> Grants!Verdict]
    BY <1>2, GrantConcludeType DEF Grants!AuthorizeByGrant
  <2>2. grants' \in [Manager -> SUBSET Target]
    BY <1>2 DEF Grants!AuthorizeByGrant, Grants!Loaded, Grants!TypeOK
  <2>3. QED
    BY <1>2, <2>1, <2>2 DEF Grants!AuthorizeByGrant, Grants!TypeOK
<1>3. ASSUME NEW m \in Manager, NEW t \in Target, Grants!Ask(m, t)
      PROVE  Grants!TypeOK'
  <2>1. grants' \in [Manager -> SUBSET Target]
    BY <1>3 DEF Grants!Ask, Grants!Loaded, Grants!TypeOK
  <2>2. QED
    BY <1>3, <2>1 DEF Grants!Ask, Grants!TypeOK
<1>4. ASSUME NEW m \in Manager, NEW approved \in BOOLEAN, NEW remember \in BOOLEAN,
             Grants!Answer(m, approved, remember)
      PROVE  Grants!TypeOK'
  <2>1. request[m] \in Target
    BY <1>4 DEF Grants!Answer, Grants!TypeOK
  <2>2. verdict' \in [Manager -> Grants!Verdict]
    BY <1>4, <2>1, GrantConcludeType DEF Grants!Answer
  <2>3. grants' \in [Manager -> SUBSET Target] /\ remembered' \subseteq Target
    BY <1>4, <2>1 DEF Grants!Answer, Grants!TypeOK
  <2>4. /\ permPc' \in [Manager -> {"idle", "asking", "saving"}]
        /\ permPc'[m] # "asking"
        /\ \A n \in Manager \ {m} : permPc'[n] = permPc[n]
    BY <1>4 DEF Grants!Answer, Grants!TypeOK
  <2>5. torn' \in BOOLEAN /\ request' = [request EXCEPT ![m] = NoTarget]
    BY <1>4 DEF Grants!Answer, Grants!TypeOK
  <2>6. UNCHANGED <<permFile, Grants!deaths>>
    BY <1>4 DEF Grants!Answer
  <2>7. QED
    BY <2>2, <2>3, <2>4, <2>5, <2>6 DEF Grants!TypeOK
<1>5. ASSUME NEW m \in Manager, Grants!Saved(m)
      PROVE  Grants!TypeOK'
  BY <1>5 DEF Grants!Saved, Grants!TypeOK
<1>6. ASSUME NEW m \in Manager, Grants!Forget(m), permCrashes' \in Nat, interrupted' \in BOOLEAN
      PROVE  Grants!TypeOK'
  BY <1>6 DEF Grants!Forget, Grants!TypeOK, Grants!NoVerdict, Grants!Verdict
<1>7. ASSUME NEW m \in Manager, Grants!Recreate(m) \/ Grants!Crash(m)
      PROVE  Grants!TypeOK'
  <2>1. Grants!Forget(m) /\ permCrashes' \in Nat
    BY <1>7 DEF Grants!Recreate, Grants!Crash, Grants!TypeOK
  <2>2. interrupted' \in BOOLEAN
    <3>1. interrupted' = interrupted \/ interrupted' = (interrupted \/ permPc[m] = "saving")
      BY <1>7 DEF Grants!Recreate, Grants!Crash
    <3>2. interrupted \in BOOLEAN
      BY DEF Grants!TypeOK
    <3>3. QED
      BY <3>1, <3>2, Zenon
  <2>3. QED
    BY <1>6, <2>1, <2>2
<1>8. CASE UNCHANGED Grants!vars
  BY <1>8 DEF Grants!vars, Grants!TypeOK
<1>9. QED
  BY <1>1, <1>2, <1>3, <1>4, <1>5, <1>7, <1>8 DEF Grants!Next

(* Every variable keeps its type.                                          *)
THEOREM GrantGrantTypes == Grants!Spec => []Grants!TypeOK
BY GrantInitTypeOK, GrantNextTypeOK, PTL DEF Grants!Spec

-----------------------------------------------------------------------------
(* Consent.                                                                *)

GrantConsentInv == Grants!TypeOK /\ Grants!ConsentBehindEveryGrant

LEMMA GrantCoverGrows ==
    ASSUME NEW G, NEW H, G \subseteq H, NEW t, Grants!Covered(G, t)
    PROVE  Grants!Covered(H, t)
BY DEF Grants!Covered

(* What is loaded was remembered.                                          *)
LEMMA GrantLoadedWasRemembered ==
    ASSUME GrantConsentInv, NEW m \in Manager
    PROVE  Grants!Loaded(m) \subseteq remembered
BY DEF GrantConsentInv, Grants!ConsentBehindEveryGrant, Grants!Loaded

LEMMA GrantNextConsent == GrantConsentInv /\ [Grants!Next]_(Grants!vars) => GrantConsentInv'
<1> SUFFICES ASSUME GrantConsentInv, [Grants!Next]_(Grants!vars)
             PROVE  GrantConsentInv'
  OBVIOUS
<1>0. Grants!TypeOK /\ Grants!TypeOK'
  BY GrantNextTypeOK DEF GrantConsentInv
<1>1. remembered \subseteq remembered'
  BY DEF Grants!Next, Grants!AuthorizeFreely, Grants!AuthorizeByGrant, Grants!Ask,
         Grants!Answer, Grants!Saved, Grants!Recreate, Grants!Crash, Grants!Forget,
         Grants!vars
<1>2. permFile' \subseteq remembered' /\ \A n \in Manager : grants'[n] \subseteq remembered'
  <2>1. ASSUME NEW m \in Manager, grants' = [grants EXCEPT ![m] = Grants!Loaded(m)],
               UNCHANGED permFile
        PROVE  permFile' \subseteq remembered' /\
          \A n \in Manager : grants'[n] \subseteq remembered'
    BY <1>0, <1>1, <2>1, GrantLoadedWasRemembered
       DEF GrantConsentInv, Grants!ConsentBehindEveryGrant, Grants!TypeOK
  <2>2. ASSUME NEW m \in Manager, NEW approved \in BOOLEAN, NEW remember \in BOOLEAN,
               Grants!Answer(m, approved, remember)
        PROVE  permFile' \subseteq remembered' /\
          \A n \in Manager : grants'[n] \subseteq remembered'
    BY <1>0, <1>1, <2>2
       DEF GrantConsentInv, Grants!ConsentBehindEveryGrant, Grants!TypeOK, Grants!Answer,
           Grants!Save
  <2>3. ASSUME NEW m \in Manager, Grants!Saved(m)
        PROVE  permFile' \subseteq remembered' /\
          \A n \in Manager : grants'[n] \subseteq remembered'
    BY <1>0, <1>1, <2>3
       DEF GrantConsentInv, Grants!ConsentBehindEveryGrant, Grants!TypeOK, Grants!Saved
  <2>4. ASSUME NEW m \in Manager, Grants!Forget(m)
        PROVE  permFile' \subseteq remembered' /\
          \A n \in Manager : grants'[n] \subseteq remembered'
    BY <1>0, <1>1, <2>4
       DEF GrantConsentInv, Grants!ConsentBehindEveryGrant, Grants!TypeOK, Grants!Forget
  <2>5. CASE UNCHANGED <<permFile, grants>>
    BY <1>1, <2>5 DEF GrantConsentInv, Grants!ConsentBehindEveryGrant
  <2>6. QED
    BY <2>1, <2>2, <2>3, <2>4, <2>5
       DEF Grants!Next, Grants!AuthorizeFreely, Grants!AuthorizeByGrant, Grants!Ask,
           Grants!Recreate, Grants!Crash, Grants!vars
<1>3. \A n \in Manager : verdict'[n].by = "grant"
                            => Grants!Covered(remembered', verdict'[n].target)
  <2> SUFFICES ASSUME NEW n \in Manager, verdict'[n].by = "grant"
               PROVE  Grants!Covered(remembered', verdict'[n].target)
    OBVIOUS
  <2>1. ASSUME verdict'[n] = verdict[n]
        PROVE  Grants!Covered(remembered', verdict'[n].target)
    BY <1>1, <2>1, GrantCoverGrows DEF GrantConsentInv, Grants!ConsentBehindEveryGrant
  <2>2. ASSUME NEW m \in Manager, NEW t \in Target, Grants!AuthorizeByGrant(m, t)
        PROVE  Grants!Covered(remembered', verdict'[n].target)
    <3>1. CASE n = m
      <4>1. verdict'[n].target = t /\ Grants!Covered(Grants!Loaded(m), t)
        BY <1>0, <2>2, <3>1 DEF Grants!AuthorizeByGrant, Grants!Conclude, Grants!TypeOK
      <4>2. Grants!Loaded(m) \subseteq remembered'
        BY <1>1, GrantLoadedWasRemembered
      <4>3. QED
        BY <4>1, <4>2, GrantCoverGrows
    <3>2. CASE n # m
      BY <1>0, <2>1, <2>2, <3>2 DEF Grants!AuthorizeByGrant, Grants!Conclude, Grants!TypeOK
    <3>3. QED
      BY <3>1, <3>2
  <2>3. ASSUME NEW m \in Manager, NEW t \in Target, NEW approved \in BOOLEAN,
               NEW by \in {"mode", "user"}, Grants!Conclude(m, t, approved, by)
        PROVE  verdict'[n] = verdict[n]
    BY <1>0, <2>3 DEF Grants!Conclude, Grants!TypeOK
  <2>4. ASSUME NEW m \in Manager, Grants!Forget(m)
        PROVE  verdict'[n] = verdict[n]
    BY <1>0, <2>4 DEF Grants!Forget, Grants!NoVerdict, Grants!TypeOK
  <2>5. ASSUME NEW m \in Manager, NEW approved \in BOOLEAN, NEW remember \in BOOLEAN,
               Grants!Answer(m, approved, remember)
        PROVE  verdict'[n] = verdict[n]
    BY <1>0, <2>3, <2>5 DEF Grants!Answer, Grants!TypeOK
  <2>6. CASE UNCHANGED verdict
    BY <2>1, <2>6
  <2>7. QED
    BY <2>1, <2>2, <2>3, <2>4, <2>5, <2>6
       DEF Grants!Next, Grants!AuthorizeFreely, Grants!Ask, Grants!Saved, Grants!Recreate,
           Grants!Crash, Grants!vars
<1>4. QED
  BY <1>0, <1>2, <1>3 DEF GrantConsentInv, Grants!ConsentBehindEveryGrant

(* Every saved grant, and every action that ran by one, has the user's     *)
(* "remember" behind it, whatever managers, crashes and torn writes do.    *)
THEOREM GrantConsent == Grants!Spec => []Grants!ConsentBehindEveryGrant
<1>1. Grants!Init => GrantConsentInv
  BY GrantInitTypeOK
     DEF Grants!Init, GrantConsentInv, Grants!ConsentBehindEveryGrant, Grants!NoVerdict
<1>2. GrantConsentInv => Grants!ConsentBehindEveryGrant
  BY DEF GrantConsentInv
<1>3. QED
  BY <1>1, <1>2, GrantNextConsent, PTL DEF Grants!Spec

-----------------------------------------------------------------------------
(* One writer.                                                             *)

GrantOnlyWriter(w) == \A m \in Manager \ {w} : Mode[m] # "scoped"

(* What the writer is about to save, or has saved, is all of remembered.   *)
GrantWriterInv(w) ==
    /\ Grants!TypeOK
    /\ interrupted \/
         /\ \A m \in Manager \ {w} : permPc[m] # "saving"
         /\ permPc[w] = "asking" => /\ remembered \subseteq grants[w]
                                    /\ ~Grants!Covered(grants[w], request[w])
         /\ permPc[w] = "saving" => torn /\ remembered \subseteq grants[w]
         /\ permPc[w] # "saving" => ~torn /\ remembered \subseteq permFile

LEMMA GrantNextWriter ==
    ASSUME NEW w \in Manager, GrantOnlyWriter(w), GrantWriterInv(w), [Grants!Next]_(Grants!vars)
    PROVE  GrantWriterInv(w)'
<1>0. Grants!TypeOK /\ Grants!TypeOK'
  BY GrantNextTypeOK DEF GrantWriterInv
<1>1. ASSUME NEW m \in Manager, NEW t \in Target, Grants!AuthorizeByGrant(m, t)
      PROVE  GrantWriterInv(w)'
  BY <1>0, <1>1
     DEF Grants!AuthorizeByGrant, GrantWriterInv, Grants!TypeOK, Grants!deaths,
         Grants!Covered
<1>2. ASSUME NEW m \in Manager, NEW t \in Target, Grants!Ask(m, t)
      PROVE  GrantWriterInv(w)'
  BY <1>0, <1>2
     DEF Grants!Ask, Grants!Loaded, GrantWriterInv, Grants!TypeOK, Grants!deaths,
         Grants!Covered
<1>3. ASSUME NEW m \in Manager, NEW approved \in BOOLEAN, NEW remember \in BOOLEAN,
             Grants!Answer(m, approved, remember)
      PROVE  GrantWriterInv(w)'
  <2>1. CASE Grants!Save(m, approved, remember)
    <3>1. m = w
      BY <2>1 DEF Grants!Save, GrantOnlyWriter
    <3>2. /\ permPc' = [permPc EXCEPT ![w] = "saving"]
          /\ torn' /\ remembered' = remembered \cup {request[w]}
          /\ grants' = [grants EXCEPT ![w] = @ \cup {request[w]}]
          /\ permPc[w] = "asking" /\ interrupted' = interrupted
      BY <1>3, <2>1, <3>1 DEF Grants!Answer, Grants!Save, Grants!deaths
    <3>3. QED
      BY <1>0, <3>2 DEF GrantWriterInv, Grants!TypeOK
  <2>2. CASE ~Grants!Save(m, approved, remember)
    <3>1. /\ permPc' = [permPc EXCEPT ![m] = "idle"] /\ permPc[m] = "asking"
          /\ request' = [request EXCEPT ![m] = NoTarget]
          /\ UNCHANGED <<grants, torn, permFile, remembered, interrupted>>
      BY <1>3, <2>2 DEF Grants!Answer, Grants!Save, Grants!deaths
    <3>2. QED
      BY <1>0, <3>1 DEF GrantWriterInv, Grants!TypeOK, Grants!Covered
  <2>3. QED
    BY <2>1, <2>2
<1>4. ASSUME NEW m \in Manager, Grants!Saved(m)
      PROVE  GrantWriterInv(w)'
  BY <1>0, <1>4
     DEF Grants!Saved, GrantWriterInv, Grants!TypeOK, Grants!deaths, Grants!Covered
<1>5. ASSUME NEW m \in Manager, Grants!Recreate(m)
      PROVE  GrantWriterInv(w)'
  BY <1>0, <1>5
     DEF Grants!Recreate, Grants!Forget, GrantWriterInv, Grants!TypeOK, Grants!deaths,
         Grants!Covered
<1>6. ASSUME NEW m \in Manager, Grants!Crash(m)
      PROVE  GrantWriterInv(w)'
  BY <1>0, <1>6
     DEF Grants!Crash, Grants!Forget, GrantWriterInv, Grants!TypeOK, Grants!Covered
<1>7. CASE UNCHANGED <<permFile, torn, grants, permPc, request, remembered, interrupted>>
  BY <1>0, <1>7 DEF GrantWriterInv, Grants!Covered
<1>8. QED
  BY <1>1, <1>2, <1>3, <1>4, <1>5, <1>6, <1>7
     DEF Grants!Next, Grants!AuthorizeFreely, Grants!vars, Grants!deaths

LEMMA GrantAlwaysWriter ==
    ASSUME NEW w \in Manager, GrantOnlyWriter(w)
    PROVE  Grants!Spec => []GrantWriterInv(w)
<1>1. Grants!Init => GrantWriterInv(w)
  BY GrantInitTypeOK DEF Grants!Init, GrantWriterInv
<1>2. GrantWriterInv(w) /\ [Grants!Next]_(Grants!vars) => GrantWriterInv(w)'
  BY GrantNextWriter
<1>3. QED
  BY <1>1, <1>2, PTL DEF Grants!Spec

(* Where one manager alone saves, a remembered grant is never lost, unless *)
(* a process died in the middle of a save.                                 *)
THEOREM GrantOneWriterKeepsGrants ==
    ASSUME NEW w \in Manager, GrantOnlyWriter(w)
    PROVE  Grants!Spec => []Grants!RememberedIsKept
<1>1. GrantWriterInv(w) => Grants!RememberedIsKept
  BY DEF GrantWriterInv, Grants!RememberedIsKept, Grants!AllIdle, Grants!Kept
<1>2. QED
  BY <1>1, GrantAlwaysWriter, PTL

(* Nor does that manager ask again about what it covers.                   *)
THEOREM GrantOneWriterNeverAsksAgain ==
    ASSUME NEW w \in Manager, GrantOnlyWriter(w)
    PROVE  Grants!Spec => []Grants!NeverAskedAgain
<1>1. GrantWriterInv(w) => Grants!NeverAskedAgain
  BY DEF GrantWriterInv, Grants!NeverAskedAgain, GrantOnlyWriter, Grants!Covered
<1>2. QED
  BY <1>1, GrantAlwaysWriter, PTL

(* Where one manager alone saves, grants come from consent alone, survive  *)
(* every death outside a save and spare the user the same question.        *)
THEOREM GrantOneWriterGrantsSound ==
    ASSUME NEW w \in Manager, GrantOnlyWriter(w)
    PROVE  Grants!Spec => []Grants!GrantsSound
<1>1. Grants!ConsentBehindEveryGrant /\ Grants!NeverAskedAgain /\ Grants!RememberedIsKept =>
      Grants!GrantsSound
  BY DEF Grants!GrantsSound
<1>2. QED
  BY <1>1, GrantConsent, GrantOneWriterKeepsGrants, GrantOneWriterNeverAsksAgain, PTL

(* The composition runs the permission managers as it is specified: the    *)
(* other parts leave its variables alone.                                  *)
LEMMA GrantsRuns == Spec => Grants!Spec
<1>1. Init => Grants!Init
  BY DEF Init
<1>2. [Next]_vars => [Grants!Next]_(Grants!vars)
  BY DEF Next, vars, grantsVars, Grants!vars, Grants!deaths, InSession, InRegistry,
         InSchedule, InLocks, InChecks, InMemory, InMedia, InEdit, InConfig, InGrants
<1> QED BY <1>1, <1>2, PTL DEF Spec, Grants!Spec

(* Where one manager alone asks and saves, grants come from consent alone, *)
(* survive every death outside a save and spare the user the same question *)
(* (PermissionManager.Authorize). Two that save lose grants: that is not   *)
(* claimed.                                                                *)
THEOREM StorageGrantsSound ==
    ASSUME NEW w \in Manager, GrantOnlyWriter(w)
    PROVE  Spec => []GrantsSound
<1>1. Grants!Spec => []Grants!GrantsSound
  BY GrantOneWriterGrantsSound
<1> QED BY <1>1, GrantsRuns, PTL DEF GrantsSound

-----------------------------------------------------------------------------
-----------------------------------------------------------------------------
(* What a file holds, and what it begins with.                             *)
ConfigMap(f) == IF f = "env" THEN [Secret -> ConfigValue] ELSE [Key -> ConfigValue]
ConfigStart(f) == IF f = "global" THEN Config!DefaultGlobalConfig
                  ELSE IF f = "local" THEN Config!DefaultWorkspaceConfig(Config!Nothing)
                  ELSE Config!NoSecrets

(* The values w are what a file holds once "a" has been said to it; of the *)
(* .env file only while it is whole.                                       *)
ConfigSays(f, w, a, whole) ==
          /\ w \in ConfigMap(f) /\ a \in ConfigMap(f)
          /\ f = "env" => (whole => w = a)
          /\ f # "env" => w = Config!Over(ConfigStart(f), a)
          /\ f = "global" => \A k \in Key : k \in Own => a[k] = Unset

(* The steps of a process: each open has its fill behind it, each fill its *)
(* open before it, unless it is the next.                                  *)
ConfigMaps == [Key -> ConfigValue] \cup [Secret -> ConfigValue]
ConfigPlain == [do : {"load", "resolve"}, on : Config!File]
ConfigWrites == [do : {"open", "fill"}, on : Config!File, what : ConfigMaps, as : ConfigMaps]
ConfigClean(t, whole, from) ==
    /\ t \in Seq(ConfigPlain \cup ConfigWrites)
    /\ \A n \in 1..Len(t) :
          /\ t[n].do = "open" => n < Len(t) /\ t[n+1].do = "fill" /\ t[n+1].on = t[n].on
          /\ t[n].do = "fill" /\ n > 1 => t[n-1].do = "open" /\ t[n-1].on = t[n].on
          /\ t[n].do \in {"open", "fill"} => ConfigSays(t[n].on, t[n].what, t[n].as, whole)
          /\ t[n].do = "load" => t[n].on \in from
ConfigNoFill(t) == t # <<>> => t[1].do # "fill"
ConfigFills(t) == {t[n].on : n \in {m \in 1..Len(t) : t[m].do = "fill"}}

ConfigWhole == "env" \notin died \cup clash
ConfigLoads(p) == IF p \in SetCommand THEN {job[p].on} ELSE Config!File

ConfigTypes ==
    /\ DOMAIN setFile = Config!File
    /\ \A f \in Config!File : setFile[f] \in {Absent, Torn} \cup ConfigMap(f)
    /\ setFile["env"] \in ConfigMap("env")
    /\ DOMAIN said = Config!File /\ \A f \in Config!File : said[f] \in ConfigMap(f)
    /\ DOMAIN held = Config!Process /\ \A p \in Config!Process : DOMAIN held[p] = Config!File
    /\ DOMAIN setHeard = Config!Process
    /\ \A p \in Config!Process : DOMAIN setHeard[p] = Config!File
    /\ DOMAIN seen = Config!Process /\ \A p \in Config!Process : DOMAIN seen[p] = Key
    /\ DOMAIN setKeys = Config!Process /\ \A p \in Config!Process : DOMAIN setKeys[p] = Secret
    /\ clash \subseteq Config!File /\ died \subseteq Config!File
ConfigJobs == \A p \in SetCommand : /\ job[p].on = "global" => job[p].key \in Key \ Own
                                    /\ job[p].on = "local" => job[p].key \in Key
                                    /\ job[p].on = "env" => job[p].key \in Secret
ConfigTodos == /\ DOMAIN todo = Config!Process
               /\ \A p \in Config!Process : ConfigClean(todo[p], ConfigWhole, ConfigLoads(p))

ConfigFiles == \A f \in Config!File :
    /\ setFile[f] = Absent => said[f] = Config!Nothing
    /\ f # "env" /\ setFile[f] \notin {Absent, Torn} => ConfigSays(f, setFile[f], said[f], TRUE)
    /\ f = "env" /\ ConfigWhole /\ (\A p \in Config!Process : ~Config!At(p, "fill", f)) =>
       setFile[f] = said[f]

(* Who fills a file has opened it, and is alone unless that was noted.     *)
ConfigAlone == \A p \in Config!Process, f \in Config!File : Config!At(p, "fill", f) =>
    /\ setFile[f] # Absent
    /\ f \notin clash => /\ f # "env" => setFile[f] = Torn
                         /\ \A q \in Config!Process : q # p => f \notin ConfigFills(todo[q])
(* What a death left unfinished nobody will write.                         *)
ConfigDead == \A f \in died : f # "env" /\ f \notin clash =>
    setFile[f] = Torn /\ \A p \in Config!Process : f \notin ConfigFills(todo[p])

(* What was read comes to the same as what had been said.                  *)
ConfigAgree(h, a, whole) ==
    /\ \A k \in Key : \/ k \in Own /\ h["global"][k] = Unset /\ a["global"][k] = Unset
                      \/ k \notin Own /\ h["global"][k] = a["global"][k]
                      \/ k \notin Own /\ a["global"][k] = Unset /\ h["global"][k] = Default
    /\ \A k \in Key : \/ h["local"][k] = a["local"][k]
                      \/ k \in Own /\ a["local"][k] = Unset /\ h["local"][k] = Default
    /\ whole => h["env"] = a["env"]
ConfigHeard == \A p \in Config!Process : ConfigAgree(held[p], setHeard[p], ConfigWhole)
ConfigDone == \A p \in Config!Process : seen[p] # Config!Nothing => todo[p] = <<>>

ConfigIInv == /\ ConfigTypes /\ ConfigJobs /\ ConfigTodos /\ ConfigFiles
              /\ ConfigAlone /\ ConfigDead /\ ConfigHeard /\ ConfigDone
              /\ Config!TornHasACause /\ Config!RunsGoByWhatWasSaid

-----------------------------------------------------------------------------
ConfigAll == ConfigPlain \cup ConfigWrites
LEMMA ConfigStepOf ==
    ASSUME NEW t, NEW whole, NEW from, ConfigClean(t, whole, from), NEW n \in 1..Len(t)
    PROVE  t[n] \in ConfigAll
BY DEF ConfigClean, ConfigAll

(* What is left when the first step is taken.                              *)
LEMMA ConfigCleanTail ==
    ASSUME NEW t, NEW whole, NEW from, ConfigClean(t, whole, from), t # <<>>
    PROVE  /\ ConfigClean(Tail(t), whole, from) /\ ConfigFills(Tail(t)) \subseteq ConfigFills(t)
           /\ t[1].do # "open" => ConfigNoFill(Tail(t))
           /\ t[1].do = "open" => Tail(t) # <<>> /\ Tail(t)[1].do = "fill" /\
              Tail(t)[1].on = t[1].on
           /\ 1 \in 1..Len(t) /\ Head(t) = t[1]
<1> DEFINE r == Tail(t)
<1>1. t \in Seq(ConfigAll) /\ Len(t) \in Nat /\ Len(t) > 0 /\ Head(t) = t[1]
  BY DEF ConfigClean, ConfigAll
<1>2. /\ r \in Seq(ConfigAll) /\ Len(r) = Len(t) - 1 /\ Len(r) \in Nat
      /\ \A n \in 1..Len(r) : r[n] = t[n+1] /\ n + 1 \in 1..Len(t)
  BY <1>1
<1> HIDE DEF r
<1>3. ASSUME NEW n \in 1..Len(r)
      PROVE  /\ r[n].do = "open" => n < Len(r) /\ r[n+1].do = "fill" /\ r[n+1].on = r[n].on
             /\ r[n].do = "fill" /\ n > 1 => r[n-1].do = "open" /\ r[n-1].on = r[n].on
             /\ r[n].do \in {"open", "fill"} => ConfigSays(r[n].on, r[n].what, r[n].as, whole)
             /\ r[n].do = "load" => r[n].on \in from
  <2>1. r[n] = t[n+1] /\ n + 1 \in 1..Len(t) /\ n \in Nat /\ (n + 1) - 1 = n
    BY <1>2
  <2>2. /\ t[n+1].do = "open" => n + 1 < Len(t) /\ t[(n+1)+1].do = "fill" /\
           t[(n+1)+1].on = t[n+1].on
        /\ t[n+1].do = "fill" /\ n + 1 > 1 => t[n].do = "open" /\ t[n].on = t[n+1].on
        /\ t[n+1].do \in {"open", "fill"} => ConfigSays(t[n+1].on, t[n+1].what, t[n+1].as,
           whole)
        /\ t[n+1].do = "load" => t[n+1].on \in from
    BY <2>1 DEF ConfigClean
  <2>3. n + 1 < Len(t) => n < Len(r) /\ r[n+1] = t[(n+1)+1]
    BY <1>2, <2>1
  <2>4. n > 1 => n - 1 \in 1..Len(r) /\ r[n-1] = t[n]
    <3>1. n > 1 => n - 1 \in 1..Len(r) /\ (n - 1) + 1 = n
      BY <1>2
    <3> QED BY <1>2, <3>1
  <2> QED BY <2>1, <2>2, <2>3, <2>4
<1>4. ConfigClean(r, whole, from)
  BY <1>2, <1>3 DEF ConfigClean, ConfigAll
<1>5. ConfigFills(r) \subseteq ConfigFills(t)
  BY <1>2 DEF ConfigFills
<1>6. r # <<>> => Len(r) > 0 /\ r[1] = t[2] /\ 2 \in 1..Len(t)
  <2>1. r # <<>> => Len(r) > 0
    BY <1>2
  <2> QED BY <1>2, <2>1
<1>7. t[1].do # "open" => ConfigNoFill(r)
  BY <1>6 DEF ConfigClean, ConfigNoFill
<1>8. t[1].do = "open" => r # <<>> /\ r[1].do = "fill" /\ r[1].on = t[1].on
  <2>1. t[1].do = "open" => 1 < Len(t) /\ t[2].do = "fill" /\ t[2].on = t[1].on
    BY <1>1 DEF ConfigClean
  <2>2. 1 < Len(t) => 1 \in 1..Len(r) /\ r[1] = t[2] /\ r # <<>>
    BY <1>2
  <2> QED BY <2>1, <2>2
<1> QED BY <1>1, <1>4, <1>5, <1>7, <1>8 DEF r

(* One list of steps before another.                                       *)
LEMMA ConfigCleanBoth ==
    ASSUME NEW s, NEW t, NEW whole, NEW from,
           ConfigClean(s, whole, from), ConfigNoFill(s), ConfigClean(t, whole, from),
             ConfigNoFill(t)
    PROVE  /\ ConfigClean(s \o t, whole, from) /\ ConfigNoFill(s \o t)
           /\ ConfigFills(s \o t) = ConfigFills(s) \cup ConfigFills(t)
<1> DEFINE r == s \o t
<1>1. s \in Seq(ConfigAll) /\ Len(s) \in Nat /\ t \in Seq(ConfigAll) /\ Len(t) \in Nat
  BY DEF ConfigClean, ConfigAll
<1>2. /\ r \in Seq(ConfigAll) /\ Len(r) = Len(s) + Len(t)
      /\ \A n \in 1..Len(s) : r[n] = s[n]
      /\ \A n \in 1..Len(t) : r[Len(s) + n] = t[n]
  BY <1>1
<1> HIDE DEF r
<1>3. \A n \in 1..Len(r) : \/ n \in 1..Len(s) /\ r[n] = s[n]
                           \/ n - Len(s) \in 1..Len(t) /\ r[n] = t[n - Len(s)]
  <2>1. SUFFICES ASSUME NEW n \in 1..Len(r)
                 PROVE  \/ n \in 1..Len(s) /\ r[n] = s[n]
                        \/ n - Len(s) \in 1..Len(t) /\ r[n] = t[n - Len(s)]
    OBVIOUS
  <2>2. n \in 1..Len(s) \/ (n - Len(s) \in 1..Len(t) /\ Len(s) + (n - Len(s)) = n)
    BY <1>1, <1>2
  <2> QED BY <1>2, <2>2
<1>4. ASSUME NEW n \in 1..Len(r)
      PROVE  /\ r[n].do = "open" => n < Len(r) /\ r[n+1].do = "fill" /\ r[n+1].on = r[n].on
             /\ r[n].do = "fill" /\ n > 1 => r[n-1].do = "open" /\ r[n-1].on = r[n].on
             /\ r[n].do \in {"open", "fill"} => ConfigSays(r[n].on, r[n].what, r[n].as, whole)
             /\ r[n].do = "load" => r[n].on \in from
  <2>1. CASE n \in 1..Len(s) /\ r[n] = s[n]
    <3>1. /\ s[n].do = "open" => n < Len(s) /\ s[n+1].do = "fill" /\ s[n+1].on = s[n].on
          /\ s[n].do = "fill" /\ n > 1 => s[n-1].do = "open" /\ s[n-1].on = s[n].on
          /\ s[n].do \in {"open", "fill"} => ConfigSays(s[n].on, s[n].what, s[n].as, whole)
          /\ s[n].do = "load" => s[n].on \in from
      BY <2>1 DEF ConfigClean
    <3>2. n < Len(s) => n < Len(r) /\ r[n+1] = s[n+1]
      <4>1. n < Len(s) => n + 1 \in 1..Len(s) /\ n < Len(r)
        BY <1>1, <1>2, <2>1
      <4> QED BY <1>2, <4>1
    <3>3. n > 1 => r[n-1] = s[n-1]
      <4>1. n > 1 => n - 1 \in 1..Len(s)
        BY <1>1, <2>1
      <4> QED BY <1>2, <4>1
    <3> QED BY <2>1, <3>1, <3>2, <3>3
  <2>2. CASE n - Len(s) \in 1..Len(t) /\ r[n] = t[n - Len(s)]
    <3> DEFINE m == n - Len(s)
    <3>1. /\ t[m].do = "open" => m < Len(t) /\ t[m+1].do = "fill" /\ t[m+1].on = t[m].on
          /\ t[m].do = "fill" /\ m > 1 => t[m-1].do = "open" /\ t[m-1].on = t[m].on
          /\ t[m].do \in {"open", "fill"} => ConfigSays(t[m].on, t[m].what, t[m].as, whole)
          /\ t[m].do = "load" => t[m].on \in from
      BY <2>2 DEF ConfigClean
    <3>2. m \in Nat /\ n = Len(s) + m
      BY <1>1, <2>2
    <3> HIDE DEF m
    <3>3. m < Len(t) => n < Len(r) /\ r[n+1] = t[m+1]
      <4>1. m < Len(t) => m + 1 \in 1..Len(t) /\ n + 1 = Len(s) + (m + 1) /\ n < Len(r)
        BY <1>1, <1>2, <3>2
      <4> QED BY <1>2, <4>1
    <3>4. m > 1 => r[n-1] = t[m-1]
      <4>1. m \in 1..Len(t)
        BY <2>2 DEF m
      <4>2. m > 1 => m - 1 \in 1..Len(t) /\ n - 1 = Len(s) + (m - 1)
        BY <1>1, <3>2, <4>1
      <4> QED BY <1>2, <4>2
    <3>5. m = 1 /\ t # <<>> => t[m].do # "fill"
      BY DEF ConfigNoFill
    <3>6. t # <<>> /\ m >= 1 /\ r[n] = t[m]
      BY <1>1, <2>2 DEF m
    <3>7. m = 1 \/ m > 1
      BY <3>2, <3>6
    <3> QED BY <3>1, <3>3, <3>4, <3>5, <3>6, <3>7
  <2> QED BY <1>3, <2>1, <2>2
<1>5. ConfigClean(r, whole, from)
  BY <1>2, <1>4 DEF ConfigClean, ConfigAll
<1>6. ConfigNoFill(r)
  <2>1. SUFFICES ASSUME r # <<>> PROVE r[1].do # "fill"
    BY DEF ConfigNoFill
  <2>2. 1 \in 1..Len(r)
    BY <1>1, <1>2, <2>1
  <2>3. CASE 1 \in 1..Len(s) /\ r[1] = s[1]
    BY <1>1, <2>3 DEF ConfigNoFill
  <2>4. CASE 1 - Len(s) \in 1..Len(t) /\ r[1] = t[1 - Len(s)]
    <3>1. Len(s) = 0 /\ 1 - Len(s) = 1 /\ t # <<>>
      BY <1>1, <2>4
    <3> QED BY <2>4, <3>1 DEF ConfigNoFill
  <2> QED BY <1>3, <2>2, <2>3, <2>4
<1>7. ConfigFills(r) = ConfigFills(s) \cup ConfigFills(t)
  <2>1. ASSUME NEW f \in ConfigFills(r) PROVE f \in ConfigFills(s) \cup ConfigFills(t)
    <3>1. PICK n \in 1..Len(r) : r[n].do = "fill" /\ f = r[n].on
      BY <2>1 DEF ConfigFills
    <3> QED BY <1>3, <3>1 DEF ConfigFills
  <2>2. ASSUME NEW f \in ConfigFills(s) PROVE f \in ConfigFills(r)
    <3>1. PICK n \in 1..Len(s) : s[n].do = "fill" /\ f = s[n].on
      BY <2>2 DEF ConfigFills
    <3>2. n \in 1..Len(r)
      BY <1>1, <1>2
    <3> QED BY <1>2, <3>1, <3>2 DEF ConfigFills
  <2>3. ASSUME NEW f \in ConfigFills(t) PROVE f \in ConfigFills(r)
    <3>1. PICK n \in 1..Len(t) : t[n].do = "fill" /\ f = t[n].on
      BY <2>3 DEF ConfigFills
    <3>2. Len(s) + n \in 1..Len(r)
      BY <1>1, <1>2
    <3> QED BY <1>2, <3>1, <3>2 DEF ConfigFills
  <2> QED BY <2>1, <2>2, <2>3
<1> QED BY <1>5, <1>6, <1>7 DEF r

LEMMA ConfigCleanWrite ==
    ASSUME NEW f \in Config!File, NEW w, NEW a, NEW whole, NEW from, ConfigSays(f, w, a, whole)
    PROVE  /\ ConfigClean(Config!Write(f, w, a), whole, from) /\
              ConfigNoFill(Config!Write(f, w, a))
           /\ ConfigFills(Config!Write(f, w, a)) = {f}
<1> DEFINE o == [do |-> "open", on |-> f, what |-> w, as |-> a]
           l == [do |-> "fill", on |-> f, what |-> w, as |-> a]
           t == Config!Write(f, w, a)
<1>1. o \in ConfigAll /\ l \in ConfigAll
  BY DEF ConfigAll, ConfigWrites, ConfigMaps, ConfigSays, ConfigMap
<1>2. t = <<o, l>>
  BY DEF Config!Write
<1>3. o.do = "open" /\ l.do = "fill" /\ o.on = f /\ l.on = f /\ o.what = w /\ l.what = w /\
      o.as = a /\ l.as = a
  OBVIOUS
<1> HIDE DEF o, l, t
<1>4. t \in Seq(ConfigAll) /\ Len(t) = 2 /\ t[1] = o /\ t[2] = l /\ t # <<>>
  BY <1>1, <1>2
<1>5. \A n \in 1..Len(t) : n = 1 \/ n = 2
  BY <1>4
<1>6. ConfigClean(t, whole, from)
  BY <1>3, <1>4, <1>5 DEF ConfigClean, ConfigAll
<1>7. ConfigNoFill(t) /\ ConfigFills(t) = {f}
  BY <1>3, <1>4, <1>5 DEF ConfigNoFill, ConfigFills
<1> QED BY <1>6, <1>7 DEF t

LEMMA ConfigCleanNone == ASSUME NEW whole, NEW from
    PROVE ConfigClean(<<>>, whole, from) /\ ConfigNoFill(<<>>) /\ ConfigFills(<<>>) = {}
BY DEF ConfigClean, ConfigNoFill, ConfigFills
-----------------------------------------------------------------------------
(* The first step, and who fills what.                                     *)
LEMMA ConfigHeadOf ==
    ASSUME NEW t, NEW whole, NEW from, ConfigClean(t, whole, from), t # <<>>
    PROVE  /\ Head(t) = t[1] /\ 1 \in 1..Len(t)
           /\ t[1].do \in {"open", "fill"} => ConfigSays(t[1].on, t[1].what, t[1].as, whole)
           /\ t[1].do = "load" => t[1].on \in from
           /\ t[1].on \in Config!File
           /\ t[1].do = "fill" => t[1].on \in ConfigFills(t)
<1>1. t \in Seq(ConfigAll) /\ Len(t) \in Nat /\ Len(t) > 0 /\ Head(t) = t[1] /\ 1 \in 1..Len(t)
  BY DEF ConfigClean, ConfigAll
<1>2. t[1] \in ConfigAll
  BY <1>1
<1>3. t[1].on \in Config!File
  BY <1>2 DEF ConfigAll, ConfigPlain, ConfigWrites
<1> QED BY <1>1, <1>3 DEF ConfigClean, ConfigFills

LEMMA ConfigCleanWeaker ==
    ASSUME NEW t, NEW whole, NEW less, NEW from, ConfigClean(t, whole, from), less => whole
    PROVE  ConfigClean(t, less, from)
<1>1. \A f, w, a : ConfigSays(f, w, a, whole) => ConfigSays(f, w, a, less)
  BY DEF ConfigSays
<1>2. ASSUME NEW n \in 1..Len(t)
      PROVE  /\ t[n].do = "open" => n < Len(t) /\ t[n+1].do = "fill" /\ t[n+1].on = t[n].on
             /\ t[n].do = "fill" /\ n > 1 => t[n-1].do = "open" /\ t[n-1].on = t[n].on
             /\ t[n].do \in {"open", "fill"} => ConfigSays(t[n].on, t[n].what, t[n].as, less)
             /\ t[n].do = "load" => t[n].on \in from
  BY <1>1 DEF ConfigClean
<1> QED BY <1>2 DEF ConfigClean

LEMMA ConfigChangingFills ==
    ASSUME ConfigTodos, NEW q \in Config!Process, NEW f
    PROVE  /\ Config!Changing(q, f) <=> f \in ConfigFills(todo[q])
           /\ Config!At(q, "fill", f) => f \in ConfigFills(todo[q])
<1>1. todo[q] \in Seq(ConfigAll) /\ DOMAIN todo[q] = 1..Len(todo[q]) /\
      ConfigClean(todo[q], ConfigWhole, ConfigLoads(q))
  BY DEF ConfigTodos, ConfigClean, ConfigAll
<1>2. Config!At(q, "fill", f) => f \in ConfigFills(todo[q])
  BY <1>1, ConfigHeadOf DEF Config!At
<1> QED BY <1>1, <1>2 DEF Config!Changing, ConfigFills

(* What holds whatever step p takes, as long as nobody else's change.      *)
LEMMA ConfigQuiet ==
    ASSUME ConfigApart, ConfigIInv, NEW p \in Config!Process, NEW t,
           todo[p] # <<>>, todo' = [todo EXCEPT ![p] = t],
             ConfigClean(t, ConfigWhole', ConfigLoads(p)),
           UNCHANGED <<job, held, seen, setKeys, setHeard>>,
           clash \subseteq clash', died \subseteq died', clash' \subseteq Config!File,
             died' \subseteq Config!File
    PROVE  /\ ConfigJobs' /\ ConfigTodos' /\ ConfigHeard' /\ ConfigDone' /\
              Config!RunsGoByWhatWasSaid'
           /\ \A q \in Config!Process \ {p} : todo'[q] = todo[q] /\ \A f,
              w : Config!At(q, w, f)' = Config!At(q, w, f)
           /\ todo'[p] = t
<1>1. ConfigWhole' => ConfigWhole
  BY DEF ConfigWhole
<1>2. DOMAIN todo = Config!Process
  BY DEF ConfigIInv, ConfigTodos
<1>3. /\ todo'[p] = t /\ DOMAIN todo' = Config!Process
      /\ \A q \in Config!Process \ {p} : todo'[q] = todo[q]
  BY <1>2
<1>4. \A q \in Config!Process \ {p} : \A f, w : Config!At(q, w, f)' = Config!At(q, w, f)
  BY <1>3 DEF Config!At
<1>5. ConfigJobs'
  BY DEF ConfigIInv, ConfigJobs
<1>6. \A q : ConfigLoads(q)' = ConfigLoads(q)
  BY DEF ConfigLoads
<1>7. ASSUME NEW q \in Config!Process PROVE ConfigClean(todo'[q], ConfigWhole', ConfigLoads(q))
  <2>1. CASE q = p
    BY <1>3, <2>1
  <2>2. CASE q # p
    <3>1. ConfigClean(todo[q], ConfigWhole, ConfigLoads(q))
      BY DEF ConfigIInv, ConfigTodos
    <3>2. ConfigClean(todo[q], ConfigWhole', ConfigLoads(q))
      BY <1>1, <3>1, ConfigCleanWeaker
    <3> QED BY <1>3, <2>2, <3>2
  <2> QED BY <2>1, <2>2
<1>8. ConfigTodos'
  BY <1>3, <1>6, <1>7 DEF ConfigTodos
<1>9. ConfigHeard'
  BY <1>1 DEF ConfigIInv, ConfigHeard, ConfigAgree
<1>10. ConfigDone'
  BY <1>3 DEF ConfigIInv, ConfigDone
<1>11. Config!RunsGoByWhatWasSaid'
  BY DEF ConfigIInv, Config!RunsGoByWhatWasSaid, Config!Started, Config!Layers, Config!Get
<1> QED BY <1>3, <1>4, <1>5, <1>8, <1>9, <1>10, <1>11

(* The values say what was said.                                           *)
LEMMA ConfigDefaultsSay ==
    ASSUME NEW whole
    PROVE  ConfigSays("global", Config!DefaultGlobalConfig, Config!Nothing, whole)
<1>1. Config!DefaultGlobalConfig \in [Key -> ConfigValue] /\
      Config!Nothing \in [Key -> ConfigValue]
  BY DEF Config!DefaultGlobalConfig, Config!Nothing, ConfigValue
<1>2. Config!DefaultGlobalConfig = Config!Over(Config!DefaultGlobalConfig, Config!Nothing)
  BY DEF Config!Over, Config!Nothing, Config!DefaultGlobalConfig
<1> QED BY <1>1, <1>2 DEF ConfigSays, ConfigMap, ConfigStart, Config!Nothing

LEMMA ConfigWorkspaceSays ==
    ASSUME NEW global \in [Key -> ConfigValue], NEW new, NEW as, NEW whole,
           new = Config!DefaultWorkspaceConfig(global),
           as = [k \in Key |-> IF k \in Copied THEN new[k] ELSE Unset]
    PROVE  ConfigSays("local", new, as, whole)
<1>1. new \in [Key -> ConfigValue]
  BY DEF Config!DefaultWorkspaceConfig, ConfigValue
<1>2. as \in [Key -> ConfigValue]
  BY <1>1 DEF ConfigValue
<1>3. \A k \in Key : new[k] = IF as[k] # Unset THEN as[k]
                              ELSE Config!DefaultWorkspaceConfig(Config!Nothing)[k]
  BY DEF Config!DefaultWorkspaceConfig, Config!Nothing
<1>4. DOMAIN Config!DefaultWorkspaceConfig(Config!Nothing) = Key
  BY DEF Config!DefaultWorkspaceConfig
<1>5. new = Config!Over(Config!DefaultWorkspaceConfig(Config!Nothing), as)
  BY <1>1, <1>3, <1>4 DEF Config!Over
<1> QED BY <1>1, <1>2, <1>5 DEF ConfigSays, ConfigMap, ConfigStart

(* A command gives its value to what it read.                              *)
LEMMA ConfigGivenSays ==
    ASSUME ConfigApart, ConfigJobs, NEW p \in SetCommand, NEW f \in Config!File, f = job[p].on,
           NEW w, NEW a, NEW whole, ConfigSays(f, w, a, whole)
    PROVE  ConfigSays(f, [w EXCEPT ![job[p].key] = Given[f]],
      [a EXCEPT ![job[p].key] = Given[f]], whole)
<1> DEFINE k == job[p].key
           x == [w EXCEPT ![k] = Given[f]]
           b == [a EXCEPT ![k] = Given[f]]
<1>1. Given[f] \in ConfigValue /\ Given[f] # Unset
  BY DEF ConfigApart, ConfigValue, Config!File
<1>2. CASE f = "env"
  <2>1. k \in Secret /\ w \in [Secret -> ConfigValue] /\ a \in [Secret -> ConfigValue]
    BY <1>2 DEF ConfigJobs, ConfigSays, ConfigMap
  <2>2. x \in [Secret -> ConfigValue] /\ b \in [Secret -> ConfigValue]
    BY <1>1, <2>1
  <2> QED BY <1>2, <2>2 DEF ConfigSays, ConfigMap
<1>3. CASE f # "env"
  <2>1. k \in Key /\ w \in [Key -> ConfigValue] /\ a \in [Key -> ConfigValue] /\
        (f = "global" => k \notin Own)
    BY <1>3 DEF ConfigJobs, ConfigSays, ConfigMap, Config!File
  <2>2. x \in [Key -> ConfigValue] /\ b \in [Key -> ConfigValue]
    BY <1>1, <2>1
  <2>3. w = Config!Over(ConfigStart(f), a) /\ DOMAIN ConfigStart(f) = Key
    BY <1>3
       DEF ConfigSays, ConfigStart, Config!DefaultGlobalConfig,
           Config!DefaultWorkspaceConfig, Config!File
  <2>4. \A j \in Key : w[j] = IF a[j] # Unset THEN a[j] ELSE ConfigStart(f)[j]
    BY <2>3 DEF Config!Over
  <2>5. \A j \in Key : x[j] = IF b[j] # Unset THEN b[j] ELSE ConfigStart(f)[j]
    BY <1>1, <2>1, <2>4
  <2>6. x = Config!Over(ConfigStart(f), b)
    BY <2>2, <2>3, <2>5 DEF Config!Over
  <2>7. f = "global" => \A j \in Key : j \in Own => b[j] = Unset
    BY <2>1 DEF ConfigSays
  <2> QED BY <1>3, <2>2, <2>6, <2>7 DEF ConfigSays, ConfigMap
<1> QED BY <1>2, <1>3

LEMMA ConfigChangeClean ==
    ASSUME ConfigApart, ConfigJobs, NEW p \in Config!Process, NEW f \in Config!File,
      f \in ConfigLoads(p),
           NEW w, NEW a, NEW whole, ConfigSays(f, w, a, whole)
    PROVE  /\ ConfigClean(Config!Change(p, f, w, a), whole, ConfigLoads(p)) /\
              ConfigNoFill(Config!Change(p, f, w, a))
           /\ ConfigFills(Config!Change(p, f, w, a)) \subseteq {f}
<1>1. CASE p \in SetRun
  BY <1>1, ConfigCleanNone DEF Config!Change
<1>2. CASE p \notin SetRun
  <2>1. p \in SetCommand /\ f = job[p].on
    BY <1>2 DEF Config!Process, ConfigLoads
  <2>2. ConfigSays(f, [w EXCEPT ![job[p].key] = Given[f]],
        [a EXCEPT ![job[p].key] = Given[f]], whole)
    BY <2>1, ConfigGivenSays
  <2> QED BY <1>2, <2>2, ConfigCleanWrite DEF Config!Change
<1> QED BY <1>1, <1>2
-----------------------------------------------------------------------------
(* p has read f.                                                           *)
LEMMA ConfigReadAgrees ==
    ASSUME NEW f \in Config!File, NEW w, NEW a, NEW whole, ConfigSays(f, w, a, whole)
    PROVE  /\ f = "global" =>
                \A k \in Key : \/ k \in Own /\ w[k] = Unset /\ a[k] = Unset
                               \/ k \notin Own /\ w[k] = a[k]
                               \/ k \notin Own /\ a[k] = Unset /\ w[k] = Default
           /\ f = "local" =>
                \A k \in Key : \/ w[k] = a[k]
                               \/ k \in Own /\ a[k] = Unset /\ w[k] = Default
           /\ f = "env" => (whole => w = a)
<1>1. CASE f = "global"
  <2>1. \A k \in Key : w[k] = IF a[k] # Unset THEN a[k] ELSE Config!DefaultGlobalConfig[k]
    BY <1>1 DEF ConfigSays, ConfigStart, Config!Over, Config!DefaultGlobalConfig
  <2>2. \A k \in Key : k \in Own => a[k] = Unset
    BY <1>1 DEF ConfigSays
  <2> QED BY <1>1, <2>1, <2>2 DEF Config!DefaultGlobalConfig
<1>2. CASE f = "local"
  <2>1. \A k \in Key : w[k] = IF a[k] # Unset THEN a[k]
                              ELSE Config!DefaultWorkspaceConfig(Config!Nothing)[k]
    BY <1>2 DEF ConfigSays, ConfigStart, Config!Over, Config!DefaultWorkspaceConfig
  <2> QED BY <1>2, <2>1 DEF Config!DefaultWorkspaceConfig, Config!Nothing
<1>3. CASE f = "env"
  BY <1>3 DEF ConfigSays
<1> QED BY <1>1, <1>2, <1>3 DEF Config!File

LEMMA ConfigReadInv ==
    ASSUME ConfigApart, ConfigIInv, NEW p \in Config!Process, NEW f \in Config!File, NEW w,
      NEW a, NEW s,
           Config!At(p, "load", f), Config!Read(p, f, w, a, s),
           ConfigSays(f, w, a, ConfigWhole'), ConfigClean(s, ConfigWhole', ConfigLoads(p)),
             ConfigNoFill(s),
           \A g \in ConfigFills(s) : setFile[g] # Torn /\ (g = f \/ setFile[g] = Absent)
    PROVE  ConfigIInv'
<1>1. /\ held' = [held EXCEPT ![p][f] = w] /\ setHeard' = [setHeard EXCEPT ![p][f] = a]
      /\ todo' = [todo EXCEPT ![p] = s \o Tail(@)]
      /\ clash' = IF Config!Busy(p, f) THEN clash \cup {f} ELSE clash
      /\ UNCHANGED <<setFile, job, seen, setKeys, said, died>>
  BY DEF Config!Read
<1>2. /\ todo[p] # <<>> /\ ConfigClean(todo[p], ConfigWhole, ConfigLoads(p)) /\
         todo[p][1].do = "load"
      /\ Head(todo[p]) = todo[p][1]
  <2>1. ConfigClean(todo[p], ConfigWhole, ConfigLoads(p)) /\ todo[p] # <<>>
    BY DEF Config!At, ConfigIInv, ConfigTodos
  <2> QED BY <2>1, ConfigHeadOf DEF Config!At
<1>3. ConfigWhole' => ConfigWhole
  BY <1>1 DEF ConfigWhole
<1> DEFINE r == Tail(todo[p])
<1>4. ConfigClean(r, ConfigWhole', ConfigLoads(p)) /\ ConfigNoFill(r) /\
      ConfigFills(r) \subseteq ConfigFills(todo[p])
  <2>1. ConfigClean(r, ConfigWhole, ConfigLoads(p)) /\ ConfigNoFill(r) /\
        ConfigFills(r) \subseteq ConfigFills(todo[p])
    BY <1>2, ConfigCleanTail
  <2> QED BY <1>3, <2>1, ConfigCleanWeaker
<1> HIDE DEF r
<1>5. /\ ConfigClean(s \o r, ConfigWhole', ConfigLoads(p)) /\ ConfigNoFill(s \o r)
      /\ ConfigFills(s \o r) = ConfigFills(s) \cup ConfigFills(r)
  BY <1>4, ConfigCleanBoth
<1>6. DOMAIN todo = Config!Process /\ DOMAIN held = Config!Process /\
      DOMAIN setHeard = Config!Process
  BY DEF ConfigIInv, ConfigTodos, ConfigTypes
<1>7. /\ todo'[p] = s \o r /\ DOMAIN todo' = Config!Process
      /\ \A q \in Config!Process \ {p} : todo'[q] = todo[q]
  BY <1>1, <1>6 DEF r
<1>8. /\ \A q \in Config!Process \ {p} : \A g, d : Config!At(q, d, g)' = Config!At(q, d, g)
      /\ \A g : ~Config!At(p, "fill", g) /\ ~Config!At(p, "fill", g)'
  <2>1. \A q \in Config!Process \ {p} : \A g, d : Config!At(q, d, g)' = Config!At(q, d, g)
    BY <1>7 DEF Config!At
  <2>2. \A g : ~Config!At(p, "fill", g)
    BY <1>2 DEF Config!At
  <2>3. s \o r # <<>> => Head(s \o r).do # "fill"
    BY <1>5, ConfigHeadOf DEF ConfigNoFill
  <2>4. \A g : ~Config!At(p, "fill", g)'
    BY <1>7, <2>3 DEF Config!At
  <2> QED BY <2>1, <2>2, <2>4
<1>9. clash \subseteq clash' /\ died' = died
  BY <1>1
<1>10. \A q \in Config!Process \ {p} : f \in ConfigFills(todo[q]) => f \in clash'
  <2>1. \A q \in Config!Process : Config!Changing(q, f) <=> f \in ConfigFills(todo[q])
    BY ConfigChangingFills DEF ConfigIInv
  <2> QED BY <1>1, <2>1 DEF Config!Busy
<1>11. ConfigTypes'
  <2>1. DOMAIN held' = Config!Process /\ DOMAIN setHeard' = Config!Process
    BY <1>1, <1>6
  <2>2. \A q \in Config!Process : DOMAIN held'[q] = Config!File /\
        DOMAIN setHeard'[q] = Config!File
    BY <1>1, <1>6 DEF ConfigIInv, ConfigTypes
  <2>3. clash' \subseteq Config!File
    BY <1>1 DEF ConfigIInv, ConfigTypes
  <2> QED BY <1>1, <2>1, <2>2, <2>3 DEF ConfigIInv, ConfigTypes, ConfigMap
<1>12. ConfigJobs'
  BY <1>1 DEF ConfigIInv, ConfigJobs
<1>13. ConfigTodos'
  <2>1. \A q : ConfigLoads(q)' = ConfigLoads(q)
    BY <1>1 DEF ConfigLoads
  <2>2. ASSUME NEW q \in Config!Process
        PROVE ConfigClean(todo'[q], ConfigWhole', ConfigLoads(q))
    <3>1. CASE q = p
      BY <1>5, <1>7, <3>1
    <3>2. CASE q # p
      <4>1. ConfigClean(todo[q], ConfigWhole, ConfigLoads(q))
        BY DEF ConfigIInv, ConfigTodos
      <4>2. ConfigClean(todo[q], ConfigWhole', ConfigLoads(q))
        BY <1>3, <4>1, ConfigCleanWeaker
      <4> QED BY <1>7, <3>2, <4>2
    <3> QED BY <3>1, <3>2
  <2> QED BY <1>7, <2>1, <2>2 DEF ConfigTodos
<1>14. ConfigFiles'
  <2>1. (\A q \in Config!Process : ~Config!At(q, "fill", "env")') =>
        \A q \in Config!Process : ~Config!At(q, "fill", "env")
    BY <1>8
  <2>2. \A g, x, y : ConfigSays(g, x, y, TRUE)' = ConfigSays(g, x, y, TRUE)
    BY DEF ConfigSays, ConfigMap
  <2> QED BY <1>1, <1>3, <2>1, <2>2 DEF ConfigIInv, ConfigFiles
<1>15. ConfigAlone'
  <2>1. SUFFICES ASSUME NEW q \in Config!Process, NEW g \in Config!File,
        Config!At(q, "fill", g)'
                 PROVE  /\ setFile[g] # Absent
                        /\ g \notin clash' => /\ g # "env" => setFile[g] = Torn
                                              /\ \A o \in Config!Process : o # q =>
                                                 g \notin ConfigFills(todo'[o])
    BY <1>1 DEF ConfigAlone, ConfigFills
  <2>2. q # p /\ Config!At(q, "fill", g)
    BY <1>8, <2>1
  <2>3. /\ setFile[g] # Absent
        /\ g \notin clash => /\ g # "env" => setFile[g] = Torn
                             /\ \A o \in Config!Process : o # q => g \notin ConfigFills(todo[o])
    BY <2>2 DEF ConfigIInv, ConfigAlone
  <2>4. ASSUME g \notin clash', NEW o \in Config!Process, o # q
        PROVE g \notin ConfigFills(todo'[o])
    <3>1. g \notin ConfigFills(todo[o])
      BY <1>9, <2>3, <2>4
    <3>2. CASE o # p
      BY <1>7, <3>1, <3>2
    <3>3. CASE o = p
      <4>1. g \in ConfigFills(todo[q])
        BY <2>2, ConfigChangingFills DEF ConfigIInv
      <4>2. g \notin ConfigFills(s)
        BY <1>10, <2>2, <2>3, <2>4, <4>1
      <4> QED BY <1>4, <1>5, <1>7, <3>1, <3>3, <4>2
    <3> QED BY <3>2, <3>3
  <2> QED BY <1>9, <2>3, <2>4
<1>16. ConfigDead'
  <2>1. SUFFICES ASSUME NEW g \in died, g # "env", g \notin clash'
                 PROVE  setFile[g] = Torn /\
                   \A o \in Config!Process : g \notin ConfigFills(todo'[o])
    BY <1>1 DEF ConfigDead, ConfigFills
  <2>2. setFile[g] = Torn /\ \A o \in Config!Process : g \notin ConfigFills(todo[o])
    BY <1>9, <2>1 DEF ConfigIInv, ConfigDead
  <2>3. g \notin ConfigFills(todo'[p])
    BY <1>4, <1>5, <1>7, <2>2
  <2> QED BY <1>7, <2>2, <2>3
<1>17. ConfigHeard'
  <2>1. ASSUME NEW q \in Config!Process PROVE ConfigAgree(held'[q], setHeard'[q], ConfigWhole')
    <3>1. ConfigAgree(held[q], setHeard[q], ConfigWhole')
      BY <1>3 DEF ConfigIInv, ConfigHeard, ConfigAgree
    <3>2. CASE q # p
      <4>1. held'[q] = held[q] /\ setHeard'[q] = setHeard[q]
        BY <1>1, <1>6, <3>2
      <4> QED BY <3>1, <4>1 DEF ConfigAgree
    <3>3. CASE q = p
      <4>1. DOMAIN held[p] = Config!File /\ DOMAIN setHeard[p] = Config!File
        BY DEF ConfigIInv, ConfigTypes
      <4>2. /\ held'[p][f] = w /\ setHeard'[p][f] = a
            /\ \A g \in Config!File \ {f} : held'[p][g] = held[p][g] /\
               setHeard'[p][g] = setHeard[p][g]
        BY <1>1, <1>6, <4>1
      <4>3. "global" \in Config!File /\ "local" \in Config!File /\ "env" \in Config!File
        BY DEF Config!File
      <4> QED BY <3>1, <3>3, <4>2, <4>3, ConfigReadAgrees DEF ConfigAgree
    <3> QED BY <3>2, <3>3
  <2> QED BY <2>1 DEF ConfigHeard, ConfigAgree
<1>18. ConfigDone' /\ seen[p] = Config!Nothing
  BY <1>1, <1>2, <1>7 DEF ConfigIInv, ConfigDone
<1>19. Config!TornHasACause'
  <2>1. SUFFICES ASSUME NEW g \in Config!File, setFile[g] = Torn
                 PROVE  (\E q \in Config!Process : Config!At(q, "fill", g)') \/
                   g \in died \/ g \in clash'
    BY <1>1 DEF Config!TornHasACause
  <2>2. (\E q \in Config!Process : Config!At(q, "fill", g)) \/ g \in died \/ g \in clash
    BY <2>1 DEF ConfigIInv, Config!TornHasACause
  <2> QED BY <1>8, <1>9, <2>2
<1>20. Config!RunsGoByWhatWasSaid'
  <2>1. SUFFICES ASSUME NEW q \in SetRun, q # p, Config!Started(q), clash' = {}
                 PROVE  /\ seen[q] = Config!Layers(q, setHeard'[q]["global"],
                           setHeard'[q]["local"])
                        /\ "env" \notin died => setKeys[q] = Config!Get(q, setHeard'[q]["env"])
    BY <1>1, <1>18 DEF Config!RunsGoByWhatWasSaid, Config!Started, Config!Layers, Config!Get
  <2>2. setHeard'[q] = setHeard[q] /\ clash = {}
    BY <1>1, <1>6, <1>9, <2>1 DEF Config!Process
  <2> QED BY <2>1, <2>2 DEF ConfigIInv, Config!RunsGoByWhatWasSaid
<1> QED BY <1>11, <1>12, <1>13, <1>14, <1>15, <1>16, <1>17, <1>18, <1>19, <1>20
           DEF ConfigIInv
-----------------------------------------------------------------------------
(* The loads.                                                              *)
LEMMA ConfigLoading ==
    ASSUME ConfigIInv, NEW p \in Config!Process, NEW f, Config!At(p, "load", f)
    PROVE  f \in Config!File /\ f \in ConfigLoads(p)
<1>1. ConfigClean(todo[p], ConfigWhole, ConfigLoads(p)) /\ todo[p] # <<>>
  BY DEF Config!At, ConfigIInv, ConfigTodos
<1> QED BY <1>1, ConfigHeadOf DEF Config!At

LEMMA ConfigStoredSays ==
    ASSUME ConfigApart, ConfigIInv, NEW f \in {"global", "local"},
      setFile[f] \notin {Absent, Torn}
    PROVE  \A whole : ConfigSays(f, setFile[f], said[f], whole)
<1>1. f \in Config!File /\ f # "env"
  BY DEF Config!File
<1>2. ConfigSays(f, setFile[f], said[f], TRUE)
  BY <1>1 DEF ConfigIInv, ConfigFiles
<1> QED BY <1>1, <1>2 DEF ConfigSays

LEMMA ConfigLoadGlobalInv ==
    ASSUME ConfigApart, ConfigIInv, NEW p \in Config!Process, Config!LoadGlobalConfig(p)
      PROVE ConfigIInv'
<1>1. Config!At(p, "load", "global") /\ setFile["global"] # Torn /\
      "global" \in Config!File /\ "global" \in ConfigLoads(p)
  BY ConfigLoading DEF Config!LoadGlobalConfig
<1>2. ConfigJobs
  BY DEF ConfigIInv
<1>3. CASE setFile["global"] = Absent
  <2> DEFINE first == Config!Write("global", Config!DefaultGlobalConfig, Config!Nothing)
             second == Config!Change(p, "global", Config!DefaultGlobalConfig, Config!Nothing)
             s == first \o second
  <2>1. said["global"] = Config!Nothing
    BY <1>1, <1>3 DEF ConfigIInv, ConfigFiles
  <2>2. Config!Read(p, "global", Config!DefaultGlobalConfig, Config!Nothing, s)
    BY <1>3, <2>1 DEF Config!LoadGlobalConfig, Config!NewGlobal
  <2>3. ConfigSays("global", Config!DefaultGlobalConfig, Config!Nothing, ConfigWhole')
    BY ConfigDefaultsSay
  <2>4. ConfigClean(first, ConfigWhole', ConfigLoads(p)) /\ ConfigNoFill(first) /\
        ConfigFills(first) = {"global"}
    BY <1>1, <2>3, ConfigCleanWrite
  <2>5. ConfigClean(second, ConfigWhole', ConfigLoads(p)) /\ ConfigNoFill(second) /\
        ConfigFills(second) \subseteq {"global"}
    BY <1>1, <1>2, <2>3, ConfigChangeClean
  <2> HIDE DEF first, second
  <2>6. /\ ConfigClean(s, ConfigWhole', ConfigLoads(p)) /\ ConfigNoFill(s)
        /\ ConfigFills(s) = ConfigFills(first) \cup ConfigFills(second)
    BY <2>4, <2>5, ConfigCleanBoth
  <2> HIDE DEF s
  <2>7. \A g \in ConfigFills(s) : setFile[g] # Torn /\ g = "global"
    BY <1>1, <2>4, <2>5, <2>6
  <2> QED BY <1>1, <2>2, <2>3, <2>6, <2>7, ConfigReadInv
<1>4. CASE setFile["global"] # Absent
  <2> DEFINE s == Config!Change(p, "global", setFile["global"], said["global"])
  <2>1. Config!Read(p, "global", setFile["global"], said["global"], s)
    BY <1>4 DEF Config!LoadGlobalConfig
  <2>2. ConfigSays("global", setFile["global"], said["global"], ConfigWhole')
    BY <1>1, <1>4, ConfigStoredSays
  <2>3. ConfigClean(s, ConfigWhole', ConfigLoads(p)) /\ ConfigNoFill(s) /\
        ConfigFills(s) \subseteq {"global"}
    BY <1>1, <1>2, <2>2, ConfigChangeClean
  <2> HIDE DEF s
  <2> QED BY <1>1, <2>1, <2>2, <2>3, ConfigReadInv
<1> QED BY <1>3, <1>4

LEMMA ConfigLoadEnvInv ==
    ASSUME ConfigApart, ConfigIInv, NEW p \in Config!Process, Config!LoadEnvVars(p)
      PROVE ConfigIInv'
<1> DEFINE s == Config!Change(p, "env", setFile["env"], said["env"])
<1>1. Config!At(p, "load", "env") /\ "env" \in Config!File /\ "env" \in ConfigLoads(p)
  BY ConfigLoading DEF Config!LoadEnvVars
<1>2. Config!Read(p, "env", setFile["env"], said["env"], s)
  BY DEF Config!LoadEnvVars
<1>3. setFile["env"] \in ConfigMap("env") /\ said["env"] \in ConfigMap("env") /\
      setFile["env"] # Torn
  BY <1>1 DEF ConfigIInv, ConfigTypes, ConfigMap, ConfigApart
<1>4. ConfigWhole' => setFile["env"] = said["env"]
  <2>1. ConfigWhole' => ConfigWhole /\ ~Config!Busy(p, "env")
    BY <1>2 DEF Config!Read, ConfigWhole
  <2>2. ~Config!Busy(p, "env") => \A q \in Config!Process : ~Config!At(q, "fill", "env")
    <3>1. \A q \in Config!Process \ {p} : Config!At(q, "fill", "env") =>
          Config!Changing(q, "env")
      BY ConfigChangingFills DEF ConfigIInv
    <3>2. ~Config!At(p, "fill", "env")
      BY <1>1 DEF Config!At
    <3> QED BY <3>1, <3>2 DEF Config!Busy
  <2> QED BY <1>1, <2>1, <2>2 DEF ConfigIInv, ConfigFiles
<1>5. ConfigSays("env", setFile["env"], said["env"], ConfigWhole')
  BY <1>3, <1>4 DEF ConfigSays
<1>6. ConfigJobs
  BY DEF ConfigIInv
<1>7. ConfigClean(s, ConfigWhole', ConfigLoads(p)) /\ ConfigNoFill(s) /\
      ConfigFills(s) \subseteq {"env"}
  BY <1>1, <1>5, <1>6, ConfigChangeClean
<1> HIDE DEF s
<1> QED BY <1>1, <1>2, <1>3, <1>5, <1>7, ConfigReadInv

LEMMA ConfigLoadWorkspaceInv ==
    ASSUME ConfigApart, ConfigIInv, NEW p \in Config!Process, Config!LoadWorkspaceConfig(p)
      PROVE ConfigIInv'
<1>1. Config!At(p, "load", "local") /\ "local" \in Config!File /\ "local" \in ConfigLoads(p)
  BY ConfigLoading DEF Config!LoadWorkspaceConfig
<1>2. ConfigJobs /\ Absent # Torn
  BY DEF ConfigIInv, ConfigApart
<1>3. CASE setFile["local"] \notin {Absent, Torn}
  <2> DEFINE s == Config!Change(p, "local", setFile["local"], said["local"])
  <2>1. Config!Read(p, "local", setFile["local"], said["local"], s)
    BY <1>3 DEF Config!LoadWorkspaceConfig
  <2>2. ConfigSays("local", setFile["local"], said["local"], ConfigWhole')
    BY <1>3, ConfigStoredSays
  <2>3. ConfigClean(s, ConfigWhole', ConfigLoads(p)) /\ ConfigNoFill(s) /\
        ConfigFills(s) \subseteq {"local"}
    BY <1>1, <1>2, <2>2, ConfigChangeClean
  <2> HIDE DEF s
  <2> QED BY <1>1, <1>3, <2>1, <2>2, <2>3, ConfigReadInv
<1>4. CASE setFile["local"] \in {Absent, Torn}
  <2> DEFINE global == CASE setFile["global"] = Torn -> Config!Nothing
                         [] setFile["global"] = Absent -> Config!DefaultGlobalConfig
                         [] OTHER -> setFile["global"]
             new == Config!DefaultWorkspaceConfig(global)
             as == [k \in Key |-> IF k \in Copied THEN new[k] ELSE Unset]
             first == IF setFile["global"] = Absent
                         THEN Config!Write("global", Config!DefaultGlobalConfig,
                           Config!Nothing) ELSE <<>>
             second == Config!Write("local", new, as)
             third == Config!Change(p, "local", new, as)
             s == first \o second \o third
  <2>1. setFile["local"] = Absent /\ Config!Read(p, "local", new, as, s)
    BY <1>4 DEF Config!LoadWorkspaceConfig
  <2>2. global \in [Key -> ConfigValue]
    <3>1. setFile["global"] \in {Absent, Torn} \cup [Key -> ConfigValue]
      BY DEF ConfigIInv, ConfigTypes, ConfigMap, Config!File
    <3>2. Config!Nothing \in [Key -> ConfigValue] /\
          Config!DefaultGlobalConfig \in [Key -> ConfigValue]
      BY DEF Config!Nothing, Config!DefaultGlobalConfig, ConfigValue
    <3> QED BY <3>1, <3>2
  <2> HIDE DEF global
  <2>3. ConfigSays("local", new, as, ConfigWhole')
    BY <2>2, ConfigWorkspaceSays
  <2> HIDE DEF new, as
  <2>4. /\ ConfigClean(second, ConfigWhole', ConfigLoads(p)) /\ ConfigNoFill(second) /\
           ConfigFills(second) = {"local"}
    BY <1>1, <2>3, ConfigCleanWrite
  <2>5. /\ ConfigClean(third, ConfigWhole', ConfigLoads(p)) /\ ConfigNoFill(third) /\
           ConfigFills(third) \subseteq {"local"}
    BY <1>1, <1>2, <2>3, ConfigChangeClean
  <2>6. /\ ConfigClean(first, ConfigWhole', ConfigLoads(p)) /\ ConfigNoFill(first)
        /\ ConfigFills(first) \subseteq {"global"} /\
           (setFile["global"] # Absent => ConfigFills(first) = {})
    <3>1. ConfigSays("global", Config!DefaultGlobalConfig, Config!Nothing, ConfigWhole') /\
          "global" \in Config!File
      BY ConfigDefaultsSay DEF Config!File
    <3>2. CASE setFile["global"] = Absent
      BY <3>1, <3>2, ConfigCleanWrite
    <3>3. CASE setFile["global"] # Absent
      BY <3>3, ConfigCleanNone
    <3> QED BY <3>2, <3>3
  <2> HIDE DEF first, second, third
  <2>7. /\ ConfigClean(first \o second, ConfigWhole', ConfigLoads(p)) /\
           ConfigNoFill(first \o second)
        /\ ConfigFills(first \o second) = ConfigFills(first) \cup ConfigFills(second)
    BY <2>4, <2>6, ConfigCleanBoth
  <2>8. /\ ConfigClean(s, ConfigWhole', ConfigLoads(p)) /\ ConfigNoFill(s)
        /\ ConfigFills(s) = ConfigFills(first) \cup ConfigFills(second) \cup ConfigFills(third)
    BY <2>5, <2>7, ConfigCleanBoth
  <2> HIDE DEF s
  <2>9. \A g \in ConfigFills(s) : setFile[g] # Torn /\ (g = "local" \/ setFile[g] = Absent)
    BY <1>2, <2>1, <2>4, <2>5, <2>6, <2>8
  <2> QED BY <1>1, <2>1, <2>3, <2>8, <2>9, ConfigReadInv
<1> QED BY <1>3, <1>4

-----------------------------------------------------------------------------
(* The other steps.                                                        *)
LEMMA ConfigRefuseInv ==
    ASSUME ConfigApart, ConfigIInv, NEW p \in Config!Process, NEW f \in Config!File,
      Config!Refuse(p, f) PROVE ConfigIInv'
<1>1. /\ todo[p] # <<>> /\ Head(todo[p]).do = "load" /\ todo' = [todo EXCEPT ![p] = <<>>]
      /\ UNCHANGED <<setFile, job, held, seen, setKeys, said, setHeard, clash, died>>
  BY DEF Config!Refuse, Config!At
<1>2. ConfigClean(<<>>, ConfigWhole', ConfigLoads(p)) /\ ConfigFills(<<>>) = {}
  BY ConfigCleanNone
<1>3. /\ ConfigJobs' /\ ConfigTodos' /\ ConfigHeard' /\ ConfigDone' /\
         Config!RunsGoByWhatWasSaid'
      /\ \A q \in Config!Process \ {p} : todo'[q] = todo[q] /\ \A g,
         w : Config!At(q, w, g)' = Config!At(q, w, g)
      /\ todo'[p] = <<>>
  <2>1. clash' \subseteq Config!File /\ died' \subseteq Config!File
    BY <1>1 DEF ConfigIInv, ConfigTypes
  <2> QED BY <1>1, <1>2, <2>1, ConfigQuiet
<1>4. \A g : ~Config!At(p, "fill", g) /\ ~Config!At(p, "fill", g)'
  BY <1>1, <1>3 DEF Config!At
<1>5. ConfigTypes'
  BY <1>1 DEF ConfigIInv, ConfigTypes, ConfigMap
<1>6. ConfigFiles'
  <2>1. (\A q \in Config!Process : ~Config!At(q, "fill", "env")') =>
        \A q \in Config!Process : ~Config!At(q, "fill", "env")
    BY <1>3, <1>4
  <2>2. \A g, x, y : ConfigSays(g, x, y, TRUE)' = ConfigSays(g, x, y, TRUE)
    BY DEF ConfigSays, ConfigMap
  <2>3. ConfigWhole' = ConfigWhole
    BY <1>1 DEF ConfigWhole
  <2> QED BY <1>1, <2>1, <2>2, <2>3 DEF ConfigIInv, ConfigFiles
<1>7. \A q \in Config!Process : ConfigFills(todo'[q]) \subseteq ConfigFills(todo[q])
  BY <1>2, <1>3
<1>8. ConfigAlone'
  <2>1. SUFFICES ASSUME NEW q \in Config!Process, NEW g \in Config!File,
        Config!At(q, "fill", g)'
                 PROVE  /\ setFile[g] # Absent
                        /\ g \notin clash => /\ g # "env" => setFile[g] = Torn
                                             /\ \A o \in Config!Process : o # q =>
                                                g \notin ConfigFills(todo'[o])
    BY <1>1 DEF ConfigAlone, ConfigFills
  <2>2. q # p /\ Config!At(q, "fill", g)
    BY <1>3, <1>4, <2>1
  <2> QED BY <1>7, <2>2 DEF ConfigIInv, ConfigAlone
<1>9. ConfigDead'
  <2>1. SUFFICES ASSUME NEW g \in died, g # "env", g \notin clash
                 PROVE  setFile[g] = Torn /\
                   \A o \in Config!Process : g \notin ConfigFills(todo'[o])
    BY <1>1 DEF ConfigDead, ConfigFills
  <2> QED BY <1>7, <2>1 DEF ConfigIInv, ConfigDead
<1>10. Config!TornHasACause'
  <2>1. SUFFICES ASSUME NEW g \in Config!File, setFile[g] = Torn
                 PROVE  (\E q \in Config!Process : Config!At(q, "fill", g)') \/
                   g \in died \/ g \in clash
    BY <1>1 DEF Config!TornHasACause
  <2> QED BY <1>3, <1>4, <2>1 DEF ConfigIInv, Config!TornHasACause
<1> QED BY <1>3, <1>5, <1>6, <1>8, <1>9, <1>10 DEF ConfigIInv

(* The file is open: empty, and of the one who is to fill it.              *)
LEMMA ConfigOpenInv ==
    ASSUME ConfigApart, ConfigIInv, NEW p \in Config!Process, NEW f \in Config!File,
      Config!Open(p, f) PROVE ConfigIInv'
<1> DEFINE r == Tail(todo[p])
<1>1. /\ todo[p] # <<>> /\ Head(todo[p]).do = "open" /\ Head(todo[p]).on = f
      /\ todo' = [todo EXCEPT ![p] = r]
      /\ setFile' = [setFile EXCEPT ![f] = IF f = "env" THEN Config!NoSecrets ELSE Torn]
      /\ clash' = IF Config!Busy(p, f) THEN clash \cup {f} ELSE clash
      /\ UNCHANGED <<job, held, seen, setKeys, said, setHeard, died>>
  BY DEF Config!Open, Config!At
<1>2. ConfigClean(todo[p], ConfigWhole, ConfigLoads(p)) /\ clash \subseteq clash' /\
      (ConfigWhole' => ConfigWhole)
  BY <1>1 DEF ConfigIInv, ConfigTodos, ConfigWhole
<1>3. /\ ConfigClean(r, ConfigWhole', ConfigLoads(p)) /\
         ConfigFills(r) \subseteq ConfigFills(todo[p])
      /\ r # <<>> /\ r[1].do = "fill" /\ r[1].on = f
  <2>1. /\ ConfigClean(r, ConfigWhole, ConfigLoads(p)) /\
           ConfigFills(r) \subseteq ConfigFills(todo[p])
        /\ r # <<>> /\ r[1].do = "fill" /\ r[1].on = f
    BY <1>1, <1>2, ConfigCleanTail
  <2> QED BY <1>2, <2>1, ConfigCleanWeaker
<1>4. Head(r) = r[1]
  BY <1>3, ConfigHeadOf
<1> HIDE DEF r
<1>5. clash' \subseteq Config!File /\ died' \subseteq Config!File
  BY <1>1 DEF ConfigIInv, ConfigTypes
<1>6. /\ ConfigJobs' /\ ConfigTodos' /\ ConfigHeard' /\ ConfigDone' /\
         Config!RunsGoByWhatWasSaid'
      /\ \A q \in Config!Process \ {p} : todo'[q] = todo[q] /\ \A g,
         w : Config!At(q, w, g)' = Config!At(q, w, g)
      /\ todo'[p] = r
  BY <1>1, <1>2, <1>3, <1>5, ConfigQuiet
<1>7. /\ \A g : ~Config!At(p, "fill", g)
      /\ \A g : Config!At(p, "fill", g)' <=> g = f
  BY <1>1, <1>3, <1>4, <1>6 DEF Config!At
<1>8. /\ DOMAIN setFile = Config!File
      /\ setFile'[f] = IF f = "env" THEN Config!NoSecrets ELSE Torn
      /\ \A g \in Config!File \ {f} : setFile'[g] = setFile[g]
  BY <1>1 DEF ConfigIInv, ConfigTypes
<1>9. Config!NoSecrets \in [Secret -> ConfigValue] /\ Config!NoSecrets # Absent /\
      Config!NoSecrets # Torn /\ Torn # Absent
  <2>1. Config!NoSecrets \in [Secret -> ConfigValue]
    BY DEF Config!NoSecrets, ConfigValue
  <2> QED BY <2>1 DEF ConfigApart
<1>10. ConfigTypes'
  <2>1. \A g \in Config!File : setFile'[g] \in {Absent, Torn} \cup ConfigMap(g)
    BY <1>8, <1>9 DEF ConfigIInv, ConfigTypes, ConfigMap
  <2>2. setFile'["env"] \in ConfigMap("env")
    BY <1>8, <1>9 DEF ConfigIInv, ConfigTypes, ConfigMap, Config!File
  <2>3. DOMAIN setFile' = Config!File
    BY <1>1, <1>8
  <2> QED BY <1>1, <1>5, <2>1, <2>2, <2>3 DEF ConfigIInv, ConfigTypes, ConfigMap
<1>11. ConfigFiles'
  <2>1. (\A q \in Config!Process : ~Config!At(q, "fill", "env")') => f # "env" /\
        \A q \in Config!Process : ~Config!At(q, "fill", "env")
    BY <1>6, <1>7
  <2>2. \A g, x, y : ConfigSays(g, x, y, TRUE)' = ConfigSays(g, x, y, TRUE)
    BY DEF ConfigSays, ConfigMap
  <2>3. setFile'[f] # Absent /\ (f # "env" => setFile'[f] = Torn)
    BY <1>8, <1>9
  <2>4. ConfigFiles
    BY DEF ConfigIInv
  <2> QED BY <1>1, <1>2, <1>8, <2>1, <2>2, <2>3, <2>4 DEF ConfigFiles
<1>12. \A q \in Config!Process : ConfigFills(todo'[q]) \subseteq ConfigFills(todo[q])
  BY <1>3, <1>6
<1>13. f \notin clash' => \A q \in Config!Process \ {p} : f \notin ConfigFills(todo[q])
  <2>1. \A q \in Config!Process : Config!Changing(q, f) <=> f \in ConfigFills(todo[q])
    BY ConfigChangingFills DEF ConfigIInv
  <2> QED BY <1>1, <2>1 DEF Config!Busy
<1>14. ConfigAlone'
  <2>1. SUFFICES ASSUME NEW q \in Config!Process, NEW g \in Config!File,
        Config!At(q, "fill", g)'
                 PROVE  /\ setFile'[g] # Absent
                        /\ g \notin clash' => /\ g # "env" => setFile'[g] = Torn
                                              /\ \A o \in Config!Process : o # q =>
                                                 g \notin ConfigFills(todo'[o])
    BY DEF ConfigAlone, ConfigFills
  <2>2. CASE q = p
    BY <1>7, <1>8, <1>9, <1>12, <1>13, <2>1, <2>2
  <2>3. CASE q # p
    <3>1. Config!At(q, "fill", g)
      BY <1>6, <2>1, <2>3
    <3>2. CASE g = f
      <4>1. f \in ConfigFills(todo[q])
        BY <3>1, <3>2, ConfigChangingFills DEF ConfigIInv
      <4> QED BY <1>8, <1>9, <1>13, <2>3, <3>2, <4>1
    <3>3. CASE g # f
      BY <1>2, <1>8, <1>12, <3>1, <3>3 DEF ConfigIInv, ConfigAlone
    <3> QED BY <3>2, <3>3
  <2> QED BY <2>2, <2>3
<1>15. ConfigDead'
  <2>1. SUFFICES ASSUME NEW g \in died, g # "env", g \notin clash'
                 PROVE  setFile'[g] = Torn /\
                   \A o \in Config!Process : g \notin ConfigFills(todo'[o])
    BY <1>1 DEF ConfigDead, ConfigFills
  <2>2. setFile[g] = Torn /\ (\A o \in Config!Process : g \notin ConfigFills(todo[o])) /\
        g \in Config!File
    BY <1>2, <2>1 DEF ConfigIInv, ConfigDead, ConfigTypes
  <2> QED BY <1>8, <1>12, <2>1, <2>2
<1>16. Config!TornHasACause'
  <2>1. SUFFICES ASSUME NEW g \in Config!File, setFile'[g] = Torn
                 PROVE  (\E q \in Config!Process : Config!At(q, "fill", g)') \/
                   g \in died \/ g \in clash'
    BY <1>1 DEF Config!TornHasACause
  <2>2. CASE g = f
    BY <1>7, <2>2
  <2>3. CASE g # f
    BY <1>2, <1>6, <1>7, <1>8, <2>1, <2>3 DEF ConfigIInv, Config!TornHasACause
  <2> QED BY <2>2, <2>3
<1> QED BY <1>6, <1>10, <1>11, <1>14, <1>15, <1>16 DEF ConfigIInv

LEMMA ConfigFillInv ==
    ASSUME ConfigApart, ConfigIInv, NEW p \in Config!Process, NEW f \in Config!File,
      Config!Fill(p, f) PROVE ConfigIInv'
<1> DEFINE r == Tail(todo[p])
<1>1. PICK new \in {Head(todo[p]).what} \cup (IF Config!Busy(p, f) /\
      f # "env" THEN {Torn} ELSE {}) :
         setFile' = [setFile EXCEPT ![f] = new]
  BY DEF Config!Fill
<1>2. /\ todo[p] # <<>> /\ Head(todo[p]).do = "fill" /\ Head(todo[p]).on = f
      /\ todo' = [todo EXCEPT ![p] = r]
      /\ said' = [said EXCEPT ![f] = Head(todo[p]).as]
      /\ UNCHANGED <<job, held, seen, setKeys, setHeard, clash, died>>
      /\ Config!At(p, "fill", f)
  BY DEF Config!Fill, Config!At
<1>3. ConfigClean(todo[p], ConfigWhole, ConfigLoads(p)) /\ ConfigWhole' = ConfigWhole
  BY <1>2 DEF ConfigIInv, ConfigTodos, ConfigWhole
<1>4. /\ ConfigClean(r, ConfigWhole', ConfigLoads(p)) /\
         ConfigFills(r) \subseteq ConfigFills(todo[p]) /\ ConfigNoFill(r)
  <2>1. Head(todo[p]) = todo[p][1]
    BY <1>2, <1>3, ConfigHeadOf
  <2> QED BY <1>2, <1>3, <2>1, ConfigCleanTail
<1>5. ConfigSays(f, Head(todo[p]).what, Head(todo[p]).as, ConfigWhole)
  BY <1>2, <1>3, ConfigHeadOf
<1> HIDE DEF r
<1>6. clash' \subseteq Config!File /\ died' \subseteq Config!File
  BY <1>2 DEF ConfigIInv, ConfigTypes
<1>7. /\ ConfigJobs' /\ ConfigTodos' /\ ConfigHeard' /\ ConfigDone' /\
         Config!RunsGoByWhatWasSaid'
      /\ \A q \in Config!Process \ {p} : todo'[q] = todo[q] /\ \A g,
         w : Config!At(q, w, g)' = Config!At(q, w, g)
      /\ todo'[p] = r
  BY <1>2, <1>4, <1>6, ConfigQuiet
<1>8. /\ \A g : Config!At(p, "fill", g) <=> g = f
      /\ \A g : ~Config!At(p, "fill", g)'
  <2>1. r # <<>> => Head(r) = r[1]
    BY <1>4, ConfigHeadOf
  <2> QED BY <1>2, <1>4, <1>7, <2>1 DEF Config!At, ConfigNoFill
<1>9. /\ DOMAIN setFile = Config!File /\ DOMAIN said = Config!File
      /\ setFile'[f] = new /\ said'[f] = Head(todo[p]).as
      /\ \A g \in Config!File \ {f} : setFile'[g] = setFile[g] /\ said'[g] = said[g]
  BY <1>1, <1>2 DEF ConfigIInv, ConfigTypes
<1>10. /\ new = Head(todo[p]).what \/ (new = Torn /\ f # "env" /\ Config!Busy(p, f))
       /\ Head(todo[p]).what \in ConfigMap(f) /\ Head(todo[p]).as \in ConfigMap(f)
       /\ Head(todo[p]).what \notin {Absent, Torn} /\ Absent # Torn
  BY <1>1, <1>5 DEF ConfigSays, ConfigMap, ConfigApart
<1>11. ConfigTypes'
  <2>1. \A g \in Config!File : setFile'[g] \in {Absent, Torn} \cup ConfigMap(g) /\
        said'[g] \in ConfigMap(g)
    BY <1>9, <1>10 DEF ConfigIInv, ConfigTypes
  <2>2. setFile'["env"] \in ConfigMap("env")
    BY <1>9, <1>10 DEF ConfigIInv, ConfigTypes, Config!File
  <2>3. DOMAIN setFile' = Config!File /\ DOMAIN said' = Config!File
    BY <1>1, <1>2, <1>9
  <2> QED BY <1>2, <1>6, <2>1, <2>2, <2>3 DEF ConfigIInv, ConfigTypes, ConfigMap
<1>12. ConfigFiles'
  <2>1. f # "env" /\ (\A q \in Config!Process : ~Config!At(q, "fill", "env")') =>
        \A q \in Config!Process : ~Config!At(q, "fill", "env")
    BY <1>7, <1>8
  <2>2. \A g, x, y : ConfigSays(g, x, y, TRUE)' = ConfigSays(g, x, y, TRUE)
    BY DEF ConfigSays, ConfigMap
  <2>3. ConfigFiles
    BY DEF ConfigIInv
  <2>4. setFile'[f] # Absent
    BY <1>9, <1>10
  <2>5. f # "env" /\ setFile'[f] \notin {Absent, Torn} =>
        ConfigSays(f, setFile'[f], said'[f], TRUE)
    BY <1>5, <1>9, <1>10 DEF ConfigSays
  <2>6. f = "env" /\ ConfigWhole => setFile'[f] = said'[f]
    BY <1>5, <1>9, <1>10 DEF ConfigSays
  <2>7. ASSUME NEW g \in Config!File
        PROVE  /\ setFile'[g] = Absent => said'[g] = Config!Nothing
               /\ g # "env" /\ setFile'[g] \notin {Absent, Torn} =>
                  ConfigSays(g, setFile'[g], said'[g], TRUE)
               /\ g = "env" /\ ConfigWhole /\ (\A q \in Config!Process : ~Config!At(q,
                  "fill", g)') => setFile'[g] = said'[g]
    <3>1. CASE g = f
      BY <2>4, <2>5, <2>6, <3>1
    <3>2. CASE g # f
      BY <1>9, <2>1, <2>3, <3>2 DEF ConfigFiles
    <3> QED BY <3>1, <3>2
  <2> QED BY <1>3, <2>2, <2>7 DEF ConfigFiles
<1>13. \A q \in Config!Process : ConfigFills(todo'[q]) \subseteq ConfigFills(todo[q])
  BY <1>4, <1>7
<1>14. f \notin clash => /\ f # "env" => setFile[f] = Torn
                         /\ \A q \in Config!Process : q # p => f \notin ConfigFills(todo[q])
  BY <1>2 DEF ConfigIInv, ConfigAlone
<1>15. ConfigAlone'
  <2>1. SUFFICES ASSUME NEW q \in Config!Process, NEW g \in Config!File,
        Config!At(q, "fill", g)'
                 PROVE  /\ setFile'[g] # Absent
                        /\ g \notin clash => /\ g # "env" => setFile'[g] = Torn
                                             /\ \A o \in Config!Process : o # q =>
                                                g \notin ConfigFills(todo'[o])
    BY <1>2 DEF ConfigAlone, ConfigFills
  <2>2. q # p /\ Config!At(q, "fill", g)
    BY <1>7, <1>8, <2>1
  <2>3. CASE g = f
    <3>1. f \in ConfigFills(todo[q])
      BY <2>2, <2>3, ConfigChangingFills DEF ConfigIInv
    <3> QED BY <1>9, <1>10, <1>14, <2>2, <2>3, <3>1
  <2>4. CASE g # f
    BY <1>9, <1>13, <2>2, <2>4 DEF ConfigIInv, ConfigAlone
  <2> QED BY <2>3, <2>4
<1>16. ConfigDead'
  <2>1. SUFFICES ASSUME NEW g \in died, g # "env", g \notin clash
                 PROVE  setFile'[g] = Torn /\
                   \A o \in Config!Process : g \notin ConfigFills(todo'[o])
    BY <1>2 DEF ConfigDead, ConfigFills
  <2>2. setFile[g] = Torn /\ (\A o \in Config!Process : g \notin ConfigFills(todo[o])) /\
        g \in Config!File
    BY <2>1 DEF ConfigIInv, ConfigDead, ConfigTypes
  <2>3. f \in ConfigFills(todo[p])
    BY <1>2, ConfigChangingFills DEF ConfigIInv
  <2> QED BY <1>9, <1>13, <2>2, <2>3
<1>17. Config!TornHasACause'
  <2>1. SUFFICES ASSUME NEW g \in Config!File, setFile'[g] = Torn
                 PROVE  (\E q \in Config!Process : Config!At(q, "fill", g)') \/
                   g \in died \/ g \in clash
    BY <1>2 DEF Config!TornHasACause
  <2>2. CASE g = f
    <3>1. Config!Busy(p, f)
      BY <1>9, <1>10, <2>1, <2>2
    <3>2. \E q \in Config!Process \ {p} : f \in ConfigFills(todo[q])
      BY <3>1, ConfigChangingFills DEF ConfigIInv, Config!Busy
    <3> QED BY <1>14, <2>2, <3>2
  <2>3. CASE g # f
    BY <1>7, <1>8, <1>9, <2>1, <2>3 DEF ConfigIInv, Config!TornHasACause
  <2> QED BY <2>2, <2>3
<1> QED BY <1>7, <1>11, <1>12, <1>15, <1>16, <1>17 DEF ConfigIInv

LEMMA ConfigDieInv ==
    ASSUME ConfigApart, ConfigIInv, NEW p \in Config!Process, NEW f \in Config!File,
      Config!Die(p, f) PROVE ConfigIInv'
<1>1. /\ todo[p] # <<>> /\ Head(todo[p]).do = "fill" /\ Head(todo[p]).on = f /\
         Config!At(p, "fill", f)
      /\ todo' = [todo EXCEPT ![p] = <<>>] /\ died' = died \cup {f}
      /\ UNCHANGED <<job, held, seen, setKeys, said, setHeard, clash>>
  BY DEF Config!Die, Config!At
<1>2. ConfigClean(todo[p], ConfigWhole, ConfigLoads(p)) /\
      (ConfigWhole' => ConfigWhole /\ f # "env")
  BY <1>1 DEF ConfigIInv, ConfigTodos, ConfigWhole
<1>3. ConfigClean(<<>>, ConfigWhole', ConfigLoads(p)) /\ ConfigFills(<<>>) = {}
  BY ConfigCleanNone
<1>4. clash' \subseteq Config!File /\ died' \subseteq Config!File
  BY <1>1 DEF ConfigIInv, ConfigTypes
<1>5. /\ ConfigJobs' /\ ConfigTodos' /\ ConfigHeard' /\ ConfigDone' /\
         Config!RunsGoByWhatWasSaid'
      /\ \A q \in Config!Process \ {p} : todo'[q] = todo[q] /\ \A g,
         w : Config!At(q, w, g)' = Config!At(q, w, g)
      /\ todo'[p] = <<>>
  <2>1. clash \subseteq clash' /\ died \subseteq died'
    BY <1>1
  <2> QED BY <1>1, <1>3, <1>4, <2>1, ConfigQuiet
<1>6. /\ \A g : Config!At(p, "fill", g) <=> g = f
      /\ \A g : ~Config!At(p, "fill", g)'
  BY <1>1, <1>5 DEF Config!At
<1>7. /\ \A g \in Config!File \ {"env"} : setFile'[g] = setFile[g]
      /\ setFile'["env"] = setFile["env"] \/ (f = "env" /\
         setFile'["env"] \in [Secret -> ConfigValue])
      /\ DOMAIN setFile' = Config!File /\ "env" \in Config!File
  <2>1. DOMAIN setFile = Config!File /\ "env" \in Config!File
    BY DEF ConfigIInv, ConfigTypes, Config!File
  <2>2. CASE UNCHANGED setFile
    BY <2>1, <2>2
  <2>3. CASE f = "env" /\ setFile' # setFile
    <3>1. PICK some \in SUBSET Secret :
             setFile' = [setFile EXCEPT !["env"] =
                         [s \in Secret |-> IF s \in some THEN Head(todo[p]).what[s] ELSE Unset]]
      BY <2>3 DEF Config!Die
    <3>2. Head(todo[p]).what \in [Secret -> ConfigValue]
      BY <1>1, <1>2, <2>3, ConfigHeadOf DEF ConfigSays, ConfigMap
    <3>3. [s \in Secret |-> IF s \in some THEN Head(todo[p]).what[s] ELSE Unset]
            \in [Secret -> ConfigValue]
      BY <3>2 DEF ConfigValue
    <3> QED BY <2>1, <2>3, <3>1, <3>3
  <2> QED BY <2>2, <2>3 DEF Config!Die
<1>8. setFile'["env"] \notin {Absent, Torn} /\ setFile'["env"] \in ConfigMap("env")
  BY <1>7 DEF ConfigIInv, ConfigTypes, ConfigMap, ConfigApart
<1>9. ConfigTypes'
  <2>1. \A g \in Config!File : setFile'[g] \in {Absent, Torn} \cup ConfigMap(g)
    BY <1>7, <1>8 DEF ConfigIInv, ConfigTypes
  <2> QED BY <1>1, <1>4, <1>7, <1>8, <2>1 DEF ConfigIInv, ConfigTypes, ConfigMap
<1>10. ConfigFiles'
  <2>1. f # "env" /\ (\A q \in Config!Process : ~Config!At(q, "fill", "env")') =>
        \A q \in Config!Process : ~Config!At(q, "fill", "env")
    BY <1>5, <1>6
  <2>2. \A g, x, y : ConfigSays(g, x, y, TRUE)' = ConfigSays(g, x, y, TRUE)
    BY DEF ConfigSays, ConfigMap
  <2>3. ConfigFiles
    BY DEF ConfigIInv
  <2>4. ASSUME NEW g \in Config!File
        PROVE  /\ setFile'[g] = Absent => said[g] = Config!Nothing
               /\ g # "env" /\ setFile'[g] \notin {Absent, Torn} =>
                  ConfigSays(g, setFile'[g], said[g], TRUE)
               /\ g = "env" /\ ConfigWhole' /\
                  (\A q \in Config!Process : ~Config!At(q, "fill", g)') => setFile'[g] = said[g]
    <3>1. CASE g = "env"
      BY <1>2, <1>7, <1>8, <2>1, <2>3, <3>1 DEF ConfigFiles
    <3>2. CASE g # "env"
      BY <1>7, <2>3, <3>2 DEF ConfigFiles
    <3> QED BY <3>1, <3>2
  <2> QED BY <1>1, <2>2, <2>4 DEF ConfigFiles
<1>11. \A q \in Config!Process : ConfigFills(todo'[q]) \subseteq ConfigFills(todo[q])
  BY <1>3, <1>5
<1>12. ConfigAlone'
  <2>1. SUFFICES ASSUME NEW q \in Config!Process, NEW g \in Config!File,
        Config!At(q, "fill", g)'
                 PROVE  /\ setFile'[g] # Absent
                        /\ g \notin clash => /\ g # "env" => setFile'[g] = Torn
                                             /\ \A o \in Config!Process : o # q =>
                                                g \notin ConfigFills(todo'[o])
    BY <1>1 DEF ConfigAlone, ConfigFills
  <2>2. q # p /\ Config!At(q, "fill", g)
    BY <1>5, <1>6, <2>1
  <2> QED BY <1>7, <1>8, <1>11, <2>2 DEF ConfigIInv, ConfigAlone
<1>13. ConfigDead'
  <2>1. SUFFICES ASSUME NEW g \in died', g # "env", g \notin clash
                 PROVE  setFile'[g] = Torn /\
                   \A o \in Config!Process : g \notin ConfigFills(todo'[o])
    BY <1>1 DEF ConfigDead, ConfigFills
  <2>2. CASE g = f
    <3>1. setFile[f] = Torn /\ \A q \in Config!Process : q # p => f \notin ConfigFills(todo[q])
      BY <1>1, <2>1, <2>2 DEF ConfigIInv, ConfigAlone
    <3> QED BY <1>3, <1>5, <1>7, <2>1, <2>2, <3>1
  <2>3. CASE g # f
    <3>1. setFile[g] = Torn /\ (\A o \in Config!Process : g \notin ConfigFills(todo[o])) /\
          g \in Config!File
      BY <1>1, <2>1, <2>3 DEF ConfigIInv, ConfigDead, ConfigTypes
    <3> QED BY <1>7, <1>11, <2>1, <3>1
  <2> QED BY <2>2, <2>3
<1>14. Config!TornHasACause'
  <2>1. SUFFICES ASSUME NEW g \in Config!File, setFile'[g] = Torn
                 PROVE  (\E q \in Config!Process : Config!At(q, "fill", g)') \/
                   g \in died' \/ g \in clash
    BY <1>1 DEF Config!TornHasACause
  <2>2. g # "env" /\ setFile[g] = Torn
    BY <1>7, <1>8, <2>1
  <2> QED BY <1>1, <1>5, <1>6, <2>2 DEF ConfigIInv, Config!TornHasACause
<1> QED BY <1>5, <1>9, <1>10, <1>12, <1>13, <1>14 DEF ConfigIInv

(* What was read resolves as what had been said.                           *)
LEMMA ConfigLayersAgree ==
    ASSUME NEW p, NEW h, NEW a, NEW whole, ConfigAgree(h, a, whole)
    PROVE  Config!Layers(p, h["global"], h["local"]) = Config!Layers(p, a["global"], a["local"])
<1> DEFINE hb == Config!Base(h["global"])
           ab == Config!Base(a["global"])
<1>1. \A k \in Key : /\ hb[k] = ab[k]
                     /\ k \in Own => ab[k] = Default
  BY DEF ConfigAgree, Config!Base, Config!Over
<1>2. DOMAIN hb = Key /\ DOMAIN ab = Key
  BY DEF Config!Base, Config!Over
<1>3. \A k \in Key : \/ h["local"][k] = a["local"][k]
                     \/ k \in Own /\ a["local"][k] = Unset /\ h["local"][k] = Default
  BY DEF ConfigAgree
<1> HIDE DEF hb, ab
<1>4. \A k \in Key : (IF h["local"][k] # Unset THEN h["local"][k] ELSE hb[k])
                     = (IF a["local"][k] # Unset THEN a["local"][k] ELSE ab[k])
  BY <1>1, <1>3
<1>5. Config!WithWorkspace(hb, h["local"]) = Config!WithWorkspace(ab, a["local"])
  BY <1>2, <1>4 DEF Config!WithWorkspace, Config!Over
<1> QED BY <1>5 DEF Config!Layers, hb, ab

LEMMA ConfigResolveInv ==
    ASSUME ConfigApart, ConfigIInv, NEW p \in Config!Process, Config!Resolve(p)
      PROVE ConfigIInv'
<1>1. /\ todo[p] # <<>> /\ Head(todo[p]).do = "resolve" /\ todo' = [todo EXCEPT ![p] = <<>>]
      /\ seen' = [seen EXCEPT ![p] = Config!Layers(p, held[p]["global"], held[p]["local"])]
      /\ setKeys' = [setKeys EXCEPT ![p] = Config!Get(p, held[p]["env"])]
      /\ UNCHANGED <<setFile, job, held, said, setHeard, clash, died>>
  BY DEF Config!Resolve, Config!At
<1>2. ConfigClean(<<>>, ConfigWhole, ConfigLoads(p)) /\ ConfigFills(<<>>) = {}
  BY ConfigCleanNone
<1>3. /\ DOMAIN todo = Config!Process /\ DOMAIN seen = Config!Process /\
         DOMAIN setKeys = Config!Process
      /\ ConfigWhole' = ConfigWhole /\ \A q : ConfigLoads(q)' = ConfigLoads(q)
  BY <1>1 DEF ConfigIInv, ConfigTodos, ConfigTypes, ConfigWhole, ConfigLoads
<1>4. /\ todo'[p] = <<>> /\ DOMAIN todo' = Config!Process
      /\ \A q \in Config!Process \ {p} : todo'[q] = todo[q] /\ seen'[q] = seen[q] /\
         setKeys'[q] = setKeys[q]
      /\ seen'[p] = Config!Layers(p, held[p]["global"], held[p]["local"])
      /\ setKeys'[p] = Config!Get(p, held[p]["env"])
  BY <1>1, <1>3
<1>5. /\ \A q \in Config!Process : \A g : Config!At(q, "fill", g)' <=> Config!At(q, "fill", g)
      /\ \A q \in Config!Process : ConfigFills(todo'[q]) \subseteq ConfigFills(todo[q])
  <2>1. \A g : ~Config!At(p, "fill", g) /\ ~Config!At(p, "fill", g)'
    BY <1>1, <1>4 DEF Config!At
  <2>2. \A q \in Config!Process \ {p} : \A g : Config!At(q, "fill", g)' <=> Config!At(q,
        "fill", g)
    BY <1>4 DEF Config!At
  <2> QED BY <1>2, <1>4, <2>1, <2>2
<1>6. ConfigTypes'
  <2>1. DOMAIN seen'[p] = Key /\ DOMAIN setKeys'[p] = Secret
    BY <1>4
       DEF Config!Layers, Config!WithFlags, Config!WithWorkspace, Config!Base, Config!Over,
           Config!Get
  <2>2. \A q \in Config!Process : DOMAIN seen'[q] = Key /\ DOMAIN setKeys'[q] = Secret
    BY <1>4, <2>1 DEF ConfigIInv, ConfigTypes
  <2>3. DOMAIN seen' = Config!Process /\ DOMAIN setKeys' = Config!Process
    BY <1>1, <1>3
  <2> QED BY <1>1, <2>2, <2>3 DEF ConfigIInv, ConfigTypes, ConfigMap
<1>7. ConfigJobs'
  BY <1>1 DEF ConfigIInv, ConfigJobs
<1>8. ConfigTodos'
  <2>1. \A q \in Config!Process : ConfigClean(todo'[q], ConfigWhole, ConfigLoads(q))
    BY <1>2, <1>4 DEF ConfigIInv, ConfigTodos
  <2> QED BY <1>3, <1>4, <2>1 DEF ConfigTodos
<1>9. ConfigFiles'
  <2>1. \A g, x, y : ConfigSays(g, x, y, TRUE)' = ConfigSays(g, x, y, TRUE)
    BY DEF ConfigSays, ConfigMap
  <2> QED BY <1>1, <1>3, <1>5, <2>1 DEF ConfigIInv, ConfigFiles
<1>10. ConfigAlone'
  <2>1. SUFFICES ASSUME NEW q \in Config!Process, NEW g \in Config!File, Config!At(q, "fill", g)
                 PROVE  /\ setFile[g] # Absent
                        /\ g \notin clash => /\ g # "env" => setFile[g] = Torn
                                             /\ \A o \in Config!Process : o # q =>
                                                g \notin ConfigFills(todo'[o])
    BY <1>1, <1>5 DEF ConfigAlone, ConfigFills
  <2> QED BY <1>5, <2>1 DEF ConfigIInv, ConfigAlone
<1>11. ConfigDead'
  <2>1. SUFFICES ASSUME NEW g \in died, g # "env", g \notin clash
                 PROVE  setFile[g] = Torn /\
                   \A o \in Config!Process : g \notin ConfigFills(todo'[o])
    BY <1>1 DEF ConfigDead, ConfigFills
  <2> QED BY <1>5, <2>1 DEF ConfigIInv, ConfigDead
<1>12. ConfigHeard'
  BY <1>1, <1>3 DEF ConfigIInv, ConfigHeard
<1>13. ConfigDone'
  BY <1>4 DEF ConfigIInv, ConfigDone
<1>14. Config!TornHasACause'
  BY <1>1, <1>5 DEF ConfigIInv, Config!TornHasACause
<1>15. Config!RunsGoByWhatWasSaid'
  <2>1. SUFFICES ASSUME NEW q \in SetRun, Config!Started(q)', clash = {}
                 PROVE  /\ seen'[q] = Config!Layers(q, setHeard[q]["global"],
                           setHeard[q]["local"])
                        /\ "env" \notin died => setKeys'[q] = Config!Get(q, setHeard[q]["env"])
    BY <1>1 DEF Config!RunsGoByWhatWasSaid, Config!Layers, Config!Get
  <2>2. CASE q = p
    <3>1. ConfigAgree(held[p], setHeard[p], ConfigWhole)
      BY DEF ConfigIInv, ConfigHeard
    <3>2. Config!Layers(p, held[p]["global"], held[p]["local"]) = Config!Layers(p,
          setHeard[p]["global"], setHeard[p]["local"])
      BY <3>1, ConfigLayersAgree
    <3>3. "env" \notin died => held[p]["env"] = setHeard[p]["env"]
      BY <2>1, <3>1 DEF ConfigAgree, ConfigWhole
    <3> QED BY <1>4, <2>2, <3>2, <3>3
  <2>3. CASE q # p
    <3>1. seen'[q] = seen[q] /\ setKeys'[q] = setKeys[q]
      BY <1>4, <2>3 DEF Config!Process
    <3> QED BY <2>1, <3>1 DEF ConfigIInv, Config!RunsGoByWhatWasSaid, Config!Started
  <2> QED BY <2>2, <2>3
<1> QED BY <1>6, <1>7, <1>8, <1>9, <1>10, <1>11, <1>12, <1>13, <1>14, <1>15 DEF ConfigIInv

-----------------------------------------------------------------------------
LEMMA ConfigStepInv == ASSUME ConfigApart, ConfigIInv, [Config!Next]_(Config!vars)
    PROVE ConfigIInv'
<1>1. CASE Config!Next
  <2>1. PICK p \in Config!Process :
           \/ Config!LoadGlobalConfig(p) \/ Config!LoadEnvVars(p) \/
              Config!LoadWorkspaceConfig(p)
           \/ \E f \in Config!File : Config!Refuse(p, f) \/ Config!Open(p, f) \/
              Config!Fill(p, f) \/ Config!Die(p, f)
           \/ Config!Resolve(p)
    BY <1>1 DEF Config!Next
  <2> QED BY <2>1, ConfigLoadGlobalInv, ConfigLoadEnvInv, ConfigLoadWorkspaceInv,
             ConfigRefuseInv, ConfigOpenInv, ConfigFillInv, ConfigDieInv, ConfigResolveInv
<1>2. CASE UNCHANGED Config!vars
  <2>1. /\ \A q, w, g : Config!At(q, w, g)' = Config!At(q, w, g)
        /\ \A g, x, y : ConfigSays(g, x, y, TRUE)' = ConfigSays(g, x, y, TRUE)
        /\ ConfigWhole' = ConfigWhole /\ \A q : ConfigLoads(q)' = ConfigLoads(q)
    BY <1>2 DEF Config!vars, Config!At, ConfigSays, ConfigMap, ConfigWhole, ConfigLoads
  <2>2. ConfigTypes' /\ ConfigJobs' /\ ConfigDead' /\ ConfigDone'
    BY <1>2
       DEF ConfigIInv, Config!vars, ConfigTypes, ConfigMap, ConfigJobs, ConfigDead,
           ConfigDone
  <2>3. ConfigTodos' /\ ConfigHeard'
    BY <1>2, <2>1 DEF ConfigIInv, Config!vars, ConfigTodos, ConfigHeard
  <2>4. ConfigFiles' /\ ConfigAlone' /\ Config!TornHasACause'
    BY <1>2, <2>1
       DEF ConfigIInv, Config!vars, ConfigFiles, ConfigAlone, Config!TornHasACause
  <2>5. Config!RunsGoByWhatWasSaid'
    BY <1>2
       DEF ConfigIInv, Config!vars, Config!RunsGoByWhatWasSaid, Config!Started,
           Config!Layers, Config!Get
  <2> QED BY <2>2, <2>3, <2>4, <2>5 DEF ConfigIInv
<1> QED BY <1>1, <1>2

LEMMA ConfigOneStep ==
    ASSUME NEW s \in ConfigPlain, NEW whole, NEW from, s.do = "load" => s.on \in from
    PROVE  ConfigClean(<<s>>, whole, from)
<1>1. s.do \in {"load", "resolve"}
  BY DEF ConfigPlain
<1>2. <<s>> \in Seq(ConfigPlain \cup ConfigWrites) /\ Len(<<s>>) = 1 /\ <<s>>[1] = s
  OBVIOUS
<1> QED BY <1>1, <1>2 DEF ConfigClean

LEMMA ConfigInitInv == ASSUME ConfigApart, Config!Init PROVE ConfigIInv
<1>1. Config!Nothing \in [Key -> ConfigValue] /\ Config!NoSecrets \in [Secret -> ConfigValue]
  BY DEF Config!Nothing, Config!NoSecrets, ConfigValue
<1>2. Config!NoSecrets \notin {Absent, Torn} /\ Absent # Torn
  BY <1>1 DEF ConfigApart
<1>3. \A f \in Config!File : setFile[f] = IF f = "env" THEN Config!NoSecrets ELSE Absent
  BY DEF Config!Init
<1>4. PICK c \in [SetCommand -> Config!GlobalSets \cup Config!WorkspaceSets \cup
      Config!EnvSets], r \in [SetRun -> Config!Runs] :
         job = [p \in Config!Process |-> IF p \in SetCommand THEN c[p] ELSE r[p]]
  BY DEF Config!Init
<1>5. \A p \in SetCommand : job[p] \in Config!GlobalSets \cup Config!WorkspaceSets \cup
      Config!EnvSets
  BY <1>4 DEF Config!Process
<1>6. ConfigTypes
  BY <1>1, <1>3
     DEF Config!Init, ConfigTypes, ConfigMap, Config!File, Config!NothingSet,
         Config!Nothing, Config!NoSecrets
<1>7. ConfigJobs
  BY <1>5 DEF ConfigJobs, Config!GlobalSets, Config!WorkspaceSets, Config!EnvSets
<1>8. ConfigTodos
  <2>1. ASSUME NEW p \in Config!Process PROVE ConfigClean(todo[p], ConfigWhole, ConfigLoads(p))
    <3>1. CASE p \in SetCommand
      <4>1. job[p].on \in Config!File
        BY <1>5, <3>1
           DEF Config!GlobalSets, Config!WorkspaceSets, Config!EnvSets, Config!File
      <4>2. Config!Do("load", job[p].on) \in ConfigPlain /\
            Config!Do("load", job[p].on).on = job[p].on
        BY <4>1 DEF Config!Do, ConfigPlain
      <4>3. todo[p] = <<Config!Do("load", job[p].on)>>
        BY <3>1 DEF Config!Init
      <4> QED BY <3>1, <4>2, <4>3, ConfigOneStep DEF ConfigLoads
    <3>2. CASE p \notin SetCommand
      <4> DEFINE g == Config!Do("load", "global")
                 e == Config!Do("load", "env")
                 l == Config!Do("load", "local")
                 s == Config!Do("resolve", "global")
      <4>1. /\ {g, e, l, s} \subseteq ConfigPlain
            /\ \A x \in {g, e, l, s} : x.do \notin {"open", "fill"} /\ x.on \in Config!File
        BY DEF Config!Do, ConfigPlain, Config!File
      <4>2. todo[p] = <<g, e, l, s>>
        BY <3>2 DEF Config!Init
      <4> HIDE DEF g, e, l, s
      <4>3. /\ todo[p] \in Seq(ConfigPlain \cup ConfigWrites) /\ Len(todo[p]) = 4
            /\ todo[p][1] = g /\ todo[p][2] = e /\ todo[p][3] = l /\ todo[p][4] = s
        BY <4>1, <4>2
      <4>4. \A n \in 1..Len(todo[p]) : n = 1 \/ n = 2 \/ n = 3 \/ n = 4
        BY <4>3
      <4>5. \A n \in 1..Len(todo[p]) : todo[p][n] \in {g, e, l, s}
        BY <4>3, <4>4
      <4> QED BY <3>2, <4>1, <4>3, <4>5 DEF ConfigClean, ConfigLoads
    <3> QED BY <3>1, <3>2
  <2> QED BY <2>1 DEF Config!Init, ConfigTodos
<1>9. \A p \in Config!Process : \A f : ~Config!At(p, "fill", f)
  BY DEF Config!Init, Config!At, Config!Do
<1>10. ConfigFiles
  BY <1>2, <1>3 DEF Config!Init, ConfigFiles, Config!NothingSet
<1>11. ConfigAlone /\ ConfigDead /\ Config!TornHasACause
  BY <1>2, <1>3, <1>9 DEF Config!Init, ConfigAlone, ConfigDead, Config!TornHasACause
<1>12. ConfigHeard
  BY DEF Config!Init, ConfigHeard, ConfigAgree, Config!NothingSet, Config!Nothing,
         Config!File
<1>13. ConfigDone /\ Config!RunsGoByWhatWasSaid
  BY DEF Config!Init, ConfigDone, Config!RunsGoByWhatWasSaid, Config!Started, Config!Process
<1> QED BY <1>6, <1>7, <1>8, <1>10, <1>11, <1>12, <1>13 DEF ConfigIInv

LEMMA ConfigIInvSound == ASSUME ConfigApart, ConfigIInv PROVE Config!SettingsSound
<1>1. Config!TypeOK
  BY DEF ConfigIInv, ConfigTypes, ConfigMap, Config!TypeOK
<1>2. Config!TornStaysTorn
  BY DEF ConfigIInv, ConfigDead, Config!TornStaysTorn
<1>3. Config!FilesSayWhatWasSaid
  <2>1. SUFFICES ASSUME NEW f \in Config!File, f \notin died \cup clash,
        setFile[f] \notin {Absent, Torn},
                        \A p \in Config!Process : ~Config!At(p, "fill", f)
                 PROVE  setFile[f] = Config!Over(ConfigStart(f), said[f])
    BY DEF Config!FilesSayWhatWasSaid, ConfigStart
  <2>2. CASE f = "env"
    <3>1. setFile[f] = said[f] /\ said[f] \in [Secret -> ConfigValue]
      BY <2>1, <2>2 DEF ConfigIInv, ConfigFiles, ConfigWhole, ConfigTypes, ConfigMap
    <3>2. said[f] = Config!Over(Config!NoSecrets, said[f])
      BY <3>1 DEF Config!Over, Config!NoSecrets
    <3> QED BY <2>2, <3>1, <3>2 DEF ConfigStart
  <2>3. CASE f # "env"
    BY <2>1, <2>3 DEF ConfigIInv, ConfigFiles, ConfigSays
  <2> QED BY <2>2, <2>3
<1> QED BY <1>1, <1>2, <1>3 DEF ConfigIInv, Config!SettingsSound

LEMMA ConfigSound == ASSUME ConfigApart PROVE Config!Spec => []Config!SettingsSound
<1>1. Config!Init => ConfigIInv
  BY ConfigInitInv
<1>2. ConfigIInv /\ [Config!Next]_(Config!vars) => ConfigIInv'
  BY ConfigStepInv
<1>3. ConfigIInv => Config!SettingsSound
  BY ConfigIInvSound
<1> QED BY <1>1, <1>2, <1>3, PTL DEF Config!Spec

(* The composition runs the settings as it is specified: the other parts   *)
(* leave its variables alone.                                              *)
LEMMA ConfigRuns == Spec => Config!Spec
<1>1. Init => Config!Init
  BY DEF Init
<1>2. [Next]_vars => [Config!Next]_(Config!vars)
  BY DEF Next, vars, configVars, Config!vars, InSession, InRegistry, InSchedule, InLocks,
         InChecks, InMemory, InMedia, InEdit, InConfig, InGrants
<1> QED BY <1>1, <1>2, PTL DEF Spec, Config!Spec

(* A run that met nobody changing a file goes by what the users had said   *)
(* when it read, whoever died before, and a file that a death left         *)
(* unfinished is never taken for an empty one (config.go).                 *)
THEOREM StorageSettingsSound == Spec => []SettingsSound
<1>1. ConfigApart
  BY StorageAssumption
<1>2. Config!Spec => []Config!SettingsSound
  BY <1>1, ConfigSound
<1> QED BY <1>2, ConfigRuns, PTL DEF SettingsSound

-----------------------------------------------------------------------------
-----------------------------------------------------------------------------
(* No name and no directory twice.                                         *)
RegistryUnique(S) == \A v, w \in S : v.name = w.name \/ v.path = w.path => v = w

(* What is on its way to the file has no entry twice either.               *)
RegistryLists == \A r \in RegRequest : Registry!Busy(r) => RegistryUnique(regList[r])

(* Requests one after the other: one at most is on its way, with the list  *)
(* that its answer will promise; the file is whole or the one is writing.  *)
RegistryAlone == ~regMet =>
    /\ \A r, o \in RegRequest : Registry!Busy(r) /\ Registry!Busy(o) => r = o
    /\ \A r \in RegRequest : Registry!Busy(r) =>
          regList[r] = Registry!Changed(registered, asked[r].adds, asked[r].drops)

RegistryIInv == Registry!TypeOK /\ Registry!EntriesUnique /\ Registry!RegistryKept /\
  RegistryLists /\ RegistryAlone

LEMMA RegistryInitInv == ASSUME RegistryApart, Registry!Init PROVE RegistryIInv
<1>1. Registry!TypeOK
  BY DEF Registry!Init, Registry!TypeOK
<1>2. Registry!EntriesUnique /\ Registry!RegistryKept
  BY DEF Registry!Init, Registry!EntriesUnique, Registry!RegistryKept,
         Registry!LoadWorkspaces
<1>3. RegistryLists /\ RegistryAlone
  BY DEF Registry!Init, RegistryLists, RegistryAlone, Registry!Busy
<1> QED BY <1>1, <1>2, <1>3 DEF RegistryIInv

-----------------------------------------------------------------------------
(* What a request makes of the entries has none twice.                     *)
LEMMA RegistryChangedUnique ==
    ASSUME NEW S \in SUBSET Registry!Entry, RegistryUnique(S), NEW n \in Name, NEW p \in Dir
    PROVE  /\ (~\E w \in S : w.name = n \/ w.path = p)
                  => RegistryUnique(Registry!Changed(S, {[name |-> n, path |-> p]}, {}))
           /\ RegistryUnique(Registry!Changed(S, {}, {n}))
BY DEF RegistryUnique, Registry!Changed, Registry!Entry

LEMMA RegistryChangedType ==
    ASSUME NEW S \in SUBSET Registry!Entry, NEW A \in SUBSET Registry!Entry, NEW D
    PROVE  Registry!Changed(S, A, D) \in SUBSET Registry!Entry
BY DEF Registry!Changed

LEMMA RegistryLoadedType ==
    ASSUME RegistryApart, Registry!TypeOK, Registry!Whole, Registry!EntriesUnique
    PROVE  Registry!LoadWorkspaces \in SUBSET Registry!Entry /\
      RegistryUnique(Registry!LoadWorkspaces)
<1>1. workspaces # NoFile => workspaces \in SUBSET Registry!Entry
  BY DEF Registry!TypeOK, Registry!Whole
<1>2. Registry!LoadWorkspaces \in SUBSET Registry!Entry
  BY <1>1 DEF Registry!LoadWorkspaces
<1>3. \A v, w \in Registry!LoadWorkspaces : v.name = w.name \/ v.path = w.path => v = w
  BY DEF Registry!EntriesUnique
<1> QED BY <1>2, <1>3 DEF RegistryUnique

(* A request that has loaded the list goes on with the one it will write.  *)
LEMMA RegistryKeepInv ==
    ASSUME RegistryApart, RegistryIInv, Registry!Whole, NEW r \in RegRequest, regAt[r] = "new",
           NEW A \in SUBSET Registry!Entry, NEW D \in SUBSET Name, Registry!Keep(r, A, D),
           RegistryUnique(Registry!Changed(Registry!LoadWorkspaces, A, D))
    PROVE  RegistryIInv'
<1>1. Registry!LoadWorkspaces \in SUBSET Registry!Entry /\
      Registry!Changed(Registry!LoadWorkspaces, A, D) \in SUBSET Registry!Entry
  BY RegistryLoadedType, RegistryChangedType DEF RegistryIInv
<1>2. /\ regAt' = [regAt EXCEPT ![r] = "loaded"]
      /\ regList' = [regList EXCEPT ![r] = Registry!Changed(Registry!LoadWorkspaces, A, D)]
      /\ asked' = [asked EXCEPT ![r] = [adds |-> A, drops |-> D]]
      /\ regMet' = (regMet \/ \E o \in RegRequest : Registry!Busy(o))
      /\ UNCHANGED <<workspaces, registered>>
  BY DEF Registry!Keep
<1>3. Registry!TypeOK'
  BY <1>1, <1>2 DEF RegistryIInv, Registry!TypeOK
<1>4. (Registry!EntriesUnique /\ Registry!RegistryKept)'
  BY <1>2
     DEF RegistryIInv, Registry!EntriesUnique, Registry!RegistryKept, Registry!Whole,
         Registry!LoadWorkspaces
<1>5. RegistryLists'
  BY <1>2 DEF RegistryIInv, Registry!TypeOK, RegistryLists, Registry!Busy, RegistryUnique
<1>6. RegistryAlone'
  <2> SUFFICES ASSUME ~regMet' PROVE RegistryAlone'
    BY DEF RegistryAlone
  <2>1. ~regMet /\ \A o \in RegRequest : ~Registry!Busy(o)
    BY <1>2 DEF RegistryIInv, Registry!TypeOK
  <2>2. Registry!LoadWorkspaces = registered
    BY <2>1 DEF RegistryIInv, Registry!RegistryKept
  <2>3. \A o \in RegRequest : Registry!Busy(o)' => o = r
    BY <1>2, <2>1 DEF RegistryIInv, Registry!TypeOK, Registry!Busy
  <2>4. regList'[r] = Registry!Changed(registered', asked'[r].adds, asked'[r].drops)
    BY <1>2, <2>2 DEF RegistryIInv, Registry!TypeOK, Registry!Changed
  <2> QED BY <2>3, <2>4 DEF RegistryAlone
<1> QED BY <1>3, <1>4, <1>5, <1>6 DEF RegistryIInv

LEMMA RegistryRefuseInv == ASSUME RegistryIInv, NEW r \in RegRequest, Registry!Refuse(r)
    PROVE RegistryIInv'
BY DEF RegistryIInv, Registry!Refuse, Registry!TypeOK, Registry!EntriesUnique,
       Registry!RegistryKept, RegistryLists, RegistryAlone, RegistryUnique, Registry!Whole,
       Registry!LoadWorkspaces, Registry!Busy, Registry!Changed

LEMMA RegistrySaveInv ==
    ASSUME RegistryApart, RegistryIInv, NEW r \in RegRequest, Registry!SaveWorkspaces(r)
      PROVE RegistryIInv'
<1>1. /\ regAt[r] = "opened" /\ regAt' = [regAt EXCEPT ![r] = "done"]
      /\ workspaces' \in {regList[r], Torn}
      /\ registered' = Registry!Changed(registered, asked[r].adds, asked[r].drops)
      /\ UNCHANGED <<regList, asked, regMet>>
  BY DEF Registry!SaveWorkspaces
<1>2. registered' \subseteq Registry!Entry /\ regList[r] \in SUBSET Registry!Entry /\
      RegistryUnique(regList[r])
  BY <1>1, RegistryChangedType
     DEF RegistryIInv, Registry!TypeOK, RegistryLists, Registry!Busy
<1>3. Registry!TypeOK'
  BY <1>1, <1>2 DEF RegistryIInv, Registry!TypeOK
<1>4. Registry!EntriesUnique'
  BY <1>1, <1>2
     DEF RegistryApart, Registry!EntriesUnique, Registry!Whole, Registry!LoadWorkspaces,
         RegistryUnique
<1>5. Registry!RegistryKept'
  <2> SUFFICES ASSUME ~regMet', Registry!Whole' PROVE Registry!LoadWorkspaces' = registered'
    BY DEF Registry!RegistryKept
  <2>1. workspaces' = regList[r]
    BY <1>1 DEF Registry!Whole
  <2>2. Registry!LoadWorkspaces' = regList[r]
    BY <1>2, <2>1 DEF RegistryApart, Registry!LoadWorkspaces
  <2>3. regList[r] = registered'
    BY <1>1 DEF RegistryIInv, RegistryAlone, Registry!Busy
  <2> QED BY <2>2, <2>3
<1>6. RegistryLists'
  BY <1>1 DEF RegistryIInv, Registry!TypeOK, RegistryLists, Registry!Busy, RegistryUnique
<1>7. RegistryAlone'
  <2>1. ~regMet => \A o \in RegRequest : ~Registry!Busy(o)'
    BY <1>1 DEF RegistryIInv, Registry!TypeOK, RegistryAlone, Registry!Busy
  <2> QED BY <1>1, <2>1 DEF RegistryAlone
<1> QED BY <1>3, <1>4, <1>5, <1>6, <1>7 DEF RegistryIInv

LEMMA RegistryStepInv == ASSUME RegistryApart, RegistryIInv, [Registry!Next]_(Registry!vars)
    PROVE RegistryIInv'
<1>1. ASSUME NEW r \in RegRequest, NEW n \in Name, NEW p \in Dir, Registry!AddWorkspace(r, n, p)
      PROVE  RegistryIInv'
  <2>1. CASE Registry!Refuse(r)
    BY <2>1, RegistryRefuseInv
  <2>2. CASE /\ regAt[r] = "new" /\ Registry!Whole /\
                ~\E w \in Registry!LoadWorkspaces : w.name = n \/ w.path = p
             /\ Registry!Keep(r, {[name |-> n, path |-> p]}, {})
    <3>1. RegistryUnique(Registry!Changed(Registry!LoadWorkspaces,
          {[name |-> n, path |-> p]}, {}))
      BY <2>2, RegistryLoadedType, RegistryChangedUnique DEF RegistryIInv
    <3>2. {[name |-> n, path |-> p]} \in SUBSET Registry!Entry
      BY DEF Registry!Entry
    <3> QED BY <2>2, <3>1, <3>2, RegistryKeepInv
  <2> QED BY <1>1, <2>1, <2>2 DEF Registry!AddWorkspace
<1>2. ASSUME NEW r \in RegRequest, NEW n \in Name, Registry!RemoveWorkspace(r, n)
      PROVE RegistryIInv'
  <2>1. CASE Registry!Refuse(r)
    BY <2>1, RegistryRefuseInv
  <2>2. CASE regAt[r] = "new" /\ Registry!Whole /\
        (\E w \in Registry!LoadWorkspaces : w.name = n) /\ Registry!Keep(r, {}, {n})
    <3>1. RegistryUnique(Registry!Changed(Registry!LoadWorkspaces, {}, {n}))
      <4>1. PICK w \in Registry!LoadWorkspaces : w.name = n
        BY <2>2
      <4>2. w.path \in Dir
        BY <2>2, <4>1, RegistryLoadedType DEF RegistryIInv, Registry!Entry
      <4> QED BY <2>2, <4>2, RegistryLoadedType, RegistryChangedUnique DEF RegistryIInv
    <3> QED BY <2>2, <3>1, RegistryKeepInv
  <2> QED BY <1>2, <2>1, <2>2 DEF Registry!RemoveWorkspace
<1>3. ASSUME NEW r \in RegRequest, Registry!Truncate(r) PROVE RegistryIInv'
  <2>1. regAt[r] = "loaded" /\ regAt' = [regAt EXCEPT ![r] = "opened"] /\ workspaces' = Empty
        /\ UNCHANGED <<regList, asked, registered, regMet>>
    BY <1>3 DEF Registry!Truncate
  <2>2. Registry!TypeOK'
    BY <2>1 DEF RegistryIInv, Registry!TypeOK
  <2>3. (Registry!EntriesUnique /\ Registry!RegistryKept)'
    BY <2>1 DEF Registry!EntriesUnique, Registry!RegistryKept, Registry!Whole
  <2>4. RegistryLists' /\ RegistryAlone'
    BY <2>1
       DEF RegistryIInv, Registry!TypeOK, RegistryLists, RegistryAlone, Registry!Busy,
           RegistryUnique, Registry!Changed
  <2> QED BY <2>2, <2>3, <2>4 DEF RegistryIInv
<1>4. ASSUME NEW r \in RegRequest, Registry!SaveWorkspaces(r) PROVE RegistryIInv'
  BY <1>4, RegistrySaveInv
<1>5. ASSUME NEW r \in RegRequest, Registry!SaveFails(r) PROVE RegistryIInv'
  <2>1. regAt' = [regAt EXCEPT ![r] = "refused"] /\ workspaces' \in {workspaces, Torn}
        /\ UNCHANGED <<regList, asked, registered, regMet>>
    BY <1>5 DEF Registry!SaveFails
  <2>2. Registry!TypeOK'
    BY <2>1 DEF RegistryIInv, Registry!TypeOK
  <2>3. (Registry!EntriesUnique /\ Registry!RegistryKept)'
    BY <2>1
       DEF RegistryIInv, Registry!EntriesUnique, Registry!RegistryKept, Registry!Whole,
           Registry!LoadWorkspaces
  <2>4. RegistryLists' /\ RegistryAlone'
    BY <2>1
       DEF RegistryIInv, Registry!TypeOK, RegistryLists, RegistryAlone, Registry!Busy,
           RegistryUnique, Registry!Changed
  <2> QED BY <2>2, <2>3, <2>4 DEF RegistryIInv
<1>6. CASE UNCHANGED Registry!vars
  BY <1>6
     DEF Registry!vars, RegistryIInv, Registry!TypeOK, Registry!EntriesUnique,
         Registry!RegistryKept, RegistryLists, RegistryAlone, RegistryUnique,
         Registry!Whole, Registry!LoadWorkspaces, Registry!Busy, Registry!Changed
<1> QED BY <1>1, <1>2, <1>3, <1>4, <1>5, <1>6 DEF Registry!Next

LEMMA RegistrySound == ASSUME RegistryApart PROVE Registry!Spec => []Registry!RegistrySound
<1>1. Registry!Init => RegistryIInv
  BY RegistryInitInv
<1>2. RegistryIInv /\ [Registry!Next]_(Registry!vars) => RegistryIInv'
  BY RegistryStepInv
<1>3. RegistryIInv => Registry!RegistrySound
  BY DEF RegistryIInv, Registry!RegistrySound
<1> QED BY <1>1, <1>2, <1>3, PTL DEF Registry!Spec

(* The composition runs the registry of workspaces as it is specified: the *)
(* other parts leave its variables alone.                                  *)
LEMMA RegistryRuns == Spec => Registry!Spec
<1>1. Init => Registry!Init
  BY DEF Init
<1>2. [Next]_vars => [Registry!Next]_(Registry!vars)
  BY DEF Next, vars, registryVars, Registry!vars, InSession, InRegistry, InSchedule,
         InLocks, InChecks, InMemory, InMedia, InEdit, InConfig, InGrants
<1> QED BY <1>1, <1>2, PTL DEF Spec, Registry!Spec

-----------------------------------------------------------------------------
-----------------------------------------------------------------------------
(* A request that has begun has a task of its own choice.                  *)
ScheduleChosen == \A r \in JobRequest : jobAt[r] # "new" => target[r] \in Task

(* What was deleted was some request's task: its id is not made again.     *)
ScheduleGoneTargets == \A t \in gone : \E r \in JobRequest : target[r] = t /\ jobAt[r] = "done"

(* Requests one after the other: where the one that is on its way stands   *)
(* tells what the file and the scheduler have.                             *)
ScheduleOne == \A r, o \in JobRequest : Schedule!Busy(r) /\ Schedule!Busy(o) => r = o
ScheduleLoaded(r) == jobAt[r] = "loaded" =>
    Schedule!Whole /\ jobList[r] = Schedule!loadTasks /\ entries \ half = jobList[r] \ half
ScheduleScheduled(r) == jobAt[r] = "scheduled" =>
    /\ entries \ half = jobList[r] \ half
    /\ Schedule!Whole => (Schedule!loadTasks \ half) \ {target[r]} = (entries \ half) \ {target[r]}
ScheduleOpened(r) == jobAt[r] = "opened" => tasks = Empty /\ entries \ half = jobList[r] \ half
ScheduleTarget(r) == Schedule!Busy(r) =>
    /\ jobList[r] \cap gone = {}
    /\ wants[r] # "none"
    /\ wants[r] = "post" => target[r] \notin gone
    /\ wants[r] = "run" => target[r] \in jobList[r]
    /\ wants[r] = "delete" /\ jobAt[r] # "loaded" => target[r] \notin jobList[r] \cup entries
    /\ wants[r] = "run" => jobAt[r] = "loaded"
ScheduleAlone == ~jobMet => ScheduleOne /\ \A r \in JobRequest : ScheduleLoaded(r) /\
  ScheduleScheduled(r) /\ ScheduleOpened(r) /\ ScheduleTarget(r)

ScheduleIInv == Schedule!TypeOK /\ Schedule!JobsMatchTasks /\
  Schedule!DeletedStaysDeleted /\ ScheduleChosen /\ ScheduleGoneTargets /\ ScheduleAlone
LEMMA ScheduleInitInv == ASSUME ScheduleApart, Schedule!Init PROVE ScheduleIInv
<1>1. Schedule!TypeOK
  <2>1. jobRestarts \in 0..MaxRestarts
    BY DEF ScheduleApart, Schedule!Init
  <2>2. jobList \in [JobRequest -> SUBSET Task]
    BY DEF Schedule!Init
  <2>3. gone \subseteq Task /\ ghosts \subseteq Task /\ half \subseteq Task /\
        entries \subseteq Task
    BY DEF Schedule!Init
  <2> QED BY <2>1, <2>2, <2>3 DEF Schedule!Init, Schedule!TypeOK
<1>2. Schedule!JobsMatchTasks /\ Schedule!DeletedStaysDeleted
  BY DEF Schedule!Init, Schedule!JobsMatchTasks, Schedule!DeletedStaysDeleted,
         Schedule!loadTasks
<1>3. ScheduleChosen /\ ScheduleGoneTargets /\ ScheduleAlone
  BY DEF Schedule!Init, ScheduleChosen, ScheduleGoneTargets, ScheduleAlone, ScheduleOne,
         ScheduleLoaded, ScheduleScheduled, ScheduleOpened, ScheduleTarget, Schedule!Busy
<1> QED BY <1>1, <1>2, <1>3 DEF ScheduleIInv

-----------------------------------------------------------------------------
(* A request that loads the list: none was on its way, or two have met.    *)
LEMMA ScheduleLoadInv ==
    ASSUME ScheduleApart, ScheduleIInv, NEW r \in JobRequest,
      NEW op \in {"post", "delete", "run"}, NEW t \in Task,
           NEW found \in BOOLEAN, Schedule!Load(r, op, t, found),
           op = "post" => Schedule!NewTask(t),
           op # "post" => (found <=> t \in Schedule!loadTasks)
    PROVE  ScheduleIInv'
<1>1. /\ jobAt[r] = "new"
      /\ jobAt' = [jobAt EXCEPT ![r] = IF Schedule!Whole /\ found THEN "loaded" ELSE "refused"]
      /\ jobList' = [jobList EXCEPT ![r] = IF Schedule!Whole THEN Schedule!loadTasks ELSE {}]
      /\ wants' = [wants EXCEPT ![r] = op] /\ target' = [target EXCEPT ![r] = t]
      /\ jobMet' = (jobMet \/ (Schedule!Whole /\ found /\
         \E o \in JobRequest : Schedule!Busy(o)))
      /\ UNCHANGED <<tasks, entries, jobRestarts, gone, ghosts, half>>
  BY DEF Schedule!Load
<1>2. Schedule!Whole => Schedule!loadTasks \in SUBSET Task
  BY DEF ScheduleIInv, Schedule!TypeOK, Schedule!Whole, Schedule!loadTasks
<1>3. (Schedule!Whole <=> Schedule!Whole') /\ Schedule!loadTasks' = Schedule!loadTasks
  BY <1>1 DEF Schedule!Whole, Schedule!loadTasks
<1>4. \A o \in JobRequest : o # r => (Schedule!Busy(o)' <=> Schedule!Busy(o))
  BY <1>1 DEF ScheduleIInv, Schedule!TypeOK, Schedule!Busy
<1>5. ~Schedule!Busy(r) /\ (Schedule!Busy(r)' <=> Schedule!Whole /\ found)
  BY <1>1 DEF ScheduleIInv, Schedule!TypeOK, Schedule!Busy
<1>6. Schedule!TypeOK'
  BY <1>1, <1>2 DEF ScheduleIInv, Schedule!TypeOK
<1>7. Schedule!JobsMatchTasks'
  BY <1>1, <1>3, <1>4, <1>5 DEF ScheduleIInv, Schedule!JobsMatchTasks
<1>8. Schedule!DeletedStaysDeleted'
  BY <1>1, <1>3 DEF ScheduleIInv, Schedule!DeletedStaysDeleted
<1>9. ScheduleChosen' /\ ScheduleGoneTargets'
  BY <1>1 DEF ScheduleIInv, Schedule!TypeOK, ScheduleChosen, ScheduleGoneTargets
<1>10. ScheduleAlone'
  <2> SUFFICES ASSUME ~jobMet'
               PROVE  ScheduleOne' /\ \A o \in JobRequest : (ScheduleLoaded(o) /\
                 ScheduleScheduled(o) /\ ScheduleOpened(o) /\ ScheduleTarget(o))'
    BY DEF ScheduleAlone
  <2>1. ~jobMet /\ (Schedule!Whole /\ found => \A o \in JobRequest : ~Schedule!Busy(o))
    BY <1>1
  <2>2. CASE Schedule!Whole /\ found
    <3>1. \A o \in JobRequest : Schedule!Busy(o)' => o = r
      BY <1>4, <2>1, <2>2
    <3>2. jobList'[r] = Schedule!loadTasks /\ jobAt'[r] = "loaded" /\ wants'[r] = op /\
          target'[r] = t
      BY <1>1, <2>2 DEF ScheduleIInv, Schedule!TypeOK
    <3>3. entries \ half = Schedule!loadTasks \ half /\ gone \cap Schedule!loadTasks = {}
      BY <2>1, <2>2 DEF ScheduleIInv, Schedule!JobsMatchTasks, Schedule!DeletedStaysDeleted
    <3>4. op = "post" => t \notin gone
      BY DEF ScheduleIInv, ScheduleGoneTargets, Schedule!NewTask
    <3>5. ScheduleLoaded(r)' /\ ScheduleTarget(r)'
      BY <1>1, <1>3, <2>2, <3>2, <3>3, <3>4
         DEF ScheduleLoaded, ScheduleTarget, Schedule!Busy
    <3> QED BY <3>1, <3>2, <3>5
               DEF ScheduleOne, ScheduleLoaded, ScheduleScheduled, ScheduleOpened,
                   ScheduleTarget, Schedule!Busy
  <2>3. CASE ~(Schedule!Whole /\ found)
    <3>1. ~Schedule!Busy(r)' /\ jobAt'[r] = "refused"
      BY <1>1, <2>3 DEF ScheduleIInv, Schedule!TypeOK, Schedule!Busy
    <3>2. \A o \in JobRequest : o # r => /\ jobAt'[o] = jobAt[o] /\ jobList'[o] = jobList[o]
                                         /\ wants'[o] = wants[o] /\ target'[o] = target[o]
      BY <1>1 DEF ScheduleIInv, Schedule!TypeOK
    <3>3. ScheduleOne'
      BY <1>4, <2>1, <3>1 DEF ScheduleIInv, ScheduleAlone, ScheduleOne
    <3>4. ASSUME NEW o \in JobRequest
          PROVE  (ScheduleLoaded(o) /\ ScheduleScheduled(o) /\ ScheduleOpened(o) /\
            ScheduleTarget(o))'
      <4>1. CASE o = r
        BY <3>1, <4>1 DEF ScheduleLoaded, ScheduleScheduled, ScheduleOpened, ScheduleTarget
      <4>2. CASE o # r
        BY <1>1, <1>3, <2>1, <3>2, <4>2
           DEF ScheduleIInv, ScheduleAlone, ScheduleLoaded, ScheduleScheduled,
               ScheduleOpened, ScheduleTarget, Schedule!Busy
      <4> QED BY <4>1, <4>2
    <3> QED BY <3>3, <3>4
  <2> QED BY <2>2, <2>3
<1> QED BY <1>6, <1>7, <1>8, <1>9, <1>10 DEF ScheduleIInv

LEMMA ScheduleStepInv == ASSUME ScheduleApart, ScheduleIInv, [Schedule!Next]_(Schedule!vars)
    PROVE ScheduleIInv'
<1>1. ASSUME NEW r \in JobRequest, NEW t \in Task,
             Schedule!handlePostSchedule(r, t) \/ Schedule!handleDeleteSchedule(r, t) \/
               Schedule!handleRunSchedule(r, t)
      PROVE  ScheduleIInv'
  <2>1. CASE Schedule!handlePostSchedule(r, t)
    BY <2>1, ScheduleLoadInv DEF Schedule!handlePostSchedule
  <2>2. CASE Schedule!handleDeleteSchedule(r, t)
    <3>1. Schedule!Load(r, "delete", t, t \in Schedule!loadTasks) /\
          (t \in Schedule!loadTasks) \in BOOLEAN
      BY <2>2 DEF Schedule!handleDeleteSchedule
    <3> QED BY <3>1, ScheduleLoadInv, Zenon
  <2>3. CASE Schedule!handleRunSchedule(r, t)
    <3>1. Schedule!Load(r, "run", t, t \in Schedule!loadTasks) /\
          (t \in Schedule!loadTasks) \in BOOLEAN
      BY <2>3 DEF Schedule!handleRunSchedule
    <3> QED BY <3>1, ScheduleLoadInv, Zenon
  <2> QED BY <1>1, <2>1, <2>2, <2>3
<1>2. ASSUME NEW r \in JobRequest, Schedule!AddJob(r) PROVE ScheduleIInv'
  <2>1. /\ jobAt[r] = "loaded" /\ wants[r] = "post"
        /\ \/ /\ entries' = entries \cup {target[r]} /\
                 jobAt' = [jobAt EXCEPT ![r] = "scheduled"]
              /\ jobList' = [jobList EXCEPT ![r] = jobList[r] \cup {target[r]}]
           \/ jobAt' = [jobAt EXCEPT ![r] = "refused"] /\ UNCHANGED <<entries, jobList>>
        /\ UNCHANGED <<tasks, wants, target, jobRestarts, gone, ghosts, half, jobMet>>
    BY <1>2 DEF Schedule!AddJob
  <2>2. target[r] \in Task
    BY <2>1 DEF ScheduleIInv, ScheduleChosen
  <2>3. Schedule!TypeOK'
    BY <2>1, <2>2 DEF ScheduleApart, ScheduleIInv, Schedule!TypeOK
  <2>4. Schedule!JobsMatchTasks'
    BY <2>1, <2>2
       DEF ScheduleApart, ScheduleIInv, Schedule!TypeOK, Schedule!JobsMatchTasks,
           Schedule!Whole, Schedule!loadTasks, Schedule!Busy, ScheduleAlone, ScheduleOne,
           ScheduleLoaded, ScheduleScheduled, ScheduleOpened
  <2>5. Schedule!DeletedStaysDeleted'
    BY <2>1, <2>2
       DEF ScheduleApart, ScheduleIInv, Schedule!TypeOK, Schedule!DeletedStaysDeleted,
           Schedule!Whole, Schedule!loadTasks, Schedule!Busy, ScheduleAlone, ScheduleOne,
           ScheduleLoaded, ScheduleOpened, ScheduleTarget
  <2>6. ScheduleChosen'
    BY <2>1, <2>2 DEF ScheduleApart, ScheduleIInv, Schedule!TypeOK, ScheduleChosen
  <2>7. ScheduleGoneTargets'
    BY <2>1, <2>2 DEF ScheduleApart, ScheduleIInv, Schedule!TypeOK, ScheduleGoneTargets
  <2>8. ScheduleAlone'
    BY <2>1, <2>2
       DEF ScheduleApart, ScheduleIInv, Schedule!TypeOK, Schedule!JobsMatchTasks,
           Schedule!DeletedStaysDeleted, ScheduleAlone, ScheduleOne, ScheduleLoaded,
           ScheduleScheduled, ScheduleOpened, ScheduleTarget, Schedule!Whole,
           Schedule!loadTasks, Schedule!Busy
  <2> QED BY <2>3, <2>4, <2>5, <2>6, <2>7, <2>8 DEF ScheduleIInv
<1>3. ASSUME NEW r \in JobRequest, Schedule!RemoveJob(r) PROVE ScheduleIInv'
  <2>1. /\ jobAt[r] = "loaded" /\ wants[r] = "delete"
        /\ entries' = entries \ {target[r]} /\ jobAt' = [jobAt EXCEPT ![r] = "scheduled"]
        /\ jobList' = [jobList EXCEPT ![r] = jobList[r] \ {target[r]}]
        /\ UNCHANGED <<tasks, wants, target, jobRestarts, gone, ghosts, half, jobMet>>
    BY <1>3 DEF Schedule!RemoveJob
  <2>2. target[r] \in Task
    BY <2>1 DEF ScheduleIInv, ScheduleChosen
  <2>3. Schedule!TypeOK'
    BY <2>1, <2>2 DEF ScheduleApart, ScheduleIInv, Schedule!TypeOK
  <2>4. Schedule!JobsMatchTasks'
    BY <2>1, <2>2
       DEF ScheduleApart, ScheduleIInv, Schedule!TypeOK, Schedule!JobsMatchTasks,
           Schedule!Whole, Schedule!loadTasks, Schedule!Busy, ScheduleAlone, ScheduleOne,
           ScheduleLoaded, ScheduleScheduled, ScheduleOpened
  <2>5. Schedule!DeletedStaysDeleted'
    BY <2>1, <2>2
       DEF ScheduleApart, ScheduleIInv, Schedule!TypeOK, Schedule!DeletedStaysDeleted,
           Schedule!Whole, Schedule!loadTasks, Schedule!Busy, ScheduleAlone, ScheduleOne,
           ScheduleLoaded, ScheduleOpened, ScheduleTarget
  <2>6. ScheduleChosen'
    BY <2>1, <2>2 DEF ScheduleApart, ScheduleIInv, Schedule!TypeOK, ScheduleChosen
  <2>7. ScheduleGoneTargets'
    BY <2>1, <2>2 DEF ScheduleApart, ScheduleIInv, Schedule!TypeOK, ScheduleGoneTargets
  <2>8. ScheduleAlone'
    BY <2>1, <2>2
       DEF ScheduleApart, ScheduleIInv, Schedule!TypeOK, Schedule!JobsMatchTasks,
           Schedule!DeletedStaysDeleted, ScheduleAlone, ScheduleOne, ScheduleLoaded,
           ScheduleScheduled, ScheduleOpened, ScheduleTarget, Schedule!Whole,
           Schedule!loadTasks, Schedule!Busy
  <2> QED BY <2>3, <2>4, <2>5, <2>6, <2>7, <2>8 DEF ScheduleIInv
<1>4. ASSUME NEW r \in JobRequest, Schedule!Truncate(r) PROVE ScheduleIInv'
  <2>1. /\ jobAt[r] = "scheduled" /\ jobAt' = [jobAt EXCEPT ![r] = "opened"] /\ tasks' = Empty
        /\ UNCHANGED <<entries, jobList, wants, target, jobRestarts, gone, ghosts, half,
           jobMet>>
    BY <1>4 DEF Schedule!Truncate
  <2>2. Schedule!TypeOK'
    BY <2>1 DEF ScheduleApart, ScheduleIInv, Schedule!TypeOK
  <2>3. Schedule!JobsMatchTasks'
    BY <2>1
       DEF ScheduleApart, ScheduleIInv, Schedule!TypeOK, Schedule!JobsMatchTasks,
           Schedule!Whole, Schedule!loadTasks, Schedule!Busy, ScheduleAlone, ScheduleOne,
           ScheduleLoaded, ScheduleScheduled, ScheduleOpened
  <2>4. Schedule!DeletedStaysDeleted'
    BY <2>1
       DEF ScheduleApart, ScheduleIInv, Schedule!TypeOK, Schedule!DeletedStaysDeleted,
           Schedule!Whole, Schedule!loadTasks, Schedule!Busy, ScheduleAlone, ScheduleOne,
           ScheduleLoaded, ScheduleOpened, ScheduleTarget
  <2>5. ScheduleChosen'
    BY <2>1 DEF ScheduleApart, ScheduleIInv, Schedule!TypeOK, ScheduleChosen
  <2>6. ScheduleGoneTargets'
    BY <2>1 DEF ScheduleApart, ScheduleIInv, Schedule!TypeOK, ScheduleGoneTargets
  <2>7. ScheduleAlone'
    BY <2>1
       DEF ScheduleApart, ScheduleIInv, Schedule!TypeOK, Schedule!JobsMatchTasks,
           Schedule!DeletedStaysDeleted, ScheduleAlone, ScheduleOne, ScheduleLoaded,
           ScheduleScheduled, ScheduleOpened, ScheduleTarget, Schedule!Whole,
           Schedule!loadTasks, Schedule!Busy
  <2> QED BY <2>2, <2>3, <2>4, <2>5, <2>6, <2>7 DEF ScheduleIInv
<1>5. ASSUME NEW r \in JobRequest, Schedule!saveTasks(r) PROVE ScheduleIInv'
  <2>1. /\ jobAt[r] = "opened" /\ jobAt' = [jobAt EXCEPT ![r] = "done"]
        /\ tasks' \in {jobList[r], Torn}
        /\ gone' = IF wants[r] = "delete" THEN gone \cup {target[r]} ELSE gone
        /\ UNCHANGED <<entries, jobList, wants, target, jobRestarts, ghosts, half, jobMet>>
    BY <1>5 DEF Schedule!saveTasks
  <2>2. target[r] \in Task
    BY <2>1 DEF ScheduleIInv, ScheduleChosen
  <2>3. Schedule!TypeOK'
    BY <2>1, <2>2 DEF ScheduleApart, ScheduleIInv, Schedule!TypeOK
  <2>4. Schedule!JobsMatchTasks'
    BY <2>1, <2>2
       DEF ScheduleApart, ScheduleIInv, Schedule!TypeOK, Schedule!JobsMatchTasks,
           Schedule!Whole, Schedule!loadTasks, Schedule!Busy, ScheduleAlone, ScheduleOne,
           ScheduleLoaded, ScheduleScheduled, ScheduleOpened
  <2>5. Schedule!DeletedStaysDeleted'
    BY <2>1, <2>2
       DEF ScheduleApart, ScheduleIInv, Schedule!TypeOK, Schedule!DeletedStaysDeleted,
           Schedule!Whole, Schedule!loadTasks, Schedule!Busy, ScheduleAlone, ScheduleOne,
           ScheduleLoaded, ScheduleOpened, ScheduleTarget
  <2>6. ScheduleChosen'
    BY <2>1, <2>2 DEF ScheduleApart, ScheduleIInv, Schedule!TypeOK, ScheduleChosen
  <2>7. ScheduleGoneTargets'
    BY <2>1, <2>2 DEF ScheduleApart, ScheduleIInv, Schedule!TypeOK, ScheduleGoneTargets
  <2>8. ScheduleAlone'
    BY <2>1, <2>2
       DEF ScheduleApart, ScheduleIInv, Schedule!TypeOK, Schedule!JobsMatchTasks,
           Schedule!DeletedStaysDeleted, ScheduleAlone, ScheduleOne, ScheduleLoaded,
           ScheduleScheduled, ScheduleOpened, ScheduleTarget, Schedule!Whole,
           Schedule!loadTasks, Schedule!Busy
  <2> QED BY <2>3, <2>4, <2>5, <2>6, <2>7, <2>8 DEF ScheduleIInv
<1>6. ASSUME NEW r \in JobRequest, Schedule!SaveFails(r) PROVE ScheduleIInv'
  <2>1. /\ jobAt[r] \in {"scheduled", "opened"} /\ jobAt' = [jobAt EXCEPT ![r] = "refused"]
        /\ tasks' = IF jobAt[r] = "opened" THEN Torn ELSE tasks
        /\ half' = half \cup {target[r]}
        /\ UNCHANGED <<entries, jobList, wants, target, jobRestarts, gone, ghosts, jobMet>>
    BY <1>6 DEF Schedule!SaveFails
  <2>2. target[r] \in Task
    BY <2>1 DEF ScheduleIInv, ScheduleChosen
  <2>3. Schedule!TypeOK'
    BY <2>1, <2>2 DEF ScheduleApart, ScheduleIInv, Schedule!TypeOK
  <2>4. Schedule!JobsMatchTasks'
    BY <2>1, <2>2
       DEF ScheduleApart, ScheduleIInv, Schedule!TypeOK, Schedule!JobsMatchTasks,
           Schedule!Whole, Schedule!loadTasks, Schedule!Busy, ScheduleAlone, ScheduleOne,
           ScheduleLoaded, ScheduleScheduled, ScheduleOpened
  <2>5. Schedule!DeletedStaysDeleted'
    BY <2>1, <2>2
       DEF ScheduleApart, ScheduleIInv, Schedule!TypeOK, Schedule!DeletedStaysDeleted,
           Schedule!Whole, Schedule!loadTasks, Schedule!Busy, ScheduleAlone, ScheduleOne,
           ScheduleLoaded, ScheduleOpened, ScheduleTarget
  <2>6. ScheduleChosen'
    BY <2>1, <2>2 DEF ScheduleApart, ScheduleIInv, Schedule!TypeOK, ScheduleChosen
  <2>7. ScheduleGoneTargets'
    BY <2>1, <2>2 DEF ScheduleApart, ScheduleIInv, Schedule!TypeOK, ScheduleGoneTargets
  <2>8. ScheduleAlone'
    BY <2>1, <2>2
       DEF ScheduleApart, ScheduleIInv, Schedule!TypeOK, Schedule!JobsMatchTasks,
           Schedule!DeletedStaysDeleted, ScheduleAlone, ScheduleOne, ScheduleLoaded,
           ScheduleScheduled, ScheduleOpened, ScheduleTarget, Schedule!Whole,
           Schedule!loadTasks, Schedule!Busy
  <2> QED BY <2>3, <2>4, <2>5, <2>6, <2>7, <2>8 DEF ScheduleIInv
<1>7. ASSUME NEW r \in JobRequest, Schedule!triggerScheduledTask(r) PROVE ScheduleIInv'
  <2>1. /\ jobAt[r] = "loaded" /\ wants[r] = "run" /\ jobAt' = [jobAt EXCEPT ![r] = "done"]
        /\ ghosts' = ghosts \cup ({target[r]} \cap gone)
        /\ UNCHANGED <<tasks, entries, jobList, wants, target, jobRestarts, gone, half, jobMet>>
    BY <1>7 DEF Schedule!triggerScheduledTask, Schedule!Started
  <2>2. Schedule!TypeOK'
    BY <2>1 DEF ScheduleApart, ScheduleIInv, Schedule!TypeOK
  <2>3. Schedule!JobsMatchTasks'
    BY <2>1
       DEF ScheduleApart, ScheduleIInv, Schedule!TypeOK, Schedule!JobsMatchTasks,
           Schedule!Whole, Schedule!loadTasks, Schedule!Busy, ScheduleAlone, ScheduleOne,
           ScheduleLoaded, ScheduleScheduled, ScheduleOpened
  <2>4. Schedule!DeletedStaysDeleted'
    BY <2>1
       DEF ScheduleApart, ScheduleIInv, Schedule!TypeOK, Schedule!DeletedStaysDeleted,
           Schedule!Whole, Schedule!loadTasks, Schedule!Busy, ScheduleAlone, ScheduleOne,
           ScheduleLoaded, ScheduleOpened, ScheduleTarget
  <2>5. ScheduleChosen'
    BY <2>1 DEF ScheduleApart, ScheduleIInv, Schedule!TypeOK, ScheduleChosen
  <2>6. ScheduleGoneTargets'
    BY <2>1 DEF ScheduleApart, ScheduleIInv, Schedule!TypeOK, ScheduleGoneTargets
  <2>7. ScheduleAlone'
    BY <2>1
       DEF ScheduleApart, ScheduleIInv, Schedule!TypeOK, Schedule!JobsMatchTasks,
           Schedule!DeletedStaysDeleted, ScheduleAlone, ScheduleOne, ScheduleLoaded,
           ScheduleScheduled, ScheduleOpened, ScheduleTarget, Schedule!Whole,
           Schedule!loadTasks, Schedule!Busy
  <2> QED BY <2>2, <2>3, <2>4, <2>5, <2>6, <2>7 DEF ScheduleIInv
<1>8. ASSUME NEW t \in Task, Schedule!Fire(t) PROVE ScheduleIInv'
  <2>1. /\ t \in entries /\ ghosts' = ghosts \cup ({t} \cap gone)
        /\ UNCHANGED <<tasks, entries, jobAt, jobList, wants, target, jobRestarts, gone,
           half, jobMet>>
    BY <1>8 DEF Schedule!Fire, Schedule!Started
  <2>2. Schedule!TypeOK'
    BY <2>1 DEF ScheduleApart, ScheduleIInv, Schedule!TypeOK
  <2>3. Schedule!JobsMatchTasks'
    BY <2>1
       DEF ScheduleApart, ScheduleIInv, Schedule!TypeOK, Schedule!JobsMatchTasks,
           Schedule!Whole, Schedule!loadTasks, Schedule!Busy, ScheduleAlone, ScheduleOne,
           ScheduleLoaded, ScheduleScheduled, ScheduleOpened
  <2>4. Schedule!DeletedStaysDeleted'
    BY <2>1
       DEF ScheduleApart, ScheduleIInv, Schedule!TypeOK, Schedule!DeletedStaysDeleted,
           Schedule!Whole, Schedule!loadTasks, Schedule!Busy, ScheduleAlone, ScheduleOne,
           ScheduleLoaded, ScheduleOpened, ScheduleTarget
  <2>5. ScheduleChosen'
    BY <2>1 DEF ScheduleApart, ScheduleIInv, Schedule!TypeOK, ScheduleChosen
  <2>6. ScheduleGoneTargets'
    BY <2>1 DEF ScheduleApart, ScheduleIInv, Schedule!TypeOK, ScheduleGoneTargets
  <2>7. ScheduleAlone'
    BY <2>1
       DEF ScheduleApart, ScheduleIInv, Schedule!TypeOK, Schedule!JobsMatchTasks,
           Schedule!DeletedStaysDeleted, ScheduleAlone, ScheduleOne, ScheduleLoaded,
           ScheduleScheduled, ScheduleOpened, ScheduleTarget, Schedule!Whole,
           Schedule!loadTasks, Schedule!Busy
  <2> QED BY <2>2, <2>3, <2>4, <2>5, <2>6, <2>7 DEF ScheduleIInv
<1>9. ASSUME Schedule!Restart PROVE ScheduleIInv'
  <2>1. /\ jobRestarts < MaxRestarts /\ jobRestarts' = jobRestarts + 1 /\
           tasks' \in {tasks, Torn}
        /\ entries' = IF tasks' \in {NoFile, Empty, Torn} THEN {} ELSE tasks'
        /\ jobAt' = [r \in JobRequest |-> IF Schedule!Busy(r) THEN "refused" ELSE jobAt[r]]
        /\ half' = {} /\ UNCHANGED <<jobList, wants, target, gone, ghosts, jobMet>>
    BY <1>9 DEF Schedule!Restart
  <2>2. \A r \in JobRequest : ~Schedule!Busy(r)' /\
        (jobAt'[r] # jobAt[r] => jobAt'[r] = "refused" /\ Schedule!Busy(r))
    BY <2>1 DEF Schedule!Busy
  <2>3. Schedule!Whole' => Schedule!Whole /\ entries' = Schedule!loadTasks' /\
        Schedule!loadTasks' = Schedule!loadTasks
    BY <2>1
       DEF ScheduleApart, ScheduleIInv, Schedule!TypeOK, Schedule!Whole, Schedule!loadTasks
  <2>4. Schedule!TypeOK'
    BY <2>1 DEF ScheduleApart, ScheduleIInv, Schedule!TypeOK, Schedule!Busy
  <2>5. Schedule!JobsMatchTasks'
    BY <2>1, <2>3 DEF Schedule!JobsMatchTasks
  <2>6. Schedule!DeletedStaysDeleted'
    BY <2>1, <2>3 DEF ScheduleIInv, Schedule!DeletedStaysDeleted, Schedule!Whole
  <2>7. ScheduleChosen'
    BY <2>1, <2>2 DEF ScheduleIInv, ScheduleChosen, Schedule!Busy
  <2>8. ScheduleGoneTargets'
    BY <2>1 DEF ScheduleIInv, ScheduleGoneTargets, Schedule!Busy
  <2>9. ScheduleAlone'
    BY <2>2
       DEF ScheduleAlone, ScheduleOne, ScheduleLoaded, ScheduleScheduled, ScheduleOpened,
           ScheduleTarget, Schedule!Busy
  <2> QED BY <2>4, <2>5, <2>6, <2>7, <2>8, <2>9 DEF ScheduleIInv
<1>10. CASE UNCHANGED Schedule!vars
  BY <1>10
     DEF Schedule!vars, ScheduleIInv, Schedule!TypeOK, Schedule!JobsMatchTasks,
         Schedule!DeletedStaysDeleted, ScheduleChosen, ScheduleGoneTargets, ScheduleAlone,
         ScheduleOne, ScheduleLoaded, ScheduleScheduled, ScheduleOpened, ScheduleTarget,
         Schedule!Whole, Schedule!loadTasks, Schedule!Busy
<1> QED BY <1>1, <1>2, <1>3, <1>4, <1>5, <1>6, <1>7, <1>8, <1>9, <1>10 DEF Schedule!Next

LEMMA ScheduleSound == ASSUME ScheduleApart PROVE Schedule!Spec => []Schedule!ScheduleSound
<1>1. Schedule!Init => ScheduleIInv
  BY ScheduleInitInv
<1>2. ScheduleIInv /\ [Schedule!Next]_(Schedule!vars) => ScheduleIInv'
  BY ScheduleStepInv
<1>3. ScheduleIInv => Schedule!ScheduleSound
  BY DEF ScheduleIInv, Schedule!ScheduleSound
<1> QED BY <1>1, <1>2, <1>3, PTL DEF Schedule!Spec

(* The composition runs the schedule as it is specified: the other parts   *)
(* leave its variables alone.                                              *)
LEMMA ScheduleRuns == Spec => Schedule!Spec
<1>1. Init => Schedule!Init
  BY DEF Init
<1>2. [Next]_vars => [Schedule!Next]_(Schedule!vars)
  BY DEF Next, vars, scheduleVars, Schedule!vars, InSession, InRegistry, InSchedule,
         InLocks, InChecks, InMemory, InMedia, InEdit, InConfig, InGrants
<1> QED BY <1>1, <1>2, PTL DEF Spec, Schedule!Spec

-----------------------------------------------------------------------------
-----------------------------------------------------------------------------
(* A goroutine that is not over has something to save.                     *)
MemoryOwing == \A w \in Writer : memAt[w] \in {"ready", "copied", "opened"} => left[w] > 0

(* What is on its way to the file is a part of what the run knows.         *)
MemoryCopies == ~sqlite => \A w \in Writer : Memory!Pending(w) =>
  Memory!IsPrefix(memCopy[w], data)

(* No goroutine works in a run without a store; rows are never half written. *)
MemoryIdle == ~enabled => \A w \in Writer : memAt[w] \in {"new", "over"}
MemoryRows == sqlite => memFile \in Seq(Writer) /\ \A w \in Writer : ~Memory!Pending(w)

(* When no two writes overlapped, one goroutine at most is writing, and it *)
(* writes everything into a file that it has emptied itself.               *)
MemoryAlone == ~memMet /\ ~sqlite =>
    /\ \A v, w \in Writer : Memory!Pending(v) /\ Memory!Pending(w) => v = w
    /\ \A w \in Writer : Memory!Pending(w) => memCopy[w] = data
    /\ \A w \in Writer : memAt[w] = "opened" => memFile = Empty

MemoryIInv == Memory!GraphOnDisk /\ MemoryOwing /\ MemoryCopies /\ MemoryIdle /\
  MemoryRows /\ MemoryAlone

-----------------------------------------------------------------------------
LEMMA MemoryPrefixOfAppend ==
    ASSUME NEW S, NEW s \in Seq(S), NEW t \in Seq(S), NEW x \in S, Memory!IsPrefix(s, t)
    PROVE  Memory!IsPrefix(s, Append(t, x))
BY DEF Memory!IsPrefix

LEMMA MemoryPrefixOfItself == ASSUME NEW S, NEW s \in Seq(S) PROVE Memory!IsPrefix(s, s)
BY DEF Memory!IsPrefix

LEMMA MemoryEmptyIsPrefix == ASSUME NEW S, NEW s \in Seq(S) PROVE Memory!IsPrefix(<<>>, s)
BY DEF Memory!IsPrefix

LEMMA MemoryInitInv == ASSUME MemoryApart, MemoryBounds, Memory!Init PROVE MemoryIInv
<1>1. Memory!TypeOK
  <2>1. data \in Seq(Writer) /\ memFile \in Seq(Writer) /\ memCopy \in [Writer -> Seq(Writer)]
    BY DEF Memory!Init
  <2>2. runs \in 1..MaxRuns /\ core \in 0..MaxText /\ left \in [Writer -> 0..MaxFacts]
    BY DEF MemoryBounds, Memory!Init
  <2> QED BY <2>1, <2>2 DEF Memory!Init, Memory!TypeOK
<1>2. Memory!GraphOnDisk
  BY <1>1, MemoryPrefixOfItself DEF Memory!Init, Memory!GraphOnDisk, Memory!TypeOK
<1>3. MemoryOwing /\ MemoryCopies /\ MemoryIdle /\ MemoryRows /\ MemoryAlone
  BY <1>1
     DEF Memory!TypeOK, Memory!Init, MemoryOwing, MemoryCopies, MemoryIdle, MemoryRows,
         MemoryAlone, Memory!Pending
<1> QED BY <1>2, <1>3 DEF MemoryIInv

-----------------------------------------------------------------------------
LEMMA MemoryStepInv ==
    ASSUME MemoryApart, MemoryBounds, MemoryIInv, [Memory!Next]_(Memory!vars) PROVE MemoryIInv'
<1>1. ASSUME NEW w \in Writer, NEW n \in 0..MaxFacts, Memory!Extract(w, n) PROVE MemoryIInv'
  <2>1. /\ enabled /\ memAt[w] = "new"
        /\ memAt' = [memAt EXCEPT ![w] = IF n = 0 THEN "over" ELSE "ready"] /\
           left' = [left EXCEPT ![w] = n]
        /\ UNCHANGED <<sqlite, data, memFile, memCopy, core, runs, enabled, memMet>>
    BY <1>1 DEF Memory!Extract
  <2>2. \A v \in Writer : Memory!Pending(v)' <=> Memory!Pending(v)
    BY <2>1 DEF MemoryIInv, Memory!GraphOnDisk, Memory!TypeOK, Memory!Pending
  <2>3. Memory!TypeOK'
    BY <2>1, <2>2
       DEF MemoryApart, MemoryBounds, MemoryIInv, Memory!GraphOnDisk, Memory!TypeOK,
           Memory!Pending, MemoryOwing, MemoryRows
  <2>4. Memory!GraphOnDisk'
    BY <2>1, <2>2, <2>3
       DEF MemoryApart, MemoryBounds, MemoryIInv, Memory!GraphOnDisk, Memory!TypeOK,
           Memory!Pending, MemoryCopies, MemoryAlone, MemoryRows, MemoryIdle
  <2>5. MemoryOwing'
    BY <2>1, <2>2, <2>3
       DEF MemoryApart, MemoryBounds, MemoryIInv, Memory!GraphOnDisk, Memory!TypeOK,
           MemoryOwing
  <2>6. MemoryCopies'
    BY <2>1, <2>2, <2>3
       DEF MemoryApart, MemoryBounds, MemoryIInv, Memory!GraphOnDisk, Memory!TypeOK,
           MemoryCopies, Memory!Pending, MemoryRows, MemoryIdle
  <2>7. MemoryIdle'
    BY <2>1, <2>2, <2>3
       DEF MemoryApart, MemoryBounds, MemoryIInv, Memory!GraphOnDisk, Memory!TypeOK,
           MemoryIdle
  <2>8. MemoryRows'
    BY <2>1, <2>2, <2>3
       DEF MemoryApart, MemoryBounds, MemoryIInv, Memory!GraphOnDisk, Memory!TypeOK,
           MemoryRows, Memory!Pending
  <2>9. MemoryAlone'
    BY <2>1, <2>2, <2>3
       DEF MemoryApart, MemoryBounds, MemoryIInv, Memory!GraphOnDisk, Memory!TypeOK,
           MemoryAlone, Memory!Pending, MemoryCopies
  <2> QED BY <2>4, <2>5, <2>6, <2>7, <2>8, <2>9 DEF MemoryIInv
<1>2. ASSUME NEW w \in Writer, Memory!Insert(w) PROVE MemoryIInv'
  <2>1. /\ sqlite /\ memAt[w] = "ready"
        /\ left' = [left EXCEPT ![w] = left[w] - 1]
        /\ memAt' = [memAt EXCEPT ![w] = IF left[w] = 1 THEN "over" ELSE "ready"]
        /\ memFile' = Append(memFile, w)
        /\ UNCHANGED <<sqlite, data, memCopy, core, runs, enabled, memMet>>
    BY <1>2 DEF Memory!Insert, Memory!Saved
  <2>2. Memory!TypeOK'
    BY <2>1
       DEF MemoryApart, MemoryBounds, MemoryIInv, Memory!GraphOnDisk, Memory!TypeOK,
           Memory!Pending, MemoryOwing, MemoryRows
  <2>3. Memory!GraphOnDisk'
    BY <2>1, <2>2
       DEF MemoryApart, MemoryBounds, MemoryIInv, Memory!GraphOnDisk, Memory!TypeOK,
           Memory!Pending, MemoryCopies, MemoryAlone, MemoryRows, MemoryIdle
  <2>4. MemoryOwing'
    BY <2>1, <2>2
       DEF MemoryApart, MemoryBounds, MemoryIInv, Memory!GraphOnDisk, Memory!TypeOK,
           MemoryOwing
  <2>5. MemoryCopies'
    BY <2>1, <2>2
       DEF MemoryApart, MemoryBounds, MemoryIInv, Memory!GraphOnDisk, Memory!TypeOK,
           MemoryCopies, Memory!Pending, MemoryRows, MemoryIdle
  <2>6. MemoryIdle'
    BY <2>1, <2>2
       DEF MemoryApart, MemoryBounds, MemoryIInv, Memory!GraphOnDisk, Memory!TypeOK,
           MemoryIdle
  <2>7. MemoryRows'
    BY <2>1, <2>2
       DEF MemoryApart, MemoryBounds, MemoryIInv, Memory!GraphOnDisk, Memory!TypeOK,
           MemoryRows, Memory!Pending
  <2>8. MemoryAlone'
    BY <2>1, <2>2
       DEF MemoryApart, MemoryBounds, MemoryIInv, Memory!GraphOnDisk, Memory!TypeOK,
           MemoryAlone, Memory!Pending, MemoryCopies
  <2> QED BY <2>3, <2>4, <2>5, <2>6, <2>7, <2>8 DEF MemoryIInv
<1>3. ASSUME NEW w \in Writer, Memory!SaveTriplet(w) PROVE MemoryIInv'
  <2>1. /\ ~sqlite /\ memAt[w] = "ready" /\ memAt' = [memAt EXCEPT ![w] = "copied"]
        /\ data' = Append(data, w) /\ memCopy' = [memCopy EXCEPT ![w] = Append(data, w)]
        /\ memMet' = (memMet \/ \E o \in Writer : Memory!Pending(o))
        /\ UNCHANGED <<sqlite, memFile, left, core, runs, enabled>>
    BY <1>3 DEF Memory!SaveTriplet
  <2>2. Memory!TypeOK'
    BY <2>1
       DEF MemoryApart, MemoryBounds, MemoryIInv, Memory!GraphOnDisk, Memory!TypeOK,
           Memory!Pending, MemoryOwing, MemoryRows
  <2>3. Memory!GraphOnDisk'
    BY <2>1, <2>2, MemoryPrefixOfAppend
       DEF MemoryApart, MemoryBounds, MemoryIInv, Memory!GraphOnDisk, Memory!TypeOK,
           Memory!Pending, MemoryCopies, MemoryAlone, MemoryRows, MemoryIdle
  <2>4. MemoryOwing'
    BY <2>1, <2>2
       DEF MemoryApart, MemoryBounds, MemoryIInv, Memory!GraphOnDisk, Memory!TypeOK,
           MemoryOwing
  <2>5. MemoryCopies'
    BY <2>1, <2>2, MemoryPrefixOfAppend, MemoryPrefixOfItself
       DEF MemoryApart, MemoryBounds, MemoryIInv, Memory!GraphOnDisk, Memory!TypeOK,
           MemoryCopies, Memory!Pending, MemoryRows, MemoryIdle
  <2>6. MemoryIdle'
    BY <2>1, <2>2
       DEF MemoryApart, MemoryBounds, MemoryIInv, Memory!GraphOnDisk, Memory!TypeOK,
           MemoryIdle
  <2>7. MemoryRows'
    BY <2>1, <2>2
       DEF MemoryApart, MemoryBounds, MemoryIInv, Memory!GraphOnDisk, Memory!TypeOK,
           MemoryRows, Memory!Pending
  <2>8. MemoryAlone'
    BY <2>1, <2>2
       DEF MemoryApart, MemoryBounds, MemoryIInv, Memory!GraphOnDisk, Memory!TypeOK,
           MemoryAlone, Memory!Pending, MemoryCopies
  <2> QED BY <2>3, <2>4, <2>5, <2>6, <2>7, <2>8 DEF MemoryIInv
<1>4. ASSUME NEW w \in Writer, Memory!Open(w) PROVE MemoryIInv'
  <2>1. /\ memAt[w] = "copied" /\ memAt' = [memAt EXCEPT ![w] = "opened"] /\ memFile' = Empty
        /\ UNCHANGED <<sqlite, data, left, memCopy, core, runs, enabled, memMet>>
    BY <1>4 DEF Memory!Open
  <2>2. Memory!TypeOK'
    BY <2>1
       DEF MemoryApart, MemoryBounds, MemoryIInv, Memory!GraphOnDisk, Memory!TypeOK,
           Memory!Pending, MemoryOwing, MemoryRows
  <2>3. Memory!GraphOnDisk'
    BY <2>1, <2>2
       DEF MemoryApart, MemoryBounds, MemoryIInv, Memory!GraphOnDisk, Memory!TypeOK,
           Memory!Pending, MemoryCopies, MemoryAlone, MemoryRows, MemoryIdle
  <2>4. MemoryOwing'
    BY <2>1, <2>2
       DEF MemoryApart, MemoryBounds, MemoryIInv, Memory!GraphOnDisk, Memory!TypeOK,
           MemoryOwing
  <2>5. MemoryCopies'
    BY <2>1, <2>2
       DEF MemoryApart, MemoryBounds, MemoryIInv, Memory!GraphOnDisk, Memory!TypeOK,
           MemoryCopies, Memory!Pending, MemoryRows, MemoryIdle
  <2>6. MemoryIdle'
    BY <2>1, <2>2
       DEF MemoryApart, MemoryBounds, MemoryIInv, Memory!GraphOnDisk, Memory!TypeOK,
           MemoryIdle
  <2>7. MemoryRows'
    BY <2>1, <2>2
       DEF MemoryApart, MemoryBounds, MemoryIInv, Memory!GraphOnDisk, Memory!TypeOK,
           MemoryRows, Memory!Pending
  <2>8. MemoryAlone'
    BY <2>1, <2>2
       DEF MemoryApart, MemoryBounds, MemoryIInv, Memory!GraphOnDisk, Memory!TypeOK,
           MemoryAlone, Memory!Pending, MemoryCopies
  <2> QED BY <2>3, <2>4, <2>5, <2>6, <2>7, <2>8 DEF MemoryIInv
<1>5. ASSUME NEW w \in Writer, Memory!Write(w) PROVE MemoryIInv'
  <2>1. /\ memAt[w] = "opened"
        /\ left' = [left EXCEPT ![w] = left[w] - 1]
        /\ memAt' = [memAt EXCEPT ![w] = IF left[w] = 1 THEN "over" ELSE "ready"]
        /\ memFile' \in IF memFile = Empty THEN {memCopy[w]} ELSE {memCopy[w], Torn}
        /\ UNCHANGED <<sqlite, data, memCopy, core, runs, enabled, memMet>>
    BY <1>5 DEF Memory!Write, Memory!Saved
  <2>2. Memory!TypeOK'
    BY <2>1
       DEF MemoryApart, MemoryBounds, MemoryIInv, Memory!GraphOnDisk, Memory!TypeOK,
           Memory!Pending, MemoryOwing, MemoryRows
  <2>3. Memory!GraphOnDisk'
    BY <2>1, <2>2
       DEF MemoryApart, MemoryBounds, MemoryIInv, Memory!GraphOnDisk, Memory!TypeOK,
           Memory!Pending, MemoryCopies, MemoryAlone, MemoryRows, MemoryIdle
  <2>4. MemoryOwing'
    BY <2>1, <2>2
       DEF MemoryApart, MemoryBounds, MemoryIInv, Memory!GraphOnDisk, Memory!TypeOK,
           MemoryOwing
  <2>5. MemoryCopies'
    BY <2>1, <2>2
       DEF MemoryApart, MemoryBounds, MemoryIInv, Memory!GraphOnDisk, Memory!TypeOK,
           MemoryCopies, Memory!Pending, MemoryRows, MemoryIdle
  <2>6. MemoryIdle'
    BY <2>1, <2>2
       DEF MemoryApart, MemoryBounds, MemoryIInv, Memory!GraphOnDisk, Memory!TypeOK,
           MemoryIdle
  <2>7. MemoryRows'
    BY <2>1, <2>2
       DEF MemoryApart, MemoryBounds, MemoryIInv, Memory!GraphOnDisk, Memory!TypeOK,
           MemoryRows, Memory!Pending
  <2>8. MemoryAlone'
    BY <2>1, <2>2
       DEF MemoryApart, MemoryBounds, MemoryIInv, Memory!GraphOnDisk, Memory!TypeOK,
           MemoryAlone, Memory!Pending, MemoryCopies
  <2> QED BY <2>3, <2>4, <2>5, <2>6, <2>7, <2>8 DEF MemoryIInv
<1>6. ASSUME Memory!NewJSONStore PROVE MemoryIInv'
  <2>1. /\ runs < MaxRuns /\ runs' = runs + 1
        /\ memFile' = memFile \/ (memFile' = Torn /\ \E w \in Writer : memAt[w] = "opened")
        /\ enabled' = (memFile' # Torn)
        /\ data' = IF memFile' \in {Empty, Torn} \/ sqlite THEN <<>> ELSE memFile'
        /\ memAt' = [w \in Writer |-> IF Memory!Pending(w) \/
           memAt[w] = "ready" THEN "over" ELSE memAt[w]]
        /\ left' = [w \in Writer |-> 0]
        /\ UNCHANGED <<sqlite, memCopy, core, memMet>>
    BY <1>6 DEF Memory!NewJSONStore
  <2>2. \A w \in Writer : memAt'[w] \in {"new", "over"}
    BY <2>1 DEF MemoryIInv, Memory!GraphOnDisk, Memory!TypeOK, Memory!Pending
  <2>3. Memory!TypeOK'
    BY <2>1, <2>2
       DEF MemoryApart, MemoryBounds, MemoryIInv, Memory!GraphOnDisk, Memory!TypeOK,
           Memory!Pending, MemoryOwing, MemoryRows
  <2>4. Memory!GraphOnDisk'
    BY <2>1, <2>2, <2>3, MemoryPrefixOfItself
       DEF MemoryApart, MemoryBounds, MemoryIInv, Memory!GraphOnDisk, Memory!TypeOK,
           Memory!Pending, MemoryCopies, MemoryAlone, MemoryRows, MemoryIdle
  <2>5. MemoryOwing'
    BY <2>1, <2>2, <2>3
       DEF MemoryApart, MemoryBounds, MemoryIInv, Memory!GraphOnDisk, Memory!TypeOK,
           MemoryOwing
  <2>6. MemoryCopies'
    BY <2>1, <2>2, <2>3
       DEF MemoryApart, MemoryBounds, MemoryIInv, Memory!GraphOnDisk, Memory!TypeOK,
           MemoryCopies, Memory!Pending, MemoryRows, MemoryIdle
  <2>7. MemoryIdle'
    BY <2>1, <2>2, <2>3
       DEF MemoryApart, MemoryBounds, MemoryIInv, Memory!GraphOnDisk, Memory!TypeOK,
           MemoryIdle
  <2>8. MemoryRows'
    BY <2>1, <2>2, <2>3
       DEF MemoryApart, MemoryBounds, MemoryIInv, Memory!GraphOnDisk, Memory!TypeOK,
           MemoryRows, Memory!Pending
  <2>9. MemoryAlone'
    BY <2>1, <2>2, <2>3
       DEF MemoryApart, MemoryBounds, MemoryIInv, Memory!GraphOnDisk, Memory!TypeOK,
           MemoryAlone, Memory!Pending, MemoryCopies
  <2> QED BY <2>4, <2>5, <2>6, <2>7, <2>8, <2>9 DEF MemoryIInv
<1>7. ASSUME Memory!CoreMemoryAppend \/ \E n \in 0..MaxText : Memory!CoreMemoryReplace(n)
      PROVE MemoryIInv'
  <2>1. /\ core' \in 0..MaxText
        /\ UNCHANGED <<sqlite, data, memFile, memAt, left, memCopy, runs, enabled, memMet>>
    BY <1>7
       DEF Memory!CoreMemoryAppend, Memory!CoreMemoryReplace, MemoryBounds, MemoryIInv,
           Memory!GraphOnDisk, Memory!TypeOK
  <2>2. Memory!TypeOK'
    BY <2>1
       DEF MemoryApart, MemoryBounds, MemoryIInv, Memory!GraphOnDisk, Memory!TypeOK,
           Memory!Pending, MemoryOwing, MemoryRows
  <2>3. Memory!GraphOnDisk'
    BY <2>1, <2>2
       DEF MemoryApart, MemoryBounds, MemoryIInv, Memory!GraphOnDisk, Memory!TypeOK,
           Memory!Pending, MemoryCopies, MemoryAlone, MemoryRows, MemoryIdle
  <2>4. MemoryOwing'
    BY <2>1, <2>2
       DEF MemoryApart, MemoryBounds, MemoryIInv, Memory!GraphOnDisk, Memory!TypeOK,
           MemoryOwing
  <2>5. MemoryCopies'
    BY <2>1, <2>2
       DEF MemoryApart, MemoryBounds, MemoryIInv, Memory!GraphOnDisk, Memory!TypeOK,
           MemoryCopies, Memory!Pending, MemoryRows, MemoryIdle
  <2>6. MemoryIdle'
    BY <2>1, <2>2
       DEF MemoryApart, MemoryBounds, MemoryIInv, Memory!GraphOnDisk, Memory!TypeOK,
           MemoryIdle
  <2>7. MemoryRows'
    BY <2>1, <2>2
       DEF MemoryApart, MemoryBounds, MemoryIInv, Memory!GraphOnDisk, Memory!TypeOK,
           MemoryRows, Memory!Pending
  <2>8. MemoryAlone'
    BY <2>1, <2>2
       DEF MemoryApart, MemoryBounds, MemoryIInv, Memory!GraphOnDisk, Memory!TypeOK,
           MemoryAlone, Memory!Pending, MemoryCopies
  <2> QED BY <2>3, <2>4, <2>5, <2>6, <2>7, <2>8 DEF MemoryIInv
<1>8. CASE UNCHANGED Memory!vars
  BY <1>8
     DEF Memory!vars, MemoryIInv, Memory!GraphOnDisk, Memory!TypeOK, MemoryOwing,
         MemoryCopies, MemoryIdle, MemoryRows, MemoryAlone, Memory!Pending
<1> QED BY <1>1, <1>2, <1>3, <1>4, <1>5, <1>6, <1>7, <1>8 DEF Memory!Next

LEMMA MemorySound == ASSUME MemoryApart, MemoryBounds PROVE Memory!Spec => []Memory!GraphOnDisk
<1>1. Memory!Init => MemoryIInv
  BY MemoryInitInv
<1>2. MemoryIInv /\ [Memory!Next]_(Memory!vars) => MemoryIInv'
  BY MemoryStepInv
<1>3. MemoryIInv => Memory!GraphOnDisk
  BY DEF MemoryIInv
<1> QED BY <1>1, <1>2, <1>3, PTL DEF Memory!Spec

(* The composition runs the memory of the agents as it is specified: the   *)
(* other parts leave its variables alone.                                  *)
LEMMA MemoryRuns == Spec => Memory!Spec
<1>1. Init => Memory!Init
  BY DEF Init
<1>2. [Next]_vars => [Memory!Next]_(Memory!vars)
  BY DEF Next, vars, memoryVars, Memory!vars, InSession, InRegistry, InSchedule, InLocks,
         InChecks, InMemory, InMedia, InEdit, InConfig, InGrants
<1> QED BY <1>1, <1>2, PTL DEF Spec, Memory!Spec

(* The three lists that are saved whole and in place: when no two requests *)
(* met and no process died in a save, the registry has what its users were *)
(* told, a job is scheduled when and only when its task is in the file,    *)
(* what was deleted stays deleted, and what a run remembered is on disk    *)
(* after it.                                                               *)
THEOREM StorageListsKept == Spec => []ListsKept
<1>1. RegistryApart /\ ScheduleApart /\ MemoryApart /\ MemoryBounds
  BY StorageAssumption
<1>2. Registry!Spec => []Registry!RegistrySound
  BY <1>1, RegistrySound
<1>3. Schedule!Spec => []Schedule!ScheduleSound
  BY <1>1, ScheduleSound
<1>4. Memory!Spec => []Memory!GraphOnDisk
  BY <1>1, MemorySound
<1> QED BY <1>2, <1>3, <1>4, RegistryRuns, ScheduleRuns, MemoryRuns, PTL DEF ListsKept

-----------------------------------------------------------------------------
-----------------------------------------------------------------------------
CheckVersions == 0..MaxEdits \cup {NoMsgs}
CheckStashEntry == [name : CpName, files : 0..Checks!Mixed, kept : [CpName -> CheckVersions]]
CheckMade == [answer : {"ok"}, files : 0..Checks!Mixed, msgs : 0..MaxEdits]

CheckTypes == /\ Checks!TypeOK
              /\ stash \in Seq(CheckStashEntry)
              /\ created \in [CpName -> {Checks!Nothing} \cup CheckMade]
              /\ told = Checks!Nothing \/ (told.answer \in {"ok", "error"} /\
                 told.name \in CpName)

(* Every entry is of a checkpoint that was made.                           *)
CheckEntries == \A i \in 1..Len(stash) : created[stash[i].name] # Checks!Nothing

(* When .crom is ignored, the messages of a checkpoint are where they were put. *)
CheckMessages == ignored => \A n \in CpName : created[n] # Checks!Nothing =>
  stored[n] = created[n].msgs

(* The newest entry of a name has the files of its last checkpoint, if that had any. *)
CheckNewest(n, i) == /\ stash[i].name = n /\ \A j \in 1..Len(stash) : stash[j].name = n =>
                        i <= j
                     /\ stash[i].files = created[n].files
CheckLatest == isGit => \A n \in CpName \ clean : created[n] # Checks!Nothing =>
                           \E i \in 1..Len(stash) : CheckNewest(n, i)

(* Where a name is found there is a first place.                           *)
CheckFirst == \A n \in CpName : Checks!FoundBy(n) # {} =>
                 \E i \in Checks!FoundBy(n) : \A j \in Checks!FoundBy(n) : i <= j

CheckIInv == CheckTypes /\ CheckEntries /\ CheckMessages /\ CheckLatest /\ CheckFirst /\
  Checks!RestoreIsExact

LEMMA CheckInitInv == ASSUME CheckApart, Checks!Init PROVE CheckIInv
<1>1. stash \in Seq(CheckStashEntry) /\ Len(stash) = 0
  BY DEF Checks!Init
<1>2. Checks!TypeOK
  BY <1>1 DEF CheckApart, Checks!Init, Checks!TypeOK, Checks!Mixed
<1>3. CheckTypes
  BY <1>1, <1>2 DEF Checks!Init, CheckTypes
<1>4. Checks!RestoreIsExact
  BY <1>2 DEF Checks!Init, Checks!RestoreIsExact, Checks!Nothing
<1>5. CheckEntries /\ CheckMessages /\ CheckLatest /\ CheckFirst
  BY <1>1
     DEF Checks!Init, CheckEntries, CheckMessages, CheckLatest, CheckFirst, Checks!FoundBy
<1> QED BY <1>3, <1>4, <1>5 DEF CheckIInv

-----------------------------------------------------------------------------
(* A checkpoint that is put before the others.                             *)
LEMMA CheckPutBefore ==
    ASSUME NEW S, NEW e \in S, NEW s \in Seq(S)
    PROVE  /\ <<e>> \o s \in Seq(S)
           /\ Len(<<e>> \o s) = Len(s) + 1
           /\ (<<e>> \o s)[1] = e
           /\ \A i \in 1..Len(s) : (<<e>> \o s)[i + 1] = s[i]
           /\ \A i \in 1..(Len(s) + 1) : i # 1 => i - 1 \in 1..Len(s) /\
              (<<e>> \o s)[i] = s[i - 1]
OBVIOUS

LEMMA CheckFind ==
    ASSUME CheckIInv, NEW n \in CpName, Checks!FoundBy(n) # {}
    PROVE  LET i == Checks!findStashByName(n) IN
           /\ i \in 1..Len(stash) /\ stash[i].name \in Within[n] /\ stash[i] \in CheckStashEntry
           /\ \A j \in 1..Len(stash) : stash[j].name \in Within[n] => i <= j
<1> DEFINE i == Checks!findStashByName(n)
<1>1. i \in Checks!FoundBy(n) /\ \A j \in Checks!FoundBy(n) : i <= j
  BY DEF CheckIInv, CheckFirst, Checks!findStashByName
<1> QED BY <1>1 DEF Checks!FoundBy, CheckIInv, CheckTypes

(* Neither changes what the checkpoints are.                               *)
LEMMA CheckEditInv ==
    ASSUME CheckApart, CheckIInv, tree' \in 0..Checks!Mixed, messages' \in 0..MaxEdits,
      edits' \in 0..MaxEdits,
           told' = Checks!Nothing, UNCHANGED <<isGit, inPlace, ignored, stash, stored,
             created, clean>>
    PROVE  CheckIInv'
<1>1. CheckTypes'
  BY DEF CheckIInv, CheckTypes, Checks!TypeOK
<1>2. (CheckEntries /\ CheckMessages /\ CheckLatest /\ CheckFirst)'
  BY DEF CheckIInv, CheckEntries, CheckMessages, CheckLatest, CheckNewest, CheckFirst,
         Checks!FoundBy
<1>3. Checks!RestoreIsExact'
  BY <1>1 DEF CheckTypes, Checks!RestoreIsExact, Checks!Nothing
<1> QED BY <1>1, <1>2, <1>3 DEF CheckIInv

LEMMA CheckCreateInv == ASSUME CheckApart, CheckIInv, NEW n \in CpName, Checks!Create(n)
    PROVE CheckIInv'
<1> DEFINE e == [name |-> n, files |-> tree, kept |-> stored]
           c == [answer |-> "ok", files |-> tree, msgs |-> messages]
<1>1. /\ created' = [created EXCEPT ![n] = c] /\ told' = Checks!Nothing
      /\ stored' = [(IF Checks!Stashed /\
         ~ignored THEN Checks!NoStored ELSE stored) EXCEPT ![n] = messages]
      /\ clean' = IF Checks!Stashed THEN clean \ {n} ELSE clean \cup {n}
      /\ UNCHANGED <<isGit, inPlace, ignored, messages, edits>>
      /\ Checks!Stashed => stash' = <<e>> \o stash /\ tree' = 0
      /\ ~Checks!Stashed => UNCHANGED <<stash, tree>>
  BY DEF Checks!Create
<1>2. Checks!TypeOK /\ stash \in Seq(CheckStashEntry) /\
      created \in [CpName -> {Checks!Nothing} \cup CheckMade]
  BY DEF CheckIInv, CheckTypes
<1>3. /\ e \in CheckStashEntry /\ e.name = n /\ e.files = tree
      /\ c \in CheckMade /\ c # Checks!Nothing /\ c.files = tree /\ c.msgs = messages
  BY <1>2 DEF Checks!TypeOK, CheckStashEntry, CheckVersions, CheckMade, Checks!Nothing
<1> HIDE DEF e, c
<1>4. created'[n] = c /\ \A m \in CpName : m # n => created'[m] = created[m]
  BY <1>1, <1>2
<1>5. CheckTypes'
  <2>1. stash' \in Seq(CheckStashEntry)
    <3>1. <<e>> \o stash \in Seq(CheckStashEntry)
      BY <1>2, <1>3, CheckPutBefore
    <3> QED BY <1>1, <1>2, <3>1
  <2>2. created' \in [CpName -> {Checks!Nothing} \cup CheckMade]
    BY <1>1, <1>2, <1>3
  <2>3. \A j \in 1..Len(stash') : stash'[j].name \in CpName /\
        stash'[j].files \in 0..Checks!Mixed
    <3>1. \A j \in 1..Len(stash') : stash'[j] \in CheckStashEntry
      BY <2>1
    <3> QED BY <3>1 DEF CheckStashEntry
  <2>4. stored' \in [CpName -> 0..MaxEdits \cup {NoMsgs}]
    BY <1>1, <1>2 DEF Checks!TypeOK, Checks!NoStored
  <2>5. Checks!TypeOK'
    BY <1>1, <1>2, <2>3, <2>4 DEF CheckApart, Checks!TypeOK, Checks!Mixed
  <2> QED BY <1>1, <2>1, <2>2, <2>5 DEF CheckTypes
<1>6. CheckMessages'
  BY <1>1, <1>2, <1>3, <1>4
     DEF CheckIInv, CheckMessages, Checks!TypeOK, Checks!Stashed, Checks!NoStored
<1>7. Checks!RestoreIsExact'
  BY <1>1, <1>5 DEF CheckTypes, Checks!RestoreIsExact, Checks!Nothing
<1>8. CASE Checks!Stashed
  <2>1. /\ Len(stash') = Len(stash) + 1 /\ stash'[1] = e
        /\ \A i \in 1..Len(stash) : stash'[i + 1] = stash[i]
        /\ \A i \in 1..Len(stash') : i # 1 => i - 1 \in 1..Len(stash) /\
           stash'[i] = stash[i - 1]
    <3>1. stash' = <<e>> \o stash
      BY <1>1, <1>8
    <3>2. \A d \in CheckStashEntry, t \in Seq(CheckStashEntry) :
             /\ Len(<<d>> \o t) = Len(t) + 1 /\ (<<d>> \o t)[1] = d
             /\ \A i \in 1..Len(t) : (<<d>> \o t)[i + 1] = t[i]
             /\ \A i \in 1..(Len(t) + 1) :
                   i # 1 => i - 1 \in 1..Len(t) /\ (<<d>> \o t)[i] = t[i - 1]
      BY CheckPutBefore
    <3>3. /\ Len(<<e>> \o stash) = Len(stash) + 1 /\ (<<e>> \o stash)[1] = e
          /\ \A i \in 1..Len(stash) : (<<e>> \o stash)[i + 1] = stash[i]
          /\ \A i \in 1..(Len(stash) + 1) :
                i # 1 => i - 1 \in 1..Len(stash) /\ (<<e>> \o stash)[i] = stash[i - 1]
      BY <1>2, <1>3, <3>2, Zenon
    <3> QED BY <3>1, <3>3, Zenon
  <2>2. Len(stash) \in Nat
    BY <1>2
  <2>3. CheckEntries'
    <3> SUFFICES ASSUME NEW i \in 1..Len(stash') PROVE created'[stash'[i].name] # Checks!Nothing
      BY DEF CheckEntries
    <3>1. CASE i = 1
      BY <1>3, <1>4, <2>1, <3>1
    <3>2. CASE i # 1
      <4>1. created[stash'[i].name] # Checks!Nothing /\ stash'[i].name \in CpName
        <5>1. i - 1 \in 1..Len(stash) /\ stash'[i] = stash[i - 1]
          BY <2>1, <3>2
        <5>2. stash[i - 1] \in CheckStashEntry
          BY <1>2, <5>1
        <5> QED BY <5>1, <5>2 DEF CheckIInv, CheckEntries, CheckStashEntry
      <4> QED BY <4>1, <1>3, <1>4
    <3> QED BY <3>1, <3>2
  <2>4. CheckLatest'
    <3> SUFFICES ASSUME isGit, NEW m \in CpName \ clean', created'[m] # Checks!Nothing
                 PROVE  \E i \in 1..Len(stash') : CheckNewest(m, i)'
      BY <1>1 DEF CheckLatest
    <3>1. CASE m = n
      <4>1. CheckNewest(m, 1)'
        BY <1>3, <1>4, <2>1, <2>2, <3>1 DEF CheckNewest
      <4> QED BY <2>1, <2>2, <4>1
    <3>2. CASE m # n
      <4>1. PICK i \in 1..Len(stash) : CheckNewest(m, i)
        BY <1>1, <1>4, <1>8, <3>2 DEF CheckIInv, CheckLatest
      <4>2. i + 1 \in 1..Len(stash') /\ stash'[i + 1] = stash[i]
        BY <2>1, <2>2
      <4>3. ASSUME NEW j \in 1..Len(stash'), stash'[j].name = m PROVE i + 1 <= j
        <5>1. j # 1
          BY <1>3, <2>1, <3>2, <4>3
        <5>2. j - 1 \in 1..Len(stash) /\ stash[j - 1].name = m
          BY <2>1, <4>3, <5>1
        <5>3. i <= j - 1
          BY <4>1, <5>2 DEF CheckNewest
        <5> QED BY <2>1, <2>2, <5>3
      <4>4. CheckNewest(m, i + 1)'
        BY <1>4, <3>2, <4>1, <4>2, <4>3 DEF CheckNewest
      <4> QED BY <4>2, <4>4
    <3> QED BY <3>1, <3>2
  <2>5. CheckFirst'
    <3> SUFFICES ASSUME NEW m \in CpName, Checks!FoundBy(m)' # {}
                 PROVE  \E i \in Checks!FoundBy(m)' : \A j \in Checks!FoundBy(m)' : i <= j
      BY DEF CheckFirst
    <3>1. CASE n \in Within[m]
      BY <1>3, <2>1, <2>2, <3>1 DEF Checks!FoundBy
    <3>2. CASE n \notin Within[m]
      <4>1. \A j \in Checks!FoundBy(m)' : j - 1 \in Checks!FoundBy(m)
        BY <1>3, <2>1, <3>2 DEF Checks!FoundBy
      <4>2. PICK i \in Checks!FoundBy(m) : \A j \in Checks!FoundBy(m) : i <= j
        BY <4>1 DEF CheckIInv, CheckFirst
      <4>3. i + 1 \in Checks!FoundBy(m)'
        BY <2>1, <2>2, <4>2 DEF Checks!FoundBy
      <4>4. \A j \in Checks!FoundBy(m)' : i + 1 <= j
        BY <2>1, <2>2, <4>1, <4>2 DEF Checks!FoundBy
      <4> QED BY <4>3, <4>4
    <3> QED BY <3>1, <3>2
  <2> QED BY <1>5, <1>6, <1>7, <2>3, <2>4, <2>5 DEF CheckIInv
<1>9. CASE ~Checks!Stashed
  <2>1. stash' = stash /\ clean' = clean \cup {n}
    BY <1>1, <1>9
  <2>2. CheckEntries'
    BY <1>2, <1>3, <1>4, <2>1 DEF CheckIInv, CheckEntries, Checks!TypeOK
  <2>3. CheckLatest'
    BY <1>1, <1>4, <2>1 DEF CheckIInv, CheckLatest, CheckNewest
  <2>4. CheckFirst'
    BY <2>1 DEF CheckIInv, CheckFirst, Checks!FoundBy
  <2> QED BY <1>5, <1>6, <1>7, <2>2, <2>3, <2>4 DEF CheckIInv
<1> QED BY <1>8, <1>9

-----------------------------------------------------------------------------
(* What is restored, where it can be, is what was kept.                    *)
LEMMA CheckRestoreInv == ASSUME CheckApart, CheckIInv, NEW n \in CpName, Checks!Restore(n)
    PROVE CheckIInv'
<1> DEFINE i == Checks!findStashByName(n)
<1>1. UNCHANGED <<isGit, inPlace, ignored, stash, edits, created, clean>>
  BY DEF Checks!Restore
<1>2. Checks!TypeOK /\ stash \in Seq(CheckStashEntry) /\
      created \in [CpName -> {Checks!Nothing} \cup CheckMade]
  BY DEF CheckIInv, CheckTypes
<1>3. isGit /\ Checks!FoundBy(n) # {} => Checks!ApplyStash(n, stash[i])
  BY DEF Checks!Restore
<1>4. ~(isGit /\ Checks!FoundBy(n) # {}) =>
         /\ told' = [answer |-> IF isGit THEN "error" ELSE "ok", name |-> n]
         /\ UNCHANGED <<tree, stored>>
  BY DEF Checks!Restore
<1>5. messages' \in 0..MaxEdits
  BY <1>2 DEF Checks!Restore, Checks!RestoreMessages, Checks!TypeOK
<1>6. Checks!FoundBy(n) # {} => stash[i] \in CheckStashEntry
  BY CheckFind
<1>7. tree' \in 0..Checks!Mixed /\ stored' \in [CpName -> 0..MaxEdits \cup {NoMsgs}]
  BY <1>2, <1>3, <1>4, <1>6
     DEF CheckApart, Checks!ApplyStash, Checks!TypeOK, CheckStashEntry, CheckVersions,
         Checks!Mixed
<1>8. told'.answer \in {"ok", "error"} /\ told'.name = n
  BY <1>3, <1>4 DEF Checks!ApplyStash
<1>9. CheckTypes'
  BY <1>1, <1>2, <1>5, <1>7, <1>8 DEF CheckTypes, Checks!TypeOK
<1>10. CheckMessages'
  BY <1>1, <1>3, <1>4 DEF CheckIInv, CheckMessages, Checks!ApplyStash
<1>11. (CheckEntries /\ CheckLatest /\ CheckFirst)'
  <2>1. CheckEntries' /\ CheckLatest'
    BY <1>1 DEF CheckIInv, CheckEntries, CheckLatest, CheckNewest
  <2>2. CheckFirst'
    BY <1>1 DEF CheckIInv, CheckFirst, Checks!FoundBy
  <2> QED BY <2>1, <2>2
<1>12. Checks!RestoreIsExact'
  <2> SUFFICES ASSUME told'.answer = "ok", isGit, inPlace, ignored, Checks!Unmistakable(n),
      n \notin clean
               PROVE  tree' = created[n].files /\ messages' = created[n].msgs
    BY <1>1, <1>8, <1>9 DEF CheckTypes, Checks!RestoreIsExact, Checks!Unmistakable
  <2>1. Checks!FoundBy(n) # {}
    BY <1>4
  <2>2. tree' = stash[i].files
    BY <1>3, <2>1 DEF Checks!ApplyStash
  <2>3. \A j \in 1..Len(stash) : stash[j].name \in Within[n] => stash[j].name = n
    <3>1. \A j \in 1..Len(stash) : stash[j].name \in CpName
      BY <1>2 DEF Checks!TypeOK
    <3> QED BY <3>1 DEF CheckIInv, CheckEntries, Checks!Unmistakable
  <2>4. i \in 1..Len(stash) /\ stash[i].name = n
        /\ \A j \in 1..Len(stash) : stash[j].name = n => i <= j
    BY <2>1, <2>3, CheckFind DEF CheckApart
  <2>5. created[n] # Checks!Nothing
    BY <2>4 DEF CheckIInv, CheckEntries
  <2>6. PICK k \in 1..Len(stash) : CheckNewest(n, k)
    BY <2>5 DEF CheckIInv, CheckLatest
  <2>7. i = k
    BY <2>4, <2>6 DEF CheckNewest
  <2>8. stored[n] = created[n].msgs /\ created[n] \in CheckMade
    BY <1>2, <2>5 DEF CheckIInv, CheckMessages
  <2>9. messages' = created[n].msgs
    BY <2>8 DEF Checks!Restore, Checks!RestoreMessages, CheckApart, CheckMade
  <2> QED BY <2>2, <2>6, <2>7, <2>9 DEF CheckNewest
<1> QED BY <1>9, <1>10, <1>11, <1>12 DEF CheckIInv

LEMMA CheckStepInv == ASSUME CheckApart, CheckIInv, [Checks!Next]_(Checks!vars) PROVE CheckIInv'
<1>1. CASE Checks!EditFiles
  <2>1. tree' \in 0..Checks!Mixed /\ messages' \in 0..MaxEdits /\ edits' \in 0..MaxEdits
    BY <1>1
       DEF CheckApart, Checks!EditFiles, CheckIInv, CheckTypes, Checks!TypeOK, Checks!Mixed
  <2> QED BY <1>1, <2>1, CheckEditInv DEF Checks!EditFiles
<1>2. CASE Checks!Talk
  <2>1. tree' \in 0..Checks!Mixed /\ messages' \in 0..MaxEdits /\ edits' \in 0..MaxEdits
    BY <1>2 DEF CheckApart, Checks!Talk, CheckIInv, CheckTypes, Checks!TypeOK, Checks!Mixed
  <2> QED BY <1>2, <2>1, CheckEditInv DEF Checks!Talk
<1>3. CASE UNCHANGED Checks!vars
  BY <1>3
     DEF Checks!vars, CheckIInv, CheckTypes, Checks!TypeOK, CheckEntries, CheckMessages,
         CheckLatest, CheckNewest, CheckFirst, Checks!FoundBy, Checks!RestoreIsExact,
         Checks!Unmistakable
<1> QED BY <1>1, <1>2, <1>3, CheckCreateInv, CheckRestoreInv DEF Checks!Next

LEMMA CheckExact == ASSUME CheckApart PROVE Checks!Spec => []Checks!RestoreIsExact
<1>1. Checks!Init => CheckIInv
  BY CheckInitInv
<1>2. CheckIInv /\ [Checks!Next]_(Checks!vars) => CheckIInv'
  BY CheckStepInv
<1>3. CheckIInv => Checks!RestoreIsExact
  BY DEF CheckIInv
<1> QED BY <1>1, <1>2, <1>3, PTL DEF Checks!Spec

(* The composition runs the checkpoints as it is specified: the other      *)
(* parts leave its variables alone.                                        *)
LEMMA ChecksRuns == Spec => Checks!Spec
<1>1. Init => Checks!Init
  BY DEF Init
<1>2. [Next]_vars => [Checks!Next]_(Checks!vars)
  BY DEF Next, vars, checksVars, Checks!vars, InSession, InRegistry, InSchedule, InLocks,
         InChecks, InMemory, InMedia, InEdit, InConfig, InGrants
<1> QED BY <1>1, <1>2, PTL DEF Spec, Checks!Spec

(* A restore that says ok has put back the files and the messages of the   *)
(* checkpoint, where the name is part of no other and .crom is ignored by  *)
(* git (git_store.go).                                                     *)
THEOREM StorageRestoresExactly == Spec => []RestoreIsExact
<1>1. CheckApart
  BY StorageAssumption
<1>2. Checks!Spec => []Checks!RestoreIsExact
  BY <1>1, CheckExact
<1> QED BY <1>2, ChecksRuns, PTL DEF RestoreIsExact

-----------------------------------------------------------------------------
-----------------------------------------------------------------------------
MediaPlaces == {"idle", "open", "filled", "run", "end"}
MediaRecorders == /\ cmd \in [Kind -> 1..MaxTakes \cup {NoTake}]
                  /\ recorder \in [Kind -> SUBSET (1..MaxTakes)]
                  /\ recFile \in [Kind -> 1..MaxTakes \cup {NoTake}]
                  /\ takes \in 0..MaxTakes
MediaTranscripts == /\ recAt \in [MediaRequest -> MediaPlaces]
                    /\ recKeys \in [MediaRequest -> BOOLEAN]
                    /\ recHeard \in [MediaRequest -> MediaRequest \cup {NoTake}]
                    /\ temp \in MediaRequest \cup {NoTake, Torn}
                    /\ recMet \subseteq MediaRequest

(* While a recording runs, the file of its kind is its own or not there.   *)
MediaFileIsOwn == \A k \in Kind : cmd[k] # NoTake => recFile[k] \in {cmd[k], NoTake}

(* A request that met no other is the only one with the temporary file,    *)
(* which has what the request has put there.                               *)
MediaSole == \A r \in MediaRequest \ recMet :
    /\ Media!Busy(r) => \A q \in MediaRequest : Media!Busy(q) => q = r
    /\ recAt[r] = "open" => temp = Torn
    /\ recAt[r] = "filled" => temp = r

MediaIInv == MediaRecorders /\ MediaTranscripts /\ MediaFileIsOwn /\ Media!OwnRecording /\
  Media!OneRecorder /\ MediaSole /\ Media!OwnTranscript

LEMMA MediaInitInv == ASSUME MediaBounds, Media!Init PROVE MediaIInv
<1>1. MediaRecorders /\ MediaTranscripts
  BY DEF MediaBounds, Media!Init, MediaRecorders, MediaTranscripts, MediaPlaces
<1>2. MediaFileIsOwn /\ Media!OwnRecording /\ Media!OneRecorder /\ MediaSole /\
      Media!OwnTranscript
  BY DEF Media!Init, MediaFileIsOwn, Media!OwnRecording, Media!OneRecorder, MediaSole,
         Media!OwnTranscript, Media!Busy
<1> QED BY <1>1, <1>2 DEF MediaIInv

-----------------------------------------------------------------------------
(* What the recorders do leaves the transcriptions alone, and conversely.  *)
LEMMA MediaRecordInv ==
    ASSUME MediaIInv, UNCHANGED Media!transcripts,
      (MediaRecorders /\ MediaFileIsOwn /\ Media!OwnRecording /\ Media!OneRecorder)'
    PROVE  MediaIInv'
<1>1. MediaTranscripts' /\ Media!OwnTranscript'
  BY DEF Media!transcripts, MediaIInv, MediaTranscripts, Media!OwnTranscript
<1>2. MediaSole'
  BY DEF Media!transcripts, MediaIInv, MediaSole, Media!Busy
<1> QED BY <1>1, <1>2 DEF MediaIInv

LEMMA MediaTranscriptInv ==
    ASSUME MediaIInv, UNCHANGED <<cmd, recorder, recFile, takes, orphans, given>>,
           (MediaTranscripts /\ MediaSole /\ Media!OwnTranscript)'
    PROVE  MediaIInv'
BY DEF MediaIInv, MediaRecorders, MediaFileIsOwn, Media!OwnRecording, Media!OneRecorder

LEMMA MediaStepInv == ASSUME MediaBounds, MediaIInv, [Media!Next]_(Media!vars) PROVE MediaIInv'
<1> USE DEF MediaBounds
<1>0. MediaRecorders /\ MediaTranscripts /\ MediaFileIsOwn /\ Media!OwnRecording /\
      Media!OneRecorder /\ MediaSole /\ Media!OwnTranscript
  BY DEF MediaIInv
<1>1. ASSUME NEW k \in Kind, Media!handleRecordStart(k) PROVE MediaIInv'
  <2>1. takes < MaxTakes /\ takes' = takes + 1 /\ takes' \in 1..MaxTakes
    BY <1>0, <1>1 DEF Media!handleRecordStart, MediaRecorders
  <2>2. /\ \/ /\ cmd' = [cmd EXCEPT ![k] = takes']
              /\ recorder' = [recorder EXCEPT ![k] = (recorder[k] \ {cmd[k]}) \cup {takes'}]
           \/ /\ cmd' = [cmd EXCEPT ![k] = NoTake]
              /\ recorder' = [recorder EXCEPT ![k] = recorder[k] \ {cmd[k]}]
        /\ recFile' = [recFile EXCEPT ![k] = NoTake] /\ UNCHANGED <<orphans, given>>
    BY <1>1 DEF Media!handleRecordStart
  <2>3. MediaRecorders'
    BY <1>0, <2>1, <2>2 DEF MediaRecorders
  <2>4. MediaFileIsOwn' /\ Media!OwnRecording'
    BY <1>0, <2>2 DEF MediaRecorders, MediaFileIsOwn, Media!OwnRecording
  <2>5. Media!OneRecorder'
    BY <1>0, <2>2 DEF MediaRecorders, Media!OneRecorder
  <2> QED BY <1>1, <2>3, <2>4, <2>5, MediaRecordInv DEF Media!handleRecordStart
<1>2. ASSUME NEW k \in Kind, Media!handleRecordStop(k) PROVE MediaIInv'
  <2>1. /\ cmd[k] # NoTake /\ cmd' = [cmd EXCEPT ![k] = NoTake]
        /\ recorder' = [recorder EXCEPT ![k] = recorder[k] \ {cmd[k]}]
        /\ given' = given \cup {[asked |-> cmd[k], sent |-> recFile[k]]}
        /\ recFile' = [recFile EXCEPT ![k] = NoTake] /\ UNCHANGED <<takes, orphans>>
    BY <1>2 DEF Media!handleRecordStop
  <2>2. MediaRecorders' /\ MediaFileIsOwn'
    BY <1>0, <2>1 DEF MediaRecorders, MediaFileIsOwn
  <2>3. Media!OwnRecording'
    BY <1>0, <2>1 DEF MediaFileIsOwn, Media!OwnRecording
  <2>4. Media!OneRecorder'
    BY <1>0, <2>1 DEF MediaRecorders, Media!OneRecorder
  <2> QED BY <1>2, <2>2, <2>3, <2>4, MediaRecordInv DEF Media!handleRecordStop
<1>3. ASSUME NEW k \in Kind, NEW t \in 1..MaxTakes, Media!Record(k, t) PROVE MediaIInv'
  <2>1. MediaRecorders' /\ MediaFileIsOwn' /\ Media!OwnRecording' /\ Media!OneRecorder'
    BY <1>0, <1>3
       DEF Media!Record, MediaRecorders, MediaFileIsOwn, Media!OwnRecording,
           Media!OneRecorder
  <2> QED BY <1>3, <2>1, MediaRecordInv DEF Media!Record
<1>4. ASSUME NEW r \in MediaRequest, Media!AskService(r) PROVE MediaIInv'
  <2>1. MediaTranscripts' /\ Media!OwnTranscript' /\ MediaSole'
    BY <1>0, <1>4
       DEF Media!AskService, Media!Goes, MediaTranscripts, Media!OwnTranscript, MediaSole,
           Media!Busy, MediaPlaces
  <2> QED BY <1>4, <2>1, MediaTranscriptInv DEF Media!AskService, Media!Goes
<1>5. ASSUME NEW r \in MediaRequest, Media!OpenTemp(r) PROVE MediaIInv'
  <2>1. MediaTranscripts' /\ Media!OwnTranscript'
    BY <1>0, <1>5
       DEF Media!OpenTemp, Media!Goes, MediaTranscripts, Media!OwnTranscript, MediaPlaces
  <2>2. MediaSole'
    BY <1>0, <1>5 DEF Media!OpenTemp, Media!Goes, MediaTranscripts, MediaSole, Media!Busy
  <2> QED BY <1>5, <2>1, <2>2, MediaTranscriptInv DEF Media!OpenTemp, Media!Goes
<1>6. ASSUME NEW r \in MediaRequest, Media!FillTemp(r) \/ Media!Transcribe(r) \/
      Media!RemoveTemp(r) PROVE MediaIInv'
  <2>1. MediaTranscripts'
    BY <1>0, <1>6
       DEF Media!FillTemp, Media!Transcribe, Media!RemoveTemp, Media!Goes, MediaTranscripts,
           MediaPlaces
  <2>2. Media!OwnTranscript'
    BY <1>0, <1>6
       DEF Media!FillTemp, Media!Transcribe, Media!RemoveTemp, Media!Goes, MediaTranscripts,
           Media!OwnTranscript, MediaSole
  <2>3. MediaSole'
    BY <1>0, <1>6
       DEF Media!FillTemp, Media!Transcribe, Media!RemoveTemp, Media!Goes, MediaTranscripts,
           MediaSole, Media!Busy
  <2> QED BY <1>6, <2>1, <2>2, <2>3, MediaTranscriptInv
             DEF Media!FillTemp, Media!Transcribe, Media!RemoveTemp, Media!Goes
<1>7. CASE Media!Restart
  <2>1. /\ cmd' = [k \in Kind |-> NoTake]
        /\ orphans' = orphans \cup UNION {recorder[k] : k \in Kind}
        /\ recAt' = [r \in MediaRequest |-> IF Media!Busy(r) THEN "end" ELSE recAt[r]]
        /\ UNCHANGED <<recorder, recFile, takes, given, recKeys, temp, recHeard, recMet>>
    BY <1>7 DEF Media!Restart
  <2>2. MediaRecorders' /\ MediaTranscripts' /\ MediaFileIsOwn' /\ Media!OwnRecording' /\
        Media!OwnTranscript'
    BY <1>0, <2>1
       DEF MediaRecorders, MediaTranscripts, MediaFileIsOwn, Media!OwnRecording,
           Media!OwnTranscript, MediaPlaces
  <2>3. Media!OneRecorder'
    BY <2>1 DEF Media!OneRecorder
  <2>4. MediaSole'
    BY <2>1 DEF MediaSole, Media!Busy
  <2> QED BY <2>2, <2>3, <2>4 DEF MediaIInv
<1>8. CASE UNCHANGED Media!vars
  BY <1>0, <1>8
     DEF Media!vars, MediaIInv, MediaRecorders, MediaTranscripts, MediaFileIsOwn,
         Media!OwnRecording, Media!OneRecorder, MediaSole, Media!OwnTranscript, Media!Busy
<1> QED BY <1>1, <1>2, <1>3, <1>4, <1>5, <1>6, <1>7, <1>8
           DEF Media!Next, Media!handleTranscribe

LEMMA MediaOwn == ASSUME MediaBounds PROVE Media!Spec => []Media!MediaIsOwn
<1>1. Media!Init => MediaIInv
  BY MediaInitInv
<1>2. MediaIInv /\ [Media!Next]_(Media!vars) => MediaIInv'
  BY MediaStepInv
<1>3. MediaIInv => Media!MediaIsOwn
  BY DEF MediaIInv, MediaRecorders, MediaTranscripts, Media!TypeOK, Media!MediaIsOwn
<1> QED BY <1>1, <1>2, <1>3, PTL DEF Media!Spec

(* The composition runs the recorders as it is specified: the other parts  *)
(* leave its variables alone.                                              *)
LEMMA MediaRuns == Spec => Media!Spec
<1>1. Init => Media!Init
  BY DEF Init
<1>2. [Next]_vars => [Media!Next]_(Media!vars)
  BY DEF Next, vars, mediaVars, Media!vars, InSession, InRegistry, InSchedule, InLocks,
         InChecks, InMemory, InMedia, InEdit, InConfig, InGrants
<1> QED BY <1>1, <1>2, PTL DEF Spec, Media!Spec

(* A request for sound or picture gets the recording it asked for, and a   *)
(* transcription the text of its own file (capture.go, transcribe.go).     *)
THEOREM StorageMediaIsOwn == Spec => []MediaIsOwn
<1>1. MediaBounds
  BY StorageAssumption
<1>2. Media!Spec => []Media!MediaIsOwn
  BY <1>1, MediaOwn
<1> QED BY <1>2, MediaRuns, PTL DEF MediaIsOwn
=============================================================================
