----------------------- MODULE ApprovalRouting_proofs -----------------------
(***************************************************************************)
(* For any sets of attempts and clients and any number of questions: type  *)
(* correctness, that only late answers go astray, that answers find the    *)
(* agent as long as starts do not clash, and the lease of the workspace.   *)
(***************************************************************************)
EXTENDS ApprovalRouting, TLAPS

LEMMA InitTypeOK == Init => TypeOK
<1> SUFFICES ASSUME Init
             PROVE  TypeOK
  OBVIOUS
<1>1. answers \in [Handler \cup IpcClient -> {<<>>} \cup {<<a>> : a \in Answer}]
  BY DEF Init
<1>2. door \in [Handler -> Door]
  BY DEF Init, Door
<1>3. /\ question \in [Handler -> 0 .. MaxQuestions]
      /\ shown \in [Client -> 0 .. MaxQuestions]
      /\ reply \in [Client -> 0 .. MaxQuestions]
      /\ asked \in 0 .. MaxQuestions
  BY RoutingAssumption DEF Init
<1>4. pc \in [Handler -> {"unused", "starting", "refused", "running", "asking",
                          "over", "gone"}]
  BY DEF Init
<1>5. activeHandlers \in [Table -> Handler \cup {None}]
  BY DEF Init
<1> QED
  BY <1>1, <1>2, <1>3, <1>4, <1>5 DEF Init, TypeOK

LEMMA RespondTypeOK ==
    ASSUME TypeOK, NEW c \in Client, Respond(c)
    PROVE  TypeOK'
<1> DEFINE s == Addressee(c)
           a == [about |-> reply[c], onTime |-> OnTime(s, reply[c])]
<1>1. reply[c] \in 1 .. MaxQuestions
  BY RoutingAssumption DEF Respond, TypeOK
<1>2. OnTime(s, reply[c]) \in BOOLEAN
  BY DEF OnTime
<1>3. a \in Answer
  BY <1>1, <1>2 DEF Answer
<1>4. s \in Handler \cup IpcClient \cup {None}
  BY RoutingAssumption DEF TypeOK, Addressee, Client, Table
<1>5. \/ answers' = answers
      \/ s # None /\ answers' = [answers EXCEPT ![s] = <<a>>]
  BY DEF Respond
<1> HIDE DEF a, s
<1>6. answers' \in [Handler \cup IpcClient -> {<<>>} \cup {<<b>> : b \in Answer}]
  BY <1>3, <1>4, <1>5 DEF TypeOK
<1>7. reply' \in [Client -> 0 .. MaxQuestions]
  BY RoutingAssumption DEF Respond, TypeOK
<1> QED
  BY <1>6, <1>7 DEF TypeOK, Respond, startUnchanged

LEMMA ReceiveTypeOK ==
    ASSUME TypeOK, NEW h \in Handler, ReceiveAnswer(h)
    PROVE  TypeOK' /\ answers'[Slot(h)] = <<>>
<1> DEFINE s == Slot(h)
<1>1. s \in Handler \cup IpcClient
  BY DEF TypeOK, Slot, Tabled, Door
<1>2. PICK a \in Answer : answers[s] = <<a>>
  BY <1>1 DEF TypeOK, ReceiveAnswer
<1>3. answers' = [answers EXCEPT ![s] = <<>>]
  <2>1. Tail(<<a>>) = <<>>
    OBVIOUS
  <2> QED
    BY <1>2, <2>1 DEF ReceiveAnswer
<1> HIDE DEF s
<1>4. /\ answers' \in [Handler \cup IpcClient -> {<<>>} \cup {<<b>> : b \in Answer}]
      /\ answers'[s] = <<>>
  BY <1>1, <1>3 DEF TypeOK
<1>5. /\ pc' \in [Handler -> {"unused", "starting", "refused", "running", "asking",
                               "over", "gone"}]
      /\ question' \in [Handler -> 0 .. MaxQuestions]
  BY RoutingAssumption DEF ReceiveAnswer, Close, TypeOK
<1> QED
  BY <1>4, <1>5 DEF TypeOK, ReceiveAnswer, Close, startUnchanged, s

(* Every attempt is made at one of the doors.                              *)
LEMMA StartIsAttempt ==
    ASSUME NEW h \in Handler, Start(h)
    PROVE  \E d \in Door, auto \in BOOLEAN : Attempt(h, d, auto)
BY DEF Start, HandleRun, ScheduleTimerTask, TriggerScheduledTask, WsRun, GrpcStart,
       IpcRun, Door

LEMMA TableOfIsTable == \A d \in Door : TableOf(d) \in Table
BY DEF TableOf, Table

LEMMA NextTypeOK == TypeOK /\ [Next]_vars => TypeOK'
<1> SUFFICES ASSUME TypeOK, [Next]_vars
             PROVE  TypeOK'
  OBVIOUS
<1> USE RoutingAssumption
<1>1. ASSUME NEW h \in Handler, Start(h)
      PROVE  TypeOK'
  <2>1. PICK d \in Door, auto \in BOOLEAN : Attempt(h, d, auto)
    BY <1>1, StartIsAttempt
  <2>2. (clashed \/ Busy) \in BOOLEAN
    BY DEF TypeOK, Busy
  <2>3. activeHandlers' \in [Table -> Handler \cup {None}]
    BY <2>1, TableOfIsTable DEF TypeOK, Attempt
  <2>4. clashed' \in BOOLEAN
    BY <2>1, <2>2 DEF Attempt
  <2>5. /\ pc' \in [Handler -> {"unused", "starting", "refused", "running", "asking",
                                 "over", "gone"}]
        /\ door' \in [Handler -> Door]
        /\ autoApprove' \subseteq Handler
    BY <2>1 DEF TypeOK, Attempt
  <2> QED
    BY <2>1, <2>3, <2>4, <2>5 DEF TypeOK, Attempt, promptUnchanged
<1>2. ASSUME NEW h \in Handler, Work(h) \/ ReportError(h)
      PROVE  TypeOK'
  <2>1. CASE StartAgent(h)
    BY <2>1 DEF TypeOK, StartAgent, promptUnchanged
  <2>2. CASE Refused(h)
    BY <2>2, TableOfIsTable DEF TypeOK, Refused, Unlist, promptUnchanged
  <2>3. CASE Finish(h)
    BY <2>3, TableOfIsTable DEF TypeOK, Finish, Unlist, promptUnchanged
  <2>4. CASE ReportError(h)
    BY <2>4, TableOfIsTable DEF TypeOK, ReportError, Unlist, promptUnchanged
  <2>5. CASE Deregister(h)
    <3>1. answers' \in [Handler \cup IpcClient -> {<<>>} \cup {<<a>> : a \in Answer}]
      BY <2>5 DEF TypeOK, Deregister
    <3>2. door' \in [Handler -> Door]
      BY <2>5 DEF TypeOK, Deregister, Door
    <3>3. /\ pc' \in [Handler -> {"unused", "starting", "refused", "running",
                                   "asking", "over", "gone"}]
          /\ autoApprove' \subseteq Handler
          /\ cancelled' \subseteq Handler
          /\ registered' \in Handler \cup {None}
      BY <2>5 DEF TypeOK, Deregister
    <3> QED
      BY <2>5, <3>1, <3>2, <3>3 DEF TypeOK, Deregister
  <2> QED
    BY <1>2, <2>1, <2>2, <2>3, <2>4, <2>5 DEF Work
<1>3. ASSUME NEW h \in Handler, AskPermission(h)
      PROVE  TypeOK'
  <2>1. asked' \in 0 .. MaxQuestions
    BY <1>3 DEF TypeOK, AskPermission
  <2> QED
    BY <1>3, <2>1 DEF TypeOK, AskPermission, startUnchanged
<1>4. ASSUME NEW h \in Handler, ReceiveAnswer(h)
      PROVE  TypeOK'
  BY <1>4, ReceiveTypeOK
<1>5. ASSUME NEW h \in Handler, DenyCancelled(h)
      PROVE  TypeOK'
  <2>1. /\ pc' \in [Handler -> {"unused", "starting", "refused", "running", "asking",
                                 "over", "gone"}]
        /\ question' \in [Handler -> 0 .. MaxQuestions]
    BY <1>5 DEF TypeOK, DenyCancelled, Close
  <2> QED
    BY <1>5, <2>1 DEF TypeOK, DenyCancelled, Close, startUnchanged
<1>6. ASSUME NEW auto \in BOOLEAN, SetAutoApprove(auto)
      PROVE  TypeOK'
  BY <1>6 DEF TypeOK, SetAutoApprove, promptUnchanged, Table
<1>7. CASE StopAgent
  BY <1>7 DEF TypeOK, StopAgent, promptUnchanged
<1>8. ASSUME NEW c \in Client, Reply(c)
      PROVE  TypeOK'
  BY <1>8 DEF TypeOK, Reply, startUnchanged
<1>9. ASSUME NEW c \in Client, Respond(c)
      PROVE  TypeOK'
  BY <1>9, RespondTypeOK
<1>10. ASSUME NEW c \in Client, Subscribe(c)
       PROVE  TypeOK'
  BY <1>10 DEF TypeOK, Subscribe, startUnchanged, Table
<1>11. CASE UNCHANGED vars
  BY <1>11 DEF TypeOK, vars
<1> QED
  BY <1>1, <1>2, <1>3, <1>4, <1>5, <1>6, <1>7, <1>8, <1>9, <1>10, <1>11 DEF Next, Wait

(* Every variable keeps its type, and a channel holds one answer at most.  *)
THEOREM TypeCorrect == Spec => []TypeOK
BY InitTypeOK, NextTypeOK, PTL DEF Spec

-----------------------------------------------------------------------------
(* An answer that was in time and is still in the channel of its handler   *)
(* is for the question the handler waits with, or the run was stopped.     *)
InTimeAnswers ==
    \A h \in Handler, a \in Answer :
        answers[h] = <<a>> /\ a.onTime
            => \/ h \in cancelled
               \/ pc[h] = "asking" /\ question[h] = a.about /\ Tabled(h)

LEMMA InitInTime == Init => InTimeAnswers
BY DEF Init, InTimeAnswers

LEMMA NextInTime == TypeOK /\ InTimeAnswers /\ [Next]_vars => InTimeAnswers'
<1> SUFFICES ASSUME TypeOK, InTimeAnswers, [Next]_vars
             PROVE  InTimeAnswers'
  OBVIOUS
<1> USE RoutingAssumption DEF InTimeAnswers, Tabled
<1>1. ASSUME NEW h \in Handler, Start(h)
      PROVE  InTimeAnswers'
  <2>1. PICK d \in Door, auto \in BOOLEAN : Attempt(h, d, auto)
    BY <1>1, StartIsAttempt
  <2>2. /\ pc[h] = "unused" /\ answers' = answers /\ question' = question
        /\ cancelled' = cancelled
        /\ \A g \in Handler : g # h => pc'[g] = pc[g] /\ door'[g] = door[g]
    BY <2>1 DEF TypeOK, Attempt, promptUnchanged
  <2> QED
    BY <2>2
<1>2. ASSUME NEW h \in Handler, Work(h) \/ ReportError(h)
      PROVE  InTimeAnswers'
  <2>1. CASE StartAgent(h)
    BY <2>1 DEF TypeOK, StartAgent, promptUnchanged
  <2>2. CASE Refused(h)
    BY <2>2 DEF TypeOK, Refused, promptUnchanged
  <2>3. CASE Finish(h)
    BY <2>3 DEF TypeOK, Finish, promptUnchanged
  <2>4. CASE ReportError(h)
    BY <2>4 DEF ReportError, promptUnchanged
  <2>5. CASE Deregister(h)
    BY <2>5 DEF TypeOK, Deregister
  <2> QED
    BY <1>2, <2>1, <2>2, <2>3, <2>4, <2>5 DEF Work
<1>3. ASSUME NEW h \in Handler, AskPermission(h)
      PROVE  InTimeAnswers'
  BY <1>3 DEF TypeOK, AskPermission, startUnchanged
<1>4. ASSUME NEW h \in Handler, ReceiveAnswer(h)
      PROVE  InTimeAnswers'
  <2>1. answers'[Slot(h)] = <<>>
    BY <1>4, ReceiveTypeOK
  <2>2. \A g \in Handler : g # Slot(h) => answers'[g] = answers[g]
    BY <1>4 DEF ReceiveAnswer, TypeOK
  <2>3. /\ cancelled' = cancelled /\ door' = door
        /\ \A g \in Handler : g # h => pc'[g] = pc[g] /\ question'[g] = question[g]
    BY <1>4 DEF TypeOK, ReceiveAnswer, Close, startUnchanged
  <2> SUFFICES ASSUME NEW g \in Handler, NEW a \in Answer, answers'[g] = <<a>>, a.onTime
               PROVE  \/ g \in cancelled
                      \/ pc'[g] = "asking" /\ question'[g] = a.about /\ Tabled(g)
    BY <2>3
  <2>4. g # Slot(h)
    <3>1. <<a>> # <<>>
      OBVIOUS
    <3> QED
      BY <2>1, <3>1
  <2>5. CASE g = h
    BY <2>2, <2>4, <2>5 DEF Slot
  <2>6. CASE g # h
    BY <2>2, <2>3, <2>4, <2>6
  <2> QED
    BY <2>5, <2>6
<1>5. ASSUME NEW h \in Handler, DenyCancelled(h)
      PROVE  InTimeAnswers'
  BY <1>5 DEF TypeOK, DenyCancelled, Close, startUnchanged
<1>6. ASSUME NEW auto \in BOOLEAN, SetAutoApprove(auto)
      PROVE  InTimeAnswers'
  BY <1>6 DEF SetAutoApprove, promptUnchanged
<1>7. CASE StopAgent
  BY <1>7 DEF StopAgent, promptUnchanged
<1>8. ASSUME NEW c \in Client, Reply(c) \/ Subscribe(c)
      PROVE  InTimeAnswers'
  BY <1>8 DEF Reply, Subscribe, startUnchanged
<1>9. ASSUME NEW c \in Client, Respond(c)
      PROVE  InTimeAnswers'
  <2> SUFFICES ASSUME NEW h \in Handler, NEW a \in Answer,
                      answers'[h] = <<a>>, a.onTime
               PROVE  \/ h \in cancelled
                      \/ pc[h] = "asking" /\ question[h] = a.about /\ Tabled(h)
    BY <1>9 DEF Respond, startUnchanged
  <2>1. CASE answers'[h] = answers[h]
    BY <2>1
  <2>2. CASE answers'[h] # answers[h]
    <3>1. /\ h = Addressee(c)
          /\ answers'[h] = <<[about |-> reply[c], onTime |-> OnTime(h, reply[c])]>>
      BY <1>9, <2>2 DEF Respond, TypeOK
    <3>2. a = [about |-> reply[c], onTime |-> OnTime(h, reply[c])]
      BY <3>1
    <3>3. PICK g \in Handler : pc[g] = "asking" /\ Slot(g) = h /\ question[g] = reply[c]
      BY <3>2 DEF OnTime
    <3>4. g = h /\ Tabled(h)
      BY <3>3 DEF Slot, Client
    <3> QED
      BY <3>2, <3>3, <3>4
  <2> QED
    BY <2>1, <2>2
<1>10. CASE UNCHANGED vars
  BY <1>10 DEF vars
<1> QED
  BY <1>1, <1>2, <1>3, <1>4, <1>5, <1>6, <1>7, <1>8, <1>9, <1>10 DEF Next, Wait

LEMMA InTimeSuffices == TypeOK /\ InTimeAnswers => OnlyLateAnswersStray
<1> SUFFICES ASSUME TypeOK, InTimeAnswers,
                    NEW h \in Handler, pc[h] = "asking", answers[Slot(h)] # <<>>, Tabled(h)
             PROVE  LET a == Head(answers[Slot(h)]) IN
                    a.about = question[h] \/ ~a.onTime \/ h \in cancelled
  BY DEF OnlyLateAnswersStray
<1>1. PICK a \in Answer : answers[h] = <<a>>
  BY DEF TypeOK, Slot
<1>2. Head(answers[Slot(h)]) = a
  BY <1>1 DEF Slot
<1> QED
  BY <1>1, <1>2 DEF InTimeAnswers

(* "Cada comando, escrita ou deleção deve ser explicitamente aprovado":    *)
(* whatever is asked, answered, doubled or late, an answer decides another *)
(* question than its own only if nobody waited for it when it came, or the *)
(* run was stopped.                                                        *)
THEOREM OnlyLateAnswers == Spec => []OnlyLateAnswersStray
<1>1. Init => TypeOK /\ InTimeAnswers
  BY InitTypeOK, InitInTime
<1>2. TypeOK /\ InTimeAnswers /\ [Next]_vars => (TypeOK /\ InTimeAnswers)'
  BY NextTypeOK, NextInTime
<1> QED
  BY <1>1, <1>2, InTimeSuffices, PTL DEF Spec

-----------------------------------------------------------------------------
(* As long as starts do not clash, one attempt or run at most is alive, a  *)
(* registered run is, the tables name nothing else, and they name it.      *)
Alive(h) == pc[h] \notin {"unused", "gone"}
Listed(h) == pc[h] \in {"starting", "running", "asking"}

OneAlive == \A g \in Handler, h \in Handler : Alive(g) /\ Alive(h) => g = h
RegisteredAlive ==
    registered # None => pc[registered] \in {"running", "asking", "over"}
TablesNameLive ==
    \A t \in Table : activeHandlers[t] # None =>
        LET h == activeHandlers[t] IN Listed(h) /\ Tabled(h) /\ TableOf(door[h]) = t
LiveIsNamed ==
    \A h \in Handler : Listed(h) /\ Tabled(h) => activeHandlers[TableOf(door[h])] = h

Calm == \/ clashed
        \/ OneAlive /\ RegisteredAlive /\ TablesNameLive /\ LiveIsNamed

LEMMA InitCalm == Init => Calm
BY DEF Init, Calm, OneAlive, RegisteredAlive, TablesNameLive, LiveIsNamed, Alive, Listed

LEMMA NextCalm == TypeOK /\ Calm /\ [Next]_vars => Calm'
<1> SUFFICES ASSUME TypeOK, Calm, [Next]_vars, ~clashed'
             PROVE  (OneAlive /\ RegisteredAlive /\ TablesNameLive /\ LiveIsNamed)'
  BY DEF Calm
<1> USE RoutingAssumption DEF Tabled, Alive, Listed
<1>a. ASSUME clashed' = clashed
      PROVE  OneAlive /\ RegisteredAlive /\ TablesNameLive /\ LiveIsNamed
  BY <1>a DEF Calm
<1>1. ASSUME NEW h \in Handler, Start(h)
      PROVE  (OneAlive /\ RegisteredAlive /\ TablesNameLive /\ LiveIsNamed)'
  <2>1. PICK d \in Door, auto \in BOOLEAN : Attempt(h, d, auto)
    BY <1>1, StartIsAttempt
  <2>2. ~Busy /\ ~clashed
    BY <2>1 DEF Attempt
  <2>3. \A g \in Handler : ~Alive(g)
    BY <2>2 DEF Busy
  <2>4. registered = None /\ \A t \in Table : activeHandlers[t] = None
    BY <2>2, <2>3 DEF TypeOK, Calm, RegisteredAlive, TablesNameLive
  <2>5. /\ pc' = [pc EXCEPT ![h] = "starting"] /\ door' = [door EXCEPT ![h] = d]
        /\ registered' = registered
        /\ activeHandlers' = IF d \in IpcClient THEN activeHandlers
                             ELSE [activeHandlers EXCEPT ![TableOf(d)] = h]
    BY <2>1 DEF Attempt
  <2> HIDE DEF Tabled
  <2>6. \A g \in Handler : Alive(g)' => g = h
    BY <2>3, <2>5 DEF TypeOK
  <2>7. OneAlive' /\ RegisteredAlive'
    BY <2>4, <2>5, <2>6 DEF OneAlive, RegisteredAlive
  <2>8. Listed(h)' /\ door'[h] = d
    BY <2>5 DEF TypeOK
  <2>9. TableOf(d) \in Table
    BY TableOfIsTable
  <2>10. TablesNameLive'
    BY <2>4, <2>5, <2>8, <2>9 DEF TablesNameLive, TypeOK, Tabled
  <2>11. LiveIsNamed'
    BY <2>5, <2>6, <2>8, <2>9 DEF LiveIsNamed, TypeOK, Tabled
  <2> QED
    BY <2>7, <2>10, <2>11
<1>2. ASSUME NEW h \in Handler, StartAgent(h)
      PROVE  (OneAlive /\ RegisteredAlive /\ TablesNameLive /\ LiveIsNamed)'
  <2>1. OneAlive /\ RegisteredAlive /\ TablesNameLive /\ LiveIsNamed
    BY <1>a, <1>2 DEF StartAgent
  <2>2. registered = None
    BY <1>2, <2>1 DEF TypeOK, StartAgent, OneAlive, RegisteredAlive
  <2>3. /\ pc' = [pc EXCEPT ![h] = "running"] /\ registered' = h /\ pc[h] = "starting"
        /\ door' = door /\ activeHandlers' = activeHandlers
    BY <1>2, <2>2 DEF StartAgent
  <2> QED
    BY <2>1, <2>3 DEF TypeOK, OneAlive, RegisteredAlive, TablesNameLive, LiveIsNamed
<1>3. ASSUME NEW h \in Handler, Refused(h) \/ Finish(h) \/ ReportError(h)
      PROVE  (OneAlive /\ RegisteredAlive /\ TablesNameLive /\ LiveIsNamed)'
  <2>1. OneAlive /\ RegisteredAlive /\ TablesNameLive /\ LiveIsNamed
    BY <1>a, <1>3 DEF Refused, Finish, ReportError
  <2>2. /\ pc[h] \in {"refused", "running", "over"}
        /\ \/ pc' = [pc EXCEPT ![h] = "gone"] /\ pc[h] = "refused"
           \/ pc' = [pc EXCEPT ![h] = "over"] /\ pc[h] \in {"running", "over"}
        /\ door' = door /\ registered' = registered
        /\ \/ activeHandlers' = activeHandlers
           \/ Tabled(h) /\ activeHandlers' = [activeHandlers EXCEPT ![TableOf(door[h])] = None]
        /\ pc[h] = "running" /\ Tabled(h) =>
              activeHandlers' = [activeHandlers EXCEPT ![TableOf(door[h])] = None]
    BY <1>3 DEF TypeOK, Refused, Finish, ReportError, Unlist
  <2>3. \A g \in Handler : g # h => ~Alive(g)
    BY <2>1, <2>2 DEF OneAlive
  <2>4. OneAlive'
    BY <2>2, <2>3 DEF OneAlive, TypeOK
  <2>5. RegisteredAlive'
    BY <2>1, <2>2, <2>3 DEF RegisteredAlive, TypeOK
  <2>6. \A t \in Table : activeHandlers'[t] = None
    <3> SUFFICES ASSUME NEW t \in Table, activeHandlers'[t] # None
                 PROVE  FALSE
      OBVIOUS
    <3>1. activeHandlers[t] # None
      BY <2>2 DEF TypeOK
    <3>2. activeHandlers[t] = h
      <4>1. activeHandlers[t] \in Handler
        BY <3>1 DEF TypeOK
      <4>2. Listed(activeHandlers[t])
        BY <2>1, <3>1 DEF TablesNameLive
      <4> QED
        BY <2>3, <4>1, <4>2
    <3>3. pc[h] = "running" /\ Tabled(h) /\ TableOf(door[h]) = t
      <4>1. Listed(h) /\ Tabled(h) /\ TableOf(door[h]) = t
        BY <2>1, <3>1, <3>2 DEF TablesNameLive
      <4> QED
        BY <2>2, <4>1
    <3>4. activeHandlers' = [activeHandlers EXCEPT ![TableOf(door[h])] = None]
      <4>1. pc[h] = "running" /\ Tabled(h)
        BY <3>3
      <4> HIDE DEF Tabled
      <4> QED
        BY <2>2, <4>1
    <3>5. activeHandlers \in [Table -> Handler \cup {None}]
      BY DEF TypeOK
    <3> QED
      BY <3>3, <3>4, <3>5
  <2>7. \A g \in Handler : ~Listed(g)'
    BY <2>2, <2>3 DEF TypeOK
  <2>8. TablesNameLive' /\ LiveIsNamed'
    BY <2>6, <2>7 DEF TablesNameLive, LiveIsNamed
  <2> QED
    BY <2>4, <2>5, <2>8
<1>4. ASSUME NEW h \in Handler, Deregister(h)
      PROVE  (OneAlive /\ RegisteredAlive /\ TablesNameLive /\ LiveIsNamed)'
  <2>1. OneAlive /\ RegisteredAlive /\ TablesNameLive /\ LiveIsNamed
    BY <1>a, <1>4 DEF Deregister
  <2>2. \A g \in Handler : ~Alive(g)'
    BY <1>4, <2>1 DEF Deregister, OneAlive, TypeOK
  <2>3. \A t \in Table : activeHandlers'[t] = None
    BY <1>4, <2>1 DEF Deregister, OneAlive, TablesNameLive, TypeOK
  <2> QED
    BY <1>4, <2>2, <2>3 DEF Deregister, OneAlive, RegisteredAlive, TablesNameLive, LiveIsNamed
<1>5. ASSUME NEW h \in Handler, AskPermission(h) \/ ReceiveAnswer(h) \/ DenyCancelled(h)
      PROVE  (OneAlive /\ RegisteredAlive /\ TablesNameLive /\ LiveIsNamed)'
  <2>1. OneAlive /\ RegisteredAlive /\ TablesNameLive /\ LiveIsNamed
    BY <1>a, <1>5 DEF AskPermission, ReceiveAnswer, DenyCancelled, Close, startUnchanged
  <2>2. /\ pc[h] \in {"running", "asking"}
        /\ \/ pc' = [pc EXCEPT ![h] = "running"]
           \/ pc' = [pc EXCEPT ![h] = "asking"]
        /\ door' = door /\ registered' = registered /\ activeHandlers' = activeHandlers
    BY <1>5 DEF AskPermission, ReceiveAnswer, DenyCancelled, Close, startUnchanged
  <2>3. /\ Listed(h)' /\ Listed(h) /\ Alive(h) /\ pc'[h] \in {"running", "asking"}
        /\ \A g \in Handler : g # h => pc'[g] = pc[g]
    BY <2>2 DEF TypeOK
  <2>4. \A g \in Handler : (Alive(g)' <=> Alive(g)) /\ (Listed(g)' <=> Listed(g))
    BY <2>3
  <2>5. OneAlive' /\ LiveIsNamed'
    BY <2>1, <2>2, <2>4 DEF OneAlive, LiveIsNamed
  <2>6. RegisteredAlive'
    BY <2>1, <2>2, <2>3 DEF RegisteredAlive, TypeOK
  <2>7. TablesNameLive'
    BY <2>1, <2>2, <2>4 DEF TablesNameLive, TypeOK
  <2> QED
    BY <2>5, <2>6, <2>7
<1>6. ASSUME \/ \E auto \in BOOLEAN : SetAutoApprove(auto)
             \/ StopAgent
             \/ \E c \in Client : Reply(c) \/ Respond(c) \/ Subscribe(c)
             \/ UNCHANGED vars
      PROVE  (OneAlive /\ RegisteredAlive /\ TablesNameLive /\ LiveIsNamed)'
  <2>1. /\ clashed' = clashed /\ pc' = pc /\ door' = door
        /\ activeHandlers' = activeHandlers /\ registered' \in {registered, None}
    BY <1>6 DEF SetAutoApprove, StopAgent, Reply, Respond, Subscribe, startUnchanged, vars
  <2>2. OneAlive /\ RegisteredAlive /\ TablesNameLive /\ LiveIsNamed
    BY <1>a, <2>1
  <2> QED
    BY <2>1, <2>2 DEF OneAlive, RegisteredAlive, TablesNameLive, LiveIsNamed
<1> QED
  BY <1>1, <1>2, <1>3, <1>4, <1>5, <1>6 DEF Next, Work, Wait

LEMMA CalmSuffices == TypeOK /\ Calm => AnswersFindTheAgent
BY RoutingAssumption
   DEF TypeOK, Calm, AnswersFindTheAgent, Reachable, Working, RegisteredAlive,
       TablesNameLive, LiveIsNamed, Listed

(* As long as starts of the workspace do not clash, whatever the doors,    *)
(* the clients and the stops, answers find the running agent and a table   *)
(* names no handler that has nothing to ask.                               *)
THEOREM AnswersFind == Spec => []AnswersFindTheAgent
<1>1. Init => TypeOK /\ Calm
  BY InitTypeOK, InitCalm
<1>2. TypeOK /\ Calm /\ [Next]_vars => (TypeOK /\ Calm)'
  BY NextTypeOK, NextCalm
<1> QED
  BY <1>1, <1>2, CalmSuffices, PTL DEF Spec

-----------------------------------------------------------------------------
(* The lease of the workspace.  Until a run is stopped the registered one   *)
(* is the one that has the workspace, clash or not.                        *)
HolderIsRegistered == \A h \in Handler : Holds(h) <=> registered = h

HolderIsThis == Holder = [w \in {"here"} |-> registered]

NotStopped == cancelled = {}

LEMMA HolderIs ==
    ASSUME TypeOK, HolderIsRegistered
    PROVE  HolderIsThis
<1> USE DEF HolderIsThis
<1>1. CASE registered = None
  <2>1. \A h \in Handler : ~Holds(h)
    BY <1>1, RoutingAssumption DEF HolderIsRegistered
  <2> QED BY <1>1, <2>1 DEF Holder
<1>2. CASE registered \in Handler
  <2>1. Holds(registered) /\ \A h \in Handler : Holds(h) => h = registered
    BY <1>2 DEF HolderIsRegistered
  <2> QED BY <1>2, <2>1 DEF Holder
<1> QED BY <1>1, <1>2 DEF TypeOK

(* What each step does to the registered run and to those that hold.       *)
LEMMA RegistrationSteps ==
    ASSUME TypeOK, HolderIsRegistered, NotStopped', [Next]_vars
    PROVE  /\ HolderIsRegistered'
           /\ \/ registered' = registered
              \/ registered = None /\ registered' \in Handler
              \/ registered \in Handler /\ registered' = None
<1> USE RoutingAssumption
<1>1. ASSUME NEW h \in Handler, Start(h)
      PROVE  HolderIsRegistered' /\ registered' = registered
  <2>1. PICK d \in Door, auto \in BOOLEAN : Attempt(h, d, auto)
    BY <1>1, StartIsAttempt
  <2>2. /\ pc[h] = "unused" /\ pc' = [pc EXCEPT ![h] = "starting"]
        /\ registered' = registered
    BY <2>1 DEF Attempt
  <2>3. \A g \in Handler : Holds(g)' <=> Holds(g)
    BY <2>2 DEF TypeOK, Holds
  <2> QED BY <2>2, <2>3 DEF HolderIsRegistered
<1>2. ASSUME NEW h \in Handler, StartAgent(h)
      PROVE  /\ HolderIsRegistered'
             /\ registered' = registered \/ (registered = None /\ registered' = h)
  <2>1. CASE registered = None
    <3>1. pc' = [pc EXCEPT ![h] = "running"] /\ registered' = h
      BY <1>2, <2>1 DEF StartAgent
    <3>2. \A g \in Handler : ~Holds(g)
      BY <2>1 DEF HolderIsRegistered
    <3>3. \A g \in Handler : Holds(g)' <=> g = h
      BY <3>1, <3>2 DEF TypeOK, Holds
    <3> QED BY <2>1, <3>1, <3>3 DEF HolderIsRegistered
  <2>2. CASE registered # None
    <3>1. /\ pc[h] = "starting" /\ pc' = [pc EXCEPT ![h] = "refused"]
          /\ registered' = registered
      BY <1>2, <2>2 DEF StartAgent
    <3>2. \A g \in Handler : Holds(g)' <=> Holds(g)
      BY <3>1 DEF TypeOK, Holds
    <3> QED BY <3>1, <3>2 DEF HolderIsRegistered
  <2> QED BY <2>1, <2>2
<1>3. ASSUME NEW h \in Handler, Deregister(h)
      PROVE  HolderIsRegistered' /\ registered = h /\ registered' = None
  <2>1. pc[h] = "over" /\ pc' = [pc EXCEPT ![h] = "gone"] /\ registered' = None
    BY <1>3 DEF Deregister
  <2>2. registered = h
    BY <2>1 DEF HolderIsRegistered, Holds
  <2>3. \A g \in Handler : ~Holds(g)'
    BY <2>1, <2>2 DEF TypeOK, HolderIsRegistered, Holds
  <2> QED BY <2>1, <2>2, <2>3 DEF HolderIsRegistered
<1>4. ASSUME NEW h \in Handler,
             \/ Refused(h) \/ Finish(h) \/ ReportError(h)
             \/ AskPermission(h) \/ ReceiveAnswer(h) \/ DenyCancelled(h)
      PROVE  HolderIsRegistered' /\ registered' = registered
  <2>1. /\ registered' = registered
        /\ \/ pc[h] = "refused" /\ pc' = [pc EXCEPT ![h] = "gone"]
           \/ /\ pc[h] \in {"running", "asking", "over"}
              /\ \E p \in {"running", "asking", "over"} : pc' = [pc EXCEPT ![h] = p]
    BY <1>4 DEF TypeOK, Refused, Finish, ReportError, AskPermission, ReceiveAnswer,
                DenyCancelled, Close, startUnchanged
  <2>2. \A g \in Handler : Holds(g)' <=> Holds(g)
    BY <2>1 DEF TypeOK, Holds
  <2> QED BY <2>1, <2>2 DEF HolderIsRegistered
<1>5. ASSUME StopAgent PROVE FALSE
  BY <1>5 DEF StopAgent, NotStopped
<1>6. ASSUME \/ \E auto \in BOOLEAN : SetAutoApprove(auto)
             \/ \E c \in Client : Reply(c) \/ Respond(c) \/ Subscribe(c)
             \/ UNCHANGED vars
      PROVE  HolderIsRegistered' /\ registered' = registered
  <2>1. pc' = pc /\ registered' = registered
    BY <1>6 DEF SetAutoApprove, Reply, Respond, Subscribe, startUnchanged, vars
  <2> QED BY <2>1 DEF HolderIsRegistered, Holds
<1> QED BY <1>1, <1>2, <1>3, <1>4, <1>5, <1>6 DEF Next, Work, Wait

LEMMA StepIsLease ==
    ASSUME TypeOK, HolderIsRegistered, NotStopped', HolderIsThis, HolderIsThis',
           [Next]_vars
    PROVE  [Lease!Next]_Holder
<1> USE DEF HolderIsThis
<1>1. CASE registered' = registered
  BY <1>1
<1>2. CASE registered = None /\ registered' \in Handler
  BY <1>2 DEF Lease!Next, Lease!Acquire
<1>3. CASE registered \in Handler /\ registered' = None
  BY <1>3, RoutingAssumption DEF Lease!Next, Lease!Release
<1> QED BY <1>1, <1>2, <1>3, RegistrationSteps

(* What this module takes the orchestrator to do is what AgentLifecycle is *)
(* proved to implement: until a run is stopped, however starts clash and   *)
(* are refused, StartAgent takes the workspace's lease, the deferred       *)
(* delete gives it back, and no other step touches it.                     *)
THEOREM RoutingUsesLease == Spec /\ []NotStopped => Lease!Spec
<1>1. Init => TypeOK /\ HolderIsRegistered /\ Lease!Init
  BY InitTypeOK, RoutingAssumption DEF Init, HolderIsRegistered, Holds, Holder, Lease!Init
<1>2. TypeOK /\ HolderIsRegistered /\ NotStopped' /\ [Next]_vars
        => (TypeOK /\ HolderIsRegistered)'
  BY NextTypeOK, RegistrationSteps
<1>3. TypeOK /\ HolderIsRegistered => HolderIsThis
  BY HolderIs
<1>4. TypeOK /\ HolderIsRegistered /\ NotStopped' /\ HolderIsThis /\ HolderIsThis'
        /\ [Next]_vars => [Lease!Next]_Holder
  BY StepIsLease
<1> QED BY <1>1, <1>2, <1>3, <1>4, PTL DEF Spec, Lease!Spec
=============================================================================
