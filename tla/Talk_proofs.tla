-------------------------------- MODULE Talk_proofs --------------------------------
(***************************************************************************)
(* What of the conversation a request has, and which calls the loop reads  *)
(* out of a text. For any history, limit, text and set of tools.           *)
(***************************************************************************)
EXTENDS MCDecisions, Iteration, FiniteSetTheorems, SequenceTheorems, TLAPS

-----------------------------------------------------------------------------
TalkMessage == [role : Talk!Roles, calls : SUBSET (Nat \X Nat), large : BOOLEAN]
TalkPlain(m) == m.role \in {"system", "user", "summary"}
TalkSameReply(ids) == \A x, y \in ids : x[1] = y[1]

(* The calls of a history are answered after they were made.               *)
TalkAllAnswered(ms) ==
    \A i \in DOMAIN ms : Talk!Asked(ms, i) =>
        /\ TalkSameReply(ms[i].calls)
        /\ \A id \in ms[i].calls : \E j \in i+1..Len(ms) : Talk!Answers(ms, j, id)

(* Each answer has its call before it, and only answers to the same reply   *)
(* between the two.                                                        *)
TalkCaller(ms, c, j) ==
    /\ c \in DOMAIN ms /\ c < j /\ Talk!Asked(ms, c)
    /\ \A k \in c+1..j : ms[k].role = "tool" /\ ms[k].calls \subseteq ms[c].calls
TalkAllCalled(ms) ==
    \A j \in DOMAIN ms : ms[j].role = "tool" =>
        ms[j].calls # {} /\ \E c \in DOMAIN ms : TalkCaller(ms, c, j)

TalkWhole(ms) == ms \in Seq(TalkMessage) /\ TalkAllAnswered(ms) /\ TalkAllCalled(ms)

(* A history opens with system messages and the first intent.              *)
TalkOpens(ms) == \E u \in DOMAIN ms : /\ ms[u].role = "user"
                                      /\ \A i \in 1..(u-1) : ms[i].role = "system"

(* A request: some messages that are neither calls nor answers, or the     *)
(* first message twice, and a history from one of its places on.           *)
TalkTail4(r, n, ms, s) ==
    /\ r \in Seq(TalkMessage) /\ n \in Nat /\ s \in Nat /\ s >= 1
    /\ n <= Len(r) /\ Len(r) - n = Len(ms) + 1 - s
    /\ \A i \in n+1..Len(r) : r[i] = ms[((i + s) - n) - 1]
TalkPlainFront(r, n) == \A i \in 1..n : TalkPlain(r[i])
TalkTwice(r, n) == n = 1 /\ Len(r) > 1 /\ r[1] = r[2]
TalkForm(r, n, ms, s) == TalkTail4(r, n, ms, s) /\ (TalkPlainFront(r, n) \/ TalkTwice(r, n))

-----------------------------------------------------------------------------
LEMMA TalkMsgIs ==
    ASSUME NEW role \in Talk!Roles, NEW ids \in SUBSET (Nat \X Nat), NEW big \in BOOLEAN
    PROVE  /\ Talk!Msg(role, ids, big) \in TalkMessage
           /\ Talk!Msg(role, ids, big).role = role /\ Talk!Msg(role, ids, big).calls = ids
BY DEF Talk!Msg, TalkMessage

LEMMA TalkOneIs ==
    ASSUME NEW m \in TalkMessage
    PROVE  <<m>> \in Seq(TalkMessage) /\ Len(<<m>>) = 1 /\ <<m>>[1] = m /\ DOMAIN <<m>> = 1..1
<1> HIDE DEF TalkMessage
<1> QED OBVIOUS

(* What joining two sequences gives.                                       *)
LEMMA TalkJoinIs ==
    ASSUME NEW p \in Seq(TalkMessage), NEW q \in Seq(TalkMessage)
    PROVE  /\ p \o q \in Seq(TalkMessage) /\ Len(p \o q) = Len(p) + Len(q)
           /\ DOMAIN (p \o q) = 1..(Len(p) + Len(q))
           /\ Len(p) \in Nat /\ Len(q) \in Nat
           /\ DOMAIN p = 1..Len(p) /\ DOMAIN q = 1..Len(q)
           /\ \A i \in DOMAIN p : (p \o q)[i] = p[i]
           /\ \A i \in DOMAIN q : (p \o q)[Len(p) + i] = q[i]
           /\ \A i \in DOMAIN (p \o q) : \/ i \in DOMAIN p
                                         \/ i - Len(p) \in DOMAIN q /\ i = Len(p) + (i - Len(p))
<1> DEFINE w == p \o q
<1>1. /\ w \in Seq(TalkMessage) /\ Len(w) = Len(p) + Len(q)
      /\ \A i \in 1..(Len(p) + Len(q)) : w[i] = IF i <= Len(p) THEN p[i] ELSE q[i - Len(p)]
  BY ConcatProperties
<1>2. /\ DOMAIN w = 1..Len(w) /\ Len(p) \in Nat /\ Len(q) \in Nat
      /\ DOMAIN p = 1..Len(p) /\ DOMAIN q = 1..Len(q)
  BY <1>1
<1> HIDE DEF w
<1>3. \A i \in DOMAIN p : w[i] = p[i]
  BY <1>1, <1>2
<1>4. ASSUME NEW i \in DOMAIN q PROVE w[Len(p) + i] = q[i]
  <2>1. /\ Len(p) + i \in 1..(Len(p) + Len(q)) /\ ~(Len(p) + i <= Len(p))
        /\ (Len(p) + i) - Len(p) = i
    BY <1>2
  <2> QED BY <1>1, <2>1
<1>5. \A i \in DOMAIN w : \/ i \in DOMAIN p
                          \/ i - Len(p) \in DOMAIN q /\ i = Len(p) + (i - Len(p))
  BY <1>1, <1>2
<1> QED BY <1>1, <1>2, <1>3, <1>4, <1>5 DEF w

LEMMA TalkTwoAre == ASSUME NEW m \in TalkMessage, NEW o \in TalkMessage
    PROVE <<m, o>> = <<m>> \o <<o>>
<1> DEFINE p == <<m>>
           q == <<o>>
           v == <<m, o>>
           w == p \o q
<1>1. p \in Seq(TalkMessage) /\ Len(p) = 1 /\ p[1] = m /\ q \in Seq(TalkMessage) /\
      Len(q) = 1 /\ q[1] = o
  BY TalkOneIs
<1>2. v \in Seq(TalkMessage) /\ Len(v) = 2 /\ v[1] = m /\ v[2] = o
  <2> HIDE DEF TalkMessage
  <2> QED OBVIOUS
<1> HIDE DEF p, q, v
<1>3. /\ w \in Seq(TalkMessage) /\ Len(w) = 2 /\ w[1] = m /\ w[2] = o
  <2>1. /\ w \in Seq(TalkMessage) /\ Len(w) = Len(p) + Len(q) /\ DOMAIN p = 1..Len(p) /\
           DOMAIN q = 1..Len(q)
        /\ \A i \in DOMAIN p : w[i] = p[i]
        /\ \A i \in DOMAIN q : w[Len(p) + i] = q[i]
    BY <1>1, TalkJoinIs
  <2> HIDE DEF w
  <2>2. 1 \in DOMAIN p /\ 1 \in DOMAIN q /\ Len(p) + 1 = 2
    BY <1>1, <2>1
  <2> QED BY <1>1, <2>1, <2>2
<1> HIDE DEF w
<1>4. v = w
  <2>1. \A i \in 1..Len(v) : v[i] = w[i]
    BY <1>2, <1>3
  <2> QED BY <1>2, <1>3, <2>1, SeqEqual
<1> QED BY <1>4 DEF p, q, v, w

(* What is whole stays so when a whole part is added.                      *)
LEMMA TalkJoinWhole ==
    ASSUME NEW p, TalkWhole(p), NEW q, TalkWhole(q)
    PROVE  TalkWhole(p \o q)
<1> DEFINE w == p \o q
           n == Len(p)
<1>1. p \in Seq(TalkMessage) /\ q \in Seq(TalkMessage)
  BY DEF TalkWhole
<1>2. /\ w \in Seq(TalkMessage) /\ Len(w) = n + Len(q)
      /\ DOMAIN w = 1..(n + Len(q)) /\ n \in Nat /\ Len(q) \in Nat
      /\ DOMAIN p = 1..n /\ DOMAIN q = 1..Len(q)
      /\ \A i \in DOMAIN p : w[i] = p[i]
      /\ \A i \in DOMAIN q : w[n + i] = q[i]
      /\ \A i \in DOMAIN w : i \in DOMAIN p \/ (i - n \in DOMAIN q /\ i = n + (i - n))
  BY <1>1, TalkJoinIs
<1> HIDE DEF w, n
<1>3. TalkAllAnswered(w)
  <2>1. SUFFICES ASSUME NEW i \in DOMAIN w, Talk!Asked(w, i)
                 PROVE  /\ TalkSameReply(w[i].calls)
                        /\ \A id \in w[i].calls : \E j \in i+1..Len(w) : Talk!Answers(w, j, id)
    BY DEF TalkAllAnswered
  <2>2. CASE i \in DOMAIN p
    <3>1. Talk!Asked(p, i) /\ w[i] = p[i]
      BY <1>2, <2>1, <2>2 DEF Talk!Asked
    <3>2. /\ TalkSameReply(p[i].calls)
          /\ \A id \in p[i].calls : \E j \in i+1..Len(p) : Talk!Answers(p, j, id)
      BY <2>2, <3>1 DEF TalkWhole, TalkAllAnswered
    <3>3. ASSUME NEW id \in p[i].calls PROVE \E j \in i+1..Len(w) : Talk!Answers(w, j, id)
      <4>1. PICK j \in i+1..Len(p) : Talk!Answers(p, j, id)
        BY <3>2
      <4>2. j \in DOMAIN p /\ j \in i+1..Len(w)
        BY <1>2, <2>2 DEF n
      <4>3. Talk!Answers(w, j, id)
        BY <1>2, <4>1, <4>2 DEF Talk!Answers
      <4> QED BY <4>2, <4>3
    <3> QED BY <3>1, <3>2, <3>3
  <2>3. CASE i - n \in DOMAIN q /\ i = n + (i - n)
    <3> DEFINE k == i - n
    <3>1. k \in DOMAIN q /\ w[i] = q[k]
      BY <1>2, <2>3
    <3> HIDE DEF k
    <3>2. Talk!Asked(q, k)
      BY <2>1, <3>1 DEF Talk!Asked
    <3>3. /\ TalkSameReply(q[k].calls)
          /\ \A id \in q[k].calls : \E j \in k+1..Len(q) : Talk!Answers(q, j, id)
      BY <3>1, <3>2 DEF TalkWhole, TalkAllAnswered
    <3>4. ASSUME NEW id \in q[k].calls PROVE \E j \in i+1..Len(w) : Talk!Answers(w, j, id)
      <4>1. PICK j \in k+1..Len(q) : Talk!Answers(q, j, id)
        BY <3>3
      <4>2. j \in DOMAIN q /\ n + j \in i+1..Len(w)
        BY <1>2, <2>3, <3>1 DEF k
      <4>3. Talk!Answers(w, n + j, id)
        BY <1>2, <4>1, <4>2 DEF Talk!Answers
      <4> QED BY <4>2, <4>3
    <3> QED BY <3>1, <3>3, <3>4
  <2> QED BY <1>2, <2>2, <2>3
<1>4. TalkAllCalled(w)
  <2>1. SUFFICES ASSUME NEW j \in DOMAIN w, w[j].role = "tool"
                 PROVE  w[j].calls # {} /\ \E c \in DOMAIN w : TalkCaller(w, c, j)
    BY DEF TalkAllCalled
  <2>2. CASE j \in DOMAIN p
    <3>1. w[j] = p[j]
      BY <1>2, <2>2
    <3>2. p[j].calls # {} /\ \E c \in DOMAIN p : TalkCaller(p, c, j)
      BY <2>1, <2>2, <3>1 DEF TalkWhole, TalkAllCalled
    <3>3. PICK c \in DOMAIN p : TalkCaller(p, c, j)
      BY <3>2
    <3>4. /\ c \in DOMAIN p /\ c \in DOMAIN w /\ w[c] = p[c]
          /\ \A k \in c+1..j : k \in DOMAIN p /\ w[k] = p[k]
      BY <1>2, <2>2, <3>3 DEF TalkCaller
    <3>5. TalkCaller(w, c, j)
      BY <3>3, <3>4 DEF TalkCaller, Talk!Asked
    <3> QED BY <3>1, <3>2, <3>4, <3>5
  <2>3. CASE j - n \in DOMAIN q /\ j = n + (j - n)
    <3> DEFINE i == j - n
    <3>1. i \in DOMAIN q /\ w[j] = q[i]
      BY <1>2, <2>3
    <3>2. j = n + i
      BY <2>3
    <3> HIDE DEF i
    <3>3. q[i].calls # {} /\ \E c \in DOMAIN q : TalkCaller(q, c, i)
      BY <2>1, <3>1 DEF TalkWhole, TalkAllCalled
    <3>4. PICK c \in DOMAIN q : TalkCaller(q, c, i)
      BY <3>3
    <3>5. c \in DOMAIN q /\ n + c \in DOMAIN w /\ w[n + c] = q[c] /\ n + c < j
      BY <1>2, <3>1, <3>2, <3>4 DEF TalkCaller
    <3>6. ASSUME NEW k \in n+c+1..j
          PROVE  w[k].role = "tool" /\ w[k].calls \subseteq w[n + c].calls
      <4>1. k - n \in c+1..i /\ k - n \in DOMAIN q /\ k = n + (k - n)
        BY <1>2, <3>1, <3>2, <3>5
      <4>2. w[k] = q[k - n]
        BY <1>2, <4>1
      <4> QED BY <3>4, <3>5, <4>1, <4>2 DEF TalkCaller
    <3>7. TalkCaller(w, n + c, j)
      <4>1. Talk!Asked(w, n + c)
        BY <3>4, <3>5 DEF TalkCaller, Talk!Asked
      <4> QED BY <3>5, <3>6, <4>1 DEF TalkCaller
    <3> QED BY <3>1, <3>3, <3>5, <3>7
  <2> QED BY <1>2, <2>2, <2>3
<1> QED BY <1>2, <1>3, <1>4 DEF TalkWhole, w

(* Messages that neither call nor answer are whole.                        *)
LEMMA TalkPlainWhole ==
    ASSUME NEW w \in Seq(TalkMessage),
           \A i \in DOMAIN w : w[i].role # "tool" /\ (Talk!Asked(w, i) => w[i].calls = {})
    PROVE  TalkWhole(w)
BY DEF TalkWhole, TalkAllAnswered, TalkAllCalled, TalkSameReply

(* The messages of a reply, the calls and their answers, are whole.        *)
LEMMA TalkReplyWhole ==
    ASSUME NEW t \in Nat, NEW num \in Nat, NEW big \in BOOLEAN, NEW ids,
           ids = {<<t, c>> : c \in 1..num}
    PROVE  TalkWhole(<<Talk!Msg("assistant", ids, FALSE)>>
                       \o [c \in 1..num |-> Talk!Msg("tool", {<<t, c>>}, big)])
<1> DEFINE p == <<Talk!Msg("assistant", ids, FALSE)>>
           q == [c \in 1..num |-> Talk!Msg("tool", {<<t, c>>}, big)]
           w == p \o q
<1>1. p \in Seq(TalkMessage) /\ Len(p) = 1 /\ p[1] = Talk!Msg("assistant", ids, FALSE)
  <2>1. ids \in SUBSET (Nat \X Nat)
    OBVIOUS
  <2>2. Talk!Msg("assistant", ids, FALSE) \in TalkMessage
    <3>1. "assistant" \in Talk!Roles /\ FALSE \in BOOLEAN
      BY DEF Talk!Roles
    <3> QED BY <2>1, <3>1, TalkMsgIs
  <2> QED BY <2>2, TalkOneIs
<1>2. q \in Seq(TalkMessage) /\ Len(q) = num /\
      \A c \in 1..num : q[c] = Talk!Msg("tool", {<<t, c>>}, big)
  <2>1. \A c \in 1..num : Talk!Msg("tool", {<<t, c>>}, big) \in TalkMessage
    BY DEF Talk!Msg, TalkMessage, Talk!Roles
  <2> QED BY <2>1
<1> HIDE DEF p, q, w
<1>3. /\ w \in Seq(TalkMessage) /\ Len(w) = 1 + num /\ DOMAIN w = 1..(1 + num)
      /\ DOMAIN p = 1..1 /\ DOMAIN q = 1..num
      /\ \A i \in DOMAIN p : w[i] = p[i]
      /\ \A i \in DOMAIN q : w[1 + i] = q[i]
  <2>1. /\ w \in Seq(TalkMessage) /\ Len(w) = Len(p) + Len(q)
        /\ DOMAIN w = 1..(Len(p) + Len(q)) /\ DOMAIN p = 1..Len(p) /\ DOMAIN q = 1..Len(q)
        /\ \A i \in DOMAIN p : w[i] = p[i]
        /\ \A i \in DOMAIN q : w[Len(p) + i] = q[i]
    BY <1>1, <1>2, TalkJoinIs DEF w
  <2> QED BY <1>1, <1>2, <2>1
<1>4. w[1].role = "assistant" /\ w[1].calls = ids
  BY <1>1, <1>3 DEF Talk!Msg
<1>5. \A c \in 1..num : w[1 + c].role = "tool" /\ w[1 + c].calls = {<<t, c>>}
  <2>1. ASSUME NEW c \in 1..num PROVE w[1 + c].role = "tool" /\ w[1 + c].calls = {<<t, c>>}
    <3>1. w[1 + c] = Talk!Msg("tool", {<<t, c>>}, big)
      BY <1>2, <1>3
    <3> QED BY <3>1 DEF Talk!Msg
  <2> QED BY <2>1
<1>6. \A k \in 2..(1 + num) : \E c \in 1..num : k = 1 + c
  <2>1. \A k \in 2..(1 + num) : k - 1 \in 1..num /\ k = 1 + (k - 1)
    OBVIOUS
  <2> QED BY <2>1
<1>7. \A k \in 2..(1 + num) : w[k].role = "tool" /\ w[k].calls \subseteq ids /\ w[k].calls # {}
  <2>1. ASSUME NEW k \in 2..(1 + num)
        PROVE  w[k].role = "tool" /\ w[k].calls \subseteq ids /\ w[k].calls # {}
    <3>1. PICK c \in 1..num : k = 1 + c
      BY <1>6
    <3>2. w[k].role = "tool" /\ w[k].calls = {<<t, c>>} /\ <<t, c>> \in ids
      BY <1>5, <3>1
    <3> QED BY <3>2
  <2> QED BY <2>1
<1>8. TalkAllAnswered(w)
  <2>1. SUFFICES ASSUME NEW i \in DOMAIN w, Talk!Asked(w, i)
                 PROVE  /\ TalkSameReply(w[i].calls)
                        /\ \A id \in w[i].calls : \E j \in i+1..Len(w) : Talk!Answers(w, j, id)
    BY DEF TalkAllAnswered
  <2>2. i = 1 /\ w[i].calls = ids /\ i + 1 = 2
    BY <1>3, <1>4, <1>7, <2>1 DEF Talk!Asked
  <2>3. TalkSameReply(ids)
    BY DEF TalkSameReply
  <2>4. ASSUME NEW id \in ids PROVE \E j \in 2..Len(w) : Talk!Answers(w, j, id)
    <3>1. PICK c \in 1..num : id = <<t, c>>
      OBVIOUS
    <3>2. 1 + c \in 2..Len(w) /\ Talk!Answers(w, 1 + c, id)
      BY <1>3, <1>5, <3>1 DEF Talk!Answers
    <3> QED BY <3>2
  <2> QED BY <2>2, <2>3, <2>4
<1>9. TalkAllCalled(w)
  <2>1. SUFFICES ASSUME NEW j \in DOMAIN w, w[j].role = "tool"
                 PROVE  w[j].calls # {} /\ \E c \in DOMAIN w : TalkCaller(w, c, j)
    BY DEF TalkAllCalled
  <2>2. j \in 2..(1 + num) /\ 1 \in DOMAIN w /\ 1 < j
    BY <1>3, <1>4, <2>1
  <2>3. \A k \in 1+1..j : k \in 2..(1 + num)
    BY <2>2
  <2>4. TalkCaller(w, 1, j)
    BY <1>4, <1>7, <2>2, <2>3 DEF TalkCaller, Talk!Asked
  <2> QED BY <1>7, <2>2, <2>4
<1>10. TalkWhole(w)
  BY <1>3, <1>8, <1>9 DEF TalkWhole
<1> QED BY <1>10 DEF w, p, q
-----------------------------------------------------------------------------
LEMMA TalkFlattenIs == \A f : Talk!FlattenSeq(f) = Flat(f)
BY DEF Talk!FlattenSeq, Flat

(* A selection has the messages at the places it is of, in their order.    *)
TalkPicks(w, ms, places, at) ==
    /\ at \in Seq(places) /\ DOMAIN w = DOMAIN at
    /\ \A n \in DOMAIN at : w[n] = ms[at[n]]
    /\ \A m, n \in DOMAIN at : m < n => at[m] < at[n]
    /\ \A k \in places : \E n \in DOMAIN at : at[n] = k
LEMMA TalkSelectedPicks ==
    ASSUME NEW ms \in Seq(TalkMessage), NEW places, places \subseteq DOMAIN ms
    PROVE  /\ Talk!Selected(ms, places) \in Seq(TalkMessage)
           /\ \E at \in Seq(places) : TalkPicks(Talk!Selected(ms, places), ms, places, at)
<1> DEFINE f == [k \in DOMAIN ms |-> IF k \in places THEN <<k>> ELSE <<>>]
           at == Talk!FlattenSeq(f)
           R == {c \in places \X places : c[1] < c[2]}
           w == [n \in DOMAIN at |-> ms[at[n]]]
<1>1. DOMAIN ms = 1..Len(ms) /\ Len(ms) \in Nat
  OBVIOUS
<1>2. \A k \in DOMAIN ms : f[k] = IF k \in places THEN <<k>> ELSE <<>>
  OBVIOUS
<1>3. \A k \in DOMAIN ms : f[k] \in Seq(places)
  <2>1. ASSUME NEW k \in DOMAIN ms PROVE f[k] \in Seq(places)
    <3>1. CASE k \in places
      <4>1. f[k] = <<k>>
        BY <1>2, <3>1
      <4> QED BY <3>1, <4>1
    <3>2. CASE k \notin places
      <4>1. f[k] = <<>>
        BY <1>2, <3>2
      <4> QED BY <4>1
    <3> QED BY <3>1, <3>2
  <2> QED BY <2>1
<1>4. f \in Seq(Seq(places)) /\ DOMAIN f = 1..Len(ms) /\ Len(f) = Len(ms)
  BY <1>1, <1>3
<1>5. \A k \in DOMAIN f : \A p \in DOMAIN f[k] : k \in places /\ p = 1 /\ f[k][p] = k
  <2>1. ASSUME NEW k \in DOMAIN f, NEW p \in DOMAIN f[k]
        PROVE  k \in places /\ p = 1 /\ f[k][p] = k
    <3>1. CASE k \in places
      <4>1. f[k] = <<k>>
        BY <3>1
      <4>2. DOMAIN <<k>> = {1} /\ <<k>>[1] = k
        OBVIOUS
      <4> QED BY <3>1, <4>1, <4>2
    <3>2. CASE k \notin places
      <4>1. f[k] = <<>>
        BY <3>2
      <4> QED BY <4>1
    <3> QED BY <3>1, <3>2
  <2> QED BY <2>1
<1>6. \A k \in places : k \in DOMAIN f /\ 1 \in DOMAIN f[k] /\ f[k][1] = k
  <2>1. ASSUME NEW k \in places PROVE k \in DOMAIN f /\ 1 \in DOMAIN f[k] /\ f[k][1] = k
    <3>1. f[k] = <<k>> /\ k \in DOMAIN f
      BY <2>1
    <3>2. DOMAIN <<k>> = {1} /\ <<k>>[1] = k
      OBVIOUS
    <3> QED BY <3>1, <3>2
  <2> QED BY <2>1
<1> HIDE DEF f
<1>7. InTurn(f, R)
  <2>1. SUFFICES ASSUME NEW m \in DOMAIN f, NEW n \in DOMAIN f,
                        NEW p \in DOMAIN f[m], NEW q \in DOMAIN f[n], m < n \/ (m = n /\ p < q)
                 PROVE  <<f[m][p], f[n][q]>> \in R
    BY DEF InTurn
  <2>2. m \in places /\ p = 1 /\ f[m][p] = m /\ n \in places /\ q = 1 /\ f[n][q] = n
    BY <1>5
  <2> QED BY <2>1, <2>2
<1>8. at \in Seq(places) /\ Rises(at, R) /\ HasFirst(at, f, Len(f))
  <2> HIDE DEF R
  <2> QED BY <1>4, <1>7, TalkFlattenIs, FlatRises
<1> HIDE DEF at
<1>9. w \in Seq(TalkMessage)
  <2>1. DOMAIN at = 1..Len(at) /\ Len(at) \in Nat /\
        \A n \in DOMAIN at : ms[at[n]] \in TalkMessage
    BY <1>8
  <2> QED BY <2>1
<1>10. \A m, n \in DOMAIN at : m < n => at[m] < at[n]
  BY <1>8 DEF Rises
<1>11. ASSUME NEW k \in places PROVE \E n \in DOMAIN at : at[n] = k
  <2>1. k \in 1..Len(f) /\ 1 \in DOMAIN f[k] /\ f[k][1] = k
    BY <1>4, <1>6
  <2> QED BY <1>8, <2>1 DEF HasFirst
<1>12. Talk!Selected(ms, places) = w
  BY DEF Talk!Selected, at, f
<1>13. TalkPicks(w, ms, places, at)
  BY <1>8, <1>10, <1>11 DEF TalkPicks
<1> QED BY <1>8, <1>9, <1>12, <1>13

(* What was spoken, without the system messages, is as whole as the rest.  *)
LEMMA TalkSpokenWhole ==
    ASSUME NEW ms, TalkWhole(ms)
    PROVE  TalkWhole(Talk!Selected(ms, DOMAIN ms \ Talk!Systems(ms)))
<1> DEFINE places == DOMAIN ms \ Talk!Systems(ms)
           w == Talk!Selected(ms, places)
<1>1. ms \in Seq(TalkMessage) /\ places \subseteq DOMAIN ms
  BY DEF TalkWhole
<1>2. /\ \A k \in places : k \in DOMAIN ms /\ k \in Nat /\ ms[k].role # "system"
      /\ \A k \in DOMAIN ms : ms[k].role # "system" => k \in places
  BY <1>1 DEF Talk!Systems
<1> HIDE DEF places
<1>3. w \in Seq(TalkMessage) /\ \E at \in Seq(places) : TalkPicks(w, ms, places, at)
  BY <1>1, TalkSelectedPicks
<1> HIDE DEF w
<1>4. PICK at \in Seq(places) : TalkPicks(w, ms, places, at)
  BY <1>3
<1>5. DOMAIN w = 1..Len(w) /\ Len(w) \in Nat /\ DOMAIN w = DOMAIN at
  BY <1>3, <1>4 DEF TalkPicks
<1>6. \A n \in DOMAIN w : at[n] \in places /\ w[n] = ms[at[n]]
  <2>1. \A n \in DOMAIN at : at[n] \in places
    BY <1>4
  <2>2. \A n \in DOMAIN at : w[n] = ms[at[n]]
    BY <1>4 DEF TalkPicks
  <2> QED BY <1>5, <2>1, <2>2
<1>7. \A m, n \in DOMAIN w : at[m] < at[n] => m < n
  <2>1. ASSUME NEW m \in DOMAIN w, NEW n \in DOMAIN w, at[m] < at[n] PROVE m < n
    <3>1. m \in Nat /\ n \in Nat /\ at[m] \in Nat /\ at[n] \in Nat
      BY <1>2, <1>5, <1>6
    <3>2. n < m => at[n] < at[m]
      BY <1>4, <1>5 DEF TalkPicks
    <3> QED BY <2>1, <3>1, <3>2
  <2> QED BY <2>1
<1>8. \A k \in places : \E n \in DOMAIN w : at[n] = k
  BY <1>4, <1>5 DEF TalkPicks
<1>9. TalkAllAnswered(w)
  <2>1. SUFFICES ASSUME NEW i \in DOMAIN w, Talk!Asked(w, i)
                 PROVE  /\ TalkSameReply(w[i].calls)
                        /\ \A id \in w[i].calls : \E j \in i+1..Len(w) : Talk!Answers(w, j, id)
    BY DEF TalkAllAnswered
  <2>2. /\ w[i] = ms[at[i]] /\ at[i] \in DOMAIN ms /\ Talk!Asked(ms, at[i]) /\ at[i] \in Nat
    BY <1>2, <1>6, <2>1 DEF Talk!Asked
  <2>3. /\ TalkSameReply(w[i].calls)
        /\ \A id \in w[i].calls : \E j \in at[i]+1..Len(ms) : Talk!Answers(ms, j, id)
    BY <2>2 DEF TalkWhole, TalkAllAnswered
  <2>4. ASSUME NEW id \in w[i].calls PROVE \E j \in i+1..Len(w) : Talk!Answers(w, j, id)
    <3>1. PICK j \in at[i]+1..Len(ms) : Talk!Answers(ms, j, id)
      BY <2>3
    <3>2. j \in DOMAIN ms /\ ms[j].role = "tool" /\ at[i] < j
      BY <1>1, <2>2, <3>1 DEF Talk!Answers
    <3>3. PICK n \in DOMAIN w : at[n] = j
      BY <1>2, <1>8, <3>2
    <3>4. i < n
      BY <1>7, <3>2, <3>3
    <3>5. n \in i+1..Len(w) /\ Talk!Answers(w, n, id)
      BY <1>5, <1>6, <3>1, <3>3, <3>4 DEF Talk!Answers
    <3> QED BY <3>5
  <2> QED BY <2>3, <2>4
<1>10. TalkAllCalled(w)
  <2>1. SUFFICES ASSUME NEW j \in DOMAIN w, w[j].role = "tool"
                 PROVE  w[j].calls # {} /\ \E c \in DOMAIN w : TalkCaller(w, c, j)
    BY DEF TalkAllCalled
  <2>2. w[j] = ms[at[j]] /\ at[j] \in DOMAIN ms /\ at[j] \in Nat
    BY <1>2, <1>6
  <2>3. w[j].calls # {} /\ \E c \in DOMAIN ms : TalkCaller(ms, c, at[j])
    BY <2>1, <2>2 DEF TalkWhole, TalkAllCalled
  <2>4. PICK c \in DOMAIN ms : TalkCaller(ms, c, at[j])
    BY <2>3
  <2>5. c \in places /\ c < at[j]
    BY <1>2, <2>4 DEF TalkCaller, Talk!Asked
  <2>6. PICK b \in DOMAIN w : at[b] = c
    BY <1>8, <2>5
  <2>7. b < j /\ w[b] = ms[c]
    BY <1>6, <1>7, <2>5, <2>6
  <2>8. ASSUME NEW k \in b+1..j PROVE w[k].role = "tool" /\ w[k].calls \subseteq w[b].calls
    <3>1. k \in DOMAIN w /\ b < k /\ (k < j \/ k = j)
      BY <1>5, <2>7
    <3>2. at[b] < at[k] /\ (at[k] < at[j] \/ k = j)
      BY <1>4, <1>5, <3>1 DEF TalkPicks
    <3>3. at[k] \in c+1..at[j] /\ w[k] = ms[at[k]]
      BY <1>2, <1>6, <2>2, <2>6, <3>1, <3>2
    <3> QED BY <2>4, <2>7, <3>3 DEF TalkCaller
  <2>9. TalkCaller(w, b, j)
    BY <2>4, <2>7, <2>8 DEF TalkCaller, Talk!Asked
  <2> QED BY <2>3, <2>9
<1> QED BY <1>3, <1>9, <1>10 DEF TalkWhole, w, places
-----------------------------------------------------------------------------
(* The places of a request that are places of the history.                 *)
LEMMA TalkFormPlaces ==
    ASSUME NEW r, NEW n, NEW ms \in Seq(TalkMessage), NEW s, TalkForm(r, n, ms, s)
    PROVE  /\ n \in Nat /\ s \in Nat /\ Len(r) \in Nat /\ Len(ms) \in Nat
           /\ DOMAIN r = 1..Len(r) /\ DOMAIN ms = 1..Len(ms)
           /\ \A i \in n+1..Len(r) : ((i + s) - n) - 1 \in s..Len(ms) /\
              r[i] = ms[((i + s) - n) - 1]
           /\ \A k \in s..Len(ms) : ((k + n) + 1) - s \in n+1..Len(r) /\
              r[((k + n) + 1) - s] = ms[k]
           /\ s >= 1 /\ n <= Len(r)
<1>1. /\ r \in Seq(TalkMessage) /\ n \in Nat /\ s \in Nat /\ s >= 1
      /\ n <= Len(r) /\ Len(r) - n = Len(ms) + 1 - s
      /\ \A i \in n+1..Len(r) : r[i] = ms[((i + s) - n) - 1]
  BY DEF TalkForm, TalkTail4
<1>2. Len(r) \in Nat /\ Len(ms) \in Nat /\ DOMAIN r = 1..Len(r) /\ DOMAIN ms = 1..Len(ms)
  BY <1>1
<1>3. n \in Nat /\ s \in Nat /\ Len(r) \in Nat /\ Len(ms) \in Nat /\
      Len(r) - n = Len(ms) + 1 - s
  BY <1>1, <1>2
<1>4. \A i \in n+1..Len(r) : ((i + s) - n) - 1 \in s..Len(ms)
  BY <1>3
<1>5. ASSUME NEW k \in s..Len(ms)
      PROVE  ((k + n) + 1) - s \in n+1..Len(r) /\ r[((k + n) + 1) - s] = ms[k]
  <2>1. /\ ((k + n) + 1) - s \in n+1..Len(r)
        /\ (((((k + n) + 1) - s) + s) - n) - 1 = k
    BY <1>3
  <2> QED BY <1>1, <2>1
<1> QED BY <1>1, <1>2, <1>4, <1>5

(* A call in a request is in front of its answer.                          *)
LEMMA TalkFormAnswered ==
    ASSUME NEW r, NEW n, NEW ms, NEW s, TalkForm(r, n, ms, s), TalkWhole(ms)
    PROVE  \A i \in DOMAIN r : Talk!Asked(r, i) =>
               \A id \in r[i].calls : \E j \in i+1..Len(r) : Talk!Answers(r, j, id)
<1>1. ms \in Seq(TalkMessage) /\ TalkAllAnswered(ms)
  BY DEF TalkWhole
<1>2. /\ n \in Nat /\ s \in Nat /\ Len(r) \in Nat /\ Len(ms) \in Nat
      /\ DOMAIN r = 1..Len(r) /\ DOMAIN ms = 1..Len(ms)
      /\ \A i \in n+1..Len(r) : ((i + s) - n) - 1 \in s..Len(ms) /\ r[i] = ms[((i + s) - n) - 1]
      /\ \A k \in s..Len(ms) : ((k + n) + 1) - s \in n+1..Len(r) /\ r[((k + n) + 1) - s] = ms[k]
      /\ s >= 1 /\ n <= Len(r)
  BY <1>1, TalkFormPlaces
<1>3. ASSUME NEW i \in n+1..Len(r), Talk!Asked(r, i), NEW id \in r[i].calls
      PROVE  \E j \in i+1..Len(r) : Talk!Answers(r, j, id)
  <2> DEFINE k == ((i + s) - n) - 1
  <2>1. k \in s..Len(ms) /\ k \in DOMAIN ms /\ r[i] = ms[k] /\ i = ((k + n) + 1) - s
    BY <1>2
  <2>2. /\ n \in Nat /\ s \in Nat /\ Len(r) \in Nat /\ Len(ms) \in Nat /\ k \in Nat
         /\ s <= k /\ i = ((k + n) + 1) - s
    BY <1>2, <2>1
  <2> HIDE DEF k
  <2>3. \E j \in k+1..Len(ms) : Talk!Answers(ms, j, id)
    BY <1>1, <1>3, <2>1 DEF TalkAllAnswered, Talk!Asked
  <2>4. PICK j \in k+1..Len(ms) : Talk!Answers(ms, j, id)
    BY <2>3
  <2>5. j \in s..Len(ms) /\ ((j + n) + 1) - s \in i+1..Len(r)
    <3>1. j \in s..Len(ms)
      BY <2>2
    <3>2. ((j + n) + 1) - s \in n+1..Len(r)
      BY <1>2, <3>1
    <3> QED BY <2>2, <3>1, <3>2
  <2>6. Talk!Answers(r, ((j + n) + 1) - s, id)
    BY <1>2, <2>4, <2>5 DEF Talk!Answers
  <2> QED BY <2>5, <2>6
<1>4. ASSUME NEW i \in 1..n, Talk!Asked(r, i), NEW id \in r[i].calls
      PROVE  \E j \in i+1..Len(r) : Talk!Answers(r, j, id)
  <2>1. TalkTwice(r, n)
    BY <1>4 DEF TalkForm, TalkPlainFront, TalkPlain, Talk!Asked
  <2>2. n = 1 /\ i = 1 /\ 2 \in n+1..Len(r) /\ r[1] = r[2]
    BY <1>2, <2>1 DEF TalkTwice
  <2>3. Talk!Asked(r, 2) /\ id \in r[2].calls
    BY <1>4, <2>2 DEF Talk!Asked
  <2>4. PICK j \in 2+1..Len(r) : Talk!Answers(r, j, id)
    BY <1>3, <2>2, <2>3
  <2>5. j \in i+1..Len(r)
    BY <1>2, <2>2
  <2> QED BY <2>4, <2>5
<1>5. \A i \in DOMAIN r : i \in 1..n \/ i \in n+1..Len(r)
  BY <1>2
<1> QED BY <1>3, <1>4, <1>5

(* An answer without its call is part of the reply the history was cut in. *)
TalkOrphanIn(r, i) == /\ r[i].role = "tool"
                      /\ \A j \in 1..(i-1) : Talk!Asked(r, j) => r[i].calls \cap r[j].calls = {}
LEMMA TalkOrphanCaller ==
    ASSUME NEW r, NEW n, NEW ms, NEW s, TalkForm(r, n, ms, s), TalkWhole(ms),
           NEW i \in n+1..Len(r), TalkOrphanIn(r, i)
    PROVE  \E c \in DOMAIN ms : c < s /\ TalkCaller(ms, c, ((i + s) - n) - 1)
<1>1. ms \in Seq(TalkMessage) /\ TalkAllCalled(ms)
  BY DEF TalkWhole
<1>2. /\ n \in Nat /\ s \in Nat /\ Len(r) \in Nat /\ Len(ms) \in Nat
      /\ DOMAIN r = 1..Len(r) /\ DOMAIN ms = 1..Len(ms)
      /\ \A k \in n+1..Len(r) : ((k + s) - n) - 1 \in s..Len(ms) /\ r[k] = ms[((k + s) - n) - 1]
      /\ \A k \in s..Len(ms) : ((k + n) + 1) - s \in n+1..Len(r) /\ r[((k + n) + 1) - s] = ms[k]
      /\ s >= 1 /\ n <= Len(r)
  BY <1>1, TalkFormPlaces
<1> DEFINE k == ((i + s) - n) - 1
<1>3. k \in s..Len(ms) /\ k \in DOMAIN ms /\ r[i] = ms[k] /\ i = ((k + n) + 1) - s
  BY <1>2
<1> HIDE DEF k
<1>4. ms[k].calls # {} /\ \E c \in DOMAIN ms : TalkCaller(ms, c, k)
  BY <1>1, <1>3 DEF TalkAllCalled, TalkOrphanIn
<1>5. PICK c \in DOMAIN ms : TalkCaller(ms, c, k)
  BY <1>4
<1>6. ~(s <= c)
  <2>1. SUFFICES ASSUME s <= c PROVE FALSE
    OBVIOUS
  <2> DEFINE j == ((c + n) + 1) - s
  <2>2. c \in s..Len(ms) /\ c < k
    BY <1>2, <1>3, <1>5, <2>1 DEF TalkCaller
  <2>3. j \in 1..(i-1) /\ r[j] = ms[c]
    <3>1. j \in n+1..Len(r) /\ r[j] = ms[c]
      BY <1>2, <2>2
    <3>2. n \in Nat /\ s \in Nat /\ c \in Nat /\ k \in Nat /\ i = ((k + n) + 1) - s
      BY <1>2, <1>3, <2>2
    <3> QED BY <2>2, <3>1, <3>2
  <2>4. Talk!Asked(r, j) /\ r[i].calls \subseteq r[j].calls
    <3>1. k \in c+1..k
      BY <1>2, <1>3, <2>2
    <3> HIDE DEF j
    <3> QED BY <1>3, <1>5, <2>3, <3>1 DEF TalkCaller, Talk!Asked
  <2> HIDE DEF j
  <2>5. r[i].calls \cap r[j].calls = {}
    BY <2>3, <2>4 DEF TalkOrphanIn
  <2> QED BY <1>3, <1>4, <2>4, <2>5
<1>7. c < s
  BY <1>2, <1>6
<1> QED BY <1>5, <1>7 DEF k

(* What was cut out of a whole history is not the history.                 *)
LEMMA TalkWholeHasNone ==
    ASSUME NEW r, TalkWhole(r), NEW i \in DOMAIN r
    PROVE  ~TalkOrphanIn(r, i)
<1>1. SUFFICES ASSUME TalkOrphanIn(r, i) PROVE FALSE
  OBVIOUS
<1>2. DOMAIN r = 1..Len(r) /\ Len(r) \in Nat
  BY DEF TalkWhole
<1>3. r[i].calls # {} /\ \E c \in DOMAIN r : TalkCaller(r, c, i)
  BY <1>1 DEF TalkWhole, TalkAllCalled, TalkOrphanIn
<1>4. PICK c \in DOMAIN r : TalkCaller(r, c, i)
  BY <1>3
<1>5. c \in 1..(i-1) /\ i \in c+1..i /\ Talk!Asked(r, c)
  BY <1>2, <1>4 DEF TalkCaller
<1>6. r[i].calls \subseteq r[c].calls
  BY <1>4, <1>5 DEF TalkCaller
<1>7. r[i].calls \cap r[c].calls = {}
  BY <1>1, <1>5 DEF TalkOrphanIn
<1> QED BY <1>3, <1>6, <1>7

LEMMA TalkFormOrphans ==
    ASSUME NEW r, NEW n, NEW ms, NEW s, TalkForm(r, n, ms, s), TalkWhole(ms),
           NEW whole, TalkWhole(whole)
    PROVE  \A i \in DOMAIN r : TalkOrphanIn(r, i) =>
               /\ r # whole
               /\ i > 1 /\ ~TalkOrphanIn(r, i - 1) => r[i-1].role \notin {"assistant", "tool"}
               /\ \A j \in DOMAIN r : TalkOrphanIn(r, j) =>
                      \A x \in r[i].calls, y \in r[j].calls : x[1] = y[1]
<1>1. ms \in Seq(TalkMessage) /\ TalkAllCalled(ms) /\ TalkAllAnswered(ms)
  BY DEF TalkWhole
<1>2. /\ n \in Nat /\ s \in Nat /\ Len(r) \in Nat /\ Len(ms) \in Nat
      /\ DOMAIN r = 1..Len(r) /\ DOMAIN ms = 1..Len(ms)
      /\ \A k \in n+1..Len(r) : ((k + s) - n) - 1 \in s..Len(ms) /\ r[k] = ms[((k + s) - n) - 1]
      /\ \A k \in s..Len(ms) : ((k + n) + 1) - s \in n+1..Len(r) /\ r[((k + n) + 1) - s] = ms[k]
      /\ s >= 1 /\ n <= Len(r)
  BY <1>1, TalkFormPlaces
<1> DEFINE At(k) == ((k + s) - n) - 1
(* In the first place twice, an orphan is one in the second place too.     *)
<1>3. ASSUME NEW i \in DOMAIN r, TalkOrphanIn(r, i)
      PROVE  \E k \in n+1..Len(r) : TalkOrphanIn(r, k) /\ r[k] = r[i] /\
        (i \in n+1..Len(r) => k = i)
  <2>1. CASE i \in n+1..Len(r)
    BY <1>3, <2>1
  <2>2. CASE i \notin n+1..Len(r)
    <3>1. i \in 1..n
      BY <1>2, <2>2
    <3>2. TalkTwice(r, n)
      BY <1>3, <3>1 DEF TalkForm, TalkPlainFront, TalkPlain, TalkOrphanIn
    <3>3. i = 1 /\ 2 \in n+1..Len(r) /\ r[2] = r[1]
      BY <1>2, <3>1, <3>2 DEF TalkTwice
    <3>4. ~Talk!Asked(r, 1) /\ 1..(2-1) = {1}
      BY <1>3, <3>3 DEF TalkOrphanIn, Talk!Asked
    <3>5. TalkOrphanIn(r, 2)
      BY <1>3, <3>3, <3>4 DEF TalkOrphanIn
    <3> QED BY <2>2, <3>3, <3>5
  <2> QED BY <2>1, <2>2
<1>4. ASSUME NEW i \in n+1..Len(r), TalkOrphanIn(r, i)
      PROVE  \E c \in DOMAIN ms : c < s /\ TalkCaller(ms, c, At(i))
  BY <1>4, TalkOrphanCaller
<1> HIDE DEF At
<1>5. \A k \in n+1..Len(r) : At(k) \in s..Len(ms) /\ r[k] = ms[At(k)] /\ At(k) \in Nat
  BY <1>2 DEF At
(* The orphans are all of one reply.                                       *)
<1>6. ASSUME NEW i \in n+1..Len(r), TalkOrphanIn(r, i), NEW j \in n+1..Len(r),
      TalkOrphanIn(r, j),
             NEW x \in r[i].calls, NEW y \in r[j].calls
      PROVE  x[1] = y[1]
  <2>1. PICK c \in DOMAIN ms : c < s /\ TalkCaller(ms, c, At(i))
    BY <1>4, <1>6
  <2>2. PICK d \in DOMAIN ms : d < s /\ TalkCaller(ms, d, At(j))
    BY <1>4, <1>6
  <2>3. At(i) >= s /\ At(j) >= s /\ At(i) \in Nat /\ At(j) \in Nat /\ c \in Nat /\ d \in Nat
    <3>1. c \in 1..Len(ms) /\ d \in 1..Len(ms)
      BY <1>2
    <3>2. At(i) \in s..Len(ms) /\ At(j) \in s..Len(ms) /\ At(i) \in Nat /\ At(j) \in Nat
      BY <1>5
    <3> QED BY <3>1, <3>2
  <2>4. ~(c < d)
    <3>1. c < d => d \in c+1..At(i)
      BY <1>2, <2>2, <2>3
    <3> QED BY <2>1, <2>2, <3>1 DEF TalkCaller, Talk!Asked
  <2>5. ~(d < c)
    <3>1. d < c => c \in d+1..At(j)
      BY <1>2, <2>1, <2>3
    <3> QED BY <2>1, <2>2, <3>1 DEF TalkCaller, Talk!Asked
  <2>6. c = d
    BY <2>3, <2>4, <2>5
  <2>7. At(i) \in c+1..At(i) /\ At(j) \in d+1..At(j)
    BY <1>2, <2>1, <2>2, <2>3
  <2>8. x \in ms[c].calls /\ y \in ms[c].calls
    BY <1>5, <1>6, <2>1, <2>2, <2>6, <2>7 DEF TalkCaller
  <2>9. TalkSameReply(ms[c].calls)
    BY <1>1, <2>1 DEF TalkAllAnswered, TalkCaller
  <2> QED BY <2>8, <2>9 DEF TalkSameReply
(* What stands before an orphan is one, or neither calls nor answers.      *)
<1>7. ASSUME NEW i \in n+1..Len(r), TalkOrphanIn(r, i), i > 1,
      r[i-1].role \in {"assistant", "tool"}
      PROVE  TalkOrphanIn(r, i - 1)
  <2>1. PICK c \in DOMAIN ms : c < s /\ TalkCaller(ms, c, At(i))
    BY <1>4, <1>7
  <2>2. \A k \in n+1..i : r[k].role = "tool"
    <3>1. ASSUME NEW k \in n+1..i PROVE r[k].role = "tool"
      <4>1. k \in n+1..Len(r) /\ At(k) \in c+1..At(i)
        BY <1>2, <2>1 DEF At
      <4> QED BY <1>5, <2>1, <4>1 DEF TalkCaller
    <3> QED BY <3>1
  <2>3. r[i-1].role = "tool" /\ \A k \in 1..(i-1) : ~Talk!Asked(r, k)
    <3>1. CASE TalkPlainFront(r, n)
      <4>1. \A k \in 1..(i-1) : k \in 1..n \/ k \in n+1..i
        BY <1>2
      <4>2. \A k \in 1..n : ~Talk!Asked(r, k) /\ r[k].role \notin {"assistant", "tool"}
        BY <3>1 DEF TalkPlainFront, TalkPlain, Talk!Asked
      <4>3. \A k \in n+1..i : ~Talk!Asked(r, k)
        BY <2>2 DEF Talk!Asked
      <4>4. i - 1 \in n+1..i
        BY <1>2, <1>7, <4>1, <4>2
      <4> QED BY <2>2, <4>1, <4>2, <4>3, <4>4
    <3>2. CASE TalkTwice(r, n)
      <4>1. n = 1 /\ r[1] = r[2] /\ 2 \in n+1..i
        BY <1>2, <1>7, <3>2 DEF TalkTwice
      <4>2. \A k \in 1..i : r[k].role = "tool"
        <5>1. \A k \in 1..i : k = 1 \/ k \in n+1..i
          BY <4>1
        <5> QED BY <2>2, <4>1, <5>1
      <4>3. i - 1 \in 1..i /\ \A k \in 1..(i-1) : k \in 1..i
        <5>1. i \in Nat /\ i > 1
          BY <1>7, <4>1
        <5> QED BY <5>1
      <4> QED BY <4>2, <4>3 DEF Talk!Asked
    <3> QED BY <3>1, <3>2 DEF TalkForm
  <2>4. \A k \in 1..((i-1)-1) : k \in 1..(i-1)
    BY <1>2
  <2> QED BY <2>3, <2>4 DEF TalkOrphanIn
<1>8. ASSUME NEW i \in DOMAIN r, TalkOrphanIn(r, i)
      PROVE  /\ r # whole
             /\ i > 1 /\ ~TalkOrphanIn(r, i - 1) => r[i-1].role \notin {"assistant", "tool"}
             /\ \A j \in DOMAIN r : TalkOrphanIn(r, j) =>
                    \A x \in r[i].calls, y \in r[j].calls : x[1] = y[1]
  <2>1. r # whole
    BY <1>8, TalkWholeHasNone
  <2>2. i > 1 /\ ~TalkOrphanIn(r, i - 1) => r[i-1].role \notin {"assistant", "tool"}
    <3>1. i \notin n+1..Len(r) => TalkPlainFront(r, n) \/ i = 1
      BY <1>2 DEF TalkForm, TalkTwice
    <3>2. i \notin n+1..Len(r) /\ TalkPlainFront(r, n) => FALSE
      BY <1>2, <1>8 DEF TalkPlainFront, TalkPlain, TalkOrphanIn
    <3>3. i > 1 => i \in n+1..Len(r)
      BY <1>2, <3>1, <3>2
    <3> QED BY <1>7, <1>8, <3>3
  <2>3. ASSUME NEW j \in DOMAIN r, TalkOrphanIn(r, j), NEW x \in r[i].calls,
        NEW y \in r[j].calls
        PROVE  x[1] = y[1]
    <3>1. PICK k \in n+1..Len(r) : TalkOrphanIn(r, k) /\ r[k] = r[i]
      BY <1>3, <1>8
    <3>2. PICK m \in n+1..Len(r) : TalkOrphanIn(r, m) /\ r[m] = r[j]
      BY <1>3, <2>3
    <3> QED BY <1>6, <2>3, <3>1, <3>2
  <2> QED BY <2>1, <2>2, <2>3
<1> QED BY <1>8
-----------------------------------------------------------------------------
(* Least and greatest of some places.                                      *)
LEMMA TalkMinIs ==
    ASSUME NEW T \in SUBSET Nat, T # {}
    PROVE  Talk!Min(T) \in T /\ \A k \in T : Talk!Min(T) <= k
<1>1. \E m \in T : \A k \in T : m <= k
  BY LeastOf
<1> QED BY <1>1, Zenon DEF Talk!Min

LEMMA TalkMaxIs ==
    ASSUME NEW N \in Nat, NEW T, T \subseteq 1..N, T # {}
    PROVE  Talk!Max(T) \in T /\ \A k \in T : k <= Talk!Max(T)
<1>1. \E m \in T : \A k \in T : k <= m
  BY LastPlace
<1>2. \A m, k \in T : k <= m <=> m >= k
  OBVIOUS
<1>3. \E m \in T : \A k \in T : m >= k
  BY <1>1, <1>2
<1>4. Talk!Max(T) \in T /\ \A k \in T : Talk!Max(T) >= k
  BY <1>3, Zenon DEF Talk!Max
<1> QED BY <1>2, <1>4

LEMMA TalkMaxOfTwo ==
    ASSUME NEW x \in Nat \ {0}, NEW y \in Nat \ {0}
    PROVE  Talk!Max({x, y}) = IF x < y THEN y ELSE x
<1>1. {x, y} \subseteq 1..(x + y) /\ {x, y} # {} /\ x + y \in Nat
  OBVIOUS
<1>2. Talk!Max({x, y}) \in {x, y} /\ \A k \in {x, y} : k <= Talk!Max({x, y})
  BY <1>1, TalkMaxIs
<1> QED BY <1>2

LEMMA TalkFirstUserIs ==
    ASSUME NEW ms \in Seq(TalkMessage)
    PROVE  /\ Talk!FirstUser(ms) = 0 \/ (Talk!FirstUser(ms) \in DOMAIN ms /\
              Talk!IsUser(ms[Talk!FirstUser(ms)]))
           /\ \A i \in DOMAIN ms : Talk!IsUser(ms[i]) => Talk!FirstUser(ms) # 0 /\
              Talk!FirstUser(ms) <= i
<1> DEFINE T == {i \in DOMAIN ms : Talk!IsUser(ms[i])}
<1>1. T \in SUBSET Nat /\ DOMAIN ms = 1..Len(ms) /\ Len(ms) \in Nat
  OBVIOUS
<1>2. T = {} => Talk!FirstUser(ms) = 0
  BY DEF Talk!FirstUser
<1>3. T # {} => Talk!FirstUser(ms) = Talk!Min(T)
  BY DEF Talk!FirstUser
<1>4. T # {} => Talk!Min(T) \in T /\ \A k \in T : Talk!Min(T) <= k
  <2> HIDE DEF T
  <2> QED BY <1>1, TalkMinIs
<1> QED BY <1>1, <1>2, <1>3, <1>4

(* A run's messages: where the history begins in them is all that comes    *)
(* before it what starts a session; or they are too few to summarise.      *)
TalkShort(run, n) == Talk!NoRoomToSummarise(run) /\ (n > 0 \/ (Len(run) <= 5 /\ MaxHistory > 4))
TalkFramed(run, n, ms, s) ==
    /\ TalkTail4(run, n, ms, s) /\ TalkPlainFront(run, n) /\ Len(run) > 0
    /\ (n > 0 /\ Talk!FirstUser(run) = n) \/ TalkShort(run, n)

LEMMA TalkOpensFramed ==
    ASSUME NEW ms, TalkWhole(ms), TalkOpens(ms)
    PROVE  /\ Talk!FirstUser(ms) > 0 /\ Talk!FirstUser(ms) \in DOMAIN ms
           /\ TalkFramed(ms, Talk!FirstUser(ms), ms, Talk!FirstUser(ms) + 1)
<1>1. ms \in Seq(TalkMessage) /\ DOMAIN ms = 1..Len(ms) /\ Len(ms) \in Nat
  BY DEF TalkWhole
<1>2. PICK u \in DOMAIN ms : ms[u].role = "user" /\ \A i \in 1..(u-1) : ms[i].role = "system"
  BY DEF TalkOpens
<1> DEFINE n == Talk!FirstUser(ms)
<1>3. n # 0 /\ n <= u /\ n \in DOMAIN ms /\ Talk!IsUser(ms[n])
  BY <1>1, <1>2, TalkFirstUserIs DEF Talk!IsUser
<1> HIDE DEF n
<1>4. \A i \in 1..n : i = n \/ i \in 1..(u-1)
  BY <1>1, <1>3
<1>5. TalkPlainFront(ms, n)
  BY <1>2, <1>3, <1>4 DEF TalkPlainFront, TalkPlain, Talk!IsUser
<1>6. TalkTail4(ms, n, ms, n + 1)
  BY <1>1, <1>3 DEF TalkTail4
<1>7. n > 0 /\ Len(ms) > 0
  BY <1>1, <1>3
<1>8. TalkFramed(ms, n, ms, n + 1)
  BY <1>5, <1>6, <1>7 DEF TalkFramed, n
<1> QED BY <1>3, <1>7, <1>8 DEF n

LEMMA TalkJoinOpens ==
    ASSUME NEW p \in Seq(TalkMessage), TalkOpens(p), NEW q \in Seq(TalkMessage)
    PROVE  TalkOpens(p \o q)
<1> DEFINE w == p \o q
<1>1. /\ DOMAIN p = 1..Len(p) /\ DOMAIN w = 1..(Len(p) + Len(q)) /\ Len(p) \in Nat /\
         Len(q) \in Nat
      /\ \A i \in DOMAIN p : w[i] = p[i]
  BY TalkJoinIs
<1> HIDE DEF w
<1>2. PICK u \in DOMAIN p : p[u].role = "user" /\ \A i \in 1..(u-1) : p[i].role = "system"
  BY DEF TalkOpens
<1>3. u \in DOMAIN w /\ \A i \in 1..(u-1) : i \in DOMAIN p
  BY <1>1
<1> QED BY <1>1, <1>2, <1>3 DEF TalkOpens, w

-----------------------------------------------------------------------------
(* Compaction.                                                             *)
LEMMA TalkPieceIs ==
    ASSUME NEW w \in Seq(TalkMessage), NEW m \in 1..(Len(w) + 1), NEW n \in 0..Len(w),
      m <= n + 1
    PROVE  /\ SubSeq(w, m, n) \in Seq(TalkMessage) /\ Len(SubSeq(w, m, n)) = n + 1 - m
           /\ \A i \in 1..(n + 1 - m) : SubSeq(w, m, n)[i] = w[(m + i) - 1]
<1>1. m \in Int /\ n \in Int /\ \A i \in m..n : w[i] \in TalkMessage
  OBVIOUS
<1>2. /\ SubSeq(w, m, n) \in Seq(TalkMessage)
      /\ Len(SubSeq(w, m, n)) = IF m <= n THEN n-m+1 ELSE 0
      /\ \A i \in 1 .. n-m+1 : SubSeq(w, m, n)[i] = w[m+i-1]
  BY <1>1, SubSeqProperties
<1> QED BY <1>2

LEMMA TalkTruncatedIs ==
    ASSUME TalkBounds, NEW run \in Seq(TalkMessage), Len(run) > 0, ~Talk!OutOfRange(run)
    PROVE  /\ Talk!Truncated(run) \in Seq(TalkMessage) /\ Len(Talk!Truncated(run)) = MaxHistory
           /\ Talk!Truncated(run)[1] = run[1]
           /\ \A i \in 2..MaxHistory : /\ ((Len(run) - MaxHistory) + i) \in DOMAIN run
                                       /\ Talk!Truncated(run)[i] = run[(Len(run) - MaxHistory) + i]
<1> DEFINE t == Len(run) - MaxHistory + 2
           p == <<Head(run)>>
           q == SubSeq(run, t, Len(run))
<1>1. Len(run) \in Nat /\ DOMAIN run = 1..Len(run) /\ run[1] \in TalkMessage /\
      Head(run) = run[1]
  OBVIOUS
<1>2. MaxHistory \in Nat /\ MaxHistory >= 1 /\ Len(run) >= MaxHistory - 1
  BY <1>1 DEF TalkBounds, Talk!OutOfRange
<1>3. t \in 1..(Len(run) + 1)
  BY <1>1, <1>2
<1>4. p \in Seq(TalkMessage) /\ Len(p) = 1 /\ p[1] = run[1] /\ DOMAIN p = 1..1
  BY <1>1, TalkOneIs
<1>5. /\ q \in Seq(TalkMessage) /\ Len(q) = Len(run) + 1 - t
      /\ \A i \in 1..(Len(run) + 1 - t) : q[i] = run[(t + i) - 1]
  <2> HIDE DEF t
  <2> QED BY <1>1, <1>3, TalkPieceIs
<1>6. Len(q) = MaxHistory - 1
  <2> HIDE DEF q
  <2> QED BY <1>1, <1>2, <1>5
<1> DEFINE w == p \o q
<1> HIDE DEF p, q
<1>7. /\ w \in Seq(TalkMessage) /\ Len(w) = 1 + Len(q) /\ DOMAIN q = 1..Len(q)
      /\ \A i \in DOMAIN p : w[i] = p[i]
      /\ \A i \in DOMAIN q : w[1 + i] = q[i]
  <2>1. /\ w \in Seq(TalkMessage) /\ Len(w) = Len(p) + Len(q) /\ DOMAIN q = 1..Len(q)
        /\ \A i \in DOMAIN p : w[i] = p[i]
        /\ \A i \in DOMAIN q : w[Len(p) + i] = q[i]
    BY <1>4, <1>5, TalkJoinIs
  <2> HIDE DEF w
  <2> QED BY <1>4, <2>1
<1>8. Talk!Truncated(run) = w
  BY DEF Talk!Truncated, w, p, q
<1> HIDE DEF w
<1>9. w[1] = run[1] /\ Len(w) = MaxHistory
  BY <1>2, <1>4, <1>6, <1>7
<1>10. ASSUME NEW i \in 2..MaxHistory
       PROVE  ((Len(run) - MaxHistory) + i) \in DOMAIN run /\
         w[i] = run[(Len(run) - MaxHistory) + i]
  <2> DEFINE k == i - 1
  <2>1. k \in 1..(Len(run) + 1 - t) /\ k \in DOMAIN q /\ i = 1 + k
    BY <1>1, <1>2, <1>6, <1>7
  <2>2. (t + k) - 1 = (Len(run) - MaxHistory) + i
    BY <1>1, <1>2
  <2> HIDE DEF k, t
  <2>3. w[i] = q[k] /\ q[k] = run[(t + k) - 1]
    BY <1>5, <1>7, <2>1
  <2>4. ((Len(run) - MaxHistory) + i) \in DOMAIN run
    BY <1>1, <1>2
  <2> QED BY <2>2, <2>3, <2>4
<1> QED BY <1>7, <1>8, <1>9, <1>10

(* Cut to its limit, a run still is a front and a tail of its history.     *)
LEMMA TalkTruncatedForm ==
    ASSUME TalkBounds, NEW run, NEW n, NEW ms \in Seq(TalkMessage), NEW s,
      TalkFramed(run, n, ms, s),
           ~Talk!OutOfRange(run), n > 0 \/ (Len(run) <= 5 /\ MaxHistory > 4)
    PROVE  \E b, t \in Nat : TalkForm(Talk!Truncated(run), b, ms, t)
<1> DEFINE r == Talk!Truncated(run)
           L == Len(run)
           K == Len(ms)
           D == L - MaxHistory
<1>1. /\ run \in Seq(TalkMessage) /\ n \in Nat /\ s \in Nat /\ s >= 1 /\ L > 0
      /\ n <= L /\ L - n = K + 1 - s
      /\ \A i \in n+1..L : run[i] = ms[((i + s) - n) - 1]
      /\ \A i \in 1..n : TalkPlain(run[i])
  BY DEF TalkFramed, TalkTail4, TalkPlainFront
<1>2. /\ r \in Seq(TalkMessage) /\ Len(r) = MaxHistory /\ r[1] = run[1]
      /\ \A i \in 2..MaxHistory : D + i \in DOMAIN run /\ r[i] = run[D + i]
  BY <1>1, TalkTruncatedIs
<1>3. /\ MaxHistory \in Nat /\ MaxHistory >= 1 /\ L \in Nat /\ K \in Nat
      /\ DOMAIN run = 1..L /\ L = Len(run) /\ K = Len(ms)
      /\ D \in Int /\ D + 1 >= 0 /\ L = MaxHistory + D
  <2>1. MaxHistory \in Nat /\ MaxHistory >= 1
    BY DEF TalkBounds
  <2>2. L \in Nat /\ DOMAIN run = 1..L
    BY <1>1
  <2>3. K \in Nat
    OBVIOUS
  <2>4. ~(L < MaxHistory - 1)
    BY DEF Talk!OutOfRange
  <2> HIDE DEF L, K
  <2>5. D \in Int /\ D + 1 >= 0 /\ L = MaxHistory + D
    BY <2>1, <2>2, <2>4
  <2> QED BY <2>1, <2>2, <2>3, <2>5 DEF L, K
<1> HIDE DEF r, L, K, D
<1>4. CASE n > 0 /\ D + 2 <= n
  <2> DEFINE b == n - D
  <2>1. b \in Nat /\ b >= 2 /\ b <= MaxHistory /\ MaxHistory - b = K + 1 - s
    BY <1>1, <1>3, <1>4
  <2>2. ASSUME NEW i \in b+1..MaxHistory PROVE r[i] = ms[((i + s) - b) - 1]
    <3>1. i \in 2..MaxHistory /\ D + i \in n+1..L /\ (((D + i) + s) - n) - 1 = ((i + s) - b) - 1
      BY <1>1, <1>3, <2>1
    <3> QED BY <1>1, <1>2, <3>1
  <2>3. ASSUME NEW i \in 1..b PROVE TalkPlain(r[i])
    <3>1. CASE i = 1
      BY <1>1, <1>2, <1>4, <3>1
    <3>2. CASE i # 1
      <4>1. i \in 2..MaxHistory /\ D + i <= n
        BY <1>1, <1>3, <2>1, <3>2
      <4>2. D + i \in 1..n /\ r[i] = run[D + i]
        BY <1>1, <1>2, <1>3, <4>1
      <4> QED BY <1>1, <4>2
    <3> QED BY <3>1, <3>2
  <2> HIDE DEF b
  <2>4. TalkTail4(r, b, ms, s)
    BY <1>1, <1>2, <1>3, <2>1, <2>2 DEF TalkTail4
  <2>5. TalkForm(r, b, ms, s)
    BY <2>3, <2>4 DEF TalkForm, TalkPlainFront
  <2> QED BY <1>1, <2>1, <2>5 DEF r
<1>5. CASE n > 0 /\ ~(D + 2 <= n)
  <2> DEFINE t == ((s + D) + 1) - n
  <2>1. t \in Nat /\ t >= 1 /\ MaxHistory - 1 = K + 1 - t
    <3>1. D + 1 >= n /\ K = (L - n) + s - 1
      BY <1>1, <1>3, <1>5
    <3>2. t \in Int /\ t >= s /\ t = ((s + D) + 1) - n
      BY <1>1, <1>3, <3>1
    <3> HIDE DEF t
    <3> QED BY <1>1, <1>3, <3>1, <3>2
  <2>2. ASSUME NEW i \in 1+1..MaxHistory PROVE r[i] = ms[((i + t) - 1) - 1]
    <3>1. i \in 2..MaxHistory /\ D + i \in n+1..L /\ (((D + i) + s) - n) - 1 = ((i + t) - 1) - 1
      <4>1. i \in 2..MaxHistory /\ D + i \in 1..L
        BY <1>2, <1>3
      <4> QED BY <1>1, <1>3, <1>5, <4>1
    <3> QED BY <1>1, <1>2, <3>1
  <2>3. TalkPlain(r[1])
    BY <1>1, <1>2, <1>5
  <2> HIDE DEF t
  <2>4. TalkTail4(r, 1, ms, t)
    BY <1>2, <1>3, <2>1, <2>2 DEF TalkTail4
  <2>5. TalkForm(r, 1, ms, t)
    BY <2>3, <2>4 DEF TalkForm, TalkPlainFront
  <2> QED BY <2>1, <2>5 DEF r
<1>6. CASE ~(n > 0)
  <2>1. n = 0 /\ L <= 5 /\ MaxHistory > 4 /\ (D = 0 \/ D = 0 - 1)
    BY <1>1, <1>3, <1>6
  <2>2. CASE D = 0
    <3>1. L = MaxHistory
      BY <1>3, <2>2
    <3>2. ASSUME NEW i \in 0+1..MaxHistory PROVE r[i] = ms[((i + s) - 0) - 1]
      <4>1. r[i] = run[i]
        <5>1. i = 1 \/ (i \in 2..MaxHistory /\ D + i = i)
          BY <1>3, <2>2
        <5> QED BY <1>2, <5>1
      <4>2. i \in n+1..L /\ ((i + s) - n) - 1 = ((i + s) - 0) - 1
        BY <2>1, <3>1
      <4> QED BY <1>1, <4>1, <4>2
    <3>3. TalkTail4(r, 0, ms, s)
      <4>1. MaxHistory - 0 = K + 1 - s
        BY <1>1, <2>1, <3>1
      <4> QED BY <1>1, <1>2, <1>3, <3>2, <4>1 DEF TalkTail4
    <3>4. TalkForm(r, 0, ms, s)
      BY <3>3 DEF TalkForm, TalkPlainFront
    <3> QED BY <1>1, <3>4 DEF r
  <2>3. CASE D = 0 - 1
    <3>1. L = MaxHistory - 1
      BY <1>3, <2>3
    <3>2. ASSUME NEW i \in 1+1..MaxHistory PROVE r[i] = ms[((i + s) - 1) - 1]
      <4>1. i \in 2..MaxHistory /\ D + i = i - 1
        BY <1>3, <2>3
      <4>2. r[i] = run[i - 1]
        BY <1>2, <4>1
      <4>3. i - 1 \in n+1..L /\ (((i - 1) + s) - n) - 1 = ((i + s) - 1) - 1
        <5>1. i - 1 \in 1..L
          BY <1>3, <3>1
        <5> QED BY <1>1, <2>1, <5>1
      <4> QED BY <1>1, <4>2, <4>3
    <3>3. TalkTail4(r, 1, ms, s)
      <4>1. MaxHistory - 1 = K + 1 - s
        BY <1>1, <1>3, <2>1, <3>1
      <4> QED BY <1>1, <1>2, <1>3, <3>2, <4>1 DEF TalkTail4
    <3>4. TalkTwice(r, 1)
      <4>1. 2 \in 2..MaxHistory /\ D + 2 = 1
        BY <1>3, <2>1, <2>3
      <4>2. r[2] = run[1]
        BY <1>2, <4>1
      <4> QED BY <1>2, <2>1, <4>2 DEF TalkTwice
    <3>5. TalkForm(r, 1, ms, s)
      BY <3>3, <3>4 DEF TalkForm
    <3> QED BY <1>1, <3>5 DEF r
  <2> QED BY <2>1, <2>2, <2>3
<1> QED BY <1>4, <1>5, <1>6

LEMMA TalkWindowIs == Talk!KeepRecent \in 8..16 /\
  \A ms : Talk!Window(ms) \in 2..Talk!KeepRecent
<1>1. Talk!KeepRecent \in 8..16
  BY DEF Talk!KeepRecent
<1>2. ASSUME NEW ms PROVE Talk!Window(ms) \in 2..Talk!KeepRecent
  <2> DEFINE fit == {k \in Talk!Windows : Talk!Large(Talk!Summarised(ms, k)) <= MaxLarge}
  <2>1. fit \subseteq 2..Talk!KeepRecent
    BY DEF Talk!Windows
  <2>2. Talk!Window(ms) = IF fit = {} THEN 2 ELSE Talk!Max(fit)
    BY DEF Talk!Window
  <2> HIDE DEF fit
  <2>3. fit \subseteq 1..Talk!KeepRecent /\ Talk!KeepRecent \in Nat
    BY <1>1, <2>1
  <2>4. fit # {} => Talk!Max(fit) \in fit
    BY <2>3, TalkMaxIs
  <2>5. 2 \in 2..Talk!KeepRecent
    BY <1>1
  <2> QED BY <2>1, <2>2, <2>4, <2>5
<1> QED BY <1>1, <1>2

(* With its middle summarised, a run is the front, the summary and a tail.  *)
LEMMA TalkSummarisedIs ==
    ASSUME NEW run \in Seq(TalkMessage), ~Talk!NoRoomToSummarise(run),
      NEW w \in 2..Talk!KeepRecent
    PROVE  LET n == Talk!FirstUser(run)
               r == Talk!Summarised(run, w)
           IN  /\ n \in 1..Len(run) /\ n + w < Len(run)
               /\ r \in Seq(TalkMessage) /\ Len(r) = n + 1 + w
               /\ \A i \in 1..n : r[i] = run[i]
               /\ r[n + 1] = Talk!Summary
               /\ \A i \in n+2..Len(r) : r[i] = run[((i + Len(run)) - w) - (n + 1)]
<1> DEFINE n == Talk!FirstUser(run)
           L == Len(run)
           r == Talk!Summarised(run, w)
           p == SubSeq(run, 1, n)
           q == SubSeq(run, (L - w) + 1, L)
           one == <<Talk!Summary>>
<1>1. L \in Nat /\ DOMAIN run = 1..L /\ Talk!KeepRecent \in 8..16 /\ L = Len(run)
  BY TalkWindowIs
<1>2. n = 0 \/ n \in 1..L
  BY <1>1, TalkFirstUserIs
<1>3. n # 0 /\ ~(n + Talk!KeepRecent >= L)
  BY DEF Talk!NoRoomToSummarise
<1> HIDE DEF n, L
<1>4. n \in 1..L /\ w \in Nat /\ w >= 2 /\ n + w < L
  BY <1>1, <1>2, <1>3
<1>5. Talk!Max({L - w, n + 1}) = L - w
  <2>1. L - w \in Nat \ {0} /\ n + 1 \in Nat \ {0} /\ ~(L - w < n + 1)
    <3>1. n \in Nat /\ n >= 1
      BY <1>1, <1>4
    <3>2. L - w \in Nat /\ L - w >= n + 1
      BY <1>1, <1>4, <3>1
    <3>3. L - w # 0 /\ n + 1 # 0 /\ n + 1 \in Nat
      BY <3>1, <3>2
    <3>4. ~(L - w < n + 1)
      BY <3>2, <3>3
    <3> QED BY <3>2, <3>3, <3>4
  <2> QED BY <2>1, TalkMaxOfTwo
<1>6. r = (p \o one) \o q
  <2>1. r = p \o one \o SubSeq(run, Talk!Max({Len(run) - w, Talk!FirstUser(run) + 1}) + 1,
        Len(run))
    BY DEF Talk!Summarised, n
  <2> QED BY <1>5, <2>1 DEF n, L
<1>7. p \in Seq(TalkMessage) /\ Len(p) = n /\ \A i \in 1..n : p[i] = run[i]
  <2>1. 1 \in 1..(Len(run) + 1) /\ n \in 0..Len(run) /\ 1 <= n + 1 /\ (n + 1) - 1 = n
    BY <1>1, <1>4
  <2>2. /\ p \in Seq(TalkMessage) /\ Len(p) = (n + 1) - 1
        /\ \A i \in 1..((n + 1) - 1) : p[i] = run[(1 + i) - 1]
    BY <2>1, TalkPieceIs
  <2> HIDE DEF p
  <2> QED BY <1>4, <2>1, <2>2
<1>8. q \in Seq(TalkMessage) /\ Len(q) = w /\ \A i \in 1..w : q[i] = run[(L - w) + i]
  <2> DEFINE m == (L - w) + 1
  <2>1. m \in 1..(Len(run) + 1) /\ L \in 0..Len(run) /\ m <= L + 1 /\ (L + 1) - m = w
        /\ \A i \in 1..w : (m + i) - 1 = (L - w) + i
    BY <1>1, <1>4
  <2> HIDE DEF m
  <2>2. /\ SubSeq(run, m, L) \in Seq(TalkMessage) /\ Len(SubSeq(run, m, L)) = (L + 1) - m
        /\ \A i \in 1..((L + 1) - m) : SubSeq(run, m, L)[i] = run[(m + i) - 1]
    BY <2>1, TalkPieceIs
  <2>3. SubSeq(run, m, L) = q
    BY DEF m
  <2> HIDE DEF q
  <2> QED BY <2>1, <2>2, <2>3
<1>9. one \in Seq(TalkMessage) /\ Len(one) = 1 /\ one[1] = Talk!Summary /\ DOMAIN one = 1..1
  <2>1. "summary" \in Talk!Roles /\ {} \in SUBSET (Nat \X Nat) /\ FALSE \in BOOLEAN
    BY DEF Talk!Roles
  <2>2. Talk!Summary \in TalkMessage
    BY <2>1, TalkMsgIs DEF Talk!Summary
  <2> QED BY <2>2, TalkOneIs
<1> HIDE DEF p, q, one, r
<1> DEFINE x == p \o one
<1>10. /\ x \in Seq(TalkMessage) /\ Len(x) = n + 1 /\ DOMAIN x = 1..(n + 1)
       /\ \A i \in 1..n : x[i] = run[i]
       /\ x[n + 1] = Talk!Summary
  <2>1. /\ x \in Seq(TalkMessage) /\ Len(x) = Len(p) + Len(one)
        /\ DOMAIN x = 1..(Len(p) + Len(one)) /\ DOMAIN p = 1..Len(p)
        /\ \A i \in DOMAIN p : x[i] = p[i]
        /\ \A i \in DOMAIN one : x[Len(p) + i] = one[i]
    BY <1>7, <1>9, TalkJoinIs
  <2> HIDE DEF x
  <2>2. 1 \in DOMAIN one
    BY <1>9
  <2> QED BY <1>7, <1>9, <2>1, <2>2
<1> HIDE DEF x
<1>11. /\ r \in Seq(TalkMessage) /\ Len(r) = n + 1 + w
       /\ \A i \in 1..(n + 1) : r[i] = x[i]
       /\ \A i \in 1..w : r[(n + 1) + i] = q[i]
  <2> DEFINE v == x \o q
  <2>1. /\ v \in Seq(TalkMessage) /\ Len(v) = Len(x) + Len(q) /\ DOMAIN q = 1..Len(q)
        /\ \A i \in DOMAIN x : v[i] = x[i]
        /\ \A i \in DOMAIN q : v[Len(x) + i] = q[i]
    BY <1>8, <1>10, TalkJoinIs
  <2>2. r = v
    BY <1>6 DEF x
  <2> HIDE DEF v
  <2> QED BY <1>8, <1>10, <2>1, <2>2
<1>12. \A i \in 1..n : r[i] = run[i]
  <2>1. \A i \in 1..n : i \in 1..(n + 1)
    BY <1>4
  <2> QED BY <1>10, <1>11, <2>1
<1>13. r[n + 1] = Talk!Summary
  <2>1. n + 1 \in 1..(n + 1)
    BY <1>4
  <2> QED BY <1>10, <1>11, <2>1
<1>14. ASSUME NEW i \in n+2..Len(r) PROVE r[i] = run[((i + L) - w) - (n + 1)]
  <2> DEFINE k == i - (n + 1)
  <2>1. k \in 1..w /\ i = (n + 1) + k /\ (L - w) + k = ((i + L) - w) - (n + 1)
    BY <1>1, <1>4, <1>11
  <2> HIDE DEF k
  <2>2. r[(n + 1) + k] = run[(L - w) + k]
    BY <1>8, <1>11, <2>1
  <2> QED BY <2>1, <2>2
<1> QED BY <1>4, <1>11, <1>12, <1>13, <1>14 DEF n, L, r

LEMMA TalkSummarisedForm ==
    ASSUME NEW run, NEW n, NEW ms \in Seq(TalkMessage), NEW s, TalkFramed(run, n, ms, s),
           Talk!FirstUser(run) = n, ~Talk!NoRoomToSummarise(run), NEW w \in 2..Talk!KeepRecent
    PROVE  \E t \in Nat : TalkForm(Talk!Summarised(run, w), n + 1, ms, t)
<1> DEFINE r == Talk!Summarised(run, w)
           L == Len(run)
           K == Len(ms)
           t == ((s + L) - w) - n
<1>1. /\ run \in Seq(TalkMessage) /\ n \in Nat /\ s \in Nat /\ s >= 1
      /\ n <= L /\ L - n = K + 1 - s
      /\ \A i \in n+1..L : run[i] = ms[((i + s) - n) - 1]
      /\ \A i \in 1..n : TalkPlain(run[i])
  BY DEF TalkFramed, TalkTail4, TalkPlainFront
<1>2. L \in Nat /\ K \in Nat /\ L = Len(run) /\ K = Len(ms) /\ w \in Nat /\ w >= 2
  BY <1>1, TalkWindowIs
<1>3. /\ n \in 1..L /\ n + w < L
      /\ r \in Seq(TalkMessage) /\ Len(r) = n + 1 + w
      /\ \A i \in 1..n : r[i] = run[i]
      /\ r[n + 1] = Talk!Summary
      /\ \A i \in n+2..Len(r) : r[i] = run[((i + L) - w) - (n + 1)]
  BY <1>1, TalkSummarisedIs
<1> HIDE DEF r, L, K
<1>4. t \in Nat /\ t >= 1 /\ Len(r) - (n + 1) = K + 1 - t
  <2>1. n \in Nat /\ s \in Nat /\ s >= 1 /\ L \in Nat /\ K \in Nat /\ w \in Nat /\ n + w < L
    BY <1>1, <1>2, <1>3
  <2>2. L - n = K + 1 - s /\ Len(r) = n + 1 + w
    BY <1>1, <1>3
  <2>3. t \in Int /\ t >= s
    BY <2>1
  <2> QED BY <2>1, <2>2, <2>3
<1>5. ASSUME NEW i \in (n+1)+1..Len(r) PROVE r[i] = ms[((i + t) - (n + 1)) - 1]
  <2>1. /\ i \in n+2..Len(r)
        /\ ((i + L) - w) - (n + 1) \in n+1..L
        /\ (((((i + L) - w) - (n + 1)) + s) - n) - 1 = ((i + t) - (n + 1)) - 1
    <3>1. i \in Nat /\ i >= n + 2 /\ i <= n + 1 + w
      BY <1>1, <1>2, <1>3
    <3> QED BY <1>1, <1>2, <1>3, <3>1
  <2> QED BY <1>1, <1>3, <2>1
<1>6. TalkPlainFront(r, n + 1)
  <2>1. TalkPlain(Talk!Summary)
    BY DEF TalkPlain, Talk!Summary, Talk!Msg
  <2>2. \A i \in 1..(n + 1) : i \in 1..n \/ i = n + 1
    BY <1>1
  <2> QED BY <1>1, <1>3, <2>1, <2>2 DEF TalkPlainFront
<1> HIDE DEF t
<1>7. TalkTail4(r, n + 1, ms, t)
  <2>1. n + 1 \in Nat /\ n + 1 <= Len(r)
    BY <1>1, <1>2, <1>3
  <2> QED BY <1>2, <1>3, <1>4, <1>5, <2>1 DEF TalkTail4
<1>8. TalkForm(r, n + 1, ms, t)
  BY <1>6, <1>7 DEF TalkForm
<1> QED BY <1>4, <1>8 DEF r

-----------------------------------------------------------------------------
LEMMA TalkNoteIs == Talk!Note \in TalkMessage /\ Talk!Note.role = "system" /\
  Talk!Note.calls = {}
<1>1. "system" \in Talk!Roles /\ {} \in SUBSET (Nat \X Nat) /\ FALSE \in BOOLEAN
  BY DEF Talk!Roles
<1> QED BY <1>1, TalkMsgIs DEF Talk!Note

LEMMA TalkNotesWhole ==
    ASSUME NEW num \in Nat
    PROVE  TalkWhole([i \in 1..num |-> Talk!Note]) /\ Len([i \in 1..num |-> Talk!Note]) = num
<1> DEFINE w == [i \in 1..num |-> Talk!Note]
<1>1. w \in Seq(TalkMessage) /\ Len(w) = num /\ \A i \in DOMAIN w : w[i] = Talk!Note
  BY TalkNoteIs
<1> HIDE DEF w
<1>2. \A i \in DOMAIN w : w[i].role # "tool" /\ (Talk!Asked(w, i) => w[i].calls = {})
  BY <1>1, TalkNoteIs DEF Talk!Asked
<1>3. TalkWhole(w)
  BY <1>1, <1>2, TalkPlainWhole
<1> QED BY <1>1, <1>3 DEF w

LEMMA TalkNoteWhole == TalkWhole(<<Talk!Note>>)
<1> DEFINE w == <<Talk!Note>>
<1>1. w \in Seq(TalkMessage) /\ w[1] = Talk!Note /\ DOMAIN w = 1..1
  BY TalkNoteIs, TalkOneIs
<1> HIDE DEF w
<1>2. \A i \in DOMAIN w : w[i].role # "tool" /\ (Talk!Asked(w, i) => w[i].calls = {})
  BY <1>1, TalkNoteIs DEF Talk!Asked
<1> QED BY <1>1, <1>2, TalkPlainWhole DEF w

(* os_style: the system messages, and the last four of the others.         *)
LEMMA TalkOsStyledFramed ==
    ASSUME TalkBounds, NEW hist, TalkWhole(hist), TalkOpens(hist), NEW num \in 0..1
    PROVE  LET run == Talk!OsStyled(hist) \o [i \in 1..num |-> Talk!Note]
           IN  /\ run \in Seq(TalkMessage) /\ Len(run) > 0
               /\ MaxHistory > 4 => \E ms : TalkWhole(ms) /\ \E n,
                  s \in Nat : TalkFramed(run, n, ms, s)
<1> DEFINE sys == Talk!Selected(hist, Talk!Systems(hist))
           spoken == Talk!Selected(hist, DOMAIN hist \ Talk!Systems(hist))
           N == Len(spoken)
           p == IF 4 < N THEN N - 4 + 1 ELSE 1
           last == SubSeq(spoken, p, N)
           added == [i \in 1..num |-> Talk!Note]
           x == sys \o last
           run == x \o added
           ms == spoken \o added
           n == Len(sys)
<1>1. hist \in Seq(TalkMessage) /\ Talk!Systems(hist) \subseteq DOMAIN hist
  BY DEF TalkWhole, Talk!Systems
<1>2. TalkWhole(spoken) /\ spoken \in Seq(TalkMessage)
  <2>1. TalkWhole(spoken)
    BY TalkSpokenWhole
  <2> HIDE DEF spoken
  <2> QED BY <2>1 DEF TalkWhole
<1>3. sys \in Seq(TalkMessage) /\ \A i \in DOMAIN sys : sys[i].role = "system"
  <2> DEFINE places == Talk!Systems(hist)
  <2>1. \A k \in places : hist[k].role = "system"
    BY DEF Talk!Systems
  <2>2. places \subseteq DOMAIN hist
    BY <1>1
  <2> HIDE DEF places
  <2>3. /\ Talk!Selected(hist, places) \in Seq(TalkMessage)
        /\ \E at \in Seq(places) : TalkPicks(Talk!Selected(hist, places), hist, places, at)
    BY <1>1, <2>2, TalkSelectedPicks
  <2>4. PICK at \in Seq(places) : TalkPicks(Talk!Selected(hist, places), hist, places, at)
    BY <2>3
  <2>5. \A i \in DOMAIN at : at[i] \in places
    OBVIOUS
  <2>6. \A i \in DOMAIN Talk!Selected(hist, places) : Talk!Selected(hist,
        places)[i].role = "system"
    BY <2>1, <2>4, <2>5 DEF TalkPicks
  <2> QED BY <2>3, <2>6 DEF places
<1>4. N > 0
  <2> DEFINE places == DOMAIN hist \ Talk!Systems(hist)
  <2>1. PICK u \in DOMAIN hist : hist[u].role = "user"
    BY DEF TalkOpens
  <2>2. u \in places /\ places \subseteq DOMAIN hist
    BY <2>1 DEF Talk!Systems
  <2> HIDE DEF places
  <2>3. /\ Talk!Selected(hist, places) \in Seq(TalkMessage)
        /\ \E at \in Seq(places) : TalkPicks(Talk!Selected(hist, places), hist, places, at)
    BY <1>1, <2>2, TalkSelectedPicks
  <2>4. \E i \in DOMAIN Talk!Selected(hist, places) : TRUE
    BY <2>2, <2>3 DEF TalkPicks
  <2>5. \E i \in DOMAIN spoken : TRUE
    BY <2>4 DEF places
  <2> HIDE DEF spoken
  <2> QED BY <1>2, <2>5
<1>5. TalkWhole(added) /\ Len(added) = num /\ num \in Nat
  BY TalkNotesWhole
<1> HIDE DEF sys, spoken, added
<1>6. N \in Nat /\ p \in 1..N /\ N - p <= 3 /\ n \in Nat /\ DOMAIN sys = 1..n /\ num <= 1
  BY <1>2, <1>3, <1>4
<1>7. /\ last \in Seq(TalkMessage) /\ Len(last) = (N + 1) - p
      /\ \A i \in 1..((N + 1) - p) : last[i] = spoken[(p + i) - 1]
  <2> HIDE DEF p
  <2>1. p \in 1..(N + 1) /\ N \in 0..N /\ p <= N + 1
    BY <1>6
  <2> QED BY <1>2, <2>1, TalkPieceIs
<1>8. Talk!OsStyled(hist) = x
  BY DEF Talk!OsStyled, Talk!LastOf, x, sys, spoken
<1> HIDE DEF last, p
<1>9. /\ x \in Seq(TalkMessage) /\ Len(x) = n + ((N + 1) - p) /\ DOMAIN x = 1..Len(x)
      /\ \A i \in 1..n : x[i] = sys[i]
      /\ \A i \in 1..((N + 1) - p) : x[n + i] = spoken[(p + i) - 1]
  <2>1. /\ x \in Seq(TalkMessage) /\ Len(x) = Len(sys) + Len(last)
        /\ DOMAIN last = 1..Len(last) /\ DOMAIN x = 1..(Len(sys) + Len(last))
        /\ \A i \in DOMAIN sys : x[i] = sys[i]
        /\ \A i \in DOMAIN last : x[Len(sys) + i] = last[i]
    BY <1>3, <1>7, TalkJoinIs
  <2> HIDE DEF x
  <2> QED BY <1>6, <1>7, <2>1
<1> HIDE DEF x
<1>10. added \in Seq(TalkMessage)
  BY <1>5 DEF TalkWhole
<1>11. /\ run \in Seq(TalkMessage) /\ Len(run) = (n + ((N + 1) - p)) + num
       /\ \A i \in 1..Len(x) : run[i] = x[i]
       /\ \A i \in 1..num : run[Len(x) + i] = added[i]
  <2>1. /\ run \in Seq(TalkMessage) /\ Len(run) = Len(x) + Len(added) /\
           DOMAIN added = 1..Len(added)
        /\ \A i \in DOMAIN x : run[i] = x[i]
        /\ \A i \in DOMAIN added : run[Len(x) + i] = added[i]
    BY <1>9, <1>10, TalkJoinIs
  <2> HIDE DEF run
  <2> QED BY <1>5, <1>9, <2>1
<1>12. /\ ms \in Seq(TalkMessage) /\ Len(ms) = N + num
       /\ \A i \in 1..N : ms[i] = spoken[i]
       /\ \A i \in 1..num : ms[N + i] = added[i]
  <2>1. /\ ms \in Seq(TalkMessage) /\ Len(ms) = Len(spoken) + Len(added) /\
           DOMAIN added = 1..Len(added)
        /\ DOMAIN spoken = 1..Len(spoken)
        /\ \A i \in DOMAIN spoken : ms[i] = spoken[i]
        /\ \A i \in DOMAIN added : ms[Len(spoken) + i] = added[i]
    BY <1>2, <1>10, TalkJoinIs
  <2> HIDE DEF ms
  <2> QED BY <1>5, <2>1
<1>13. TalkWhole(ms)
  BY <1>2, <1>5, TalkJoinWhole
<1> HIDE DEF run, ms, n, N
<1>14. ASSUME NEW i \in n+1..Len(run) PROVE run[i] = ms[((i + p) - n) - 1]
  <2>1. i \in Nat /\ Len(x) \in Nat /\ p \in Nat /\ p >= 1 /\ p <= N
    BY <1>6, <1>9, <1>11
  <2>2. CASE i <= Len(x)
    <3> DEFINE k == i - n
    <3>1. k \in 1..((N + 1) - p) /\ n + k = i /\ (p + k) - 1 = ((i + p) - n) - 1
      BY <1>6, <1>9, <1>11, <2>1, <2>2
    <3>2. (p + k) - 1 \in 1..N /\ i \in 1..Len(x)
      BY <1>6, <2>1, <2>2, <3>1
    <3> HIDE DEF k
    <3> QED BY <1>9, <1>11, <1>12, <3>1, <3>2
  <2>3. CASE ~(i <= Len(x))
    <3> DEFINE k == i - Len(x)
    <3>1. k \in 1..num /\ Len(x) + k = i
      BY <1>5, <1>6, <1>9, <1>11, <2>1, <2>3
    <3>2. N + k = ((i + p) - n) - 1
      BY <1>6, <1>9, <2>1, <3>1
    <3> HIDE DEF k
    <3> QED BY <1>11, <1>12, <3>1, <3>2
  <2> QED BY <2>2, <2>3
<1>15. TalkTail4(run, n, ms, p)
  <2>1. Len(run) = (n + ((N + 1) - p)) + num /\ Len(ms) = N + num
    BY <1>11, <1>12
  <2>2. num \in Nat /\ N \in Nat /\ n \in Nat /\ p \in Nat /\ p >= 1 /\ p <= N
    BY <1>5, <1>6
  <2>3. n <= Len(run) /\ Len(run) - n = Len(ms) + 1 - p
    BY ONLY <2>1, <2>2
  <2> QED BY <1>11, <1>12, <1>14, <2>2, <2>3 DEF TalkTail4
<1>16. \A i \in 1..n : run[i].role = "system"
  <2>1. \A i \in 1..n : i \in 1..Len(x)
    BY <1>6, <1>9
  <2> QED BY <1>3, <1>6, <1>9, <1>11, <2>1
<1>17. TalkPlainFront(run, n)
  BY <1>16 DEF TalkPlainFront, TalkPlain
<1>18. Len(run) > 0 /\ Len(run) <= n + 5 /\ Len(run) \in Nat /\ DOMAIN run = 1..Len(run)
  BY <1>5, <1>6, <1>11
<1>19. Talk!NoRoomToSummarise(run)
  <2> DEFINE u == Talk!FirstUser(run)
  <2>1. u = 0 \/ (u \in DOMAIN run /\ run[u].role = "user")
    BY <1>11, TalkFirstUserIs DEF Talk!IsUser
  <2>2. u # 0 => u + Talk!KeepRecent >= Len(run)
    <3> HIDE DEF u
    <3>1. u \in DOMAIN run /\ run[u].role = "user" => u > n
      BY <1>6, <1>16, <1>18
    <3> QED BY <1>6, <1>18, <2>1, <3>1, TalkWindowIs
  <2> QED BY <2>2 DEF Talk!NoRoomToSummarise
<1>20. MaxHistory > 4 => TalkFramed(run, n, ms, p)
  <2>1. MaxHistory > 4 => TalkShort(run, n)
    BY <1>6, <1>18, <1>19 DEF TalkShort
  <2> QED BY <1>15, <1>17, <1>18, <2>1 DEF TalkFramed
<1>21. MaxHistory > 4 => \E h : TalkWhole(h) /\ \E k, s \in Nat : TalkFramed(run, k, h, s)
  <2>1. n \in Nat /\ p \in Nat
    BY <1>6
  <2> QED BY <1>13, <1>20, <2>1
<1> QED BY <1>8, <1>11, <1>18, <1>21 DEF run, added

LEMMA TalkRunFramed ==
    ASSUME TalkBounds, TalkWhole(messages), TalkOpens(messages),
      style \in {"normal", "os_style"},
           NEW planned \in BOOLEAN, NEW num \in 0..1
    PROVE  LET run == Talk!RunMessages(planned, num)
           IN  /\ run \in Seq(TalkMessage) /\ Len(run) > 0
               /\ Talk!CutOnce => \E ms : TalkWhole(ms) /\ \E n,
                  s \in Nat : TalkFramed(run, n, ms, s)
               /\ style = "normal" => Talk!FirstUser(run) \in 1..Len(run)
<1> DEFINE run == Talk!RunMessages(planned, num)
           added == [i \in 1..num |-> Talk!Note]
<1>1. TalkWhole(added) /\ added \in Seq(TalkMessage)
  <2>1. TalkWhole(added)
    BY TalkNotesWhole
  <2> HIDE DEF added
  <2> QED BY <2>1 DEF TalkWhole
<1>2. ASSUME NEW base, TalkWhole(base), TalkOpens(base), run = base \o added
      PROVE  /\ run \in Seq(TalkMessage) /\ Len(run) > 0
             /\ \E ms : TalkWhole(ms) /\ \E n, s \in Nat : TalkFramed(run, n, ms, s)
             /\ Talk!FirstUser(run) \in 1..Len(run)
  <2>1. base \in Seq(TalkMessage)
    BY <1>2 DEF TalkWhole
  <2>2. TalkWhole(run) /\ TalkOpens(run)
    <3> HIDE DEF added, run
    <3> QED BY <1>1, <1>2, <2>1, TalkJoinWhole, TalkJoinOpens
  <2> HIDE DEF run, added
  <2>3. run \in Seq(TalkMessage) /\ DOMAIN run = 1..Len(run) /\ Len(run) \in Nat
    BY <2>2 DEF TalkWhole
  <2>4. Talk!FirstUser(run) \in DOMAIN run /\ TalkFramed(run, Talk!FirstUser(run), run,
        Talk!FirstUser(run) + 1)
    BY <2>2, TalkOpensFramed
  <2>5. Talk!FirstUser(run) \in Nat /\ Talk!FirstUser(run) + 1 \in Nat /\ Len(run) > 0
    BY <2>3, <2>4
  <2> QED BY <2>2, <2>3, <2>4, <2>5
<1>3. CASE planned
  <2> DEFINE base == messages \o <<Talk!Note>>
  <2>1. messages \in Seq(TalkMessage) /\ Append(messages, Talk!Note) = base
    BY DEF TalkWhole
  <2>2. <<Talk!Note>> \in Seq(TalkMessage) /\ TalkWhole(<<Talk!Note>>)
    BY TalkNoteIs, TalkOneIs, TalkNoteWhole
  <2>3. TalkWhole(base) /\ TalkOpens(base)
    BY <2>1, <2>2, TalkJoinWhole, TalkJoinOpens
  <2>4. run = base \o added
    BY <1>3, <2>1 DEF Talk!RunMessages
  <2> HIDE DEF run, base, added
  <2> QED BY <1>2, <2>3, <2>4 DEF run
<1>4. CASE ~planned /\ style = "normal"
  <2>1. run = messages \o added
    BY <1>4 DEF Talk!RunMessages
  <2> HIDE DEF run, added
  <2> QED BY <1>2, <2>1 DEF run
<1>5. CASE ~planned /\ style = "os_style"
  <2>1. run = Talk!OsStyled(messages) \o [i \in 1..num |-> Talk!Note]
    BY <1>5 DEF Talk!RunMessages
  <2>2. Talk!CutOnce => MaxHistory > 4
    BY <1>5 DEF Talk!CutOnce
  <2>3. /\ run \in Seq(TalkMessage) /\ Len(run) > 0
        /\ MaxHistory > 4 => \E ms : TalkWhole(ms) /\ \E n,
           s \in Nat : TalkFramed(run, n, ms, s)
    <3> HIDE DEF run
    <3> QED BY <2>1, TalkOsStyledFramed
  <2> HIDE DEF run
  <2> QED BY <1>5, <2>2, <2>3 DEF run
<1> QED BY <1>3, <1>4, <1>5

(* The request: a run's messages, cut or summarised when they do not fit.  *)
LEMMA TalkCompactedForm ==
    ASSUME TalkBounds, NEW run, NEW n, NEW ms \in Seq(TalkMessage), NEW s,
      TalkFramed(run, n, ms, s),
           ~Talk!Fits(run) /\ Talk!NoRoomToSummarise(run) => ~Talk!OutOfRange(run)
    PROVE  \E b, t \in Nat : TalkForm(Talk!Compacted(run), b, ms, t)
<1>1. run \in Seq(TalkMessage) /\ n \in Nat /\ s \in Nat /\ TalkForm(run, n, ms, s)
  BY DEF TalkFramed, TalkTail4, TalkForm
<1>2. (n > 0 /\ Talk!FirstUser(run) = n) \/ TalkShort(run, n)
  BY DEF TalkFramed
<1>3. CASE Talk!Fits(run)
  <2>1. Talk!Compacted(run) = run
    BY <1>3 DEF Talk!Compacted
  <2> QED BY <1>1, <2>1
<1>4. CASE ~Talk!Fits(run) /\ Talk!NoRoomToSummarise(run)
  <2>1. ~Talk!OutOfRange(run) /\ Talk!Compacted(run) = Talk!Truncated(run)
    BY <1>4 DEF Talk!Compacted
  <2>2. n > 0 \/ (Len(run) <= 5 /\ MaxHistory > 4)
    BY <1>2 DEF TalkShort
  <2>3. \E b, t \in Nat : TalkForm(Talk!Truncated(run), b, ms, t)
    BY <2>1, <2>2, TalkTruncatedForm
  <2> QED BY <2>1, <2>3
<1>5. CASE ~Talk!Fits(run) /\ ~Talk!NoRoomToSummarise(run)
  <2>1. Talk!Compacted(run) = Talk!Summarised(run, Talk!Window(run)) /\
        Talk!Window(run) \in 2..Talk!KeepRecent
    BY <1>5, TalkWindowIs DEF Talk!Compacted
  <2>2. n > 0 /\ Talk!FirstUser(run) = n
    BY <1>2, <1>5 DEF TalkShort
  <2>3. \E t \in Nat : TalkForm(Talk!Summarised(run, Talk!Window(run)), n + 1, ms, t)
    BY <1>5, <2>1, <2>2, TalkSummarisedForm
  <2>4. n + 1 \in Nat
    BY <1>1
  <2> QED BY <2>1, <2>3, <2>4
<1> QED BY <1>3, <1>4, <1>5

(* The first intent, the last message and the length.                      *)
LEMMA TalkCompactedEnds ==
    ASSUME TalkBounds, NEW run \in Seq(TalkMessage), Len(run) > 0,
           ~Talk!Fits(run) /\ Talk!NoRoomToSummarise(run) => ~Talk!OutOfRange(run)
    PROVE  /\ Talk!Compacted(run) \in Seq(TalkMessage) /\ Len(Talk!Compacted(run)) > 0
           /\ MaxHistory > 1 => Talk!Last(Talk!Compacted(run)) = Talk!Last(run)
           /\ Talk!FirstUser(run) \in 1..Len(run) /\ MaxHistory > Talk!KeepRecent + 1 =>
                  run[Talk!FirstUser(run)] \in Talk!ToSet(Talk!Compacted(run))
           /\ Talk!Fits(run) \/ Len(Talk!Compacted(run)) <= Talk!Max({MaxHistory,
              Talk!FirstUser(run) + 1 + Talk!KeepRecent})
<1> DEFINE r == Talk!Compacted(run)
           u == Talk!FirstUser(run)
           L == Len(run)
<1>1. /\ L \in Nat /\ DOMAIN run = 1..L /\ L = Len(run) /\ MaxHistory \in Nat /\ MaxHistory >= 1
      /\ Talk!KeepRecent \in 8..16 /\ (u = 0 \/ u \in 1..L)
  BY TalkWindowIs, TalkFirstUserIs DEF TalkBounds
<1>2. CASE Talk!Fits(run)
  <2>1. r = run
    BY <1>2 DEF Talk!Compacted
  <2>2. u \in 1..L => run[u] \in Talk!ToSet(run)
    <3> HIDE DEF u, L
    <3> QED BY <1>1 DEF Talk!ToSet
  <2> QED BY <1>2, <2>1, <2>2
<1>3. MaxHistory <= Talk!Max({MaxHistory, u + 1 + Talk!KeepRecent}) /\
      u + 1 + Talk!KeepRecent <= Talk!Max({MaxHistory, u + 1 + Talk!KeepRecent})
  <2>1. u \in Nat
    BY <1>1
  <2> HIDE DEF u
  <2> DEFINE m == u + 1 + Talk!KeepRecent
  <2>2. m \in Nat \ {0} /\ MaxHistory \in Nat \ {0}
    BY <1>1, <2>1
  <2> HIDE DEF m
  <2>3. MaxHistory <= Talk!Max({MaxHistory, m}) /\ m <= Talk!Max({MaxHistory, m})
    BY <2>2, TalkMaxOfTwo
  <2> QED BY <2>3 DEF m
<1>4. CASE ~Talk!Fits(run) /\ Talk!NoRoomToSummarise(run)
  <2>1. r = Talk!Truncated(run) /\ ~Talk!OutOfRange(run)
    BY <1>4 DEF Talk!Compacted
  <2>2. /\ r \in Seq(TalkMessage) /\ Len(r) = MaxHistory /\ r[1] = run[1] /\
           DOMAIN r = 1..MaxHistory
        /\ \A i \in 2..MaxHistory : ((L - MaxHistory) + i) \in DOMAIN run /\
           r[i] = run[(L - MaxHistory) + i]
    <3>1. /\ r \in Seq(TalkMessage) /\ Len(r) = MaxHistory /\ r[1] = run[1]
          /\ \A i \in 2..MaxHistory : ((L - MaxHistory) + i) \in DOMAIN run /\
             r[i] = run[(L - MaxHistory) + i]
      BY <2>1, TalkTruncatedIs
    <3> HIDE DEF r
    <3> QED BY <3>1
  <2> HIDE DEF r, u, L
  <2>3. MaxHistory > 1 => r[MaxHistory] = run[L]
    <3>1. MaxHistory > 1 => MaxHistory \in 2..MaxHistory /\ (L - MaxHistory) + MaxHistory = L
      BY <1>1
    <3> QED BY <2>2, <3>1
  <2>4. MaxHistory > 1 => Talk!Last(r) = Talk!Last(run)
    BY <1>1, <2>2, <2>3 DEF Talk!Last
  <2>5. u \in 1..L /\ MaxHistory > Talk!KeepRecent + 1 => run[u] \in Talk!ToSet(r)
    <3>1. SUFFICES ASSUME u \in 1..L, MaxHistory > Talk!KeepRecent + 1
          PROVE \E i \in DOMAIN r : r[i] = run[u]
      BY DEF Talk!ToSet
    <3>2. u + Talk!KeepRecent >= L
      BY <1>1, <1>4, <3>1 DEF Talk!NoRoomToSummarise, u, L
    <3>3. CASE u = 1
      BY <1>1, <2>2, <3>3
    <3>4. CASE u # 1
      <4> DEFINE i == (u + MaxHistory) - L
      <4>1. i >= 2 /\ i \in Int /\ i <= MaxHistory /\ (L - MaxHistory) + i = u
        BY <1>1, <3>1, <3>2
      <4> HIDE DEF i
      <4>2. i \in 2..MaxHistory /\ i \in DOMAIN r
        BY <1>1, <2>2, <4>1
      <4> QED BY <2>2, <4>1, <4>2
    <3> QED BY <3>3, <3>4
  <2> QED BY <1>1, <1>3, <2>2, <2>4, <2>5 DEF r, u, L
<1>5. CASE ~Talk!Fits(run) /\ ~Talk!NoRoomToSummarise(run)
  <2> DEFINE w == Talk!Window(run)
  <2>1. r = Talk!Summarised(run, w) /\ w \in 2..Talk!KeepRecent
    BY <1>5, TalkWindowIs DEF Talk!Compacted
  <2> HIDE DEF w
  <2>2. /\ u \in 1..L /\ u + w < L
        /\ r \in Seq(TalkMessage) /\ Len(r) = u + 1 + w
        /\ \A i \in 1..u : r[i] = run[i]
        /\ \A i \in u+2..Len(r) : r[i] = run[((i + L) - w) - (u + 1)]
    <3>1. LET n == Talk!FirstUser(run)
              v == Talk!Summarised(run, w)
          IN  /\ n \in 1..Len(run) /\ n + w < Len(run)
              /\ v \in Seq(TalkMessage) /\ Len(v) = n + 1 + w
              /\ \A i \in 1..n : v[i] = run[i]
              /\ \A i \in n+2..Len(v) : v[i] = run[((i + Len(run)) - w) - (n + 1)]
      BY <1>5, <2>1, TalkSummarisedIs
    <3> HIDE DEF r
    <3> QED BY <2>1, <3>1
  <2> HIDE DEF r, u, L
  <2>3. w \in Nat /\ w >= 2 /\ w <= Talk!KeepRecent /\ u \in Nat /\ u >= 1
    BY <1>1, <2>1, <2>2
  <2>4. Talk!Last(r) = Talk!Last(run)
    <3>1. Len(r) \in u+2..Len(r) /\ ((Len(r) + L) - w) - (u + 1) = L
      BY <1>1, <2>2, <2>3
    <3>2. r[Len(r)] = run[L]
      BY <2>2, <3>1
    <3> QED BY <1>1, <3>2 DEF Talk!Last
  <2>5. run[u] \in Talk!ToSet(r)
    <3>1. DOMAIN r = 1..Len(r) /\ Len(r) \in Nat
      BY <2>2
    <3>2. u \in 1..u /\ u \in DOMAIN r
      BY <2>2, <2>3, <3>1
    <3> QED BY <2>2, <3>2 DEF Talk!ToSet
  <2>6. Len(r) <= u + 1 + Talk!KeepRecent /\ Len(r) > 0 /\ Len(r) \in Nat
    BY <1>1, <2>2, <2>3
  <2>7. Len(r) <= Talk!Max({MaxHistory, u + 1 + Talk!KeepRecent})
    <3>1. \A m : m = MaxHistory \/ m = u + 1 + Talk!KeepRecent => m \in Nat
      BY <1>1, <2>3
    <3>2. Talk!Max({MaxHistory, u + 1 + Talk!KeepRecent}) \in Nat
      <4> DEFINE m == u + 1 + Talk!KeepRecent
      <4>1. m \in Nat \ {0} /\ MaxHistory \in Nat \ {0}
        BY <1>1, <2>3
      <4> HIDE DEF m
      <4>2. Talk!Max({MaxHistory, m}) \in Nat
        BY <4>1, TalkMaxOfTwo
      <4> QED BY <4>2 DEF m
    <3>3. u + 1 + Talk!KeepRecent \in Nat
      BY <3>1
    <3> QED BY <1>3, <2>6, <3>2, <3>3
  <2> QED BY <2>2, <2>4, <2>5, <2>6, <2>7 DEF r, u, L
<1> QED BY <1>2, <1>4, <1>5

-----------------------------------------------------------------------------
TalkIInv == /\ TalkWhole(messages) /\ TalkOpens(messages)
            /\ style \in {"normal", "os_style"} /\ convTurns \in 0..MaxTurns /\
               panicked \in BOOLEAN
            /\ request \in Seq(TalkMessage)
            /\ Talk!EveryCallAnswered /\ Talk!OrphansAtTheCut /\ Talk!IntentAndTail

LEMMA TalkIntentIs ==
    ASSUME NEW k \in Nat
    PROVE  /\ Talk!Intent(k) \in TalkMessage /\ Talk!Intent(k).role = "user"
           /\ <<Talk!Intent(k)>> \in Seq(TalkMessage) /\ TalkWhole(<<Talk!Intent(k)>>) /\
              TalkOpens(<<Talk!Intent(k)>>)
<1>1. "user" \in Talk!Roles /\ {<<k, 0>>} \in SUBSET (Nat \X Nat) /\ FALSE \in BOOLEAN
  BY DEF Talk!Roles
<1>2. Talk!Intent(k) \in TalkMessage /\ Talk!Intent(k).role = "user"
  BY <1>1, TalkMsgIs DEF Talk!Intent
<1> DEFINE w == <<Talk!Intent(k)>>
<1>3. w \in Seq(TalkMessage) /\ w[1] = Talk!Intent(k) /\ DOMAIN w = 1..1
  BY <1>2, TalkOneIs
<1> HIDE DEF w
<1>4. \A i \in DOMAIN w : w[i].role # "tool" /\ (Talk!Asked(w, i) => w[i].calls = {})
  BY <1>2, <1>3 DEF Talk!Asked
<1>5. TalkWhole(w)
  BY <1>3, <1>4, TalkPlainWhole
<1>6. TalkOpens(w)
  BY <1>2, <1>3 DEF TalkOpens
<1> QED BY <1>2, <1>3, <1>5, <1>6 DEF w

(* Notes in front of the intent.                                           *)
LEMMA TalkInitOpens ==
    ASSUME NEW num \in Nat
    PROVE  LET ms == Append([i \in 1..num |-> Talk!Note],
      Talk!Intent(0)) IN TalkWhole(ms) /\ TalkOpens(ms)
<1> DEFINE p == [i \in 1..num |-> Talk!Note]
           q == <<Talk!Intent(0)>>
           w == p \o q
<1>1. TalkWhole(p) /\ Len(p) = num /\ p \in Seq(TalkMessage) /\
      \A i \in 1..num : p[i].role = "system"
  <2>1. TalkWhole(p) /\ Len(p) = num
    BY TalkNotesWhole
  <2>2. \A i \in 1..num : p[i].role = "system"
    BY TalkNoteIs
  <2> HIDE DEF p
  <2> QED BY <2>1, <2>2 DEF TalkWhole
<1>2. q \in Seq(TalkMessage) /\ TalkWhole(q) /\ Len(q) = 1 /\ q[1].role = "user" /\
      DOMAIN q = 1..1
  <2>1. Talk!Intent(0) \in TalkMessage /\ Talk!Intent(0).role = "user" /\ TalkWhole(q)
    BY TalkIntentIs
  <2> QED BY <2>1, TalkOneIs
<1>3. Append(p, Talk!Intent(0)) = w
  <2>1. p \in Seq(TalkMessage) /\ Talk!Intent(0) \in TalkMessage
    BY <1>1, TalkIntentIs
  <2> HIDE DEF p
  <2> QED BY <2>1
<1> HIDE DEF p, q
<1>4. TalkWhole(w)
  BY <1>1, <1>2, TalkJoinWhole
<1>5. /\ DOMAIN w = 1..(num + 1) /\ \A i \in 1..num : w[i] = p[i]
      /\ w[num + 1] = q[1]
  <2>1. /\ DOMAIN w = 1..(Len(p) + Len(q)) /\ DOMAIN p = 1..Len(p)
        /\ \A i \in DOMAIN p : w[i] = p[i]
        /\ \A i \in DOMAIN q : w[Len(p) + i] = q[i]
    BY <1>1, <1>2, TalkJoinIs
  <2> HIDE DEF w
  <2> QED BY <1>1, <1>2, <2>1
<1> HIDE DEF w
<1>6. TalkOpens(w)
  <2>1. num + 1 \in DOMAIN w /\ (num + 1) - 1 = num
    BY <1>5
  <2> QED BY <1>1, <1>2, <1>5, <2>1 DEF TalkOpens
<1>7. Append(p, Talk!Intent(0)) = w /\ TalkWhole(w) /\ TalkOpens(w)
  BY <1>3, <1>4, <1>6
<1> QED BY <1>7 DEF p

LEMMA TalkNoRequest == ASSUME request = <<>>
    PROVE Talk!EveryCallAnswered /\ Talk!OrphansAtTheCut /\ Talk!IntentAndTail
BY DEF Talk!EveryCallAnswered, Talk!OrphansAtTheCut, Talk!IntentAndTail

LEMMA TalkInitSound == ASSUME TalkBounds, Talk!Init PROVE TalkIInv
<1>1. PICK num \in 0..MaxSystem : messages = Append([i \in 1..num |-> Talk!Note],
      Talk!Intent(0))
  BY DEF Talk!Init
<1>2. num \in Nat
  BY DEF TalkBounds
<1>3. TalkWhole(messages) /\ TalkOpens(messages)
  BY <1>1, <1>2, TalkInitOpens
<1>4. /\ style \in {"normal", "os_style"} /\ convTurns \in 0..MaxTurns /\ panicked \in BOOLEAN
      /\ request = <<>> /\ request \in Seq(TalkMessage)
  <2>1. request = <<>> /\ style \in {"normal", "os_style"} /\ convTurns = 0 /\ panicked = FALSE
    BY DEF Talk!Init
  <2>2. convTurns \in 0..MaxTurns
    BY <2>1 DEF TalkBounds
  <2>3. request \in Seq(TalkMessage)
    BY <2>1
  <2>4. panicked \in BOOLEAN
    BY <2>1, Zenon
  <2> QED BY <2>1, <2>2, <2>3, <2>4, Zenon
<1> QED BY <1>3, <1>4, TalkNoRequest DEF TalkIInv

(* A request is put together.                                              *)
LEMMA TalkAskSound ==
    ASSUME TalkBounds, TalkIInv, NEW planned \in BOOLEAN, NEW num \in 0..1,
      Talk!Ask(planned, num)
    PROVE  TalkIInv'
<1> DEFINE run == Talk!RunMessages(planned, num)
<1>1. /\ TalkWhole(messages) /\ TalkOpens(messages) /\ style \in {"normal", "os_style"}
      /\ convTurns \in 0..MaxTurns
  BY DEF TalkIInv
<1>2. /\ frame' = run /\ request' = Talk!Compacted(run)
      /\ panicked' = (~Talk!Fits(run) /\ Talk!NoRoomToSummarise(run) /\ Talk!OutOfRange(run))
      /\ messages' = messages /\ style' = style /\ convTurns' = convTurns
  BY DEF Talk!Ask
<1>3. /\ run \in Seq(TalkMessage) /\ Len(run) > 0
      /\ Talk!CutOnce => \E ms : TalkWhole(ms) /\ \E n, s \in Nat : TalkFramed(run, n, ms, s)
      /\ style = "normal" => Talk!FirstUser(run) \in 1..Len(run)
  BY <1>1, TalkRunFramed
<1> HIDE DEF run
<1>4. panicked' \in BOOLEAN
  BY <1>2
<1>5. CASE panicked'
  <2>1. request' = <<>>
    BY <1>2, <1>5 DEF Talk!Compacted
  <2>2. Talk!EveryCallAnswered' /\ Talk!OrphansAtTheCut' /\ Talk!IntentAndTail'
    BY <2>1 DEF Talk!EveryCallAnswered, Talk!OrphansAtTheCut, Talk!IntentAndTail
  <2>3. request' \in Seq(TalkMessage)
    BY <2>1
  <2> QED BY <1>1, <1>2, <1>4, <2>2, <2>3
             DEF TalkIInv, TalkWhole, TalkOpens, TalkAllAnswered, TalkAllCalled, Talk!Asked,
                 Talk!Answers, TalkCaller
<1>6. CASE ~panicked'
  <2> DEFINE r == Talk!Compacted(run)
  <2>1. ~Talk!Fits(run) /\ Talk!NoRoomToSummarise(run) => ~Talk!OutOfRange(run)
    BY <1>2, <1>6
  <2>2. /\ r \in Seq(TalkMessage) /\ Len(r) > 0
        /\ MaxHistory > 1 => Talk!Last(r) = Talk!Last(run)
        /\ Talk!FirstUser(run) \in 1..Len(run) /\ MaxHistory > Talk!KeepRecent + 1 =>
               run[Talk!FirstUser(run)] \in Talk!ToSet(r)
        /\ Talk!Fits(run) \/ Len(r) <= Talk!Max({MaxHistory,
           Talk!FirstUser(run) + 1 + Talk!KeepRecent})
    BY <1>3, <2>1, TalkCompactedEnds
  <2>3. ASSUME Talk!CutOnce
        PROVE  /\ \A i \in DOMAIN r : Talk!Asked(r, i) =>
                      \A id \in r[i].calls : \E j \in i+1..Len(r) : Talk!Answers(r, j, id)
               /\ \A i \in DOMAIN r : TalkOrphanIn(r, i) =>
                      /\ r # messages
                      /\ i > 1 /\ ~TalkOrphanIn(r, i - 1) =>
                         r[i-1].role \notin {"assistant", "tool"}
                      /\ \A j \in DOMAIN r : TalkOrphanIn(r, j) =>
                             \A x \in r[i].calls, y \in r[j].calls : x[1] = y[1]
    <3>1. PICK ms : TalkWhole(ms) /\ \E n, s \in Nat : TalkFramed(run, n, ms, s)
      BY <1>3, <2>3
    <3>2. PICK n, s \in Nat : TalkFramed(run, n, ms, s)
      BY <3>1
    <3>3. ms \in Seq(TalkMessage)
      BY <3>1 DEF TalkWhole
    <3>4. PICK b, t \in Nat : TalkForm(r, b, ms, t)
      BY <2>1, <3>2, <3>3, TalkCompactedForm
    <3> HIDE DEF r
    <3>5. \A i \in DOMAIN r : Talk!Asked(r, i) =>
              \A id \in r[i].calls : \E j \in i+1..Len(r) : Talk!Answers(r, j, id)
      BY <3>1, <3>4, TalkFormAnswered
    <3>6. \A i \in DOMAIN r : TalkOrphanIn(r, i) =>
              /\ r # messages
              /\ i > 1 /\ ~TalkOrphanIn(r, i - 1) => r[i-1].role \notin {"assistant", "tool"}
              /\ \A j \in DOMAIN r : TalkOrphanIn(r, j) =>
                     \A x \in r[i].calls, y \in r[j].calls : x[1] = y[1]
      BY <1>1, <3>1, <3>4, TalkFormOrphans
    <3> QED BY <3>5, <3>6
  <2>4. request' = r
    BY <1>2
  <2> HIDE DEF r
  <2>5. Talk!CutOnce' = Talk!CutOnce
    BY <1>2 DEF Talk!CutOnce
  <2>6. Talk!EveryCallAnswered'
    BY <2>3, <2>4, <2>5 DEF Talk!EveryCallAnswered, Talk!Asked, Talk!Answers
  <2>7. \A i : Talk!Orphan(i)' <=> TalkOrphanIn(r, i)
    BY <2>4 DEF Talk!Orphan, TalkOrphanIn, Talk!Asked
  <2>8. Talk!OrphansAtTheCut'
    BY <1>2, <2>3, <2>4, <2>5, <2>7 DEF Talk!OrphansAtTheCut
  <2>9. Talk!IntentAndTail'
    BY <1>2, <1>3, <2>2, <2>4 DEF Talk!IntentAndTail
  <2> QED BY <1>1, <1>2, <1>4, <2>2, <2>4, <2>6, <2>8, <2>9
          DEF TalkIInv, TalkWhole, TalkOpens, TalkAllAnswered, TalkAllCalled, Talk!Asked,
            Talk!Answers, TalkCaller
<1> QED BY <1>4, <1>5, <1>6

(* The history grows by something whole.                                   *)
LEMMA TalkTurnSound ==
    ASSUME TalkBounds, TalkIInv, NEW new, TalkWhole(new), Talk!Turn(new)
    PROVE  TalkIInv'
<1> DEFINE w == messages \o new
<1>1. messages \in Seq(TalkMessage) /\ new \in Seq(TalkMessage)
  BY DEF TalkIInv, TalkWhole
<1>2. TalkWhole(w) /\ TalkOpens(w)
  BY <1>1, TalkJoinWhole, TalkJoinOpens DEF TalkIInv
<1>3. /\ messages' = w /\ request' = <<>> /\ style' = style /\ panicked' = panicked
      /\ convTurns' \in 0..MaxTurns
  BY DEF Talk!Turn, TalkIInv, TalkBounds
<1>4. Talk!EveryCallAnswered' /\ Talk!OrphansAtTheCut' /\ Talk!IntentAndTail' /\
      request' \in Seq(TalkMessage)
  BY <1>3 DEF Talk!EveryCallAnswered, Talk!OrphansAtTheCut, Talk!IntentAndTail
<1> HIDE DEF w
<1>5. TalkWhole(messages)' /\ TalkOpens(messages)'
  BY <1>2, <1>3
     DEF TalkWhole, TalkOpens, TalkAllAnswered, TalkAllCalled, Talk!Asked, Talk!Answers,
         TalkCaller
<1> QED BY <1>3, <1>4, <1>5 DEF TalkIInv

LEMMA TalkSaidIs == <<Talk!Msg("assistant", {}, FALSE)>> \in Seq(TalkMessage) /\
  TalkWhole(<<Talk!Msg("assistant", {}, FALSE)>>)
<1> DEFINE m == Talk!Msg("assistant", {}, FALSE)
           w == <<m>>
<1>1. "assistant" \in Talk!Roles /\ {} \in SUBSET (Nat \X Nat) /\ FALSE \in BOOLEAN
  BY DEF Talk!Roles
<1>2. m \in TalkMessage /\ m.role = "assistant" /\ m.calls = {}
  BY <1>1, TalkMsgIs
<1> HIDE DEF m
<1>3. w \in Seq(TalkMessage) /\ w[1] = m /\ DOMAIN w = 1..1
  BY <1>2, TalkOneIs
<1> HIDE DEF w
<1>4. \A i \in DOMAIN w : w[i].role # "tool" /\ (Talk!Asked(w, i) => w[i].calls = {})
  BY <1>2, <1>3
<1>5. TalkWhole(w)
  BY <1>3, <1>4, TalkPlainWhole
<1> QED BY <1>3, <1>5 DEF w, m

LEMMA TalkNextSound == ASSUME TalkBounds, TalkIInv, [Talk!Next]_(Talk!vars) PROVE TalkIInv'
<1>1. ASSUME NEW planned \in BOOLEAN, NEW num \in 0..1, Talk!Ask(planned, num) PROVE TalkIInv'
  BY <1>1, TalkAskSound
<1>2. ASSUME NEW num \in 1..2, NEW big \in BOOLEAN, Talk!Reply(num, big) PROVE TalkIInv'
  <2> DEFINE ids == {<<convTurns, c>> : c \in 1..num}
             new == <<Talk!Msg("assistant", ids, FALSE)>>
                       \o [c \in 1..num |-> Talk!Msg("tool", {<<convTurns, c>>}, big)]
  <2>1. convTurns \in Nat /\ num \in Nat
    BY DEF TalkIInv, TalkBounds
  <2>2. TalkWhole(new)
    BY <2>1, TalkReplyWhole
  <2>3. Talk!Turn(new)
    BY <1>2 DEF Talk!Reply
  <2> HIDE DEF new
  <2> QED BY <2>2, <2>3, TalkTurnSound
<1>3. CASE Talk!Nudge
  <2> DEFINE said == Talk!Msg("assistant", {}, FALSE)
             new == <<said, Talk!Note>>
  <2>1. said \in TalkMessage /\ Talk!Note \in TalkMessage
    BY TalkNoteIs, TalkMsgIs DEF Talk!Roles
  <2>2. new = <<said>> \o <<Talk!Note>>
    <3> HIDE DEF said
    <3> QED BY <2>1, TalkTwoAre
  <2>3. TalkWhole(new)
    BY <2>2, TalkSaidIs, TalkNoteWhole, TalkJoinWhole
  <2>4. Talk!Turn(new)
    BY <1>3 DEF Talk!Nudge
  <2> HIDE DEF new
  <2> QED BY <2>3, <2>4, TalkTurnSound
<1>4. CASE Talk!Intend
  <2> DEFINE said == Talk!Msg("assistant", {}, FALSE)
             new == <<said, Talk!Intent(convTurns + 1)>>
  <2>1. convTurns + 1 \in Nat
    BY DEF TalkIInv, TalkBounds
  <2>2. new = <<said>> \o <<Talk!Intent(convTurns + 1)>>
    <3>1. said \in TalkMessage /\ Talk!Intent(convTurns + 1) \in TalkMessage
      BY <2>1, TalkMsgIs, TalkIntentIs DEF Talk!Roles
    <3> HIDE DEF said
    <3> QED BY <3>1, TalkTwoAre
  <2>3. TalkWhole(new)
    BY <2>1, <2>2, TalkSaidIs, TalkIntentIs, TalkJoinWhole
  <2>4. Talk!Turn(new)
    BY <1>4 DEF Talk!Intend
  <2> HIDE DEF new
  <2> QED BY <2>3, <2>4, TalkTurnSound
<1>5. CASE UNCHANGED Talk!vars
  <2>1. TalkWhole(messages)' /\ TalkOpens(messages)'
    BY <1>5
       DEF Talk!vars, TalkIInv, TalkWhole, TalkOpens, TalkAllAnswered, TalkAllCalled,
           Talk!Asked, Talk!Answers, TalkCaller
  <2>2. Talk!EveryCallAnswered'
    BY <1>5
       DEF Talk!vars, TalkIInv, Talk!EveryCallAnswered, Talk!Asked, Talk!Answers,
           Talk!CutOnce
  <2>3. Talk!OrphansAtTheCut'
    <3>1. \A i : Talk!Orphan(i)' <=> Talk!Orphan(i)
      BY <1>5 DEF Talk!vars, Talk!Orphan, Talk!Asked
    <3> QED BY <1>5, <3>1 DEF Talk!vars, TalkIInv, Talk!OrphansAtTheCut, Talk!CutOnce
  <2>4. Talk!IntentAndTail'
    BY <1>5 DEF Talk!vars, TalkIInv, Talk!IntentAndTail
  <2> QED BY <1>5, <2>1, <2>2, <2>3, <2>4 DEF Talk!vars, TalkIInv
<1> QED BY <1>1, <1>2, <1>3, <1>4, <1>5 DEF Talk!Next

LEMMA TalkIInvSound == ASSUME TalkIInv PROVE Talk!RequestSound
<1>1. messages \in Seq(TalkMessage) /\ request \in Seq(TalkMessage)
  BY DEF TalkIInv, TalkWhole
<1>2. \A m \in Talk!ToSet(messages) \cup Talk!ToSet(request) : m \in TalkMessage
  BY <1>1 DEF Talk!ToSet
<1>3. Talk!TypeOK
  BY <1>2 DEF Talk!TypeOK, TalkMessage, TalkIInv
<1> QED BY <1>3 DEF Talk!RequestSound, TalkIInv

THEOREM TalkSound == ASSUME TalkBounds PROVE Talk!Spec => []Talk!RequestSound
<1>1. Talk!Init => TalkIInv
  BY TalkInitSound
<1>2. TalkIInv /\ [Talk!Next]_(Talk!vars) => TalkIInv'
  BY TalkNextSound
<1>3. TalkIInv => Talk!RequestSound
  BY TalkIInvSound
<1> QED BY <1>1, <1>2, <1>3, PTL DEF Talk!Spec

(* The composition runs the conversation as it is specified: the other     *)
(* parts leave its variables alone.                                        *)
LEMMA TalkRuns == Spec => Talk!Spec
<1>1. Init => Talk!Init
  BY DEF Init
<1>2. ASSUME [Next]_vars PROVE [Talk!Next]_(Talk!vars)
  <2>1. CASE InTalk(Talk!Next)
    BY <2>1 DEF InTalk
  <2>2. UNCHANGED talkVars => UNCHANGED Talk!vars
    BY DEF talkVars, Talk!vars
  <2>3. ~InTalk(Talk!Next) => UNCHANGED talkVars
    BY <1>2 DEF Next, vars, InLlm, InHelpers, InPlans, InGate, InDetectors, InTexts,
                InMistakes
  <2> QED BY <2>1, <2>2, <2>3
<1> QED BY <1>1, <1>2, PTL DEF Spec, Talk!Spec

(* Whatever is cut from a history or summarised, each call in a request is *)
(* followed by its answer, answers without their call are of one reply and *)
(* where the cut is, and the first intent and the last message are there   *)
(* (compactor.go, execute_pipeline.go).                                    *)
THEOREM DecisionsKeepTalk == Spec => []ConversationSound
<1>1. TalkBounds
  BY DecisionsAssumption
<1>2. Talk!Spec => []Talk!RequestSound
  BY <1>1, TalkSound
<1> QED BY <1>2, TalkRuns, PTL DEF ConversationSound

-----------------------------------------------------------------------------
-----------------------------------------------------------------------------
TextNamed == Tool \cup {Unknown, WriteFile}
TextRead == TextNamed \X DOMAIN reply

TextKind(c) == reply[c[2]].kind

(* What one parser makes of the text: each place once, all of one notation, *)
(* in their order, and known tools only unless the notation is /tool_code.  *)
TextGood(w, v) ==
        /\ w \in Seq(TextRead)
        /\ \A m, n \in DOMAIN w : m # n => w[m][2] # w[n][2]
        /\ \A m, n \in DOMAIN w : TextKind(w[m]) = TextKind(w[n])
        /\ \A m, n \in DOMAIN w : m < n /\ (v = "direct" => w[m][1] = w[n][1]) =>
           w[m][2] < w[n][2]
        /\ v # "toolcode" => \A n \in DOMAIN w :
          /\ w[n][1] \in Tool \cup {WriteFile}
          /\ TextKind(w[n]) = "direct" => reply[w[n][2]].args = "keywords"

TextTexts == reply \in Seq(Texts!Segment) /\ textNative \in Seq(Tool)

TextParsed == \E w : /\ TextGood(w, via)
                     /\ textCalls = [n \in DOMAIN textNative |-> Texts!Call(textNative[n],
                        0)] \o w

TextIInv == /\ TextTexts
            /\ textPc \in {"asked", "parsed"}
            /\ via \in {"none", "toolcode", "direct", "json", "markdown"}
            /\ textPc = "asked" => textCalls = <<>>
            /\ textPc = "parsed" => TextParsed

-----------------------------------------------------------------------------
LEMMA TextFlattenIs == \A f : Texts!FlattenSeq(f) = Flat(f)
BY DEF Texts!FlattenSeq, Flat

-----------------------------------------------------------------------------
(* One parser: the places it reads, in their order.                        *)
LEMMA TextInOrderIs ==
    ASSUME TextTexts, NEW names, DOMAIN names \subseteq DOMAIN reply
    PROVE  /\ Texts!InOrder(names) \in Seq({Texts!Call(names[k], k) : k \in DOMAIN names})
           /\ \A p, q \in DOMAIN Texts!InOrder(names) : p < q =>
              Texts!InOrder(names)[p][2] < Texts!InOrder(names)[q][2]
<1> DEFINE S == {Texts!Call(names[k], k) : k \in DOMAIN names}
           R == {c \in S \X S : c[1][2] < c[2][2]}
           f == [k \in DOMAIN reply |-> IF k \in DOMAIN names THEN <<Texts!Call(names[k],
             k)>> ELSE <<>>]
<1>1. DOMAIN reply = 1..Len(reply) /\ Len(reply) \in Nat
  BY DEF TextTexts
<1>2. \A k \in DOMAIN reply : f[k] = IF k \in DOMAIN names THEN <<Texts!Call(names[k],
      k)>> ELSE <<>>
  OBVIOUS
<1>3. \A k \in DOMAIN reply : f[k] \in Seq(S)
  <2>1. ASSUME NEW k \in DOMAIN reply PROVE f[k] \in Seq(S)
    <3>1. CASE k \in DOMAIN names
      <4>1. Texts!Call(names[k], k) \in S
        BY <3>1
      <4>2. <<Texts!Call(names[k], k)>> \in Seq(S)
        <5> HIDE DEF S
        <5> QED BY <4>1
      <4> QED BY <1>2, <3>1, <4>2
    <3>2. CASE k \notin DOMAIN names
      BY <1>2, <3>2
    <3> QED BY <3>1, <3>2
  <2> HIDE DEF f
  <2> QED BY <2>1
<1>4. f \in Seq(Seq(S)) /\ DOMAIN f = DOMAIN reply
  <2>1. f \in [1..Len(reply) -> Seq(S)]
    BY <1>1, <1>3
  <2> HIDE DEF f, S
  <2> QED BY <1>1, <2>1
<1>5. InTurn(f, R)
  <2>1. SUFFICES ASSUME NEW m \in DOMAIN f, NEW n \in DOMAIN f,
                        NEW p \in DOMAIN f[m], NEW q \in DOMAIN f[n], m < n \/ (m = n /\ p < q)
                 PROVE  <<f[m][p], f[n][q]>> \in R
    <3> HIDE DEF f, R
    <3> QED BY DEF InTurn
  <2>2. m \in DOMAIN names /\ f[m] = <<Texts!Call(names[m], m)>> /\ p = 1
    BY <1>2, <1>4
  <2>3. n \in DOMAIN names /\ f[n] = <<Texts!Call(names[n], n)>> /\ q = 1
    BY <1>2, <1>4
  <2>4. m < n
    BY <2>1, <2>2, <2>3
  <2>5. f[m][p] = Texts!Call(names[m], m) /\ f[n][q] = Texts!Call(names[n], n)
    BY <2>2, <2>3
  <2> QED BY <2>2, <2>3, <2>4, <2>5 DEF Texts!Call
<1>6. Texts!InOrder(names) = Texts!FlattenSeq(f)
  BY DEF Texts!InOrder
<1>7. Texts!FlattenSeq(f) \in Seq(S) /\ Rises(Texts!FlattenSeq(f), R)
  <2> HIDE DEF f, S, R
  <2> QED BY <1>4, <1>5, TextFlattenIs, FlatRises
<1> QED BY <1>6, <1>7 DEF Rises

LEMMA TextReadGood ==
    ASSUME TextTexts, NEW names, DOMAIN names \subseteq DOMAIN reply, NEW v, NEW sort,
           \A k \in DOMAIN names : names[k] \in TextNamed /\ reply[k].kind = sort,
           v # "toolcode" => \A k \in DOMAIN names :
              /\ names[k] \in Tool \cup {WriteFile}
              /\ sort = "direct" => reply[k].args = "keywords"
    PROVE  TextGood(Texts!InOrder(names), v)
<1> DEFINE w == Texts!InOrder(names)
           S == {Texts!Call(names[k], k) : k \in DOMAIN names}
<1>1. /\ w \in Seq(S)
      /\ \A p, q \in DOMAIN w : p < q => w[p][2] < w[q][2]
  BY TextInOrderIs
<1>2. DOMAIN w \subseteq Nat /\ \A p \in DOMAIN w : w[p] \in S
  <2> HIDE DEF w, S
  <2> QED BY <1>1
<1>3. \A p \in DOMAIN w : w[p][2] \in DOMAIN names /\ w[p] = Texts!Call(names[w[p][2]], w[p][2])
  <2> HIDE DEF w
  <2> QED BY <1>2 DEF Texts!Call
<1> HIDE DEF w
<1>4. DOMAIN names \subseteq Nat
  BY DEF TextTexts
<1>5. \A p \in DOMAIN w : w[p][1] = names[w[p][2]] /\ TextKind(w[p]) = sort /\ w[p] \in TextRead
  <2>1. ASSUME NEW p \in DOMAIN w
        PROVE w[p][1] = names[w[p][2]] /\ TextKind(w[p]) = sort /\ w[p] \in TextRead
    <3> DEFINE k == w[p][2]
    <3>1. k \in DOMAIN names /\ w[p] = <<names[k], k>>
      BY <1>3 DEF Texts!Call
    <3>2. w[p][1] = names[k]
      <4> HIDE DEF k
      <4> QED BY <3>1
    <3>3. names[k] \in TextNamed /\ reply[k].kind = sort /\ k \in DOMAIN reply
      BY <3>1
    <3>4. w[p] \in TextRead
      <4> HIDE DEF k
      <4> QED BY <3>1, <3>3 DEF TextRead
    <3> QED BY <3>2, <3>3, <3>4 DEF TextKind
  <2> QED BY <2>1
<1>6. w \in Seq(TextRead)
  <2>1. Len(w) \in Nat /\ DOMAIN w = 1..Len(w) /\ w = [p \in 1..Len(w) |-> w[p]]
    <3> HIDE DEF S
    <3> QED BY <1>1
  <2> QED BY <1>5, <2>1
<1>7. \A m, n \in DOMAIN w : m # n => w[m][2] # w[n][2]
  <2>1. SUFFICES ASSUME NEW m \in DOMAIN w, NEW n \in DOMAIN w, m # n PROVE w[m][2] # w[n][2]
    OBVIOUS
  <2>2. m \in Nat /\ n \in Nat /\ w[m][2] \in Nat /\ w[n][2] \in Nat
    BY <1>2, <1>3, <1>4
  <2>3. m < n \/ n < m
    BY <2>1, <2>2
  <2>4. w[m][2] < w[n][2] \/ w[n][2] < w[m][2]
    BY <1>1, <2>3
  <2> QED BY <2>2, <2>4
<1>8. \A m, n \in DOMAIN w : TextKind(w[m]) = TextKind(w[n])
  BY <1>5
<1>9. v # "toolcode" => \A n \in DOMAIN w :
          /\ w[n][1] \in Tool \cup {WriteFile}
          /\ TextKind(w[n]) = "direct" => reply[w[n][2]].args = "keywords"
  BY <1>3, <1>5
<1>10. \A m, n \in DOMAIN w : m < n /\ (v = "direct" => w[m][1] = w[n][1]) => w[m][2] < w[n][2]
  BY <1>1
<1>11. TextGood(w, v)
  BY <1>6, <1>7, <1>8, <1>9, <1>10 DEF TextGood
<1> QED BY <1>11 DEF w

LEMMA TextToolOf ==
    ASSUME TextTexts, NEW k \in DOMAIN reply, reply[k].kind \in {"exec", "direct", "json"}
    PROVE  reply[k].tool \in Tool \cup {Unknown}
<1>1. reply[k] \in Texts!Segment
  BY DEF TextTexts
<1> QED BY <1>1 DEF Texts!Segment

LEMMA TextToolCodeGood == TextTexts => TextGood(Texts!ToolCode, "toolcode")
<1>1. SUFFICES ASSUME TextTexts PROVE TextGood(Texts!ToolCode, "toolcode")
  OBVIOUS
<1> DEFINE marked(k) == \E m \in 1..(k-1) : reply[m].kind = "marker"
           read == {k \in DOMAIN reply : /\ reply[k].kind = "exec" /\ marked(k)
                                         /\ reply[k].args # "unreadable"}
           names == [k \in read |-> reply[k].tool]
<1>2. Texts!ToolCode = Texts!InOrder(names)
  BY DEF Texts!ToolCode
<1>3. \A k \in read : k \in DOMAIN reply /\ reply[k].kind = "exec"
  OBVIOUS
<1>4. DOMAIN names = read /\ \A k \in read : names[k] = reply[k].tool
  OBVIOUS
<1> HIDE DEF read, names
<1>5. \A k \in DOMAIN names : names[k] \in TextNamed /\ reply[k].kind = "exec"
  BY <1>1, <1>3, <1>4, TextToolOf DEF TextNamed
<1>6. DOMAIN names \subseteq DOMAIN reply
  BY <1>3, <1>4
<1>7. TextGood(Texts!InOrder(names), "toolcode")
  BY <1>1, <1>5, <1>6, TextReadGood
<1> QED BY <1>2, <1>7

LEMMA TextJsonGood == TextTexts => TextGood(Texts!JsonStructured, "json")
<1>1. SUFFICES ASSUME TextTexts PROVE TextGood(Texts!JsonStructured, "json")
  OBVIOUS
<1> DEFINE read == {k \in DOMAIN reply : reply[k].kind = "json" /\ reply[k].tool \in Tool}
           names == [k \in read |-> reply[k].tool]
<1>2. Texts!JsonStructured = Texts!InOrder(names)
  BY DEF Texts!JsonStructured
<1>3. \A k \in read : k \in DOMAIN reply /\ reply[k].kind = "json" /\ reply[k].tool \in Tool
  OBVIOUS
<1>4. DOMAIN names = read /\ \A k \in read : names[k] = reply[k].tool
  OBVIOUS
<1> HIDE DEF read, names
<1>5. \A k \in DOMAIN names : names[k] \in TextNamed /\ reply[k].kind = "json" /\
      names[k] \in Tool \cup {WriteFile}
  BY <1>3, <1>4 DEF TextNamed
<1>6. DOMAIN names \subseteq DOMAIN reply
  BY <1>3, <1>4
<1>7. TextGood(Texts!InOrder(names), "json")
  BY <1>1, <1>5, <1>6, TextReadGood
<1> QED BY <1>2, <1>7

LEMMA TextMarkdownGood == TextTexts => TextGood(Texts!Markdown, "markdown")
<1>1. SUFFICES ASSUME TextTexts PROVE TextGood(Texts!Markdown, "markdown")
  OBVIOUS
<1> DEFINE read == {k \in DOMAIN reply : reply[k].kind = "block" /\ Texts!FileOf(k) # NoFile}
           names == [k \in read |-> WriteFile]
<1>2. Texts!Markdown = Texts!InOrder(names)
  BY DEF Texts!Markdown
<1>3. \A k \in read : k \in DOMAIN reply /\ reply[k].kind = "block"
  OBVIOUS
<1>4. DOMAIN names = read /\ \A k \in read : names[k] = WriteFile
  OBVIOUS
<1> HIDE DEF read, names
<1>5. \A k \in DOMAIN names : names[k] \in TextNamed /\ reply[k].kind = "block" /\
      names[k] \in Tool \cup {WriteFile}
  BY <1>3, <1>4 DEF TextNamed
<1>6. DOMAIN names \subseteq DOMAIN reply
  BY <1>3, <1>4
<1>7. TextGood(Texts!InOrder(names), "markdown")
  BY <1>1, <1>5, <1>6, TextReadGood
<1> QED BY <1>2, <1>7

(* The instance counts a set as this module does.                          *)
LEMMA TextSameCount == \A S : Texts!Cardinality(S) = Cardinality(S)
BY DEF Cardinality, IsFiniteSet, Texts!Cardinality, Texts!IsFiniteSet

(* The plain functions: tool by tool, each tool's in the order of the text. *)
LEMMA TextDirectGood ==
    ASSUME TextTexts, TextBounds, NEW d \in Texts!Direct
    PROVE  TextGood(d, "direct")
<1> DEFINE read(t) == {k \in DOMAIN reply : /\ reply[k].kind = "direct" /\ reply[k].tool = t
                                            /\ reply[k].args = "keywords"}
           S == {Texts!Call(reply[k].tool, k) : k \in UNION {read(t) : t \in Tool}}
           R == {c \in S \X S : c[1][1] = c[2][1] => c[1][2] < c[2][2]}
<1>1. PICK queue \in Texts!SetToSeqs(Tool) : d = Texts!FlattenSeq([n \in DOMAIN queue |-> Texts!DirectOf(queue[n])])
  BY DEF Texts!Direct
<1>2. queue \in Seq(Tool) /\ \A m, n \in DOMAIN queue : m # n => queue[m] # queue[n]
  <2>1. Cardinality(Tool) \in Nat
    BY FS_CardinalityType DEF TextBounds
  <2> QED BY <2>1, TextSameCount DEF Texts!SetToSeqs
<1>3. ASSUME NEW t \in Tool
      PROVE  /\ Texts!DirectOf(t) \in Seq({Texts!Call(t, k) : k \in read(t)})
             /\ \A p, q \in DOMAIN Texts!DirectOf(t) : p < q =>
                Texts!DirectOf(t)[p][2] < Texts!DirectOf(t)[q][2]
  <2> DEFINE names == [k \in read(t) |-> t]
  <2>1. Texts!DirectOf(t) = Texts!InOrder(names)
    BY DEF Texts!DirectOf
  <2>2. DOMAIN names = read(t) /\ DOMAIN names \subseteq DOMAIN reply /\
        \A k \in read(t) : names[k] = t
    OBVIOUS
  <2> HIDE DEF names, read
  <2>3. /\ Texts!InOrder(names) \in Seq({Texts!Call(names[k], k) : k \in DOMAIN names})
        /\ \A p, q \in DOMAIN Texts!InOrder(names) : p < q =>
           Texts!InOrder(names)[p][2] < Texts!InOrder(names)[q][2]
    BY <2>2, TextInOrderIs
  <2>4. {Texts!Call(names[k], k) : k \in DOMAIN names} = {Texts!Call(t, k) : k \in read(t)}
    BY <2>2
  <2> QED BY <2>1, <2>3, <2>4
<1>4. ASSUME NEW t \in Tool, NEW p \in DOMAIN Texts!DirectOf(t)
      PROVE  Texts!DirectOf(t)[p] \in S /\ Texts!DirectOf(t)[p][1] = t
  <2> DEFINE x == Texts!DirectOf(t)
             A == {Texts!Call(t, k) : k \in read(t)}
  <2>1. Texts!DirectOf(t)[p] \in A
    <3>1. x \in Seq(A) /\ p \in DOMAIN x
      BY <1>3
    <3>2. x[p] \in A
      <4> HIDE DEF x, A
      <4> QED BY <3>1
    <3> QED BY <3>2
  <2>2. PICK k \in read(t) : Texts!DirectOf(t)[p] = Texts!Call(t, k)
    BY <2>1
  <2>3. reply[k].tool = t /\ k \in UNION {read(u) : u \in Tool}
    BY <2>2
  <2>4. Texts!Call(t, k) \in S
    <3> HIDE DEF read
    <3> QED BY <2>3
  <2> QED BY <2>2, <2>4 DEF Texts!Call
<1> DEFINE f == [n \in DOMAIN queue |-> Texts!DirectOf(queue[n])]
<1>5. \A n \in DOMAIN queue : queue[n] \in Tool /\ f[n] = Texts!DirectOf(queue[n])
  BY <1>2
<1>6. f \in Seq(Seq(S)) /\ DOMAIN f = DOMAIN queue
  <2>1. ASSUME NEW n \in DOMAIN queue PROVE f[n] \in Seq(S)
    <3> DEFINE x == Texts!DirectOf(queue[n])
    <3>1. x \in Seq({Texts!Call(queue[n], k) : k \in read(queue[n])})
      BY <1>3, <1>5
    <3>2. \A p \in DOMAIN x : x[p] \in S
      BY <1>4, <1>5
    <3>3. Len(x) \in Nat /\ DOMAIN x = 1..Len(x) /\ x = [p \in 1..Len(x) |-> x[p]]
      <4> HIDE DEF x, read
      <4> QED BY <3>1
    <3>4. x \in Seq(S)
      <4> HIDE DEF x, S
      <4> QED BY <3>2, <3>3
    <3> QED BY <1>5, <3>4
  <2>2. DOMAIN queue = 1..Len(queue) /\ Len(queue) \in Nat /\ DOMAIN f = DOMAIN queue
    BY <1>2
  <2>3. f \in [1..Len(queue) -> Seq(S)]
    <3> HIDE DEF S
    <3> QED BY <2>1, <2>2
  <2> HIDE DEF f, S
  <2> QED BY <2>2, <2>3
<1>7. InTurn(f, R)
  <2>1. SUFFICES ASSUME NEW m \in DOMAIN f, NEW n \in DOMAIN f,
                        NEW p \in DOMAIN f[m], NEW q \in DOMAIN f[n], m < n \/ (m = n /\ p < q)
                 PROVE  <<f[m][p], f[n][q]>> \in R
    <3> HIDE DEF f, R
    <3> QED BY DEF InTurn
  <2>2. /\ m \in DOMAIN queue /\ queue[m] \in Tool /\ f[m] = Texts!DirectOf(queue[m])
        /\ n \in DOMAIN queue /\ queue[n] \in Tool /\ f[n] = Texts!DirectOf(queue[n])
    BY <1>5, <1>6
  <2> HIDE DEF f, S, read
  <2>3. f[m][p] \in S /\ f[m][p][1] = queue[m] /\ f[n][q] \in S /\ f[n][q][1] = queue[n]
    BY <1>4, <2>2
  <2>4. f[m][p][1] = f[n][q][1] => f[m][p][2] < f[n][q][2]
    <3>1. CASE m = n /\ p < q
      BY <1>3, <2>2, <3>1
    <3>2. CASE m < n
      <4>1. m # n
        BY <1>2, <2>2, <3>2
      <4> QED BY <1>2, <2>2, <2>3, <4>1
    <3> QED BY <2>1, <3>1, <3>2
  <2> QED BY <2>3, <2>4
<1>8. d \in Seq(S) /\ Rises(d, R)
  <2>1. d = Texts!FlattenSeq(f)
    BY <1>1
  <2> HIDE DEF f, S, R
  <2> QED BY <1>6, <1>7, <2>1, TextFlattenIs, FlatRises
<1>9. \A p \in DOMAIN d : /\ d[p] \in S /\ d[p][2] \in DOMAIN reply /\ p \in Nat
                          /\ reply[d[p][2]].kind = "direct" /\ reply[d[p][2]].args = "keywords"
                          /\ d[p][1] = reply[d[p][2]].tool /\ d[p][1] \in Tool
                          /\ d[p] = <<d[p][1], d[p][2]>>
  <2>1. ASSUME NEW c \in S
        PROVE  /\ c[2] \in DOMAIN reply /\ c = <<c[1], c[2]>>
               /\ reply[c[2]].kind = "direct" /\ reply[c[2]].args = "keywords"
               /\ c[1] = reply[c[2]].tool /\ c[1] \in Tool
    <3>1. PICK k \in UNION {read(t) : t \in Tool} : c = Texts!Call(reply[k].tool, k)
      OBVIOUS
    <3>2. PICK t \in Tool : k \in read(t)
      BY <3>1
    <3> QED BY <3>1, <3>2 DEF Texts!Call
  <2>2. \A p \in DOMAIN d : d[p] \in S /\ p \in Nat
    <3> HIDE DEF S
    <3> QED BY <1>8
  <2> HIDE DEF S
  <2> QED BY <2>1, <2>2
<1>10. \A p, q \in DOMAIN d : p < q /\ d[p][1] = d[q][1] => d[p][2] < d[q][2]
  BY <1>8 DEF Rises
<1>11. \A p, q \in DOMAIN d : p # q => d[p][2] # d[q][2]
  <2>1. SUFFICES ASSUME NEW p \in DOMAIN d, NEW q \in DOMAIN d, p # q, d[p][2] = d[q][2]
        PROVE FALSE
    OBVIOUS
  <2> HIDE DEF S
  <2>2. d[p][1] = d[q][1] /\ p \in Nat /\ q \in Nat
    BY <1>9, <2>1
  <2>3. d[p][2] \in Nat /\ d[q][2] \in Nat
    BY <1>9 DEF TextTexts
  <2>4. p < q \/ q < p
    BY <2>1, <2>2
  <2> QED BY <1>10, <2>1, <2>2, <2>3, <2>4
<1> HIDE DEF S, R
<1>12. d \in Seq(TextRead)
  <2>1. Len(d) \in Nat /\ DOMAIN d = 1..Len(d) /\ d = [p \in 1..Len(d) |-> d[p]]
    BY <1>8
  <2>2. \A p \in DOMAIN d : d[p] \in TextRead
    BY <1>9 DEF TextRead, TextNamed
  <2> QED BY <2>1, <2>2
<1>13. /\ \A p, q \in DOMAIN d : TextKind(d[p]) = TextKind(d[q])
       /\ \A p \in DOMAIN d : /\ d[p][1] \in Tool \cup {WriteFile}
                              /\ TextKind(d[p]) = "direct" => reply[d[p][2]].args = "keywords"
  BY <1>9 DEF TextKind
<1> QED BY <1>10, <1>11, <1>12, <1>13 DEF TextGood

-----------------------------------------------------------------------------
LEMMA TextNothingGood == TextGood(<<>>, "none")
BY DEF TextGood

LEMMA TextFoundGood ==
    ASSUME TextTexts, TextBounds, NEW front,
      front = [n \in DOMAIN textNative |-> Texts!Call(textNative[n], 0)],
           NEW found \in Texts!Found(front)
    PROVE  /\ found[2] \in {"none", "toolcode", "direct", "json", "markdown"}
           /\ \E w : TextGood(w, found[2]) /\ found[1] = front \o w
<1> DEFINE Nat0 == (Tool \X {0})
<1>1. front \in Seq(Nat0)
  <2>1. textNative \in Seq(Tool) /\ DOMAIN textNative = 1..Len(textNative) /\
        Len(textNative) \in Nat
    BY DEF TextTexts
  <2>2. \A n \in DOMAIN textNative : Texts!Call(textNative[n], 0) \in Nat0
    BY <2>1 DEF Texts!Call
  <2>3. front \in [1..Len(textNative) -> Nat0]
    BY <2>1, <2>2
  <2> HIDE DEF Nat0
  <2> QED BY <2>1, <2>3
<1>2. Texts!ToolCode \in Seq(TextRead) /\ \A d \in Texts!Direct : d \in Seq(TextRead)
  BY TextToolCodeGood, TextDirectGood DEF TextGood
<1>3. Texts!JsonStructured \in Seq(TextRead) /\ Texts!Markdown \in Seq(TextRead)
  BY TextJsonGood, TextMarkdownGood DEF TextGood
<1> HIDE DEF Nat0
<1>4. front \o Texts!ToolCode = <<>> => front = <<>>
  <2>1. Len(front \o Texts!ToolCode) = Len(front) + Len(Texts!ToolCode) /\
        Len(front) \in Nat /\ Len(Texts!ToolCode) \in Nat
    BY <1>1, <1>2
  <2> QED BY <1>1, <2>1
<1>5. front \o <<>> = front
  BY <1>1
<1>6. \A s \in Seq(TextRead) : <<>> \o s = s
  OBVIOUS
<1>7. CASE front \o Texts!ToolCode # <<>>
  <2>1. found = <<front \o Texts!ToolCode,
        IF Texts!ToolCode = <<>> THEN "none" ELSE "toolcode">>
    BY <1>7 DEF Texts!Found
  <2>2. CASE Texts!ToolCode = <<>>
    BY <2>1, <2>2, TextNothingGood
  <2>3. CASE Texts!ToolCode # <<>>
    BY <2>1, <2>3, TextToolCodeGood
  <2> QED BY <2>2, <2>3
<1>8. CASE front \o Texts!ToolCode = <<>>
  <2>1. front = <<>>
    BY <1>4, <1>8
  <2>2. CASE \E d \in Texts!Direct : d # <<>>
    <3>1. PICK d \in Texts!Direct : found = <<d, "direct">>
      BY <1>8, <2>2 DEF Texts!Found
    <3>2. TextGood(d, "direct") /\ found[1] = front \o d
      BY <1>2, <1>6, <2>1, <3>1, TextDirectGood
    <3> QED BY <3>1, <3>2
  <2>3. CASE ~ (\E d \in Texts!Direct : d # <<>>) /\ Texts!JsonStructured # <<>>
    <3>1. found = <<Texts!JsonStructured, "json">>
      BY <1>8, <2>3 DEF Texts!Found
    <3> QED BY <1>3, <1>6, <2>1, <3>1, TextJsonGood
  <2>4. CASE ~ (\E d \in Texts!Direct : d # <<>>) /\ Texts!JsonStructured = <<>> /\
        Texts!Markdown # <<>>
    <3>1. found = <<Texts!Markdown, "markdown">>
      BY <1>8, <2>4 DEF Texts!Found
    <3> QED BY <1>3, <1>6, <2>1, <3>1, TextMarkdownGood
  <2>5. CASE ~ (\E d \in Texts!Direct : d # <<>>) /\ Texts!JsonStructured = <<>> /\
        Texts!Markdown = <<>>
    <3>1. found = <<(<<>>), "none">>
      BY <1>8, <2>5 DEF Texts!Found
    <3> QED BY <1>5, <2>1, <3>1, TextNothingGood
  <2> QED BY <2>2, <2>3, <2>4, <2>5
<1> QED BY <1>7, <1>8

LEMMA TextInitInv == TextBounds /\ Texts!Init => TextIInv
<1> SUFFICES ASSUME TextBounds, Texts!Init PROVE TextIInv
  OBVIOUS
<1>1. PICK n \in 1..MaxSegments : reply \in [1..n -> Texts!Segment]
  BY DEF Texts!Init
<1>2. PICK m \in 0..MaxNative : textNative \in [1..m -> Tool]
  BY DEF Texts!Init
<1>3. n \in Nat /\ m \in Nat
  BY DEF TextBounds
<1>4. reply \in Seq(Texts!Segment) /\ textNative \in Seq(Tool)
  BY <1>1, <1>2, <1>3
<1> QED BY <1>4 DEF Texts!Init, TextIInv, TextTexts

LEMMA TextNextInv == TextBounds /\ TextIInv /\ [Texts!Next]_(Texts!vars) => TextIInv'
<1> SUFFICES ASSUME TextBounds, TextIInv, [Texts!Next]_(Texts!vars) PROVE TextIInv'
  OBVIOUS
<1>1. CASE Texts!Next
  <2>1. /\ textPc' = "parsed" /\ reply' = reply /\ textNative' = textNative
        /\ \E found \in Texts!Found([n \in DOMAIN textNative |-> Texts!Call(textNative[n],
           0)]) :
              textCalls' = found[1] /\ via' = found[2]
    BY <1>1 DEF Texts!Next, Texts!parseAndInterceptToolCalls
  <2> DEFINE front == [n \in DOMAIN textNative |-> Texts!Call(textNative[n], 0)]
  <2>2. PICK found \in Texts!Found(front) : textCalls' = found[1] /\ via' = found[2]
    BY <2>1
  <2>3. TextTexts
    BY DEF TextIInv
  <2> HIDE DEF front
  <2>4. /\ found[2] \in {"none", "toolcode", "direct", "json", "markdown"}
        /\ \E w : TextGood(w, found[2]) /\ found[1] = front \o w
    BY <2>2, <2>3, TextFoundGood DEF front
  <2>5. \A w, v : TextGood(w, v)' <=> TextGood(w, v)
    BY <2>1 DEF TextGood, TextRead, TextKind
  <2>6. TextParsed'
    BY <2>1, <2>2, <2>4, <2>5 DEF TextParsed, front
  <2>7. TextTexts'
    BY <2>1, <2>3 DEF TextTexts
  <2> QED BY <2>1, <2>2, <2>4, <2>6, <2>7 DEF TextIInv
<1>2. CASE UNCHANGED Texts!vars
  BY <1>2 DEF Texts!vars, TextIInv, TextTexts, TextParsed, TextGood, TextRead, TextKind
<1> QED BY <1>1, <1>2

(* What is read from a text comes after the native calls.                   *)
LEMMA TextIInvSound == TextIInv => Texts!TextCallsSound
<1>1. SUFFICES ASSUME TextIInv PROVE Texts!TextCallsSound
  OBVIOUS
<1>2. CASE textPc = "asked"
  <2>1. textCalls = <<>> /\ Texts!Textual = {}
    BY <1>1, <1>2 DEF TextIInv, Texts!Textual
  <2> QED BY <1>1, <1>2, <2>1
             DEF TextIInv, Texts!TextCallsSound, Texts!TypeOK, Texts!OneNotation,
                 Texts!TextOrder, Texts!StrangersByToolCodeOnly
<1>3. CASE textPc = "parsed"
  <2>1. PICK w : TextGood(w, via) /\
        textCalls = [n \in DOMAIN textNative |-> Texts!Call(textNative[n], 0)] \o w
    BY <1>1, <1>3 DEF TextIInv, TextParsed
  <2> DEFINE front == [n \in DOMAIN textNative |-> Texts!Call(textNative[n], 0)]
             o == Len(textNative)
  <2>2. /\ textNative \in Seq(Tool) /\ DOMAIN textNative = 1..o /\ o \in Nat
        /\ reply \in Seq(Texts!Segment) /\ DOMAIN reply = 1..Len(reply) /\ Len(reply) \in Nat
    BY <1>1 DEF TextIInv, TextTexts
  <2>3. w \in Seq(TextRead) /\ Len(w) \in Nat /\ DOMAIN w = 1..Len(w)
    BY <2>1 DEF TextGood
  <2>4. front \in Seq(Tool \X {0}) /\ Len(front) = o
    <3>1. \A n \in 1..o : front[n] = Texts!Call(textNative[n], 0) /\
          Texts!Call(textNative[n], 0) \in Tool \X {0}
      BY <2>2 DEF Texts!Call
    <3>2. front \in [1..o -> Tool \X {0}]
      BY <2>2, <3>1
    <3> HIDE DEF front, o
    <3> QED BY <2>2, <3>2
  <2>5. /\ DOMAIN textCalls = 1..(o + Len(w))
        /\ \A i \in 1..(o + Len(w)) : textCalls[i] = IF i <= o THEN front[i] ELSE w[i - o]
    <3> DEFINE S == (Tool \X {0}) \cup TextRead
    <3>1. front \in Seq(S) /\ w \in Seq(S)
      <4> HIDE DEF front, o
      <4> QED BY <2>3, <2>4
    <3>2. textCalls = front \o w
      BY <2>1
    <3> HIDE DEF front, S, o
    <3>3. /\ front \o w \in Seq(S) /\ Len(front \o w) = Len(front) + Len(w)
          /\ \A i \in 1..(Len(front) + Len(w)) : (front \o w)[i] = IF i <= Len(front) THEN front[i] ELSE w[i - Len(front)]
      BY <3>1, ConcatProperties
    <3>4. DOMAIN (front \o w) = 1..(Len(front) + Len(w))
      BY <3>3
    <3> QED BY <2>4, <3>2, <3>3, <3>4
  <2>6. \A n \in 1..o : front[n] = Texts!Call(textNative[n], 0)
    BY <2>2
  <2> HIDE DEF front, o
  <2>7. \A n \in DOMAIN w : w[n] \in TextRead /\ w[n][2] \in 1..Len(reply)
    BY <2>2, <2>3 DEF TextRead
  <2>8. \A i \in DOMAIN textCalls : i \in Nat /\
        (i <= o => i \in 1..o /\ textCalls[i] = Texts!Call(textNative[i], 0) /\
          textCalls[i][2] = 0)
    BY <2>2, <2>3, <2>5, <2>6 DEF Texts!Call
  <2>9. \A i \in DOMAIN textCalls : i > o => i - o \in DOMAIN w /\
        textCalls[i] = w[i - o] /\ textCalls[i][2] \in 1..Len(reply)
    BY <2>2, <2>3, <2>5, <2>7
  <2>10. Texts!Textual = {i \in DOMAIN textCalls : i > o}
    BY <2>2, <2>8, <2>9 DEF Texts!Textual
  <2>11. \A i \in Texts!Textual : i \in Nat /\ i - o \in DOMAIN w /\ textCalls[i] = w[i - o]
    BY <2>8, <2>9, <2>10
  <2>12. Texts!TypeOK
    <3>1. \A i \in DOMAIN textCalls : textCalls[i][2] \in 0..Len(reply)
      BY <2>2, <2>8, <2>9
    <3> QED BY <1>1, <3>1 DEF TextIInv, Texts!TypeOK
  <2>13. Texts!OneNotation
    <3>1. ASSUME NEW m \in Texts!Textual, NEW n \in Texts!Textual
          PROVE  /\ m # n => textCalls[m][2] # textCalls[n][2]
                 /\ reply[textCalls[m][2]].kind = reply[textCalls[n][2]].kind
      <4>1. m # n => m - o # n - o
        BY <2>2, <2>11
      <4>2. /\ m - o \in DOMAIN w /\ textCalls[m] = w[m - o]
            /\ n - o \in DOMAIN w /\ textCalls[n] = w[n - o]
        BY <2>11
      <4>3. m # n => w[m - o][2] # w[n - o][2]
        BY <2>1, <4>1, <4>2 DEF TextGood
      <4>4. TextKind(w[m - o]) = TextKind(w[n - o])
        BY <2>1, <4>2 DEF TextGood
      <4> QED BY <4>2, <4>3, <4>4 DEF TextKind
    <3>2. DOMAIN textCalls \ Texts!Textual = DOMAIN textNative
      BY <2>2, <2>3, <2>5, <2>10
    <3>3. \A n \in DOMAIN textNative : textCalls[n] = Texts!Call(textNative[n], 0)
      BY <2>2, <2>3, <2>5, <2>6
    <3> QED BY <3>1, <3>2, <3>3 DEF Texts!OneNotation
  <2>14. Texts!TextOrder
    <3>1. SUFFICES ASSUME NEW m \in Texts!Textual, NEW n \in Texts!Textual, m < n,
          via = "direct" => textCalls[m][1] = textCalls[n][1]
                   PROVE  textCalls[m][2] < textCalls[n][2]
      BY DEF Texts!TextOrder
    <3>2. m - o < n - o
      BY <2>2, <2>11, <3>1
    <3>3. /\ m - o \in DOMAIN w /\ textCalls[m] = w[m - o]
          /\ n - o \in DOMAIN w /\ textCalls[n] = w[n - o]
      BY <2>11
    <3>4. via = "direct" => w[m - o][1] = w[n - o][1]
      BY <3>1, <3>3
    <3>5. w[m - o][2] < w[n - o][2]
      BY <2>1, <3>2, <3>3, <3>4 DEF TextGood
    <3> QED BY <3>3, <3>5
  <2>15. Texts!StrangersByToolCodeOnly
    <3>1. SUFFICES ASSUME via # "toolcode", NEW n \in Texts!Textual
                   PROVE  /\ textCalls[n][1] \in Tool \cup {WriteFile}
                          /\ reply[textCalls[n][2]].kind = "direct" =>
                             reply[textCalls[n][2]].args = "keywords"
      BY DEF Texts!StrangersByToolCodeOnly
    <3> QED BY <2>1, <2>11, <3>1 DEF TextGood, TextKind
  <2> QED BY <2>12, <2>13, <2>14, <2>15 DEF Texts!TextCallsSound
<1> QED BY <1>1, <1>2, <1>3 DEF TextIInv

(* What is read out of a text is sound, for any tools, texts and native     *)
(* calls.                                                                  *)
THEOREM TextSound == ASSUME TextBounds PROVE Texts!Spec => []Texts!TextCallsSound
<1>1. Texts!Init => TextIInv
  BY TextInitInv
<1>2. TextIInv /\ [Texts!Next]_(Texts!vars) => TextIInv'
  BY TextNextInv
<1>3. TextIInv => Texts!TextCallsSound
  BY TextIInvSound
<1> QED BY <1>1, <1>2, <1>3, PTL DEF Texts!Spec

(* The composition runs the calls in a text as it is specified: the other  *)
(* parts leave its variables alone.                                        *)
LEMMA TextsRuns == Spec => Texts!Spec
<1>1. Init => Texts!Init
  BY DEF Init
<1>2. ASSUME [Next]_vars PROVE [Texts!Next]_(Texts!vars)
  <2>1. CASE InTexts(Texts!Next)
    BY <2>1 DEF InTexts
  <2>2. UNCHANGED textsVars => UNCHANGED Texts!vars
    BY DEF textsVars, Texts!vars
  <2>3. ~InTexts(Texts!Next) => UNCHANGED textsVars
    BY <1>2 DEF Next, vars, InTalk, InLlm, InHelpers, InPlans, InGate, InDetectors,
                InMistakes
  <2> QED BY <2>1, <2>2, <2>3
<1> QED BY <1>1, <1>2, PTL DEF Spec, Texts!Spec

(* One place of a reply becomes one call at most, the calls of a reply are *)
(* all of one notation and in the order of the text, and only /tool_code   *)
(* calls a tool that is not registered (text_parser.go).                   *)
THEOREM DecisionsReadCalls == Spec => []TextCallsSound
<1>1. TextBounds
  BY DecisionsAssumption
<1>2. Texts!Spec => []Texts!TextCallsSound
  BY <1>1, TextSound
<1> QED BY <1>2, TextsRuns, PTL DEF TextCallsSound
=============================================================================
