------------------------------- MODULE Iteration -------------------------------
EXTENDS Naturals, Sequences, SequenceTheorems, WellFoundedInduction, TLAPS

(* A set of natural numbers has a least one.                               *)
Less == OpToRel(<, Nat)
LEMMA LeastOf ==
    ASSUME NEW T \in SUBSET Nat, T # {}
    PROVE  \E m \in T : \A k \in T : m <= k
<1>1. IsWellFoundedOn(Less, Nat)
  BY NatLessThanWellFounded, Zenon DEF Less
<1>2. \A x, y \in Nat : <<y, x>> \in Less <=> y < x
  BY DEF Less, OpToRel
<1>3. PICK m \in T : \A k \in T : ~(<<k, m>> \in Less)
  BY <1>1, WFMin, Zenon
<1>4. \A k \in T : ~(k < m) /\ k \in Nat /\ m \in Nat
  BY <1>2, <1>3, Zenon
<1> QED BY <1>4

(* What holds of nothing, and of one step more than what it holds of.      *)
LEMMA StepByStep ==
    ASSUME NEW N \in Nat, NEW S, 0 \in S, \A n \in 0..(N-1) : n \in S => n + 1 \in S
    PROVE  \A n \in 0..N : n \in S
<1> DEFINE T == {n \in 0..N : n \notin S}
<1>1. SUFFICES ASSUME T # {} PROVE FALSE
  BY <1>1
<1>2. PICK m \in T : \A k \in T : m <= k
  <2>1. T \in SUBSET Nat
    OBVIOUS
  <2> QED BY <1>1, <2>1, LeastOf
<1>3. m # 0 /\ m - 1 \in 0..(N-1) /\ m - 1 \notin T
  BY <1>2
<1>4. m - 1 \in S
  BY <1>2, <1>3
<1> QED BY <1>2, <1>3, <1>4

(* A set of places has a last one.                                         *)
LEMMA LastPlace ==
    ASSUME NEW N \in Nat, NEW S, S \subseteq 1..N, S # {}
    PROVE  \E m \in S : \A k \in S : k <= m
<1> DEFINE T == {n \in Nat : N - n \in S}
<1>1. T \in SUBSET Nat /\ T # {}
  <2>1. PICK k \in S : TRUE
    OBVIOUS
  <2>2. k \in 1..N /\ N - k \in Nat /\ N - (N - k) = k
    BY <2>1
  <2> QED BY <2>1, <2>2
<1>2. PICK m \in T : \A k \in T : m <= k
  BY <1>1, LeastOf
<1>3. N - m \in S /\ \A k \in S : k <= N - m
  <2>1. ASSUME NEW k \in S PROVE k <= N - m
    <3>1. k \in 1..N /\ N - k \in Nat /\ N - (N - k) = k
      OBVIOUS
    <3>2. N - k \in T
      BY <3>1
    <3> QED BY <1>2, <3>1, <3>2
  <2> QED BY <1>2, <2>1
<1> QED BY <1>3

(* The functions that a value of 0 and a step from one less define: there  *)
(* is one.                                                                 *)
Iterates(T, base, N, step) ==
    {f \in [0..N -> T] : f[0] = base /\ \A n \in 1..N : f[n] = step[n][f[n-1]]}
LEMMA Recursion ==
    ASSUME NEW T, NEW base \in T, NEW N \in Nat, NEW step \in [1..N -> [T -> T]]
    PROVE  Iterates(T, base, N, step) # {}
<1> DEFINE Good(f, m) == f \in [0..m -> T] /\ f[0] = base /\ \A n \in 1..m : f[n] = step[n][f[n-1]]
           S == {m \in 0..N : \E f : Good(f, m)}
<1>1. 0 \in S
  <2> DEFINE f == [n \in 0..0 |-> base]
  <2>1. Good(f, 0)
    OBVIOUS
  <2>2. \E h : Good(h, 0)
    <3> HIDE DEF f, Good
    <3> QED BY <2>1
  <2> HIDE DEF Good
  <2> QED BY <2>2
<1>2. ASSUME NEW m \in 0..(N-1), m \in S PROVE m + 1 \in S
  <2>1. PICK f : Good(f, m)
    BY <1>2
  <2> DEFINE g == [n \in 0..(m+1) |-> IF n <= m THEN f[n] ELSE step[m+1][f[m]]]
  <2>2. m + 1 \in 1..N /\ step[m+1] \in [T -> T] /\ f[m] \in T
    BY <2>1
  <2>3. g \in [0..(m+1) -> T]
    BY <2>1, <2>2
  <2>4. g[0] = base
    BY <2>1
  <2>5. ASSUME NEW n \in 1..(m+1) PROVE g[n] = step[n][g[n-1]]
    <3>1. CASE n <= m
      <4>1. g[n] = f[n] /\ g[n-1] = f[n-1] /\ n \in 1..m
        BY <3>1
      <4> QED BY <2>1, <4>1
    <3>2. CASE n = m + 1
      BY <3>2
    <3> QED BY <3>1, <3>2
  <2>6. Good(g, m + 1)
    <3> HIDE DEF g
    <3> QED BY <2>3, <2>4, <2>5
  <2>7. \E h : Good(h, m + 1)
    <3> HIDE DEF g, Good
    <3> QED BY <2>6
  <2> HIDE DEF Good
  <2> QED BY <2>2, <2>7
<1>3. N \in S
  <2> HIDE DEF S
  <2>1. \A n \in 0..(N-1) : n \in S => n + 1 \in S
    BY <1>2
  <2>2. \A n \in 0..N : n \in S
    BY <1>1, <2>1, StepByStep
  <2> QED BY <2>2
<1>4. PICK f : Good(f, N)
  BY <1>3
<1> QED BY <1>4 DEF Iterates

-----------------------------------------------------------------------------
(* The concatenation of sequences, as SequencesExt has it.                 *)
Flat(seqs) ==
    IF Len(seqs) = 0 THEN seqs ELSE
      LET joined[i \in 1..Len(seqs)] == IF i = 1 THEN seqs[i] ELSE joined[i-1] \o seqs[i]
      IN joined[Len(seqs)]

LEMMA FlatSteps ==
    ASSUME NEW S, NEW f \in Seq(Seq(S)), Len(f) > 0
    PROVE  \E g \in [0..Len(f) -> Seq(S)] :
              /\ g[0] = <<>> /\ Flat(f) = g[Len(f)]
              /\ \A n \in 1..Len(f) : g[n] = g[n-1] \o f[n]
<1> DEFINE N == Len(f)
           T == Seq(S)
           step == [n \in 1..N |-> [q \in T |-> q \o f[n]]]
<1>1. N \in Nat /\ N # 0 /\ \A n \in 1..N : f[n] \in T
  OBVIOUS
<1>2. \A n \in 1..N, q \in T : q \o f[n] \in T
  <2> HIDE DEF N
  <2> QED BY <1>1, ConcatProperties
<1>3. step \in [1..N -> [T -> T]] /\ <<>> \in T
  <2>1. <<>> \in T
    OBVIOUS
  <2> HIDE DEF N, T
  <2> QED BY <1>2, <2>1
<1>4. Iterates(T, <<>>, N, step) # {}
  <2> HIDE DEF step, N, T
  <2> QED BY <1>1, <1>3, Recursion
<1>5. PICK h \in [0..N -> T] : h[0] = <<>> /\ \A n \in 1..N : h[n] = step[n][h[n-1]]
  <2> HIDE DEF step, N, T
  <2> QED BY <1>4 DEF Iterates
<1>6. \A n \in 1..N : n - 1 \in 0..N /\ n \in 0..N
  BY <1>1
<1>7. \A n \in 1..N : h[n-1] \in T /\ h[n] = h[n-1] \o f[n]
  <2> HIDE DEF N, T
  <2> QED BY <1>5, <1>6
<1> DEFINE joined[i \in 1..N] == IF i = 1 THEN f[i] ELSE joined[i-1] \o f[i]
           k == [i \in 1..N |-> h[i]]
<1>8. k = [i \in 1..N |-> IF i = 1 THEN f[i] ELSE k[i-1] \o f[i]]
  <2>1. ASSUME NEW i \in 1..N PROVE h[i] = IF i = 1 THEN f[i] ELSE k[i-1] \o f[i]
    <3>1. CASE i = 1
      <4>1. h[1] = <<>> \o f[1] /\ f[1] \in T
        <5>1. 1 \in 1..N /\ 1 - 1 = 0
          BY <3>1
        <5>2. h[1] = h[1 - 1] \o f[1] /\ f[1] \in T
          <6> HIDE DEF N, T
          <6> QED BY <1>1, <1>7, <5>1
        <5> QED BY <1>5, <5>1, <5>2
      <4>2. <<>> \o f[1] = f[1]
        BY <4>1
      <4> QED BY <3>1, <4>1, <4>2
    <3>2. CASE i # 1
      <4>1. i - 1 \in 1..N
        BY <1>1, <3>2
      <4>2. k[i-1] = h[i-1]
        BY <4>1
      <4> QED BY <1>7, <3>2, <4>2
    <3> QED BY <3>1, <3>2
  <2> HIDE DEF N, T
  <2> QED BY <2>1
<1>9. joined = [i \in 1..N |-> IF i = 1 THEN f[i] ELSE joined[i-1] \o f[i]]
  <2> HIDE DEF k
  <2> QED BY <1>8
<1>10. Flat(f) = joined[N]
  BY <1>1 DEF Flat
<1>11. joined = k
  <2> DEFINE A == {n \in 0..N : n = 0 \/ joined[n] = k[n]}
  <2> HIDE DEF joined, k, N
  <2>1. 0 \in A
    BY <1>1
  <2>2. ASSUME NEW n \in 0..(N-1), n \in A PROVE n + 1 \in A
    <3>1. n + 1 \in 1..N /\ (n + 1) - 1 = n /\ (n + 1 = 1 <=> n = 0) /\ n + 1 \in 0..N
      BY <1>1
    <3>2. n = 0 \/ joined[n] = k[n]
      BY <2>2
    <3>3. /\ joined[n+1] = IF n + 1 = 1 THEN f[n+1] ELSE joined[(n+1)-1] \o f[n+1]
          /\ k[n+1] = IF n + 1 = 1 THEN f[n+1] ELSE k[(n+1)-1] \o f[n+1]
      BY <1>8, <1>9, <3>1, Zenon
    <3>4. joined[n+1] = k[n+1]
      <4>1. CASE n = 0
        BY <3>1, <3>3, <4>1
      <4>2. CASE n # 0
        <5>1. joined[(n+1)-1] = k[(n+1)-1]
          BY <3>1, <3>2, <4>2
        <5> QED BY <3>1, <3>3, <4>2, <5>1
      <4> QED BY <4>1, <4>2
    <3> QED BY <3>1, <3>4 DEF A
  <2>3. \A n \in 0..N : n \in A
    <3> HIDE DEF A
    <3> QED BY <1>1, <2>1, <2>2, StepByStep
  <2>4. \A n \in 1..N : joined[n] = k[n]
    BY <2>3
  <2> QED BY <1>8, <1>9, <2>4
<1>12. Flat(f) = h[N]
  <2> HIDE DEF joined
  <2> QED BY <1>1, <1>10, <1>11
<1> QED BY <1>5, <1>7, <1>12

(* A relation that holds along each sequence, and from each one to the next *)
(* ones, holds along the whole.                                            *)
Rises(w, R) == \A p, q \in DOMAIN w : p < q => <<w[p], w[q]>> \in R
InTurn(f, R) ==
    \A m, n \in DOMAIN f : \A p \in DOMAIN f[m], q \in DOMAIN f[n] :
        m < n \/ (m = n /\ p < q) => <<f[m][p], f[n][q]>> \in R
HasFirst(w, f, n) == \A m \in 1..n : \A i \in DOMAIN f[m] : \E p \in DOMAIN w : w[p] = f[m][i]
OfFirst(w, f, n) == \A p \in DOMAIN w : \E m \in 1..n : \E i \in DOMAIN f[m] : w[p] = f[m][i]

LEMMA FlatStep ==
    ASSUME NEW S, NEW f \in Seq(Seq(S)), NEW R, InTurn(f, R), NEW n \in DOMAIN f,
           NEW w \in Seq(S), OfFirst(w, f, n - 1), HasFirst(w, f, n - 1), Rises(w, R)
    PROVE  OfFirst(w \o f[n], f, n) /\ HasFirst(w \o f[n], f, n) /\ Rises(w \o f[n], R)
<1> DEFINE x == f[n]
           v == w \o x
<1>1. /\ x \in Seq(S) /\ Len(w) \in Nat /\ Len(x) \in Nat
      /\ DOMAIN w = 1..Len(w) /\ DOMAIN x = 1..Len(x) /\ n \in Nat /\ n >= 1 /\ n \in 1..n
      /\ DOMAIN f = 1..Len(f) /\ Len(f) \in Nat /\ n <= Len(f)
  OBVIOUS
<1>2. /\ DOMAIN v = 1..(Len(w) + Len(x))
      /\ \A i \in 1..(Len(w) + Len(x)) : v[i] = IF i <= Len(w) THEN w[i] ELSE x[i - Len(w)]
  <2> HIDE DEF x
  <2>1. /\ v \in Seq(S) /\ Len(v) = Len(w) + Len(x)
        /\ \A i \in 1..(Len(w) + Len(x)) : v[i] = IF i <= Len(w) THEN w[i] ELSE x[i - Len(w)]
    BY <1>1, ConcatProperties
  <2>2. DOMAIN v = 1..Len(v)
    BY <2>1
  <2> QED BY <2>1, <2>2
<1> HIDE DEF v
<1>3. \A i \in DOMAIN v : (i \in DOMAIN w /\ v[i] = w[i])
                          \/ (i > Len(w) /\ i - Len(w) \in DOMAIN x /\ v[i] = x[i - Len(w)])
  BY <1>1, <1>2
<1>4. OfFirst(v, f, n)
  <2>1. ASSUME NEW i \in DOMAIN v PROVE \E m \in 1..n : \E j \in DOMAIN f[m] : v[i] = f[m][j]
    <3>1. CASE i \in DOMAIN w /\ v[i] = w[i]
      <4>1. PICK m \in 1..(n-1) : \E j \in DOMAIN f[m] : w[i] = f[m][j]
        BY <3>1 DEF OfFirst
      <4>2. m \in 1..n
        BY <1>1
      <4> QED BY <3>1, <4>1, <4>2
    <3>2. CASE i - Len(w) \in DOMAIN x /\ v[i] = x[i - Len(w)]
      BY <1>1, <3>2
    <3> QED BY <1>3, <3>1, <3>2
  <2> QED BY <2>1 DEF OfFirst
<1>5. Rises(v, R)
  <2>1. SUFFICES ASSUME NEW p \in DOMAIN v, NEW q \in DOMAIN v, p < q
                 PROVE  <<v[p], v[q]>> \in R
    BY DEF Rises
  <2>2. p \in Nat /\ q \in Nat
    BY <1>1, <1>2
  <2>3. CASE q \in DOMAIN w /\ v[q] = w[q]
    <3>1. p \in DOMAIN w /\ v[p] = w[p]
      BY <1>1, <1>3, <2>1, <2>2, <2>3
    <3> QED BY <2>1, <2>3, <3>1 DEF Rises
  <2>4. CASE q > Len(w) /\ q - Len(w) \in DOMAIN x /\ v[q] = x[q - Len(w)]
    <3>1. CASE p \in DOMAIN w /\ v[p] = w[p]
      <4>1. PICK m \in 1..(n-1) : \E j \in DOMAIN f[m] : w[p] = f[m][j]
        BY <3>1 DEF OfFirst
      <4>2. PICK j \in DOMAIN f[m] : w[p] = f[m][j]
        BY <4>1
      <4>3. m \in DOMAIN f /\ m < n
        BY <1>1
      <4>4. <<f[m][j], x[q - Len(w)]>> \in R
        BY <2>4, <4>3 DEF InTurn
      <4> QED BY <2>4, <3>1, <4>2, <4>4
    <3>2. CASE p > Len(w) /\ p - Len(w) \in DOMAIN x /\ v[p] = x[p - Len(w)]
      <4>1. p - Len(w) < q - Len(w)
        BY <1>1, <2>1, <2>2
      <4>2. <<x[p - Len(w)], x[q - Len(w)]>> \in R
        BY <2>4, <3>2, <4>1 DEF InTurn
      <4> QED BY <2>4, <3>2, <4>2
    <3> QED BY <1>3, <3>1, <3>2
  <2> QED BY <1>3, <2>3, <2>4
<1>6. HasFirst(v, f, n)
  <2>1. ASSUME NEW m \in 1..n, NEW i \in DOMAIN f[m] PROVE \E p \in DOMAIN v : v[p] = f[m][i]
    <3>1. CASE m = n
      <4>1. i \in 1..Len(x) /\ f[m][i] = x[i]
        BY <1>1, <3>1
      <4> HIDE DEF x
      <4>2. Len(w) + i \in DOMAIN v /\ (Len(w) + i) - Len(w) = i /\ ~(Len(w) + i <= Len(w))
        BY <1>1, <1>2, <4>1
      <4>3. v[Len(w) + i] = x[i]
        BY <1>2, <4>2
      <4> QED BY <4>1, <4>2, <4>3
    <3>2. CASE m # n
      <4>1. m \in 1..(n-1)
        BY <1>1, <3>2
      <4>2. PICK p \in DOMAIN w : w[p] = f[m][i]
        BY <4>1 DEF HasFirst
      <4>3. p \in DOMAIN v /\ v[p] = w[p]
        <5> HIDE DEF x
        <5> QED BY <1>1, <1>2
      <4> QED BY <4>2, <4>3
    <3> QED BY <3>1, <3>2
  <2> QED BY <2>1 DEF HasFirst
<1> QED BY <1>4, <1>5, <1>6 DEF v

LEMMA FlatRises ==
    ASSUME NEW S, NEW f \in Seq(Seq(S)), NEW R, InTurn(f, R)
    PROVE  /\ Flat(f) \in Seq(S) /\ Rises(Flat(f), R)
           /\ HasFirst(Flat(f), f, Len(f))
<1>1. CASE Len(f) = 0
  <2>1. Flat(f) = <<>>
    BY <1>1 DEF Flat
  <2> QED BY <1>1, <2>1 DEF Rises, HasFirst
<1>2. CASE Len(f) > 0
  <2> DEFINE N == Len(f)
  <2>1. PICK g \in [0..Len(f) -> Seq(S)] :
           /\ g[0] = <<>> /\ Flat(f) = g[Len(f)]
           /\ \A n \in 1..Len(f) : g[n] = g[n-1] \o f[n]
    BY <1>2, FlatSteps
  <2> DEFINE A == {n \in 0..N : OfFirst(g[n], f, n) /\ HasFirst(g[n], f, n) /\ Rises(g[n], R)}
  <2>2. N \in Nat /\ DOMAIN f = 1..N
    OBVIOUS
  <2>3. 0 \in A
    BY <2>1, <2>2 DEF OfFirst, HasFirst, Rises
  <2>4. ASSUME NEW n \in 0..(N-1), n \in A PROVE n + 1 \in A
    <3>1. n + 1 \in DOMAIN f /\ (n + 1) - 1 = n /\ n + 1 \in 0..N /\ n \in 0..N
      BY <2>2
    <3>2. g[n+1] = g[n] \o f[n+1] /\ g[n] \in Seq(S)
      BY <2>1, <2>2, <3>1
    <3>3. /\ OfFirst(g[n], f, (n + 1) - 1) /\ HasFirst(g[n], f, (n + 1) - 1)
          /\ Rises(g[n], R)
      BY <2>4, <3>1
    <3>4. /\ OfFirst(g[n] \o f[n+1], f, n + 1) /\ HasFirst(g[n] \o f[n+1], f, n + 1)
          /\ Rises(g[n] \o f[n+1], R)
      BY <3>1, <3>2, <3>3, FlatStep
    <3> QED BY <3>1, <3>2, <3>4
  <2>5. \A n \in 0..N : n \in A
    <3> HIDE DEF A, N
    <3> QED BY <2>2, <2>3, <2>4, StepByStep
  <2>6. N \in A /\ g[N] \in Seq(S)
    BY <2>1, <2>2, <2>5
  <2> QED BY <2>1, <2>6
<1>3. Len(f) = 0 \/ Len(f) > 0
  OBVIOUS
<1> QED BY <1>1, <1>2, <1>3
=============================================================================
