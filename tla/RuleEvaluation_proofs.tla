------------------------ MODULE RuleEvaluation_proofs ------------------------
(***************************************************************************)
(* What evaluateRules promises, for every form whose rules a publish       *)
(* accepts.  The definitions it is about recurse over the document, over   *)
(* a condition and over a list of cells; the induction is made each time   *)
(* by a smallest counterexample, the least number of a set of numbers or a *)
(* condition that holds none of the others.                                *)
(***************************************************************************)
EXTENDS RuleEvaluation, FiniteSetTheorems, WellFoundedInduction, TLAPS

-----------------------------------------------------------------------------
(* Least numbers.                                                          *)

LEMMA LeastNumber ==
    ASSUME NEW S, S \subseteq Nat, S # {}
    PROVE  \E m \in S : \A n \in S : m <= n
<1>1. PICK k \in S : TRUE
  OBVIOUS
<1>2. k \in Nat
  BY <1>1
<1> DEFINE P == {0 .. n : n \in {i \in S : i <= k}}
<1>3. IsFiniteSet(0 .. k)
  BY <1>2, FS_Interval
<1>4. P \subseteq FiniteSubsetsOf(0 .. k) /\ P # {}
  <2>1. P \subseteq SUBSET (0 .. k) /\ 0 .. k \in P
    BY <1>1, <1>2
  <2>2. FiniteSubsetsOf(0 .. k) = SUBSET (0 .. k)
    BY <1>3, FS_FiniteSubsetsOfFinite
  <2> HIDE DEF P
  <2>3. QED
    BY <2>1, <2>2
<1>5. PICK p \in P : \A q \in P : <<q, p>> \notin StrictSubsetOrdering(0 .. k)
  <2> HIDE DEF P
  <2>1. QED
    BY <1>3, <1>4, FS_StrictSubsetOrderingWellFounded, WFMin
<1>6. PICK m \in S : m <= k /\ p = 0 .. m
  BY <1>5
<1>7. ASSUME NEW n \in S, n < m PROVE FALSE
  <2>1. n \in Nat /\ m \in Nat /\ n <= k
    BY <1>2, <1>6, <1>7
  <2>2. 0 .. n \in P
    BY <1>7, <2>1
  <2>3. 0 .. n \in SUBSET (0 .. k) /\ 0 .. m \in SUBSET (0 .. k)
    BY <1>2, <1>6, <2>1
  <2>4. 0 .. n \subseteq 0 .. m /\ 0 .. n # 0 .. m
    <3>1. m \in 0 .. m /\ m \notin 0 .. n
      BY <1>7, <2>1
    <3>2. QED
      BY <1>7, <2>1, <3>1
  <2>5. <<0 .. n, 0 .. m>> \in StrictSubsetOrdering(0 .. k)
    BY <2>3, <2>4 DEF StrictSubsetOrdering
  <2>6. QED
    BY <1>5, <1>6, <2>2, <2>5
<1>8. QED
  BY <1>7, <1>6

\* Induction over a set of numbers.
LEMMA AllNumbers ==
    ASSUME NEW S, 0 \in S, NEW L \in Nat, \A n \in 1 .. L : n - 1 \in S => n \in S
    PROVE  0 .. L \subseteq S
<1> DEFINE T == (0 .. L) \ S
<1>1. SUFFICES ASSUME T # {} PROVE FALSE
  OBVIOUS
<1>2. T \subseteq Nat
  OBVIOUS
<1>3. PICK m \in T : \A n \in T : m <= n
  <2> HIDE DEF T
  <2>1. QED
    BY <1>1, <1>2, LeastNumber
<1>4. m \in 1 .. L /\ m - 1 \in 0 .. L
  BY <1>3
<1>5. m - 1 \in S
  BY <1>3, <1>4
<1>6. QED
  BY <1>3, <1>4, <1>5

-----------------------------------------------------------------------------
(* Recursion, one number at a time.                                        *)

\* From a, f goes on as h says, up to L.
Proceeds(f, a, L, h) == f[0] = a /\ \A n \in 1 .. L : f[n] = h[<<n, f[n - 1]>>]

\* A function that computes each value from the one before it exists.
LEMMA StepByStep ==
    ASSUME NEW A, NEW a \in A, NEW L \in Nat, NEW h \in [(1 .. L) \X A -> A]
    PROVE  \E f \in [0 .. L -> A] : Proceeds(f, a, L, h)
<1> USE DEF Proceeds
<1> DEFINE Good(n, f) == f[0] = a /\ \A i \in 1 .. n : f[i] = h[<<i, f[i - 1]>>]
           S == {n \in 0 .. L : \E f \in [0 .. L -> A] : Good(n, f)}
<1>1. 0 \in S
  <2> DEFINE z == [n \in 0 .. L |-> a]
  <2>1. Good(0, z)
    OBVIOUS
  <2>2. z \in [0 .. L -> A] /\ 0 \in 0 .. L
    OBVIOUS
  <2> HIDE DEF z, Good
  <2>3. QED
    BY <2>1, <2>2
<1>2. ASSUME NEW n \in 1 .. L, n - 1 \in S PROVE n \in S
  <2>1. PICK f \in [0 .. L -> A] : Good(n - 1, f)
    BY <1>2
  <2>2. f[n - 1] \in A /\ h[<<n, f[n - 1]>>] \in A
    BY <2>1
  <2> DEFINE e == [f EXCEPT ![n] = h[<<n, f[n - 1]>>]]
  <2>3. e \in [0 .. L -> A]
    BY <2>2
  <2>4. e[0] = a /\ e[n] = h[<<n, e[n - 1]>>]
    <3>1. e[0] = f[0] /\ e[n - 1] = f[n - 1] /\ e[n] = h[<<n, f[n - 1]>>]
      OBVIOUS
    <3> HIDE DEF e
    <3>2. QED
      BY <2>1, <3>1
  <2>5. ASSUME NEW i \in 1 .. n - 1 PROVE e[i] = h[<<i, e[i - 1]>>]
    BY <2>1, <2>5
  <2>6. Good(n, e)
    <3> HIDE DEF e
    <3>1. \A i \in 1 .. n : i = n \/ i \in 1 .. n - 1
      OBVIOUS
    <3>2. QED
      BY <2>4, <2>5, <3>1
  <2> HIDE DEF e, Good
  <2>7. QED
    BY <2>3, <2>6
<1>3. 0 .. L \subseteq S
  <2> HIDE DEF S
  <2>1. QED
    BY <1>1, <1>2, AllNumbers
<1>4. L \in S
  <2> HIDE DEF S
  <2>1. QED
    BY <1>3
<1>5. QED
  BY <1>4

-----------------------------------------------------------------------------
(* A sequence of sequences made one.                                       *)

\* What FlattenSeq has gathered when it has come to each place.
Gathers(f, ss) ==
    /\ f[0] = <<>>
    /\ \A i \in 1 .. Len(ss) : f[i] = f[i - 1] \o ss[i]
    /\ FlattenSeq(ss) = f[Len(ss)]

LEMMA Gathered ==
    ASSUME NEW E, NEW ss \in Seq(Seq(E))
    PROVE  \E f \in [0 .. Len(ss) -> Seq(E)] : Gathers(f, ss)
<1> DEFINE L == Len(ss)
           h == [x \in (1 .. L) \X Seq(E) |-> x[2] \o ss[x[1]]]
<1>1. L \in Nat /\ \A i \in 1 .. L : ss[i] \in Seq(E)
  OBVIOUS
<1>2. h \in [(1 .. L) \X Seq(E) -> Seq(E)]
  BY <1>1
<1>3. PICK f \in [0 .. L -> Seq(E)] : f[0] = <<>> /\ \A n \in 1 .. L : f[n] = h[<<n, f[n - 1]>>]
  <2>1. <<>> \in Seq(E)
    OBVIOUS
  <2> DEFINE A == Seq(E)
             none == <<>>
  <2>2. L \in Nat /\ h \in [(1 .. L) \X A -> A] /\ none \in A
    BY <1>1, <1>2, <2>1
  <2> HIDE DEF h, L, A, none
  <2>3. \E f \in [0 .. L -> A] : Proceeds(f, none, L, h)
    BY <2>2, StepByStep
  <2>4. QED
    BY <2>3 DEF A, none, Proceeds
<1>4. ASSUME NEW i \in 1 .. L
      PROVE  f[i] = f[i - 1] \o ss[i] /\ f[i - 1] \in Seq(E) /\ ss[i] \in Seq(E)
  <2> HIDE DEF h, L
  <2>1. i - 1 \in 0 .. L /\ f[i - 1] \in Seq(E) /\ ss[i] \in Seq(E)
    BY <1>1, <1>4
  <2>2. <<i, f[i - 1]>> \in (1 .. L) \X Seq(E)
    BY <2>1
  <2>3. h[<<i, f[i - 1]>>] = f[i - 1] \o ss[i]
    BY <2>2 DEF h
  <2>4. QED
    BY <1>3, <2>1, <2>3
<1>5. 1 \in 1 .. L => f[1] = ss[1]
  <2> HIDE DEF h, L
  <2>1. SUFFICES ASSUME 1 \in 1 .. L PROVE f[1] = ss[1]
    OBVIOUS
  <2>2. f[1] = <<>> \o ss[1] /\ ss[1] \in Seq(E)
    <3>1. f[1] = f[1 - 1] \o ss[1] /\ ss[1] \in Seq(E)
      BY <1>4, <2>1
    <3>2. 1 - 1 = 0 /\ f[0] = <<>>
      BY <1>3
    <3>3. QED
      BY <3>1, <3>2, Zenon
  <2>3. QED
    BY <2>2
<1> HIDE DEF h
<1>6. FlattenSeq(ss) = f[L]
  <2>1. CASE L = 0
    BY <1>3, <2>1 DEF FlattenSeq
  <2>2. CASE L # 0
    <3> DEFINE Eq(e) == e = [i \in 1 .. L |-> IF i = 1 THEN ss[i] ELSE e[i - 1] \o ss[i]]
               flatten == CHOOSE e : Eq(e)
               g == [i \in 1 .. L |-> f[i]]
    <3>1. FlattenSeq(ss) = flatten[L]
      BY <1>1, <2>2 DEF FlattenSeq
    <3>2. Eq(g)
      <4>1. ASSUME NEW i \in 1 .. L
            PROVE  g[i] = IF i = 1 THEN ss[i] ELSE g[i - 1] \o ss[i]
        <5> HIDE DEF L
        <5>1. g[i] = f[i] /\ (i # 1 => i - 1 \in 1 .. L)
          BY <1>1, <4>1
        <5>2. i # 1 => g[i - 1] = f[i - 1]
          BY <5>1
        <5> HIDE DEF g
        <5>3. QED
          BY <1>4, <1>5, <4>1, <5>1, <5>2
      <4>2. QED
        BY <4>1
    <3>3. Eq(flatten)
      <4> HIDE DEF g, Eq
      <4>1. QED
        BY <3>2
    <3> HIDE DEF flatten, g, L
    <3>4. \A i \in 1 .. L : flatten[i] = IF i = 1 THEN ss[i] ELSE flatten[i - 1] \o ss[i]
      BY <3>3
    <3> DEFINE S == {i \in Nat : i \in 1 .. L => flatten[i] = f[i]}
    <3>5. 0 \in S
      BY <1>1
    <3>6. ASSUME NEW i \in 1 .. L, i - 1 \in S PROVE i \in S
      <4>1. CASE i = 1
        BY <1>5, <3>4, <4>1
      <4>2. CASE i # 1
        <5>1. i - 1 \in 1 .. L
          BY <1>1, <3>6, <4>2
        <5>2. flatten[i - 1] = f[i - 1]
          BY <3>6, <5>1
        <5>3. flatten[i] = flatten[i - 1] \o ss[i]
          BY <3>4, <3>6, <4>2
        <5>4. flatten[i] = f[i]
          BY <1>4, <3>6, <5>2, <5>3
        <5>5. QED
          BY <1>1, <3>6, <5>4
      <4>3. QED
        BY <4>1, <4>2
    <3>7. L \in 0 .. L /\ L \in 1 .. L
      BY <1>1, <2>2
    <3>8. L \in S
      <4> HIDE DEF S
      <4>1. QED
        BY <1>1, <3>5, <3>6, <3>7, AllNumbers
    <3>9. QED
      BY <3>1, <3>7, <3>8
  <2>3. QED
    BY <2>1, <2>2
<1>7. QED
  BY <1>3, <1>4, <1>6 DEF Gathers

\* What is gathered between two places comes after what was there.
GrowsFrom(f, ss, i, j) ==
    /\ Len(f[i]) <= Len(f[j])
    /\ \A x \in 1 .. Len(f[i]) : f[j][x] = f[i][x]
    /\ \A x \in Len(f[i]) + 1 .. Len(f[j]) :
         \E m \in i + 1 .. j : \E y \in DOMAIN ss[m] : f[j][x] = ss[m][y]

LEMMA GathersOn ==
    ASSUME NEW E, NEW ss \in Seq(Seq(E)), NEW f \in [0 .. Len(ss) -> Seq(E)], Gathers(f, ss),
           NEW i \in 0 .. Len(ss), NEW j \in i .. Len(ss)
    PROVE  GrowsFrom(f, ss, i, j)
<1> DEFINE L == Len(ss)
           On(k) == GrowsFrom(f, ss, i, k)
           S == {n \in Nat : On(i + n)}
<1>1. L \in Nat /\ i \in Nat /\ j \in Nat /\ i <= j /\ j <= L
  OBVIOUS
<1>2. ASSUME NEW k \in 0 .. L PROVE f[k] \in Seq(E) /\ Len(f[k]) \in Nat
  OBVIOUS
<1>3. ASSUME NEW k \in 1 .. L
      PROVE  f[k] = f[k - 1] \o ss[k] /\ ss[k] \in Seq(E) /\ f[k - 1] \in Seq(E)
  <2>1. k - 1 \in 0 .. L
    BY <1>1, <1>3
  <2>2. f[k] = f[k - 1] \o ss[k]
    BY Zenon DEF Gathers, L
  <2>3. ss[k] \in Seq(E) /\ f[k - 1] \in Seq(E)
    BY <1>2, <2>1 DEF L
  <2>4. QED
    BY <2>2, <2>3
<1> HIDE DEF L
<1>4. 0 \in S
  <2>1. On(i)
    BY <1>1, <1>2 DEF GrowsFrom
  <2> HIDE DEF On
  <2>2. i + 0 = i
    BY <1>1
  <2>3. QED
    BY <2>1, <2>2
<1>5. ASSUME NEW k \in i + 1 .. j, On(k - 1) PROVE On(k)
  <2>1. k \in 1 .. L
    BY <1>1
  <2>2. f[k] = f[k - 1] \o ss[k] /\ ss[k] \in Seq(E) /\ f[k - 1] \in Seq(E)
    BY <1>3, <2>1
  <2> DEFINE b == Len(f[k - 1])
  <2>3. /\ Len(f[k]) = b + Len(ss[k])
        /\ \A x \in 1 .. b : f[k][x] = f[k - 1][x]
        /\ \A x \in b + 1 .. Len(f[k]) : f[k][x] = ss[k][x - b] /\ x - b \in DOMAIN ss[k]
    <3> DEFINE p == f[k - 1]
               q == ss[k]
    <3>1. p \in Seq(E) /\ q \in Seq(E) /\ f[k] = p \o q
      BY <2>2
    <3> HIDE DEF p, q
    <3>2. /\ Len(p \o q) = Len(p) + Len(q)
          /\ \A x \in 1 .. Len(p) : (p \o q)[x] = p[x]
          /\ \A x \in Len(p) + 1 .. Len(p \o q) :
               (p \o q)[x] = q[x - Len(p)] /\ x - Len(p) \in DOMAIN q
      BY <3>1
    <3>3. QED
      BY <3>1, <3>2 DEF p, q
  <2>4. Len(f[i]) \in Nat /\ b \in Nat /\ Len(ss[k]) \in Nat /\ k \in Nat
    BY <1>1, <1>2, <2>1, <2>2
  <2> HIDE DEF b
  <2>5. Len(f[i]) <= b /\ \A x \in 1 .. Len(f[i]) : f[k - 1][x] = f[i][x]
    BY <1>5 DEF b, GrowsFrom
  <2>6. \A x \in Len(f[i]) + 1 .. b :
          \E m \in i + 1 .. k - 1 : \E y \in DOMAIN ss[m] : f[k - 1][x] = ss[m][y]
    BY <1>5 DEF b, GrowsFrom
  <2>7. Len(f[i]) <= Len(f[k]) /\ \A x \in 1 .. Len(f[i]) : f[k][x] = f[i][x]
    BY <2>3, <2>4, <2>5
  <2>8. ASSUME NEW x \in Len(f[i]) + 1 .. Len(f[k])
        PROVE  \E m \in i + 1 .. k : \E y \in DOMAIN ss[m] : f[k][x] = ss[m][y]
    <3>1. CASE x <= b
      <4>1. x \in Len(f[i]) + 1 .. b /\ x \in 1 .. b
        BY <2>3, <2>4, <3>1
      <4>2. PICK m \in i + 1 .. k - 1 : \E y \in DOMAIN ss[m] : f[k - 1][x] = ss[m][y]
        BY <2>6, <4>1
      <4>3. m \in i + 1 .. k
        BY <1>1, <2>4
      <4>4. f[k][x] = f[k - 1][x]
        BY <2>3, <4>1
      <4>5. QED
        BY <4>2, <4>3, <4>4
    <3>2. CASE x > b
      <4>1. x \in b + 1 .. Len(f[k])
        BY <2>3, <2>4, <3>2
      <4>2. k \in i + 1 .. k
        BY <1>1, <1>5
      <4>3. QED
        BY <2>3, <4>1, <4>2
    <3>3. QED
      BY <2>3, <2>4, <3>1, <3>2
  <2>9. QED
    BY <2>7, <2>8 DEF GrowsFrom
<1>6. ASSUME NEW n \in 1 .. j - i, n - 1 \in S PROVE n \in S
  <2>1. i + n \in i + 1 .. j /\ i + (n - 1) = (i + n) - 1 /\ n \in Nat
    BY <1>1
  <2> HIDE DEF On
  <2>2. On((i + n) - 1)
    BY <1>6, <2>1
  <2>3. QED
    BY <1>5, <2>1, <2>2
<1>7. j - i \in Nat /\ j - i \in 0 .. j - i /\ i + (j - i) = j
  BY <1>1
<1>8. j - i \in S
  <2> HIDE DEF S
  <2>1. QED
    BY <1>4, <1>6, <1>7, AllNumbers
<1>9. On(j)
  <2> HIDE DEF On
  <2>1. QED
    BY <1>7, <1>8
<1>10. QED
  BY <1>9

\* Every member of a part is in the whole, and the whole keeps the parts in
\* their order.
LEMMA FlattenPlaces ==
    ASSUME NEW E, NEW ss \in Seq(Seq(E))
    PROVE  /\ FlattenSeq(ss) \in Seq(E)
           /\ \A i \in 1 .. Len(ss) : ToSet(ss[i]) \subseteq ToSet(FlattenSeq(ss))
           /\ \E at \in [DOMAIN FlattenSeq(ss) -> 1 .. Len(ss)] :
                \A x \in DOMAIN FlattenSeq(ss) :
                   /\ FlattenSeq(ss)[x] \in ToSet(ss[at[x]])
                   /\ \A y \in DOMAIN FlattenSeq(ss) : x <= y => at[x] <= at[y]
<1> DEFINE L == Len(ss)
           F == FlattenSeq(ss)
<1>1. PICK f \in [0 .. L -> Seq(E)] : Gathers(f, ss)
  BY Gathered
<1>2. L \in Nat /\ \A i \in 0 .. L : f[i] \in Seq(E) /\ Len(f[i]) \in Nat
  OBVIOUS
<1>3. F = f[L] /\ F \in Seq(E) /\ Len(F) = Len(f[L]) /\ DOMAIN F = 1 .. Len(F) /\ Len(F) \in Nat
  BY <1>1, <1>2 DEF Gathers
<1>4. Len(f[0]) = 0
  BY <1>1 DEF Gathers
<1>5. ASSUME NEW i \in 1 .. L PROVE f[i] = f[i - 1] \o ss[i]
  BY <1>1, Zenon DEF Gathers
<1>6. ASSUME NEW i \in 0 .. L, NEW j \in i .. L PROVE GrowsFrom(f, ss, i, j)
  BY <1>1, GathersOn
<1>7. \A i \in 1 .. L : ss[i] \in Seq(E)
  OBVIOUS
<1> HIDE DEF L, F
<1>8. ASSUME NEW i \in 1 .. L PROVE ToSet(ss[i]) \subseteq ToSet(F)
  <2>1. SUFFICES ASSUME NEW y \in DOMAIN ss[i] PROVE ss[i][y] \in ToSet(F)
    BY <1>7 DEF ToSet
  <2>2. i - 1 \in 0 .. L /\ i \in 0 .. L /\ L \in i .. L
    BY <1>2
  <2>3. f[i - 1] \in Seq(E) /\ ss[i] \in Seq(E)
    BY <1>2, <1>7, <2>2
  <2> DEFINE x == Len(f[i - 1]) + y
  <2>4. x \in 1 .. Len(f[i]) /\ f[i][x] = ss[i][y]
    <3> DEFINE a == f[i - 1]
               b == ss[i]
    <3>1. a \in Seq(E) /\ b \in Seq(E) /\ y \in DOMAIN b /\ f[i] = a \o b
      BY <1>5, <2>3
    <3> HIDE DEF a, b
    <3>2. Len(a) + y \in 1 .. Len(a \o b) /\ (a \o b)[Len(a) + y] = b[y]
      BY <3>1
    <3>3. QED
      BY <3>1, <3>2 DEF a, b
  <2> HIDE DEF x
  <2>5. Len(f[i]) <= Len(f[L]) /\ f[L][x] = f[i][x] /\ Len(f[i]) \in Nat
    BY <1>2, <1>6, <2>2, <2>4 DEF GrowsFrom
  <2>6. x \in DOMAIN F /\ F[x] = ss[i][y]
    BY <1>3, <2>4, <2>5
  <2>7. QED
    BY <2>6 DEF ToSet
<1> DEFINE Here(x, i) == Len(f[i - 1]) < x /\ x <= Len(f[i])
<1>9. ASSUME NEW x \in DOMAIN F PROVE \E i \in 1 .. L : Here(x, i)
  <2> DEFINE S == {i \in 0 .. L : x <= Len(f[i])}
  <2>1. S \subseteq Nat /\ L \in S
    BY <1>2, <1>3
  <2>2. PICK m \in S : \A n \in S : m <= n
    <3> HIDE DEF S
    <3>1. QED
      BY <2>1, LeastNumber
  <2>3. m \in 1 .. L
    BY <1>2, <1>3, <1>4, <2>2
  <2>4. m - 1 \in 0 .. L /\ m - 1 \notin S
    BY <1>2, <2>2, <2>3
  <2>5. Here(x, m)
    BY <1>2, <1>3, <2>2, <2>3, <2>4
  <2>6. QED
    BY <2>3, <2>5
<1> DEFINE at == [x \in DOMAIN F |-> CHOOSE i \in 1 .. L : Here(x, i)]
<1>10. ASSUME NEW x \in DOMAIN F PROVE at[x] \in 1 .. L /\ Here(x, at[x])
  <2> HIDE DEF Here
  <2>1. QED
    BY <1>9
<1>11. at \in [DOMAIN F -> 1 .. L]
  <2> HIDE DEF Here
  <2>1. QED
    BY <1>9
<1> HIDE DEF at
<1>12. ASSUME NEW x \in DOMAIN F PROVE F[x] \in ToSet(ss[at[x]])
  <2> DEFINE i == at[x]
  <2>1. i \in 1 .. L /\ Here(x, i)
    BY <1>10
  <2> HIDE DEF i
  <2>2. i - 1 \in 0 .. L /\ i \in i - 1 .. L /\ i \in 0 .. L /\ L \in i .. L
    BY <1>2, <2>1
  <2>3. x \in Len(f[i - 1]) + 1 .. Len(f[i]) /\ x \in 1 .. Len(f[i])
    BY <1>2, <1>3, <2>1, <2>2
  <2>4. PICK m \in (i - 1) + 1 .. i : \E y \in DOMAIN ss[m] : f[i][x] = ss[m][y]
    BY <1>6, <2>2, <2>3 DEF GrowsFrom
  <2>5. m = i
    BY <1>2, <2>1
  <2>6. f[L][x] = f[i][x]
    BY <1>6, <2>2, <2>3 DEF GrowsFrom
  <2>7. \E y \in DOMAIN ss[i] : F[x] = ss[i][y]
    BY <1>3, <2>4, <2>5, <2>6
  <2>8. QED
    BY <2>7 DEF i, ToSet
<1>13. ASSUME NEW x \in DOMAIN F, NEW y \in DOMAIN F, x <= y PROVE at[x] <= at[y]
  <2>1. at[x] \in 1 .. L /\ at[y] \in 1 .. L /\ Here(x, at[x]) /\ Here(y, at[y])
    BY <1>10
  <2>2. SUFFICES ASSUME at[x] > at[y] PROVE FALSE
    BY <1>2, <2>1
  <2>3. at[y] \in 0 .. L /\ at[x] - 1 \in at[y] .. L /\ at[x] - 1 \in 0 .. L
    <3>1. L \in Nat /\ at[x] \in 1 .. L /\ at[y] \in 1 .. L
      BY <1>2, <2>1
    <3> DEFINE a == at[x]
               b == at[y]
    <3>2. a \in Nat /\ b \in Nat /\ 1 <= b /\ a <= L /\ a > b
      BY <2>2, <3>1
    <3> HIDE DEF a, b
    <3>3. b \in 0 .. L /\ a - 1 \in b .. L /\ a - 1 \in 0 .. L
      BY <3>1, <3>2
    <3>4. QED
      BY <3>3 DEF a, b
  <2>4. Len(f[at[y]]) <= Len(f[at[x] - 1]) /\ Len(f[at[y]]) \in Nat /\ Len(f[at[x] - 1]) \in Nat
    BY <1>2, <1>6, <2>3 DEF GrowsFrom
  <2>5. x \in Nat /\ y \in Nat
    BY <1>3
  <2>6. QED
    BY <1>13, <2>1, <2>4, <2>5
<1>14. QED
  BY <1>3, <1>8, <1>11, <1>12, <1>13 DEF F, L

\* The wholes of ss and tt are the same for their first c members, which come
\* from the first p parts; the others come from later ones.
SplitAt(ss, tt, p, c) ==
    /\ c <= Len(FlattenSeq(ss)) /\ c <= Len(FlattenSeq(tt))
    /\ \A x \in 1 .. c : /\ FlattenSeq(ss)[x] = FlattenSeq(tt)[x]
                         /\ \E i \in 1 .. p : FlattenSeq(ss)[x] \in ToSet(ss[i])
    /\ \A x \in c + 1 .. Len(FlattenSeq(ss)) :
         \E i \in p + 1 .. Len(ss) : FlattenSeq(ss)[x] \in ToSet(ss[i])
    /\ \A x \in c + 1 .. Len(FlattenSeq(tt)) :
         \E i \in p + 1 .. Len(ss) : FlattenSeq(tt)[x] \in ToSet(tt[i])

\* Two lists of parts that agree as far as a place give the same whole that
\* far.
LEMMA FlattenAgrees ==
    ASSUME NEW E, NEW ss \in Seq(Seq(E)), NEW tt \in Seq(Seq(E)), Len(ss) = Len(tt),
           NEW p \in 0 .. Len(ss), \A i \in 1 .. p : ss[i] = tt[i]
    PROVE  \E c \in Nat : SplitAt(ss, tt, p, c)
<1> DEFINE L == Len(ss)
           F == FlattenSeq(ss)
           G == FlattenSeq(tt)
<1>1. PICK f \in [0 .. L -> Seq(E)] : Gathers(f, ss)
  BY Gathered
<1>2. PICK g \in [0 .. L -> Seq(E)] : Gathers(g, tt)
  BY Gathered
<1>3. L \in Nat /\ p \in 0 .. L /\ 0 \in 0 .. p /\ L \in p .. L /\ p \in 0 .. p
  OBVIOUS
<1>4. F = f[L] /\ G = g[L] /\ Len(f[0]) = 0
  BY <1>1, <1>2, <1>3 DEF Gathers
<1>5. ASSUME NEW i \in 1 .. L PROVE f[i] = f[i - 1] \o ss[i] /\ g[i] = g[i - 1] \o tt[i]
  <2>1. f[i] = f[i - 1] \o ss[i]
    BY <1>1, Zenon DEF Gathers
  <2>2. i \in 1 .. Len(tt)
    OBVIOUS
  <2>3. g[i] = g[i - 1] \o tt[i]
    BY <1>2, <2>2, Zenon DEF Gathers
  <2>4. QED
    BY <2>1, <2>3
<1>6. /\ Len(f[0]) <= Len(f[p])
      /\ \A x \in Len(f[0]) + 1 .. Len(f[p]) :
           \E m \in 0 + 1 .. p : \E y \in DOMAIN ss[m] : f[p][x] = ss[m][y]
  <2>1. GrowsFrom(f, ss, 0, p)
    BY <1>1, <1>3, 0 \in 0 .. L, GathersOn
  <2>2. QED
    BY <2>1 DEF GrowsFrom
<1>7. /\ Len(f[p]) <= Len(f[L])
      /\ \A x \in 1 .. Len(f[p]) : f[L][x] = f[p][x]
      /\ \A x \in Len(f[p]) + 1 .. Len(f[L]) :
           \E m \in p + 1 .. L : \E y \in DOMAIN ss[m] : f[L][x] = ss[m][y]
  <2>1. GrowsFrom(f, ss, p, L)
    BY <1>1, <1>3, GathersOn
  <2>2. QED
    BY <2>1 DEF GrowsFrom
<1>8. /\ Len(g[p]) <= Len(g[L])
      /\ \A x \in 1 .. Len(g[p]) : g[L][x] = g[p][x]
      /\ \A x \in Len(g[p]) + 1 .. Len(g[L]) :
           \E m \in p + 1 .. L : \E y \in DOMAIN tt[m] : g[L][x] = tt[m][y]
  <2>1. GrowsFrom(g, tt, p, L)
    BY <1>2, <1>3, GathersOn
  <2>2. QED
    BY <2>1 DEF GrowsFrom
<1>9. f[0] = g[0]
  BY <1>1, <1>2, Zenon DEF Gathers
<1>10. Len(f[p]) \in Nat
  OBVIOUS
<1> HIDE DEF L, F, G
<1>11. f[p] = g[p]
  <2> DEFINE S == {i \in Nat : f[i] = g[i]}
  <2>1. 0 \in S
    BY <1>9
  <2>2. ASSUME NEW i \in 1 .. p, i - 1 \in S PROVE i \in S
    <3>1. i \in 1 .. L /\ f[i - 1] = g[i - 1] /\ i \in Nat
      BY <1>3, <2>2
    <3>2. ss[i] = tt[i]
      OBVIOUS
    <3>3. f[i] = g[i]
      BY <1>5, <3>1, <3>2, Zenon
    <3>4. QED
      BY <3>1, <3>3
  <2>3. p \in S
    <3>1. p \in Nat
      BY <1>3
    <3> HIDE DEF S
    <3>2. QED
      BY <1>3, <2>1, <2>2, <3>1, AllNumbers
  <2>4. QED
    BY <2>3
<1> DEFINE c == Len(f[p])
<1>12. c <= Len(F) /\ c <= Len(G)
  BY <1>4, <1>7, <1>8, <1>11
<1>13. ASSUME NEW x \in 1 .. c PROVE F[x] = G[x] /\ \E i \in 1 .. p : F[x] \in ToSet(ss[i])
  <2>1. x \in Len(f[0]) + 1 .. Len(f[p])
    BY <1>4
  <2>2. PICK m \in 0 + 1 .. p : \E y \in DOMAIN ss[m] : f[p][x] = ss[m][y]
    BY <1>6, <2>1
  <2>3. m \in 1 .. p
    OBVIOUS
  <2>4. F[x] = f[p][x] /\ G[x] = f[p][x]
    BY <1>4, <1>7, <1>8, <1>11
  <2>5. F[x] \in ToSet(ss[m])
    BY <2>2, <2>4 DEF ToSet
  <2>6. QED
    BY <2>3, <2>4, <2>5
<1>14. ASSUME NEW x \in c + 1 .. Len(F) PROVE \E i \in p + 1 .. L : F[x] \in ToSet(ss[i])
  BY <1>4, <1>7 DEF ToSet
<1>15. ASSUME NEW x \in c + 1 .. Len(G) PROVE \E i \in p + 1 .. L : G[x] \in ToSet(tt[i])
  BY <1>4, <1>8, <1>11 DEF ToSet
<1>16. c \in Nat
  BY <1>10
<1> HIDE DEF c
<1>17. QED
  BY <1>12, <1>13, <1>14, <1>15, <1>16 DEF F, G, L, SplitAt

-----------------------------------------------------------------------------
(* The form and its live cells.                                            *)

LEMMA PositionsFacts ==
    /\ Len(Document) \in Nat
    /\ Positions = 1 .. Len(Document)
    /\ Positions \subseteq Nat
BY DocumentAssumption DEF Positions

LEMMA PositionOf ==
    /\ \A q \in Questions : position(q) \in Positions /\ Document[position(q)].question = q
    /\ \A n \in Positions : Document[n].question \in Questions /\ position(Document[n].question) = n
<1>1. ASSUME NEW q \in Questions PROVE \E n \in Positions : Document[n].question = q
  BY DEF Questions
<1>2. ASSUME NEW q \in Questions
      PROVE  position(q) \in Positions /\ Document[position(q)].question = q
  BY <1>1 DEF position
<1>3. ASSUME NEW n \in Positions
      PROVE  Document[n].question \in Questions /\ position(Document[n].question) = n
  <2>1. Document[n].question \in Questions
    BY DEF Questions
  <2>2. position(Document[n].question) \in Positions
        /\ Document[position(Document[n].question)].question = Document[n].question
    BY <1>2, <2>1
  <2>3. QED
    BY <2>1, <2>2, DocumentAssumption DEF Positions
<1>4. QED
  BY <1>2, <1>3

LEMMA GroupOf ==
    /\ \A q \in Questions : groupOf(q) \in Groups \cup {None} /\ stepOf(q) \in Steps
    /\ \A n \in Positions : groupOf(Document[n].question) = Document[n].group
    /\ \A n \in Positions : stepOf(Document[n].question) = Document[n].step
BY PositionOf DEF groupOf, stepOf, Groups, Steps

\* The last position of a group is the end of its span.
LEMMA LastOfGroup ==
    ASSUME NEW g \in Groups
    PROVE  /\ LastOf(g) \in Positions /\ Document[LastOf(g)].group = g
           /\ \A m \in Positions : Document[m].group = g => m <= LastOf(g)
<1> DEFINE S == {n \in Nat : \A m \in Positions : Document[m].group = g => m <= n}
<1>1. S \subseteq Nat /\ Len(Document) \in S
  BY PositionsFacts
<1>2. PICK n \in S : \A m \in S : n <= m
  <2> HIDE DEF S
  <2>1. QED
    BY <1>1, LeastNumber
<1>3. PICK k \in Positions : Document[k].group = g
  BY DEF Groups
<1>4. n \in Positions /\ Document[n].group = g
  <2>1. n \in Nat /\ n >= 1 /\ n <= Len(Document)
    BY <1>1, <1>2, <1>3, PositionsFacts
  <2>2. SUFFICES ASSUME Document[n].group # g PROVE FALSE
    BY <2>1, PositionsFacts
  <2>3. n - 1 \in S
    <3>1. n - 1 \in Nat
      BY <2>1
    <3>2. ASSUME NEW m \in Positions, Document[m].group = g PROVE m <= n - 1
      <4>1. m \in Nat /\ m <= n
        BY <1>2, <3>2, PositionsFacts
      <4>2. m # n
        BY <2>2, <3>2
      <4>3. QED
        BY <2>1, <4>1, <4>2
    <3>3. QED
      BY <3>1, <3>2
  <2>4. QED
    BY <1>2, <2>1, <2>3
<1>5. QED
  <2>1. \A m \in Positions : Document[m].group = g => m <= n
    BY <1>2
  <2> HIDE DEF S
  <2>2. QED
    BY <1>4, <2>1 DEF LastOf

Rosters == [Groups -> Seq(Instances)]

\* The live cells of a form: a question outside any group, and a question of
\* a group for every member.
LiveCells(ros) ==
    {k \in Keys : k[2] = None \/ k[2] \in ToSet(ros[groupOf(k[1])])}

LEMMA KeysFacts ==
    /\ \A k \in Keys : /\ k = <<k[1], k[2]>> /\ k[1] \in Questions /\ k[2] \in Instances \cup {None}
                       /\ k[2] = None <=> groupOf(k[1]) = None
    /\ \A q \in Questions : groupOf(q) = None => <<q, None>> \in Keys
    /\ \A q \in Questions, i \in Instances : groupOf(q) # None => <<q, i>> \in Keys
    /\ None \notin Instances
<1>1. None \notin Instances
  BY DocumentAssumption DEF Instances
<1>2. QED
  BY <1>1 DEF Keys

LEMMA LiveKeysFacts ==
    ASSUME NEW ros \in Rosters
    PROVE  /\ liveKeys(ros) \in Seq(Keys)
           /\ ToSet(liveKeys(ros)) = LiveCells(ros)
           /\ \A x, y \in DOMAIN liveKeys(ros) :
                x <= y => position(liveKeys(ros)[x][1]) <= position(liveKeys(ros)[y][1])
<1> DEFINE cells(n) == IF Document[n].group = None THEN <<<<Document[n].question, None>>>>
                       ELSE [j \in DOMAIN ros[Document[n].group] |->
                               <<Document[n].question, ros[Document[n].group][j]>>]
           parts == [n \in Positions |-> cells(n)]
<1>1. liveKeys(ros) = FlattenSeq(parts)
  BY DEF liveKeys
<1>2. ASSUME NEW n \in Positions
      PROVE  /\ cells(n) \in Seq(Keys)
             /\ \A k \in ToSet(cells(n)) : k \in LiveCells(ros) /\ k[1] = Document[n].question
  <2> DEFINE q == Document[n].question
             r == ros[Document[n].group]
  <2>1. q \in Questions /\ groupOf(q) = Document[n].group
    BY PositionOf, GroupOf
  <2>2. CASE Document[n].group = None
    <3>1. <<q, None>> \in Keys
      BY <2>1, <2>2, KeysFacts
    <3>2. cells(n) = <<<<q, None>>>>
      BY <2>2
    <3> HIDE DEF q, cells
    <3>3. cells(n) \in Seq(Keys) /\ ToSet(cells(n)) = {<<q, None>>}
      BY <3>1, <3>2 DEF ToSet
    <3>4. QED
      BY <3>1, <3>3 DEF LiveCells, q
  <2>3. CASE Document[n].group # None
    <3>1. Document[n].group \in Groups /\ r \in Seq(Instances)
      BY <2>3 DEF Groups, Rosters
    <3>2. cells(n) = [j \in DOMAIN r |-> <<q, r[j]>>]
      BY <2>3
    <3> HIDE DEF q, r, cells
    <3>3. \A j \in DOMAIN r : <<q, r[j]>> \in Keys
      BY <2>1, <2>3, <3>1, KeysFacts
    <3>4. cells(n) \in Seq(Keys) /\ ToSet(cells(n)) = {<<q, r[j]>> : j \in DOMAIN r}
      BY <3>1, <3>2, <3>3 DEF ToSet
    <3>5. ASSUME NEW j \in DOMAIN r PROVE <<q, r[j]>> \in LiveCells(ros)
      <4>1. r[j] \in ToSet(ros[groupOf(q)])
        BY <2>1 DEF ToSet, r
      <4>2. QED
        BY <3>3, <4>1 DEF LiveCells
    <3>6. QED
      BY <3>4, <3>5 DEF q
  <2>4. QED
    BY <2>2, <2>3
<1> HIDE DEF cells
<1>3. parts \in Seq(Seq(Keys)) /\ Len(parts) = Len(Document)
  BY <1>2, PositionsFacts
<1>4. \A n \in 1 .. Len(parts) : n \in Positions /\ parts[n] = cells(n)
  BY <1>3, PositionsFacts
<1> HIDE DEF parts
<1>5. /\ FlattenSeq(parts) \in Seq(Keys)
      /\ \A n \in 1 .. Len(parts) : ToSet(parts[n]) \subseteq ToSet(FlattenSeq(parts))
  BY <1>3, FlattenPlaces
<1>6. PICK at \in [DOMAIN FlattenSeq(parts) -> 1 .. Len(parts)] :
        \A x \in DOMAIN FlattenSeq(parts) :
           /\ FlattenSeq(parts)[x] \in ToSet(parts[at[x]])
           /\ \A y \in DOMAIN FlattenSeq(parts) : x <= y => at[x] <= at[y]
  BY <1>3, FlattenPlaces
<1>7. ASSUME NEW x \in DOMAIN liveKeys(ros)
      PROVE  liveKeys(ros)[x] \in LiveCells(ros) /\ position(liveKeys(ros)[x][1]) = at[x]
  <2>1. at[x] \in 1 .. Len(parts) /\ liveKeys(ros)[x] \in ToSet(parts[at[x]])
    BY <1>1, <1>6
  <2>2. at[x] \in Positions /\ liveKeys(ros)[x] \in ToSet(cells(at[x]))
    BY <1>4, <2>1
  <2>3. QED
    BY <1>2, <2>2, PositionOf
<1>8. ASSUME NEW k \in LiveCells(ros) PROVE k \in ToSet(liveKeys(ros))
  <2> DEFINE n == position(k[1])
             r == ros[Document[n].group]
  <2>1. /\ k = <<k[1], k[2]>> /\ k[1] \in Questions /\ k[2] \in Instances \cup {None}
        /\ k[2] = None <=> groupOf(k[1]) = None
    BY KeysFacts DEF LiveCells
  <2>2. n \in Positions /\ Document[n].question = k[1] /\ groupOf(k[1]) = Document[n].group
    BY <2>1, PositionOf DEF groupOf
  <2>3. k \in ToSet(cells(n))
    <3>1. CASE k[2] = None
      <4>1. cells(n) = <<k>>
        BY <2>1, <2>2, <3>1 DEF cells
      <4>2. QED
        BY <4>1 DEF ToSet
    <3>2. CASE k[2] # None
      <4>1. k[2] \in ToSet(ros[Document[n].group])
        BY <2>2, <3>2 DEF LiveCells
      <4>2. PICK j \in DOMAIN ros[Document[n].group] : k[2] = ros[Document[n].group][j]
        BY <4>1 DEF ToSet
      <4>3. cells(n) = [i \in DOMAIN ros[Document[n].group] |-> <<k[1], ros[Document[n].group][i]>>]
        BY <2>1, <2>2, <3>2 DEF cells
      <4>4. cells(n)[j] = k /\ j \in DOMAIN cells(n)
        BY <2>1, <4>2, <4>3
      <4>5. QED
        BY <4>4 DEF ToSet
    <3>3. QED
      BY <3>1, <3>2
  <2>4. n \in 1 .. Len(parts) /\ parts[n] = cells(n)
    BY <1>3, <1>4, <2>2, PositionsFacts
  <2>5. QED
    BY <1>1, <1>5, <2>3, <2>4
<1>9. ToSet(liveKeys(ros)) = LiveCells(ros)
  BY <1>7, <1>8 DEF ToSet
<1>10. QED
  BY <1>1, <1>5, <1>6, <1>7, <1>9

-----------------------------------------------------------------------------
(* Recursion over a condition.                                             *)

\* The conditions a condition holds.
Parts(c) == IF c.op \in {"test", "instanceCount"} THEN {} ELSE c.of

LEMMA PartsFacts ==
    /\ \A c \in Conditions : Parts(c) \subseteq Conditions
    /\ \A C \in (SUBSET Conditions) \ {{}} : \E c \in C : Parts(c) \cap C = {}
    /\ \A c \in Conditions : c.op = "test" => c.question \in Questions
    /\ \A c \in Conditions :
         c.op \in {"anyInstance", "everyInstance", "instanceCount"} => c.group \in Groups
    /\ \A c \in Conditions : c.op \in {"test", "instanceCount", "anyInstance", "everyInstance",
                                       "and", "or", "not"}
<1>1. ASSUME NEW c \in Conditions
      PROVE  /\ Parts(c) \subseteq Conditions
             /\ c.op = "test" => c.question \in Questions
             /\ c.op \in {"anyInstance", "everyInstance", "instanceCount"} => c.group \in Groups
             /\ c.op \in {"test", "instanceCount", "anyInstance", "everyInstance",
                          "and", "or", "not"}
  <2>1. CASE c.op = "test" \/ c.op = "instanceCount"
    BY <2>1, ConditionsAssumption DEF Parts
  <2>2. CASE c.op \in {"anyInstance", "everyInstance"}
    BY <2>2, ConditionsAssumption DEF Parts
  <2>3. CASE c.op \notin {"test", "instanceCount", "anyInstance", "everyInstance"}
    BY <2>3, ConditionsAssumption DEF Parts
  <2>4. QED
    BY <2>1, <2>2, <2>3
<1>2. ASSUME NEW C \in (SUBSET Conditions) \ {{}} PROVE \E c \in C : Parts(c) \cap C = {}
  BY ConditionsAssumption DEF Parts
<1>3. QED
  BY <1>1, <1>2

\* Induction: what the parts of a condition hand on to it, all have.
LEMMA ConditionInduction ==
    ASSUME NEW D, \A c \in Conditions : Parts(c) \subseteq D => c \in D
    PROVE  Conditions \subseteq D
<1>1. SUFFICES ASSUME Conditions \ D # {} PROVE FALSE
  OBVIOUS
<1>2. PICK c \in Conditions \ D : Parts(c) \cap (Conditions \ D) = {}
  BY <1>1, PartsFacts
<1>3. QED
  BY <1>2, PartsFacts

\* h makes the value of a condition from those of its parts.
FromParts(h, A) ==
    \A c \in Conditions, f \in [Conditions -> A], g \in [Conditions -> A] :
       (\A d \in Parts(c) : f[d] = g[d]) => h[<<c, f>>] = h[<<c, g>>]

LEMMA ConditionRecursion ==
    ASSUME NEW A, NEW a \in A, NEW h \in [Conditions \X [Conditions -> A] -> A], FromParts(h, A)
    PROVE  \E f \in [Conditions -> A] : \A c \in Conditions : f[c] = h[<<c, f>>]
<1> DEFINE F == [Conditions -> A]
           Closed(D) == \A c \in D : Parts(c) \subseteq D
           Done(D, f) == \A c \in D : f[c] = h[<<c, f>>]
           Rest == {Conditions \ D : D \in {D \in SUBSET Conditions :
                                              Closed(D) /\ \E f \in F : Done(D, f)}}
<1>1. Rest \subseteq FiniteSubsetsOf(Conditions) /\ Rest # {}
  <2>1. Conditions \in Rest
    <3>1. Closed({})
      OBVIOUS
    <3>2. [c \in Conditions |-> a] \in F /\ Done({}, [c \in Conditions |-> a])
      OBVIOUS
    <3> HIDE DEF Closed, Done, F
    <3>3. {} \in {D \in SUBSET Conditions : Closed(D) /\ \E f \in F : Done(D, f)}
      BY <3>1, <3>2
    <3>4. Conditions = Conditions \ {}
      OBVIOUS
    <3>5. QED
      BY <3>3, <3>4
  <2>2. Rest \subseteq SUBSET Conditions
    <3> HIDE DEF Closed, Done, F
    <3>1. QED
      OBVIOUS
  <2>3. FiniteSubsetsOf(Conditions) = SUBSET Conditions
    BY ConditionsAssumption, FS_FiniteSubsetsOfFinite
  <2> HIDE DEF Rest
  <2>4. QED
    BY <2>1, <2>2, <2>3
<1>2. PICK R \in Rest : \A Q \in Rest : <<Q, R>> \notin StrictSubsetOrdering(Conditions)
  <2> HIDE DEF Rest
  <2>1. QED
    BY <1>1, ConditionsAssumption, FS_StrictSubsetOrderingWellFounded, WFMin
<1>3. PICK D \in SUBSET Conditions :
        R = Conditions \ D /\ Closed(D) /\ \E f \in F : Done(D, f)
  <2> HIDE DEF Closed, Done, F
  <2>1. QED
    BY <1>2
<1>4. PICK f \in F : Done(D, f)
  BY <1>3
<1>5. ASSUME D # Conditions PROVE FALSE
  <2>1. Conditions \ D \in (SUBSET Conditions) \ {{}}
    BY <1>5
  <2>2. PICK c \in Conditions \ D : Parts(c) \cap (Conditions \ D) = {}
    BY <2>1, PartsFacts
  <2>3. Parts(c) \subseteq D
    BY <2>2, PartsFacts
  <2> DEFINE e == [f EXCEPT ![c] = h[<<c, f>>]]
             E == D \cup {c}
  <2>4. <<c, f>> \in Conditions \X F /\ h[<<c, f>>] \in A
    OBVIOUS
  <2>5. e \in F /\ e[c] = h[<<c, f>>] /\ \A d \in D : e[d] = f[d]
    BY <2>4
  <2>6. Closed(E)
    BY <1>3, <2>3
  <2>7. Done(E, e)
    <3> HIDE DEF e
    <3>1. ASSUME NEW d \in E PROVE Parts(d) \subseteq D /\ d \in Conditions
      BY <1>3, <2>3, <3>1
    <3>2. ASSUME NEW d \in E PROVE h[<<d, e>>] = h[<<d, f>>]
      <4>1. \A b \in Parts(d) : e[b] = f[b]
        BY <2>5, <3>1
      <4>2. QED
        BY <2>5, <3>1, <4>1 DEF FromParts
    <3>3. ASSUME NEW d \in E PROVE e[d] = h[<<d, e>>]
      BY <1>4, <2>5, <3>2
    <3>4. QED
      BY <3>3
  <2> HIDE DEF e, Closed, Done, F
  <2>8. Conditions \ E \in Rest
    BY <1>3, <2>2, <2>5, <2>6, <2>7
  <2> HIDE DEF Rest
  <2>9. <<Conditions \ E, Conditions \ D>> \in StrictSubsetOrdering(Conditions)
    BY <2>2 DEF StrictSubsetOrdering
  <2>10. QED
    BY <1>2, <1>3, <2>8, <2>9
<1>6. QED
  BY <1>4, <1>5

\* The positions c reads, when f gives those its parts read.
ReadsStep(c, f) ==
    CASE c.op = "test" -> {position(c.question)}
      [] c.op = "instanceCount" -> {LastOf(c.group)}
      [] c.op \in {"anyInstance", "everyInstance"} ->
           {LastOf(c.group)} \cup UNION {f[d] : d \in c.of}
      [] OTHER -> UNION {f[d] : d \in c.of}

PartsRead(c, f) == UNION {f[d] : d \in Parts(c)}

LEMMA ReadsStepCases ==
    ASSUME NEW c \in Conditions, NEW f
    PROVE  /\ c.op = "test" => ReadsStep(c, f) = {position(c.question)}
           /\ c.op = "instanceCount" => ReadsStep(c, f) = {LastOf(c.group)}
           /\ c.op \in {"anyInstance", "everyInstance"} =>
                ReadsStep(c, f) = {LastOf(c.group)} \cup PartsRead(c, f)
           /\ c.op \in {"and", "or", "not"} => ReadsStep(c, f) = PartsRead(c, f)
<1>1. CASE c.op = "test"
  BY <1>1 DEF ReadsStep
<1>2. CASE c.op = "instanceCount"
  BY <1>2 DEF ReadsStep
<1>3. CASE c.op \in {"anyInstance", "everyInstance"}
  BY <1>3 DEF ReadsStep, Parts, PartsRead
<1>4. CASE c.op \in {"and", "or", "not"}
  BY <1>4 DEF ReadsStep, Parts, PartsRead
<1>5. QED
  BY <1>1, <1>2, <1>3, <1>4, PartsFacts

\* What Reads says of each kind of condition.
LEMMA ReadsFacts ==
    ASSUME NEW c \in Conditions
    PROVE  /\ Reads[c] \subseteq Positions
           /\ c.op = "test" => position(c.question) \in Reads[c]
           /\ c.op \in {"anyInstance", "everyInstance", "instanceCount"} => LastOf(c.group) \in Reads[c]
           /\ \A d \in Parts(c) : Reads[d] \subseteq Reads[c]
<1> DEFINE A == SUBSET Positions
           F == [Conditions -> A]
           h == [x \in Conditions \X F |-> ReadsStep(x[1], x[2])]
           Eq(f) == f = [b \in Conditions |-> ReadsStep(b, f)]
<1>1. ASSUME NEW b \in Conditions, NEW f \in F PROVE ReadsStep(b, f) \in A
  <2>1. PartsRead(b, f) \subseteq Positions
    BY <1>1, PartsFacts DEF PartsRead
  <2>2. /\ b.op = "test" => position(b.question) \in Positions
        /\ b.op \in {"anyInstance", "everyInstance", "instanceCount"} => LastOf(b.group) \in Positions
    BY PartsFacts, PositionOf, LastOfGroup
  <2>3. QED
    BY <2>1, <2>2, ReadsStepCases, PartsFacts
<1>2. ASSUME NEW b \in Conditions, NEW f \in F, NEW g \in F, \A d \in Parts(b) : f[d] = g[d]
      PROVE  ReadsStep(b, f) = ReadsStep(b, g)
  <2>1. PartsRead(b, f) = PartsRead(b, g)
    BY <1>2 DEF PartsRead
  <2> HIDE DEF F
  <2>2. CASE b.op \in {"test", "instanceCount"}
    BY <2>2, ReadsStepCases
  <2>3. CASE b.op \in {"anyInstance", "everyInstance"}
    BY <2>1, <2>3, ReadsStepCases
  <2>4. CASE b.op \in {"and", "or", "not"}
    BY <2>1, <2>4, ReadsStepCases
  <2>5. QED
    BY <2>2, <2>3, <2>4, PartsFacts
<1> HIDE DEF A
<1>3. h \in [Conditions \X F -> A] /\ \A b \in Conditions, f \in F : h[<<b, f>>] = ReadsStep(b, f)
  BY <1>1
<1> HIDE DEF h
<1>4. FromParts(h, A)
  BY <1>2, <1>3 DEF FromParts
<1>5. {} \in A
  BY DEF A
<1>6. PICK f \in F : \A b \in Conditions : f[b] = h[<<b, f>>]
  BY <1>3, <1>4, <1>5, ConditionRecursion
<1>7. Eq(f)
  BY <1>3, <1>6
<1>8. Eq(Reads)
  <2>1. Reads = CHOOSE e : Eq(e)
    BY DEF Reads, ReadsStep
  <2> HIDE DEF Eq
  <2>2. QED
    BY <1>7, <2>1
<1>9. \A b \in Conditions : Reads[b] = ReadsStep(b, Reads)
  BY <1>8
<1> DEFINE D == {b \in Conditions : Reads[b] \subseteq Positions}
<1>10. ASSUME NEW b \in Conditions, Parts(b) \subseteq D PROVE b \in D
  <2>1. PartsRead(b, Reads) \subseteq Positions
    BY <1>10 DEF PartsRead
  <2>2. /\ b.op = "test" => position(b.question) \in Positions
        /\ b.op \in {"anyInstance", "everyInstance", "instanceCount"} => LastOf(b.group) \in Positions
    BY PartsFacts, PositionOf, LastOfGroup
  <2>3. Reads[b] \subseteq Positions
    BY <1>9, <2>1, <2>2, ReadsStepCases, PartsFacts
  <2>4. QED
    BY <2>3
<1>11. Reads[c] \subseteq Positions
  <2>1. Conditions \subseteq D
    <3> HIDE DEF D
    <3>1. QED
      BY <1>10, ConditionInduction
  <2>2. QED
    BY <2>1
<1>12. c.op = "test" => position(c.question) \in Reads[c]
  BY <1>9, ReadsStepCases
<1>13. c.op \in {"anyInstance", "everyInstance", "instanceCount"} => LastOf(c.group) \in Reads[c]
  BY <1>9, ReadsStepCases
<1>14. ASSUME NEW d \in Parts(c) PROVE Reads[d] \subseteq Reads[c]
  <2>1. c.op \notin {"test", "instanceCount"}
    BY <1>14 DEF Parts
  <2>2. PartsRead(c, Reads) \subseteq Reads[c]
    BY <1>9, <2>1, ReadsStepCases, PartsFacts
  <2>3. QED
    BY <1>14, <2>2 DEF PartsRead
<1>15. QED
  BY <1>12, <1>13, <1>14, <1>11

\* The scopes in which c holds, when f gives those in which its parts do.
HoldsStep(as, settled, ros, c, f) ==
    {scope \in Scopes :
       LET inInstance(i) == \A d \in c.of : withInstance(scope, c.group, i) \in f[d]
       IN CASE c.op = "and" -> \A d \in c.of : scope \in f[d]
            [] c.op = "or" -> \E d \in c.of : scope \in f[d]
            [] c.op = "not" -> \A d \in c.of : scope \notin f[d]
            [] c.op = "anyInstance" -> \E i \in ToSet(ros[c.group]) : inInstance(i)
            [] c.op = "everyInstance" -> /\ ros[c.group] # <<>>
                                         /\ \A i \in ToSet(ros[c.group]) : inInstance(i)
            [] c.op = "instanceCount" -> Len(ros[c.group]) \in c.accepts
            [] OTHER -> effective(as, settled, c.question, scope) \in c.accepts}

\* All the parts of c hold in instance i of its group.
InInstance(c, f, scope, i) == \A d \in Parts(c) : withInstance(scope, c.group, i) \in f[d]

\* Where a condition of each kind holds.
LEMMA HoldsAnd ==
    ASSUME NEW as, NEW settled, NEW ros, NEW c \in Conditions, NEW f, NEW scope \in Scopes,
           c.op = "and"
    PROVE  scope \in HoldsStep(as, settled, ros, c, f)
             <=> \A d \in Parts(c) : scope \in f[d]
BY Zenon DEF HoldsStep, Parts

LEMMA HoldsOr ==
    ASSUME NEW as, NEW settled, NEW ros, NEW c \in Conditions, NEW f, NEW scope \in Scopes,
           c.op = "or"
    PROVE  scope \in HoldsStep(as, settled, ros, c, f)
             <=> \E d \in Parts(c) : scope \in f[d]
BY Zenon DEF HoldsStep, Parts

LEMMA HoldsNot ==
    ASSUME NEW as, NEW settled, NEW ros, NEW c \in Conditions, NEW f, NEW scope \in Scopes,
           c.op = "not"
    PROVE  scope \in HoldsStep(as, settled, ros, c, f)
             <=> \A d \in Parts(c) : scope \notin f[d]
BY Zenon DEF HoldsStep, Parts

LEMMA HoldsAny ==
    ASSUME NEW as, NEW settled, NEW ros, NEW c \in Conditions, NEW f, NEW scope \in Scopes,
           c.op = "anyInstance"
    PROVE  scope \in HoldsStep(as, settled, ros, c, f)
             <=> \E i \in ToSet(ros[c.group]) : InInstance(c, f, scope, i)
BY Zenon DEF HoldsStep, Parts, InInstance

LEMMA HoldsEvery ==
    ASSUME NEW as, NEW settled, NEW ros, NEW c \in Conditions, NEW f, NEW scope \in Scopes,
           c.op = "everyInstance"
    PROVE  scope \in HoldsStep(as, settled, ros, c, f)
             <=> /\ ros[c.group] # <<>>
                /\ \A i \in ToSet(ros[c.group]) : InInstance(c, f, scope, i)
BY Zenon DEF HoldsStep, Parts, InInstance

LEMMA HoldsCount ==
    ASSUME NEW as, NEW settled, NEW ros, NEW c \in Conditions, NEW f, NEW scope \in Scopes,
           c.op = "instanceCount"
    PROVE  scope \in HoldsStep(as, settled, ros, c, f)
             <=> Len(ros[c.group]) \in c.accepts
BY Zenon DEF HoldsStep

LEMMA HoldsTest ==
    ASSUME NEW as, NEW settled, NEW ros, NEW c \in Conditions, NEW f, NEW scope \in Scopes,
           c.op = "test"
    PROVE  scope \in HoldsStep(as, settled, ros, c, f)
             <=> effective(as, settled, c.question, scope) \in c.accepts
BY Zenon DEF HoldsStep

LEMMA ScopesFacts ==
    /\ NoScope \in Scopes
    /\ \A scope \in Scopes, g \in Groups \cup {None}, i \in Instances \cup {None} :
         withInstance(scope, g, i) \in Scopes
BY DEF NoScope, Scopes, withInstance

\* evalCondition is the function that HoldsStep goes on with.
LEMMA EvalFacts ==
    ASSUME NEW as, NEW settled, NEW ros \in Rosters
    PROVE  \E holds \in [Conditions -> SUBSET Scopes] :
             /\ \A c \in Conditions : holds[c] = HoldsStep(as, settled, ros, c, holds)
             /\ \A c \in Conditions : \A scope :
                  evalCondition(as, settled, ros, c, scope) <=> scope \in holds[c]
<1> DEFINE A == SUBSET Scopes
           F == [Conditions -> A]
           h == [x \in Conditions \X F |-> HoldsStep(as, settled, ros, x[1], x[2])]
           Eq(f) == f = [b \in Conditions |-> HoldsStep(as, settled, ros, b, f)]
           holds == CHOOSE f : Eq(f)
<1>1. ASSUME NEW b \in Conditions, NEW f PROVE HoldsStep(as, settled, ros, b, f) \in A
  BY Zenon DEF HoldsStep
<1>2. ASSUME NEW b \in Conditions, NEW f \in F, NEW g \in F, \A d \in Parts(b) : f[d] = g[d]
      PROVE  HoldsStep(as, settled, ros, b, f) = HoldsStep(as, settled, ros, b, g)
  <2>1. ASSUME NEW scope \in Scopes
        PROVE  scope \in HoldsStep(as, settled, ros, b, f) <=> scope \in HoldsStep(as, settled, ros, b, g)
    <3>1. \A i : InInstance(b, f, scope, i) <=> InInstance(b, g, scope, i)
      BY <1>2 DEF InInstance
    <3> HIDE DEF F
    <3>2. \A d \in Parts(b) : scope \in f[d] <=> scope \in g[d]
      BY <1>2
    <3>3. CASE b.op \in {"and", "or", "not"}
      <4>1. CASE b.op = "and"
        BY <3>2, <4>1, HoldsAnd, Zenon
      <4>2. CASE b.op = "or"
        BY <3>2, <4>2, HoldsOr, Zenon
      <4>3. CASE b.op = "not"
        <5>1. (\A d \in Parts(b) : scope \notin f[d]) <=> \A d \in Parts(b) : scope \notin g[d]
          BY <3>2
        <5>2. QED
          BY <4>3, <5>1, HoldsNot, Zenon
      <4>4. QED
        BY <3>3, <4>1, <4>2, <4>3
    <3>4. CASE b.op = "anyInstance"
      BY <3>1, <3>4, HoldsAny, Zenon
    <3>5. CASE b.op = "everyInstance"
      BY <3>1, <3>5, HoldsEvery, Zenon
    <3>6. CASE b.op = "instanceCount"
      BY <3>6, HoldsCount, Zenon
    <3>7. CASE b.op = "test"
      BY <3>7, HoldsTest, Zenon
    <3>8. QED
      BY <3>3, <3>4, <3>5, <3>6, <3>7, PartsFacts
  <2>2. HoldsStep(as, settled, ros, b, f) \subseteq Scopes
        /\ HoldsStep(as, settled, ros, b, g) \subseteq Scopes
    BY <1>1
  <2>3. QED
    BY <2>1, <2>2
<1>3. {} \in A
  OBVIOUS
<1> HIDE DEF A
<1>4. h \in [Conditions \X F -> A]
  /\ \A b \in Conditions, f \in F : h[<<b, f>>] = HoldsStep(as, settled, ros, b, f)
  BY <1>1
<1> HIDE DEF h
<1>5. FromParts(h, A)
  <2>1. ASSUME NEW b \in Conditions, NEW f \in F, NEW g \in F, \A d \in Parts(b) : f[d] = g[d]
        PROVE  h[<<b, f>>] = h[<<b, g>>]
    <3>1. HoldsStep(as, settled, ros, b, f) = HoldsStep(as, settled, ros, b, g)
      BY <1>2, <2>1
    <3> HIDE DEF F
    <3>2. QED
      BY <1>4, <3>1, Zenon
  <2>2. QED
    BY <2>1, Zenon DEF FromParts
<1>6. PICK f \in F : \A b \in Conditions : f[b] = h[<<b, f>>]
  BY <1>3, <1>4, <1>5, ConditionRecursion
<1>7. Eq(f)
  BY <1>4, <1>6
<1>8. Eq(holds)
  <2> HIDE DEF Eq
  <2>1. QED
    BY <1>7
<1>9. ASSUME NEW c \in Conditions, NEW scope
      PROVE  evalCondition(as, settled, ros, c, scope) <=> scope \in holds[c]
  BY Zenon DEF evalCondition, HoldsStep
<1> HIDE DEF holds
<1>10. \A c \in Conditions : holds[c] = HoldsStep(as, settled, ros, c, holds)
  BY <1>8
<1>11. holds \in [Conditions -> SUBSET Scopes]
  BY <1>1, <1>8 DEF A
<1>12. QED
  BY <1>9, <1>10, <1>11

-----------------------------------------------------------------------------
(* What a condition can tell apart.                                        *)

\* What the cell k counts for once the cells of settled are.
counted(as, settled, k) == IF k \in settled THEN as[k] ELSE None

\* Two readings of a form, the answers as in the cells S and the answers bs
\* in the cells T, agree at the positions B and for the instances C.
Agree(as, S, ros, bs, T, sor, B, C) ==
    /\ \A k \in Keys : position(k[1]) \in B /\ (k[2] = None \/ k[2] \in C[groupOf(k[1])])
         => counted(as, S, k) = counted(bs, T, k)
    /\ \A g \in Groups : LastOf(g) \in B => ros[g] = sor[g] /\ ToSet(ros[g]) \subseteq C[g]

Within(scope, C) == \A g \in Groups : scope[g] \in C[g] \cup {None}

\* A condition that reads no further than two readings agree is as true in
\* one as in the other.
LEMMA HoldsAgrees ==
    ASSUME NEW as, NEW bs, NEW S \in SUBSET Keys, NEW T \in SUBSET Keys,
           NEW ros \in Rosters, NEW sor \in Rosters,
           NEW B, NEW C \in [Groups -> SUBSET Instances], Agree(as, S, ros, bs, T, sor, B, C),
           NEW condition \in Conditions, Reads[condition] \subseteq B,
           NEW inScope \in Scopes, Within(inScope, C)
    PROVE  evalCondition(as, S, ros, condition, inScope) <=> evalCondition(bs, T, sor, condition, inScope)
<1>1. PICK f \in [Conditions -> SUBSET Scopes] :
        /\ \A c \in Conditions : f[c] = HoldsStep(as, S, ros, c, f)
        /\ \A c \in Conditions : \A scope : evalCondition(as, S, ros, c, scope) <=> scope \in f[c]
  BY EvalFacts
<1>2. PICK g \in [Conditions -> SUBSET Scopes] :
        /\ \A c \in Conditions : g[c] = HoldsStep(bs, T, sor, c, g)
        /\ \A c \in Conditions : \A scope : evalCondition(bs, T, sor, c, scope) <=> scope \in g[c]
  BY EvalFacts
<1> DEFINE Same(c) == \A scope \in Scopes : Within(scope, C) => (scope \in f[c] <=> scope \in g[c])
           D == {c \in Conditions : Reads[c] \subseteq B => Same(c)}
<1>3. ASSUME NEW c \in Conditions, Parts(c) \subseteq D, Reads[c] \subseteq B,
             NEW scope \in Scopes, Within(scope, C)
      PROVE  scope \in f[c] <=> scope \in g[c]
  <2>1. \A d \in Parts(c) : d \in Conditions /\ Reads[d] \subseteq B /\ Same(d)
    BY <1>3, ReadsFacts
  <2>2. \A d \in Parts(c) : scope \in f[d] <=> scope \in g[d]
    BY <1>3, <2>1
  <2>3. /\ scope \in f[c] <=> scope \in HoldsStep(as, S, ros, c, f)
        /\ scope \in g[c] <=> scope \in HoldsStep(bs, T, sor, c, g)
    BY <1>1, <1>2
  <2>4. CASE c.op \in {"anyInstance", "everyInstance", "instanceCount"}
    <3>1. c.group \in Groups /\ LastOf(c.group) \in B
      BY <1>3, <2>4, PartsFacts, ReadsFacts
    <3>2. ros[c.group] = sor[c.group] /\ ToSet(ros[c.group]) \subseteq C[c.group]
      BY <3>1 DEF Agree
    <3>3. ASSUME NEW i \in ToSet(ros[c.group])
          PROVE  InInstance(c, f, scope, i) <=> InInstance(c, g, scope, i)
      <4>1. i \in Instances /\ i \in C[c.group]
        BY <3>1, <3>2, <3>3
      <4>2. withInstance(scope, c.group, i) \in Scopes
        BY <3>1, <4>1, ScopesFacts
      <4>3. Within(withInstance(scope, c.group, i), C)
        BY <1>3, <3>1, <4>1 DEF Within, withInstance, Scopes
      <4>4. \A d \in Parts(c) :
              withInstance(scope, c.group, i) \in f[d] <=> withInstance(scope, c.group, i) \in g[d]
        BY <2>1, <4>2, <4>3
      <4>5. QED
        BY <4>4 DEF InInstance
    <3>4. ToSet(ros[c.group]) = ToSet(sor[c.group])
      BY <3>2
    <3> HIDE DEF D, Same
    <3>5. CASE c.op = "anyInstance"
      <4>1. scope \in f[c] <=> \E i \in ToSet(ros[c.group]) : InInstance(c, f, scope, i)
        BY <2>3, <3>5, HoldsAny, Zenon
      <4>2. scope \in g[c] <=> \E i \in ToSet(sor[c.group]) : InInstance(c, g, scope, i)
        BY <2>3, <3>5, HoldsAny, Zenon
      <4>3. QED
        BY <3>3, <3>4, <4>1, <4>2
    <3>6. CASE c.op = "everyInstance"
      <4>1. scope \in f[c] <=> /\ ros[c.group] # <<>>
                               /\ \A i \in ToSet(ros[c.group]) : InInstance(c, f, scope, i)
        BY <2>3, <3>6, HoldsEvery, Zenon
      <4>2. scope \in g[c] <=> /\ sor[c.group] # <<>>
                               /\ \A i \in ToSet(sor[c.group]) : InInstance(c, g, scope, i)
        BY <2>3, <3>6, HoldsEvery, Zenon
      <4>3. QED
        BY <3>2, <3>3, <4>1, <4>2
    <3>7. CASE c.op = "instanceCount"
      <4>1. scope \in f[c] <=> Len(ros[c.group]) \in c.accepts
        BY <2>3, <3>7, HoldsCount, Zenon
      <4>2. scope \in g[c] <=> Len(sor[c.group]) \in c.accepts
        BY <2>3, <3>7, HoldsCount, Zenon
      <4>3. QED
        BY <3>2, <4>1, <4>2
    <3>8. QED
      BY <2>4, <3>5, <3>6, <3>7
  <2>5. CASE c.op = "test"
    <3>1. c.question \in Questions /\ position(c.question) \in B
      BY <1>3, <2>5, PartsFacts, ReadsFacts
    <3> HIDE DEF D, Same
    <3>2. effective(as, S, c.question, scope) = effective(bs, T, c.question, scope)
      <4> DEFINE q == c.question
                 x == IF groupOf(q) = None THEN None ELSE scope[groupOf(q)]
                 key == <<q, x>>
      <4>1. effective(as, S, q, scope) = counted(as, S, key)
            /\ effective(bs, T, q, scope) = counted(bs, T, key)
        BY Zenon DEF effective, counted
      <4>2. groupOf(q) # None => groupOf(q) \in Groups /\ x \in C[groupOf(q)] \cup {None}
        BY <1>3, <3>1, GroupOf DEF Within
      <4>3. key[1] = q /\ key[2] = x /\ position(q) \in B
        BY <3>1
      <4>4. x = None \/ x \in C[groupOf(q)]
        BY <4>2
      <4> HIDE DEF q, x, key
      <4>5. key \in Keys => counted(as, S, key) = counted(bs, T, key)
        BY <4>3, <4>4 DEF Agree
      <4>6. key \notin Keys => counted(as, S, key) = counted(bs, T, key)
        BY DEF counted
      <4>7. QED
        BY <4>1, <4>5, <4>6 DEF q
    <3>3. scope \in f[c] <=> effective(as, S, c.question, scope) \in c.accepts
      BY <2>3, <2>5, HoldsTest, Zenon
    <3>4. scope \in g[c] <=> effective(bs, T, c.question, scope) \in c.accepts
      BY <2>3, <2>5, HoldsTest, Zenon
    <3>5. QED
      BY <3>2, <3>3, <3>4
  <2>6. CASE c.op = "and"
    BY <2>2, <2>3, <2>6, HoldsAnd, Zenon
  <2>7. CASE c.op = "or"
    BY <2>2, <2>3, <2>7, HoldsOr, Zenon
  <2>8. CASE c.op = "not"
    <3>1. (\A d \in Parts(c) : scope \notin f[d]) <=> \A d \in Parts(c) : scope \notin g[d]
      BY <2>2
    <3>2. QED
      BY <2>3, <2>8, <3>1, HoldsNot, Zenon
  <2>9. QED
    BY <2>4, <2>5, <2>6, <2>7, <2>8, PartsFacts
<1>4. \A c \in Conditions : Parts(c) \subseteq D => c \in D
  BY <1>3
<1>5. condition \in D
  <2> HIDE DEF D
  <2>1. QED
    BY <1>4, ConditionInduction
<1>6. inScope \in f[condition] <=> inScope \in g[condition]
  BY <1>5
<1>7. QED
  BY <1>1, <1>2, <1>6

-----------------------------------------------------------------------------
(* What a rule can tell apart.                                             *)

LooksForward(rs) == \A r \in rs : r.when \in Conditions /\ ForwardOnly(r)

LEMMA AcceptedLooksForward ==
    ASSUME NEW rs \in RuleSets, analyzeRuleGraph(rs)
    PROVE  LooksForward(rs)
BY RulesAssumption, Zenon DEF LooksForward, analyzeRuleGraph

LEMMA AnyRuleAgrees ==
    ASSUME NEW rs, LooksForward(rs),
           NEW as, NEW bs, NEW S \in SUBSET Keys, NEW T \in SUBSET Keys,
           NEW ros \in Rosters, NEW sor \in Rosters,
           NEW B, NEW C \in [Groups -> SUBSET Instances], Agree(as, S, ros, bs, T, sor, B, C),
           NEW target, \A r \in rs : target \in r.show => Reads[r.when] \subseteq B,
           NEW scope \in Scopes, Within(scope, C)
    PROVE  anyRuleTrue(rs, as, S, ros, target, scope) <=> anyRuleTrue(rs, bs, T, sor, target, scope)
<1>1. ASSUME NEW r \in rs, target \in r.show
      PROVE  evalCondition(as, S, ros, r.when, scope) <=> evalCondition(bs, T, sor, r.when, scope)
  <2> DEFINE condition == r.when
  <2>1. condition \in Conditions /\ Reads[condition] \subseteq B
    BY <1>1 DEF LooksForward
  <2> HIDE DEF condition
  <2>2. evalCondition(as, S, ros, condition, scope) <=> evalCondition(bs, T, sor, condition, scope)
    BY <2>1, HoldsAgrees
  <2>3. QED
    BY <2>2 DEF condition
<1>2. QED
  BY <1>1 DEF anyRuleTrue

\* The positions before all of a step, and before a question.
BeforeStep(s) == {n \in Positions : \A m \in Positions : Document[m].step = s => n < m}
BeforeKey(key) == {n \in Positions : n < position(key[1])}

LEMMA StepShownAgrees ==
    ASSUME NEW rs, LooksForward(rs),
           NEW as, NEW bs, NEW S \in SUBSET Keys, NEW T \in SUBSET Keys,
           NEW ros \in Rosters, NEW sor \in Rosters,
           NEW C \in [Groups -> SUBSET Instances], NEW s,
           Agree(as, S, ros, bs, T, sor, BeforeStep(s), C)
    PROVE  stepShown(rs, as, S, ros, s) <=> stepShown(rs, bs, T, sor, s)
<1> DEFINE B == BeforeStep(s)
           S1 == settledBefore(s, S)
           T1 == settledBefore(s, T)
<1>1. S1 \in SUBSET Keys /\ T1 \in SUBSET Keys
  BY DEF settledBefore
<1>2. ASSUME NEW k \in Keys, position(k[1]) \in B
      PROVE  counted(as, S1, k) = counted(as, S, k) /\ counted(bs, T1, k) = counted(bs, T, k)
  BY <1>2 DEF counted, settledBefore, BeforeStep
<1>3. Agree(as, S1, ros, bs, T1, sor, B, C)
  <2> HIDE DEF B, S1, T1
  <2>1. Agree(as, S, ros, bs, T, sor, B, C)
    BY DEF B
  <2>2. QED
    BY <1>2, <2>1 DEF Agree
<1>4. ASSUME NEW r \in rs, s \in r.show PROVE Reads[r.when] \subseteq B
  <2>1. \A n \in Reads[r.when], m \in TargetPositions(s) : n < m
    BY <1>4 DEF LooksForward, ForwardOnly
  <2>2. \A m \in Positions : Document[m].step = s => m \in TargetPositions(s)
    BY DEF TargetPositions
  <2>3. Reads[r.when] \subseteq Positions
    BY <1>4, ReadsFacts DEF LooksForward
  <2>4. QED
    BY <2>1, <2>2, <2>3 DEF BeforeStep
<1>5. NoScope \in Scopes /\ Within(NoScope, C)
  BY ScopesFacts DEF Within, NoScope
<1> HIDE DEF B, S1, T1
<1>6. anyRuleTrue(rs, as, S1, ros, s, NoScope) <=> anyRuleTrue(rs, bs, T1, sor, s, NoScope)
  BY <1>1, <1>3, <1>4, <1>5, AnyRuleAgrees
<1>7. QED
  BY <1>6 DEF stepShown, S1, T1

\* Whether a cell is shown depends on what lies before it only.
LEMMA WalkAgrees ==
    ASSUME NEW rs, LooksForward(rs),
           NEW as, NEW bs, NEW S \in SUBSET Keys, NEW T \in SUBSET Keys,
           NEW ros \in Rosters, NEW sor \in Rosters,
           NEW C \in [Groups -> SUBSET Instances], NEW key \in Keys,
           key[2] = None \/ key[2] \in C[groupOf(key[1])],
           Agree(as, S, ros, bs, T, sor, BeforeKey(key), C)
    PROVE  walkQuestion(rs, as, S, ros, key) <=> walkQuestion(rs, bs, T, sor, key)
<1> DEFINE q == key[1]
           s == stepOf(q)
           scope == withInstance(NoScope, groupOf(q), key[2])
<1>1. q \in Questions /\ position(q) \in Positions /\ Document[position(q)].step = s
      /\ Document[position(q)].question = q
      /\ key[2] \in Instances \cup {None} /\ (key[2] = None <=> groupOf(q) = None)
      /\ groupOf(q) \in Groups \cup {None}
  BY KeysFacts, PositionOf, GroupOf DEF stepOf
<1>2. BeforeStep(s) \subseteq BeforeKey(key)
  <2> HIDE DEF s
  <2>1. QED
    BY <1>1 DEF BeforeStep, BeforeKey
<1>3. Agree(as, S, ros, bs, T, sor, BeforeStep(s), C)
  <2> HIDE DEF s
  <2>1. QED
    BY <1>2 DEF Agree
<1>4. stepShown(rs, as, S, ros, s) <=> stepShown(rs, bs, T, sor, s)
  <2> HIDE DEF s
  <2>1. QED
    BY <1>3, StepShownAgrees
<1>5. ASSUME NEW r \in rs, q \in r.show PROVE Reads[r.when] \subseteq BeforeKey(key)
  <2>1. \A n \in Reads[r.when], m \in TargetPositions(q) : n < m
    BY <1>5 DEF LooksForward, ForwardOnly
  <2>2. position(q) \in TargetPositions(q)
    BY <1>1 DEF TargetPositions
  <2>3. Reads[r.when] \subseteq Positions
    BY <1>5, ReadsFacts DEF LooksForward
  <2>4. QED
    BY <2>1, <2>2, <2>3 DEF BeforeKey
<1>6. scope \in Scopes
  BY <1>1, ScopesFacts
<1>7. Within(scope, C)
  <2>1. \A g \in Groups : scope[g] = None \/ (g = groupOf(q) /\ scope[g] = key[2])
    BY <1>1 DEF withInstance, NoScope
  <2> HIDE DEF scope
  <2>2. QED
    BY <2>1 DEF Within
<1> HIDE DEF q, scope
<1>8. anyRuleTrue(rs, as, S, ros, q, scope) <=> anyRuleTrue(rs, bs, T, sor, q, scope)
  BY <1>5, <1>6, <1>7, AnyRuleAgrees
<1>9. QED
  BY <1>4, <1>8, Zenon DEF walkQuestion, q, scope

-----------------------------------------------------------------------------
(* What the forward pass settles.                                          *)

\* V is what can be seen of the live cells, when what is in V is what counts.
Settled(rs, as, ros, V) ==
    /\ V \subseteq LiveCells(ros)
    /\ \A k \in LiveCells(ros) : k \in V <=> walkQuestion(rs, as, V, ros, k)

\* w is the cells seen when the pass has come to each of the live cells l.
Walks(rs, as, ros, l, w) ==
    /\ w[0] = <<>>
    /\ \A n \in 1 .. Len(l) :
         w[n] = IF walkQuestion(rs, as, ToSet(w[n - 1]), ros, l[n])
                THEN Append(w[n - 1], l[n]) ELSE w[n - 1]

LEMMA Walked ==
    ASSUME NEW rs, NEW as, NEW ros \in Rosters
    PROVE  \E w \in [0 .. Len(liveKeys(ros)) -> Seq(Keys)] :
             /\ Walks(rs, as, ros, liveKeys(ros), w)
             /\ visibleKeys(rs, as, ros) = w[Len(liveKeys(ros))]
<1> DEFINE l == liveKeys(ros)
           L == Len(l)
           A == Seq(Keys)
           none == <<>>
           step(n, seen) == IF walkQuestion(rs, as, ToSet(seen), ros, l[n]) THEN Append(seen, l[n]) ELSE seen
           h == [x \in (1 .. L) \X A |-> step(x[1], x[2])]
           Eq(w) == w = [n \in 0 .. L |-> IF n = 0 THEN <<>> ELSE step(n, w[n - 1])]
           walked == CHOOSE w : Eq(w)
<1>1. l \in Seq(Keys)
  BY LiveKeysFacts
<1>2. visibleKeys(rs, as, ros) = walked[L]
  BY Zenon DEF visibleKeys
<1> HIDE DEF l
<1>3. L \in Nat /\ \A n \in 1 .. L : l[n] \in Keys
  BY <1>1
<1>4. ASSUME NEW n \in 1 .. L, NEW seen \in A PROVE step(n, seen) \in A
  <2>1. Append(seen, l[n]) \in A
    BY <1>3
  <2> HIDE DEF A
  <2>2. QED
    BY <2>1
<1>5. none \in A
  OBVIOUS
<1> HIDE DEF L, step, A
<1>6. h \in [(1 .. L) \X A -> A] /\ \A n \in 1 .. L, seen \in A : h[<<n, seen>>] = step(n, seen)
  BY <1>4
<1> HIDE DEF h, none
<1>7. PICK v \in [0 .. L -> A] : Proceeds(v, none, L, h)
  BY <1>3, <1>5, <1>6, StepByStep
<1>8. ASSUME NEW n \in 0 .. L
      PROVE  v[n] = IF n = 0 THEN <<>> ELSE step(n, v[n - 1])
  <2>1. CASE n = 0
    BY <1>7, <2>1 DEF Proceeds, none
  <2>2. CASE n # 0
    <3>1. n \in 1 .. L /\ n - 1 \in 0 .. L
      BY <1>3, <2>2
    <3>2. v[n] = h[<<n, v[n - 1]>>] /\ v[n - 1] \in A
      BY <1>7, <3>1 DEF Proceeds
    <3>3. QED
      BY <1>6, <2>2, <3>1, <3>2
  <2>3. QED
    BY <2>1, <2>2
<1>9. Eq(v)
  BY <1>8
<1>10. Eq(walked)
  <2> HIDE DEF Eq
  <2>1. QED
    BY <1>9
<1> HIDE DEF walked
<1>11. walked[0] = none /\ \A n \in 1 .. L : walked[n] = step(n, walked[n - 1])
  BY <1>3, <1>10 DEF none
<1>12. Walks(rs, as, ros, l, walked)
  BY <1>11, Zenon DEF Walks, L, step, none
<1>13. walked \in [0 .. L -> A]
  <2> DEFINE S == {n \in Nat : n \in 0 .. L => walked[n] \in A}
  <2>1. 0 \in S
    BY <1>5, <1>11
  <2>2. ASSUME NEW n \in 1 .. L, n - 1 \in S PROVE n \in S
    <3>1. walked[n - 1] \in A
      BY <1>3, <2>2
    <3>2. walked[n] \in A
      BY <1>4, <1>11, <3>1
    <3>3. QED
      BY <1>3, <3>2
  <2>3. 0 .. L \subseteq S
    <3> HIDE DEF S
    <3>1. QED
      BY <1>3, <2>1, <2>2, AllNumbers
  <2>4. \A n \in 0 .. L : walked[n] \in A
    BY <2>3
  <2>5. QED
    BY <1>10, <2>4
<1>14. QED
  BY <1>2, <1>12, <1>13 DEF A, L, l

\* When it has come to the n-th, the pass has seen the cells that passed.
Saw(rs, as, ros, l, w, n) ==
    \A k : k \in ToSet(w[n]) <=>
             \E i \in 1 .. n : k = l[i] /\ walkQuestion(rs, as, ToSet(w[i - 1]), ros, l[i])

LEMMA WalkedCells ==
    ASSUME NEW rs, NEW as, NEW ros, NEW l \in Seq(Keys), NEW w \in [0 .. Len(l) -> Seq(Keys)],
           Walks(rs, as, ros, l, w), NEW n \in 0 .. Len(l)
    PROVE  Saw(rs, as, ros, l, w, n)
<1> DEFINE seen(i) == walkQuestion(rs, as, ToSet(w[i - 1]), ros, l[i])
           On(m) == \A k : k \in ToSet(w[m]) <=> \E i \in 1 .. m : k = l[i] /\ seen(i)
           S == {m \in Nat : m <= Len(l) => On(m)}
<1>1. Len(l) \in Nat /\ \A m \in 1 .. Len(l) : l[m] \in Keys /\ w[m - 1] \in Seq(Keys)
  <2>1. Len(l) \in Nat /\ \A m \in 1 .. Len(l) : l[m] \in Keys
    OBVIOUS
  <2>2. \A m \in 1 .. Len(l) : m - 1 \in 0 .. Len(l)
    BY <2>1
  <2>3. QED
    BY <2>1, <2>2
<1>2. \A m \in 1 .. Len(l) : w[m] = IF seen(m) THEN Append(w[m - 1], l[m]) ELSE w[m - 1]
  BY Zenon DEF Walks
<1> HIDE DEF seen
<1>3. On(0)
  <2>1. ToSet(<<>>) = {}
    BY DEF ToSet
  <2>2. ToSet(w[0]) = {}
    BY <2>1, Zenon DEF Walks
  <2>3. QED
    BY <2>2
<1>4. ASSUME NEW m \in 1 .. Len(l), On(m - 1) PROVE On(m)
  <2> DEFINE a == w[m - 1]
             x == l[m]
  <2>1. a \in Seq(Keys) /\ x \in Keys /\ w[m] = IF seen(m) THEN Append(a, x) ELSE a
    BY <1>1, <1>2
  <2>2. \A k : k \in ToSet(a) <=> \E i \in 1 .. m - 1 : k = l[i] /\ seen(i)
    BY <1>4
  <2> HIDE DEF a
  <2>3. \A i : i \in 1 .. m <=> (i \in 1 .. m - 1 \/ i = m)
    BY <1>1
  <2>4. CASE seen(m)
    <3>1. w[m] = Append(a, x) /\ a \in Seq(Keys)
      BY <2>1, <2>4
    <3> HIDE DEF x
    <3>2. /\ Len(Append(a, x)) = Len(a) + 1 /\ Len(a) \in Nat
          /\ Append(a, x)[Len(a) + 1] = x
          /\ \A i \in 1 .. Len(a) : Append(a, x)[i] = a[i]
          /\ DOMAIN a = 1 .. Len(a) /\ DOMAIN Append(a, x) = 1 .. Len(a) + 1
      BY <3>1
    <3> DEFINE b == Append(a, x)
    <3>3. \A k : (\E i \in DOMAIN b : k = b[i]) <=> (k = x \/ \E i \in DOMAIN a : k = a[i])
      <4> HIDE DEF b
      <4>1. DOMAIN b = 1 .. Len(a) + 1 /\ b[Len(a) + 1] = x /\ \A i \in 1 .. Len(a) : b[i] = a[i]
        BY <3>2 DEF b
      <4>2. \A i : i \in 1 .. Len(a) + 1 <=> (i \in 1 .. Len(a) \/ i = Len(a) + 1)
        BY <3>2
      <4>3. \A i : i \in DOMAIN b <=> (i \in DOMAIN a \/ i = Len(a) + 1)
        BY <3>2, <4>1, <4>2, Zenon
      <4>4. \A i \in DOMAIN a : b[i] = a[i]
        BY <3>2, <4>1, Zenon
      <4>5. QED
        BY <4>1, <4>3, <4>4, Zenon
    <3>4. \A k : k \in ToSet(b) <=> (k = x \/ k \in ToSet(a))
      BY <3>3 DEF ToSet
    <3> HIDE DEF b
    <3>5. \A k : k \in ToSet(w[m]) <=> (k = x \/ k \in ToSet(a))
      BY <3>1, <3>4 DEF b
    <3>6. QED
      BY <2>2, <2>3, <2>4, <3>5 DEF x
  <2>5. CASE ~seen(m)
    <3>1. w[m] = a
      BY <2>1, <2>5
    <3>2. QED
      BY <2>2, <2>3, <2>5, <3>1
  <2>6. QED
    BY <2>4, <2>5
<1> HIDE DEF On
<1>5. 0 \in S
  BY <1>3
<1>6. ASSUME NEW m \in 1 .. Len(l), m - 1 \in S PROVE m \in S
  BY <1>1, <1>4, <1>6
<1>7. n \in Nat /\ n <= Len(l)
  BY <1>1
<1>8. n \in S
  <2> HIDE DEF S
  <2>1. QED
    BY <1>1, <1>5, <1>6, AllNumbers
<1>9. QED
  BY <1>7, <1>8 DEF Saw, On, seen

\* The pass settles the form: what it sees is right of everything it sees,
\* though it decided each cell on what it had seen by then.
LEMMA VisibleSettled ==
    ASSUME NEW rs, LooksForward(rs), NEW as, NEW ros \in Rosters
    PROVE  /\ visibleKeys(rs, as, ros) \in Seq(Keys)
           /\ Settled(rs, as, ros, ToSet(visibleKeys(rs, as, ros)))
<1> DEFINE l == liveKeys(ros)
           L == Len(l)
           V == ToSet(visibleKeys(rs, as, ros))
           C == [g \in Groups |-> Instances]
<1>1. PICK w \in [0 .. L -> Seq(Keys)] :
        Walks(rs, as, ros, l, w) /\ visibleKeys(rs, as, ros) = w[L]
  BY Walked
<1>2. /\ l \in Seq(Keys) /\ ToSet(l) = LiveCells(ros)
      /\ \A x, y \in DOMAIN l : x <= y => position(l[x][1]) <= position(l[y][1])
  BY LiveKeysFacts
<1> HIDE DEF l
<1>3. L \in Nat /\ DOMAIN l = 1 .. L /\ L \in 0 .. L /\ \A i \in 1 .. L : l[i] \in Keys /\ i - 1 \in 0 .. L
  BY <1>2
<1> DEFINE seen(i) == walkQuestion(rs, as, ToSet(w[i - 1]), ros, l[i])
<1>4. ASSUME NEW n \in 0 .. L
      PROVE  \A k : k \in ToSet(w[n]) <=> \E i \in 1 .. n : k = l[i] /\ seen(i)
  <2>1. Saw(rs, as, ros, l, w, n)
    BY <1>1, <1>2, WalkedCells
  <2>2. QED
    BY <2>1 DEF Saw
<1>5. \A k : k \in V <=> \E i \in 1 .. L : k = l[i] /\ seen(i)
  BY <1>1, <1>3, <1>4
<1> HIDE DEF V, seen
<1>6. V \in SUBSET Keys /\ V \subseteq LiveCells(ros)
  <2>1. \A i \in 1 .. L : l[i] \in Keys /\ l[i] \in LiveCells(ros)
    BY <1>2, <1>3 DEF ToSet
  <2>2. QED
    BY <1>5, <2>1
<1>7. ASSUME NEW i \in 1 .. L PROVE seen(i) <=> walkQuestion(rs, as, V, ros, l[i])
  <2> DEFINE S == ToSet(w[i - 1])
             key == l[i]
             B == BeforeKey(key)
  <2>1. \A k : k \in S <=> \E j \in 1 .. i - 1 : k = l[j] /\ seen(j)
    BY <1>3, <1>4
  <2> HIDE DEF S
  <2>2. S \in SUBSET Keys /\ S \subseteq V
    BY <1>3, <1>5, <2>1
  <2>3. ASSUME NEW k \in V, position(k[1]) \in B PROVE k \in S
    <3>1. PICK j \in 1 .. L : seen(j) /\ k = l[j]
      BY <1>5
    <3>2. j <= i - 1
      <4>1. SUFFICES ASSUME i <= j PROVE FALSE
        BY <1>3
      <4>2. position(key[1]) <= position(k[1])
        BY <1>2, <1>3, <3>1, <4>1
      <4>3. position(key[1]) \in Nat /\ position(k[1]) \in Nat
        BY <1>3, <1>6, KeysFacts, PositionOf, PositionsFacts
      <4>4. QED
        BY <2>3, <4>2, <4>3 DEF BeforeKey
    <3>3. QED
      BY <1>3, <2>1, <3>1, <3>2
  <2>4. ASSUME NEW k \in Keys, position(k[1]) \in B PROVE counted(as, S, k) = counted(as, V, k)
    BY <2>2, <2>3, <2>4 DEF counted
  <2>5. C \in [Groups -> SUBSET Instances] /\ \A g \in Groups : ToSet(ros[g]) \subseteq C[g]
    BY DEF Rosters, ToSet
  <2>6. key \in Keys /\ (key[2] = None \/ key[2] \in C[groupOf(key[1])])
    BY <1>3, KeysFacts, GroupOf
  <2> HIDE DEF C, key, B
  <2>7. Agree(as, S, ros, as, V, ros, B, C)
    BY <2>4, <2>5 DEF Agree
  <2>8. walkQuestion(rs, as, S, ros, key) <=> walkQuestion(rs, as, V, ros, key)
    BY <1>6, <2>2, <2>5, <2>6, <2>7, WalkAgrees DEF B
  <2>9. QED
    BY <2>8 DEF S, key, seen
<1>8. ASSUME NEW k \in LiveCells(ros) PROVE k \in V <=> walkQuestion(rs, as, V, ros, k)
  <2>1. PICK i \in 1 .. L : k = l[i]
    BY <1>2, <1>3 DEF ToSet
  <2>2. k \in V <=> \E j \in 1 .. L : k = l[j] /\ seen(j)
    BY <1>5
  <2>3. QED
    BY <1>7, <2>1, <2>2
<1>9. w[L] \in Seq(Keys)
  BY <1>3
<1>10. QED
  BY <1>1, <1>6, <1>8, <1>9 DEF Settled, V

\* Two settled readings of a form whose answers and rosters are the same
\* before P are the same up to P, in the cells that are live in both.
Alike(as, ros, bs, sor, P) ==
    /\ \A g \in Groups : LastOf(g) < P => ros[g] = sor[g]
    /\ \A k \in LiveCells(ros) \cap LiveCells(sor) : position(k[1]) < P => as[k] = bs[k]

Shared(ros, sor) == [g \in Groups |-> ToSet(ros[g]) \cap ToSet(sor[g])]

LEMMA SharedFacts ==
    ASSUME NEW ros \in Rosters, NEW sor \in Rosters
    PROVE  /\ Shared(ros, sor) \in [Groups -> SUBSET Instances]
           /\ \A k \in Keys : k \in LiveCells(ros) \cap LiveCells(sor)
                <=> (k[2] = None \/ k[2] \in Shared(ros, sor)[groupOf(k[1])])
<1>1. \A g \in Groups : ToSet(ros[g]) \subseteq Instances
  BY DEF Rosters, ToSet
<1>2. \A k \in Keys : k[2] = None \/ groupOf(k[1]) \in Groups
  BY KeysFacts, GroupOf
<1>3. QED
  BY <1>1, <1>2 DEF Shared, LiveCells

\* Readings that are the same in the cells before P agree there.
LEMMA SameAgrees ==
    ASSUME NEW as, NEW bs, NEW V, NEW W, NEW ros \in Rosters, NEW sor \in Rosters,
           NEW P \in Nat, Alike(as, ros, bs, sor, P),
           NEW B \in SUBSET Positions, \A n \in B : n < P,
           \A k \in LiveCells(ros) \cap LiveCells(sor) : position(k[1]) \in B => (k \in V <=> k \in W)
    PROVE  Agree(as, V, ros, bs, W, sor, B, Shared(ros, sor))
<1>1. ASSUME NEW k \in Keys, position(k[1]) \in B,
             k[2] = None \/ k[2] \in Shared(ros, sor)[groupOf(k[1])]
      PROVE  counted(as, V, k) = counted(bs, W, k)
  <2>1. k \in LiveCells(ros) \cap LiveCells(sor)
    BY <1>1, SharedFacts
  <2>2. as[k] = bs[k] /\ (k \in V <=> k \in W)
    BY <1>1, <2>1 DEF Alike
  <2>3. QED
    BY <2>2 DEF counted
<1>2. ASSUME NEW g \in Groups, LastOf(g) \in B
      PROVE  ros[g] = sor[g] /\ ToSet(ros[g]) \subseteq Shared(ros, sor)[g]
  BY <1>2 DEF Alike, Shared
<1>3. QED
  BY <1>1, <1>2 DEF Agree

\* V and W are the same up to P, in the cells live in both.
SameUpTo(ros, V, sor, W, P) ==
    \A k \in LiveCells(ros) \cap LiveCells(sor) : position(k[1]) <= P => (k \in V <=> k \in W)

LEMMA SettledForward ==
    ASSUME NEW rs, LooksForward(rs), NEW as, NEW bs, NEW ros \in Rosters, NEW sor \in Rosters,
           NEW V, Settled(rs, as, ros, V), NEW W, Settled(rs, bs, sor, W),
           NEW P \in Nat, Alike(as, ros, bs, sor, P)
    PROVE  SameUpTo(ros, V, sor, W, P)
<1> DEFINE Both == LiveCells(ros) \cap LiveCells(sor)
           Bad(n) == \E j \in Both : position(j[1]) = n /\ ~(j \in V <=> j \in W)
           S == {n \in Positions : n <= P /\ Bad(n)}
<1>1. \A j \in Both : j \in Keys /\ position(j[1]) \in Positions
  BY KeysFacts, PositionOf DEF LiveCells
<1>2. V \in SUBSET Keys /\ W \in SUBSET Keys
  BY DEF Settled, LiveCells
<1>3. ASSUME S # {} PROVE FALSE
  <2>1. PICK n \in S : \A m \in S : n <= m
    <3>1. S \subseteq Nat
      BY PositionsFacts
    <3> HIDE DEF S
    <3>2. QED
      BY <1>3, <3>1, LeastNumber
  <2>2. PICK j \in Both : position(j[1]) = n /\ ~(j \in V <=> j \in W)
    BY <2>1
  <2> DEFINE B == BeforeKey(j)
  <2>3. B \in SUBSET Positions /\ \A m \in B : m < P /\ m < n /\ m \in Nat
    BY <2>1, <2>2, PositionsFacts DEF BeforeKey
  <2>4. n \in Nat /\ n <= P
    BY <2>1, PositionsFacts
  <2>5. ASSUME NEW i \in Both, position(i[1]) \in B PROVE i \in V <=> i \in W
    <3>1. position(i[1]) \notin S
      BY <2>1, <2>3, <2>4, <2>5
    <3>2. position(i[1]) \in Positions /\ position(i[1]) <= P
      BY <2>3, <2>5
    <3>3. QED
      BY <3>1, <3>2
  <2> HIDE DEF S, Bad, B
  <2>6. Agree(as, V, ros, bs, W, sor, B, Shared(ros, sor))
    BY <2>3, <2>5, SameAgrees
  <2>7. j \in Keys /\ (j[2] = None \/ j[2] \in Shared(ros, sor)[groupOf(j[1])])
        /\ Shared(ros, sor) \in [Groups -> SUBSET Instances]
    BY <1>1, <2>2, SharedFacts
  <2> DEFINE C == Shared(ros, sor)
  <2>8. /\ C \in [Groups -> SUBSET Instances] /\ (j[2] = None \/ j[2] \in C[groupOf(j[1])])
        /\ Agree(as, V, ros, bs, W, sor, BeforeKey(j), C)
    BY <2>6, <2>7 DEF B
  <2> HIDE DEF C
  <2>9. walkQuestion(rs, as, V, ros, j) <=> walkQuestion(rs, bs, W, sor, j)
    BY <1>2, <2>7, <2>8, WalkAgrees
  <2>10. (j \in V <=> walkQuestion(rs, as, V, ros, j)) /\ (j \in W <=> walkQuestion(rs, bs, W, sor, j))
    BY <2>2 DEF Settled
  <2>11. QED
    BY <2>2, <2>9, <2>10
<1>4. QED
  BY <1>1, <1>3 DEF SameUpTo

\* There is one reading of a form, whatever the order it is read in: of the
\* sets of live cells, only the one evaluateRules returns is right of itself.
\* So visibility is a function of the answers and the rosters, as the rules
\* read them, and not of the pass.
THEOREM OnlyOneReading ==
    ASSUME NEW rs \in RuleSets, analyzeRuleGraph(rs), NEW as, NEW ros \in [Groups -> Seq(Instances)],
           NEW V \in SUBSET ToSet(liveKeys(ros)),
           \A k \in ToSet(liveKeys(ros)) : k \in V <=> walkQuestion(rs, as, V, ros, k)
    PROVE  V = ToSet(evaluateRules(rs, as, ros).visible)
<1> DEFINE W == ToSet(visibleKeys(rs, as, ros))
           P == Len(Document)
<1>1. LooksForward(rs) /\ ros \in Rosters
  BY AcceptedLooksForward DEF Rosters
<1>2. Settled(rs, as, ros, V)
  BY <1>1, LiveKeysFacts DEF Settled
<1>3. Settled(rs, as, ros, W)
  BY <1>1, VisibleSettled
<1>4. P \in Nat /\ Alike(as, ros, as, ros, P)
  BY PositionsFacts DEF Alike
<1> HIDE DEF W, P
<1>5. SameUpTo(ros, V, ros, W, P)
  BY <1>1, <1>2, <1>3, <1>4, SettledForward
<1>6. ASSUME NEW k \in LiveCells(ros) PROVE k \in V <=> k \in W
  <2>1. k \in LiveCells(ros) \cap LiveCells(ros) /\ position(k[1]) <= P
    BY KeysFacts, PositionOf, PositionsFacts DEF LiveCells, P
  <2>2. QED
    BY <1>5, <2>1 DEF SameUpTo
<1>7. V \subseteq LiveCells(ros) /\ W \subseteq LiveCells(ros)
  BY <1>2, <1>3 DEF Settled
<1>8. evaluateRules(rs, as, ros).visible = visibleKeys(rs, as, ros)
  BY DEF evaluateRules
<1>9. QED
  BY <1>6, <1>7, <1>8 DEF W

-----------------------------------------------------------------------------
(* The respondent's form.                                                  *)

RuleInv ==
    /\ rules \in RuleSets /\ analyzeRuleGraph(rules)
    /\ rosters \in Rosters
    /\ minted \in 0 .. MaxInstances
    /\ answers \in [Keys -> Values \cup {None}]
    /\ flow = evaluateRules(rules, answers, rosters)

LEMMA RemoveAtType ==
    ASSUME NEW E, NEW s \in Seq(E), NEW i \in DOMAIN s
    PROVE  RemoveAt(s, i) \in Seq(E)
<1>1. i \in 1 .. Len(s) /\ Len(s) \in Nat
  OBVIOUS
<1>2. SubSeq(s, 1, i - 1) \in Seq(E) /\ SubSeq(s, i + 1, Len(s)) \in Seq(E)
  BY <1>1
<1>3. QED
  BY <1>2 DEF RemoveAt

\* What a step does: it answers one cell that is seen, or it changes the
\* members of one group.
LEMMA StepCases ==
    ASSUME RuleInv, [Next]_vars
    PROVE  /\ RuleInv'
           /\ rules' = rules
           /\ \/ /\ UNCHANGED rosters
                 /\ \A k \in Keys : answers'[k] # answers[k] =>
                      /\ k \in ToSet(flow.visible)
                      /\ \A j \in Keys : j # k => answers'[j] = answers[j]
              \/ /\ UNCHANGED answers
                 /\ \A g \in Groups : rosters'[g] # rosters[g] =>
                      \A h \in Groups : h # g => rosters'[h] = rosters[h]
<1> USE DEF RuleInv
<1>1. ASSUME NEW key \in Keys, NEW value \in Values \cup {None}, Answer(key, value)
      PROVE  /\ RuleInv' /\ rules' = rules /\ UNCHANGED rosters
             /\ \A k \in Keys : answers'[k] # answers[k] =>
                  /\ k \in ToSet(flow.visible)
                  /\ \A j \in Keys : j # k => answers'[j] = answers[j]
  <2>1. answers' = [answers EXCEPT ![key] = value] /\ key \in ToSet(flow.visible)
        /\ UNCHANGED <<rules, rosters, minted>> /\ flow' = evaluateRules(rules, answers', rosters)
    BY <1>1 DEF Answer
  <2>2. answers' \in [Keys -> Values \cup {None}] /\ \A k \in Keys : k # key => answers'[k] = answers[k]
    BY <2>1
  <2>3. flow' = evaluateRules(rules', answers', rosters')
    BY <2>1
  <2>4. QED
    BY <2>1, <2>2, <2>3
<1>2. ASSUME NEW g \in Groups, UNCHANGED <<rules, answers>>, minted' \in 0 .. MaxInstances,
             NEW r \in Seq(Instances), rosters' = [rosters EXCEPT ![g] = r],
             flow' = evaluateRules(rules, answers, rosters')
      PROVE  /\ RuleInv' /\ rules' = rules /\ UNCHANGED answers
             /\ \A h \in Groups : rosters'[h] # rosters[h] =>
                  \A j \in Groups : j # h => rosters'[j] = rosters[j]
  <2>1. rosters' \in Rosters /\ \A h \in Groups : h # g => rosters'[h] = rosters[h]
    BY <1>2 DEF Rosters
  <2>2. flow' = evaluateRules(rules', answers', rosters')
    BY <1>2
  <2>3. QED
    BY <1>2, <2>1, <2>2
<1>3. ASSUME NEW g \in Groups, AddInstance(g)
      PROVE  /\ RuleInv' /\ rules' = rules /\ UNCHANGED answers
             /\ \A h \in Groups : rosters'[h] # rosters[h] =>
                  \A j \in Groups : j # h => rosters'[j] = rosters[j]
  <2> DEFINE r == Append(rosters[g], minted + 1)
  <2>1. minted + 1 \in Instances /\ minted' \in 0 .. MaxInstances
    BY <1>3, DocumentAssumption DEF AddInstance, Instances
  <2>2. r \in Seq(Instances)
    BY <2>1 DEF Rosters
  <2>3. rosters' = [rosters EXCEPT ![g] = r] /\ UNCHANGED <<rules, answers>>
        /\ flow' = evaluateRules(rules, answers, rosters')
    BY <1>3 DEF AddInstance
  <2> HIDE DEF r, RuleInv
  <2>4. QED
    BY <1>2, <2>1, <2>2, <2>3
<1>4. ASSUME NEW g \in Groups, NEW i \in Instances, RemoveInstance(g, i)
      PROVE  /\ RuleInv' /\ rules' = rules /\ UNCHANGED answers
             /\ \A h \in Groups : rosters'[h] # rosters[h] =>
                  \A j \in Groups : j # h => rosters'[j] = rosters[j]
  <2> DEFINE r == RemoveAt(rosters[g], i)
  <2>1. rosters[g] \in Seq(Instances) /\ i \in DOMAIN rosters[g]
    BY <1>4 DEF RemoveInstance, Rosters
  <2>2. r \in Seq(Instances)
    BY <2>1, RemoveAtType
  <2>3. rosters' = [rosters EXCEPT ![g] = r] /\ UNCHANGED <<rules, answers>>
        /\ minted' \in 0 .. MaxInstances /\ flow' = evaluateRules(rules, answers, rosters')
    BY <1>4 DEF RemoveInstance
  <2> HIDE DEF r, RuleInv
  <2>4. QED
    BY <1>2, <2>2, <2>3
<1>5. ASSUME UNCHANGED vars
      PROVE  /\ RuleInv' /\ rules' = rules /\ UNCHANGED <<rosters, answers>>
  BY <1>5 DEF vars
<1> HIDE DEF RuleInv
<1>6. QED
  BY <1>1, <1>3, <1>4, <1>5, Zenon DEF Next

LEMMA RuleInvariant == Spec => []RuleInv
<1>1. Init => RuleInv
  <2> SUFFICES ASSUME Init PROVE RuleInv
    OBVIOUS
  <2>1. rosters \in Rosters
    BY DEF Init, Rosters
  <2>2. minted \in 0 .. MaxInstances
    BY DocumentAssumption DEF Init
  <2>3. answers \in [Keys -> Values \cup {None}]
    BY DEF Init
  <2>4. QED
    BY <2>1, <2>2, <2>3 DEF Init, RuleInv
<1>2. RuleInv /\ [Next]_vars => RuleInv'
  BY StepCases
<1>3. QED
  BY <1>1, <1>2, PTL DEF Spec

LEMMA FlowFacts ==
    ASSUME NEW rs \in RuleSets, analyzeRuleGraph(rs), NEW as, NEW ros \in Rosters
    PROVE  /\ LooksForward(rs)
           /\ Settled(rs, as, ros, ToSet(evaluateRules(rs, as, ros).visible))
           /\ ToSet(evaluateRules(rs, as, ros).visible) \in SUBSET Keys
<1>1. evaluateRules(rs, as, ros).visible = visibleKeys(rs, as, ros)
  BY DEF evaluateRules
<1>2. LooksForward(rs)
  BY AcceptedLooksForward
<1>3. Settled(rs, as, ros, ToSet(visibleKeys(rs, as, ros)))
  BY <1>2, VisibleSettled
<1>4. QED
  BY <1>1, <1>2, <1>3 DEF Settled, LiveCells

\* What the form shows follows from what it shows: a live cell is visible
\* exactly when its rules and its step's hold of the answers in visible cells
\* alone, all of them, whatever order the pass went in.  So no answer that has
\* gone out of sight, and none of a removed instance, shows or hides anything.
THEOREM OnlyTheVisibleCountsAlways == Spec => []OnlyTheVisibleCounts
<1>1. ASSUME RuleInv PROVE OnlyTheVisibleCounts
  <2> DEFINE V == ToSet(flow.visible)
             seen == [k \in Keys |-> IF k \in V THEN answers[k] ELSE None]
             C == [g \in Groups |-> Instances]
  <2>1. LooksForward(rules) /\ Settled(rules, answers, rosters, V) /\ V \in SUBSET Keys
    BY <1>1, FlowFacts DEF RuleInv
  <2>2. rosters \in Rosters /\ ToSet(liveKeys(rosters)) = LiveCells(rosters)
    BY <1>1, LiveKeysFacts DEF RuleInv
  <2>3. ASSUME NEW key \in LiveCells(rosters)
        PROVE  key \in V <=> walkQuestion(rules, seen, Keys, rosters, key)
    <3> DEFINE B == BeforeKey(key)
    <3>1. \A k \in Keys : counted(answers, V, k) = counted(seen, Keys, k)
      BY DEF counted
    <3>2. C \in [Groups -> SUBSET Instances] /\ \A g \in Groups : ToSet(rosters[g]) \subseteq C[g]
      BY <2>2 DEF Rosters, ToSet
    <3>3. key \in Keys /\ (key[2] = None \/ key[2] \in C[groupOf(key[1])])
      BY KeysFacts, GroupOf DEF LiveCells
    <3> HIDE DEF V, seen, C, B
    <3>4. Agree(answers, V, rosters, seen, Keys, rosters, B, C)
      BY <3>1, <3>2 DEF Agree
    <3>5. Keys \in SUBSET Keys
      OBVIOUS
    <3>6. walkQuestion(rules, answers, V, rosters, key) <=> walkQuestion(rules, seen, Keys, rosters, key)
      BY <2>1, <2>2, <3>2, <3>3, <3>4, <3>5, WalkAgrees DEF B
    <3>7. QED
      BY <2>1, <3>6 DEF Settled
  <2> HIDE DEF C
  <2>4. QED
    BY <2>2, <2>3 DEF OnlyTheVisibleCounts
<1>2. QED
  BY <1>1, RuleInvariant, PTL

-----------------------------------------------------------------------------
(* The pages of the form.                                                  *)

Pages == Steps \X (Instances \cup {None})

LEMMA PagesType ==
    ASSUME NEW ros \in Rosters, NEW s \in Steps
    PROVE  pages(s, ros) \in Seq(Pages) /\ \A page \in ToSet(pages(s, ros)) : page[1] = s
<1> DEFINE paging == {n \in Positions : Document[n].step = s /\ Document[n].group \in PagedGroups}
           g == Document[Min(paging)].group
           r == IF paging = {} THEN <<>> ELSE ros[g]
           none == <<s, None>>
<1>1. paging # {} => g \in Groups
  <2>1. SUFFICES ASSUME paging # {} PROVE g \in Groups
    OBVIOUS
  <2>2. \E m \in paging : \A n \in paging : m <= n
    <3>1. paging \subseteq Nat
      BY PositionsFacts
    <3> HIDE DEF paging
    <3>2. QED
      BY <2>1, <3>1, LeastNumber
  <2>3. Min(paging) \in paging
    <3> HIDE DEF paging
    <3>1. QED
      BY <2>2 DEF Min
  <2>4. QED
    BY <2>3, DocumentAssumption DEF Groups
<1>2. r \in Seq(Instances)
  <2>1. paging # {} => ros[g] \in Seq(Instances)
    <3> HIDE DEF paging, g
    <3>1. QED
      BY <1>1 DEF Rosters
  <2>2. <<>> \in Seq(Instances)
    OBVIOUS
  <2> HIDE DEF paging, g
  <2>3. QED
    BY <2>1, <2>2
<1>3. pages(s, ros) = IF r = <<>> THEN <<none>> ELSE [j \in DOMAIN r |-> <<s, r[j]>>]
  BY Zenon DEF pages
<1> HIDE DEF r
<1>4. none \in Pages /\ none[1] = s
  BY DEF Pages
<1>5. \A j \in DOMAIN r : <<s, r[j]>> \in Pages
  BY <1>2 DEF Pages
<1>6. CASE r = <<>>
  <2> HIDE DEF none
  <2>1. pages(s, ros) = <<none>>
    BY <1>3, <1>6
  <2>2. QED
    BY <1>4, <2>1 DEF ToSet
<1>7. CASE r # <<>>
  <2>1. pages(s, ros) = [j \in DOMAIN r |-> <<s, r[j]>>]
    BY <1>3, <1>7
  <2>2. [j \in DOMAIN r |-> <<s, r[j]>>] \in Seq(Pages)
    BY <1>2, <1>5
  <2>3. \A page \in ToSet([j \in DOMAIN r |-> <<s, r[j]>>]) : page[1] = s
    BY DEF ToSet
  <2>4. QED
    BY <2>1, <2>2, <2>3
<1>8. QED
  BY <1>6, <1>7

\* The pages of the steps that begin no later than n, in views.
PagesIn(n, views) ==
    {<<i, views[i]>> : i \in {i \in DOMAIN views :
       \E m \in Positions : Document[m].step = views[i][1] /\ m <= n}}

\* If the same steps that begin no later than P are shown, their pages are
\* the same, and have the same numbers.
LEMMA SameSteps ==
    ASSUME NEW ros \in Rosters, NEW X, NEW Y, NEW P \in Positions,
           \A n \in Positions : n <= P /\ opensStep(n) => (Document[n].step \in X <=> Document[n].step \in Y)
    PROVE  PagesIn(P, stepViews(X, ros)) = PagesIn(P, stepViews(Y, ros))
<1> DEFINE part(Z, n) == IF opensStep(n) /\ Document[n].step \in Z THEN pages(Document[n].step, ros) ELSE <<>>
           parts(Z) == [n \in Positions |-> part(Z, n)]
           L == Len(Document)
           E == Pages
<1>1. ASSUME NEW Z PROVE stepViews(Z, ros) = FlattenSeq(parts(Z))
  BY DEF stepViews
<1>2. ASSUME NEW Z, NEW n \in Positions
      PROVE  /\ part(Z, n) \in Seq(E)
             /\ \A page \in ToSet(part(Z, n)) : opensStep(n) /\ page[1] = Document[n].step
  <2>1. Document[n].step \in Steps
    BY DEF Steps
  <2> DEFINE s == Document[n].step
  <2>2. pages(s, ros) \in Seq(E) /\ \A page \in ToSet(pages(s, ros)) : page[1] = s
    BY <2>1, PagesType
  <2> HIDE DEF s, E
  <2>3. <<>> \in Seq(E) /\ ToSet(<<>>) = {}
    BY DEF ToSet
  <2>4. QED
    BY <2>2, <2>3 DEF s
<1> HIDE DEF part, E
<1>3. ASSUME NEW Z
      PROVE  /\ parts(Z) \in Seq(Seq(E)) /\ Len(parts(Z)) = L
             /\ \A n \in 1 .. L : parts(Z)[n] = part(Z, n)
  BY <1>2, PositionsFacts
<1>4. \A n \in 1 .. P : parts(X)[n] = parts(Y)[n]
  <2>1. ASSUME NEW n \in 1 .. P PROVE part(X, n) = part(Y, n)
    BY PositionsFacts DEF part
  <2>2. QED
    BY <1>3, <2>1, PositionsFacts
<1>5. P \in 0 .. L /\ L \in Nat /\ P \in Nat
  BY PositionsFacts
<1> DEFINE ss == parts(X)
           tt == parts(Y)
           F == FlattenSeq(ss)
           G == FlattenSeq(tt)
<1>6. ss \in Seq(Seq(E)) /\ tt \in Seq(Seq(E)) /\ Len(ss) = Len(tt) /\ P \in 0 .. Len(ss)
      /\ \A i \in 1 .. P : ss[i] = tt[i]
  <2> HIDE DEF parts
  <2>1. QED
    BY <1>3, <1>4, <1>5
<1>7. \A i \in 1 .. L : \A page :
        /\ page \in ToSet(ss[i]) => opensStep(i) /\ page[1] = Document[i].step
        /\ page \in ToSet(tt[i]) => opensStep(i) /\ page[1] = Document[i].step
  <2>1. \A i \in 1 .. L : i \in Positions /\ ss[i] = part(X, i) /\ tt[i] = part(Y, i)
    BY <1>3, PositionsFacts
  <2> HIDE DEF ss, tt
  <2>2. QED
    BY <1>2, <2>1
<1>8. Len(ss) = L
  BY <1>3
<1> HIDE DEF ss, tt
<1>9. PICK c \in Nat : SplitAt(ss, tt, P, c)
  BY <1>6, FlattenAgrees
<1>10. /\ F \in Seq(E) /\ G \in Seq(E)
  BY <1>6, FlattenPlaces
<1>11. /\ c <= Len(F) /\ c <= Len(G)
       /\ \A x \in 1 .. c : F[x] = G[x] /\ \E i \in 1 .. P : F[x] \in ToSet(ss[i])
       /\ \A x \in c + 1 .. Len(F) : \E i \in P + 1 .. L : F[x] \in ToSet(ss[i])
       /\ \A x \in c + 1 .. Len(G) : \E i \in P + 1 .. L : G[x] \in ToSet(tt[i])
  BY <1>8, <1>9 DEF SplitAt
<1> HIDE DEF F, G, L
<1> DEFINE early(page) == \E m \in Positions : Document[m].step = page[1] /\ m <= P
<1>12. DOMAIN F = 1 .. Len(F) /\ DOMAIN G = 1 .. Len(G) /\ Len(F) \in Nat /\ Len(G) \in Nat
  BY <1>10
<1>13. ASSUME NEW i \in 1 .. P, NEW page, page \in ToSet(ss[i]) PROVE early(page)
  <2>1. i \in 1 .. L /\ i \in Positions /\ i <= P
    BY <1>5, PositionsFacts DEF L
  <2>2. QED
    BY <1>7, <1>13, <2>1
<1>14. ASSUME NEW i \in P + 1 .. L, NEW page, page \in ToSet(ss[i]) \/ page \in ToSet(tt[i])
       PROVE  ~early(page)
  <2>1. i \in 1 .. L /\ i \in Nat /\ i > P
    BY <1>5
  <2>2. opensStep(i) /\ page[1] = Document[i].step
    BY <1>7, <1>14, <2>1
  <2>3. ASSUME NEW m \in Positions, Document[m].step = page[1], m <= P PROVE FALSE
    <3>1. i <= m
      BY <2>2, <2>3 DEF opensStep
    <3>2. QED
      BY <1>5, <2>1, <2>3, <3>1, PositionsFacts
  <2>4. QED
    BY <2>3
<1> HIDE DEF early
<1>15. ASSUME NEW i \in DOMAIN F PROVE early(F[i]) <=> i <= c
  <2>1. CASE i \in 1 .. c
    BY <1>11, <1>13, <2>1
  <2>2. CASE i \in c + 1 .. Len(F)
    <3>1. PICK j \in P + 1 .. L : F[i] \in ToSet(ss[j])
      BY <1>11, <2>2
    <3>2. ~early(F[i])
      BY <1>14, <3>1
    <3>3. QED
      BY <1>12, <2>2, <3>2
  <2>3. QED
    BY <1>12, <2>1, <2>2
<1>16. ASSUME NEW i \in DOMAIN G PROVE early(G[i]) <=> i <= c
  <2>1. CASE i \in 1 .. c
    BY <1>11, <1>13, <2>1
  <2>2. CASE i \in c + 1 .. Len(G)
    <3>1. PICK j \in P + 1 .. L : G[i] \in ToSet(tt[j])
      BY <1>11, <2>2
    <3>2. ~early(G[i])
      BY <1>14, <3>1
    <3>3. QED
      BY <1>12, <2>2, <3>2
  <2>3. QED
    BY <1>12, <2>1, <2>2
<1>17. PagesIn(P, F) = {<<i, F[i]>> : i \in {i \in DOMAIN F : early(F[i])}}
       /\ PagesIn(P, G) = {<<i, G[i]>> : i \in {i \in DOMAIN G : early(G[i])}}
  BY Zenon DEF PagesIn, early
<1>18. {i \in DOMAIN F : early(F[i])} = 1 .. c /\ {i \in DOMAIN G : early(G[i])} = 1 .. c
  BY <1>12, <1>15, <1>16, <1>11
<1>19. {<<i, F[i]>> : i \in 1 .. c} = {<<i, G[i]>> : i \in 1 .. c}
  BY <1>11
<1>20. PagesIn(P, F) = PagesIn(P, G)
  BY <1>17, <1>18, <1>19
<1>21. stepViews(X, ros) = F /\ stepViews(Y, ros) = G
  BY <1>1 DEF F, G, ss, tt
<1>22. QED
  BY <1>20, <1>21

\* A step that begins no later than a cell that is seen, before and after the
\* answers in that cell and after it have changed, is shown if it was.
LEMMA SameStepsShown ==
    ASSUME NEW rs, LooksForward(rs), NEW as, NEW bs, NEW ros \in Rosters,
           NEW v, Settled(rs, as, ros, ToSet(v)), NEW w, Settled(rs, bs, ros, ToSet(w)),
           NEW key \in ToSet(v), key \in ToSet(w), NEW P \in Positions, position(key[1]) = P,
           Alike(as, ros, bs, ros, P), SameUpTo(ros, ToSet(v), ros, ToSet(w), P),
           NEW n \in Positions, n <= P, opensStep(n)
    PROVE  Document[n].step \in visibleSteps(rs, as, ros, v)
             <=> Document[n].step \in visibleSteps(rs, bs, ros, w)
<1> DEFINE s == Document[n].step
           V == ToSet(v)
           W == ToSet(w)
           C == Shared(ros, ros)
           B == BeforeStep(s)
<1>1. P \in Nat /\ n \in Nat
  BY PositionsFacts
<1>2. V \subseteq LiveCells(ros) /\ W \subseteq LiveCells(ros) /\ V \in SUBSET Keys /\ W \in SUBSET Keys
  BY DEF Settled, LiveCells
<1>3. \A k \in LiveCells(ros) :
        /\ k \in Keys /\ position(k[1]) \in Positions /\ stepOf(k[1]) = Document[position(k[1])].step
        /\ position(k[1]) \in Nat
        /\ position(k[1]) <= P => (k \in V <=> k \in W)
  BY KeysFacts, PositionOf, PositionsFacts DEF LiveCells, stepOf, SameUpTo
<1>4. ASSUME NEW k \in LiveCells(ros), k \in V \/ k \in W, stepOf(k[1]) = s
      PROVE  \E j \in V \cap W : stepOf(j[1]) = s
  <2>1. CASE position(k[1]) <= P
    BY <1>3, <1>4, <2>1
  <2>2. CASE P < position(k[1])
    <3>1. Document[P].step = s
      <4>1. CASE n = P
        BY <4>1
      <4>2. CASE n # P
        <5>1. n < P /\ Document[n].step = Document[position(k[1])].step
          BY <1>1, <1>3, <1>4, <4>2
        <5>2. P \in DOMAIN Document /\ n \in DOMAIN Document /\ position(k[1]) \in DOMAIN Document
          BY <1>3 DEF Positions
        <5>3. QED
          BY <2>2, <5>1, <5>2, DocumentAssumption
      <4>3. QED
        BY <4>1, <4>2
    <3>2. stepOf(key[1]) = s
      BY <3>1 DEF stepOf
    <3>3. QED
      BY <3>2
  <2>3. QED
    BY <1>1, <1>3, <2>1, <2>2
<1>5. (\E k \in V : stepOf(k[1]) = s) <=> \E k \in W : stepOf(k[1]) = s
  BY <1>2, <1>4
<1>6. B \in SUBSET Positions /\ \A m \in B : m < P
  BY <1>1, PositionsFacts DEF BeforeStep
<1>7. \A k \in LiveCells(ros) \cap LiveCells(ros) : position(k[1]) \in B => (k \in V <=> k \in W)
  BY <1>1, <1>3, <1>6
<1>8. C \in [Groups -> SUBSET Instances]
  BY SharedFacts
<1> HIDE DEF s, V, W, B
<1>9. Agree(as, V, ros, bs, W, ros, B, C)
  BY <1>1, <1>6, <1>7, SameAgrees
<1> HIDE DEF C
<1>10. stepShown(rs, as, V, ros, s) <=> stepShown(rs, bs, W, ros, s)
  BY <1>2, <1>8, <1>9, StepShownAgrees DEF B
<1>11. QED
  BY <1>5, <1>10 DEF visibleSteps, s, V, W

\* The rules a publish accepts only look forward: an answer leaves every cell
\* up to its question and every page up to its step as they were, and an
\* instance added or removed leaves the other cells up to the end of its group
\* as they were.  So no change a respondent makes moves what lies behind it.
THEOREM OnlyLooksForward == Spec => ChangesLookForward
<1> DEFINE V == ToSet(flow.visible)
<1>1. ASSUME RuleInv, [Next]_vars
      PROVE  /\ LooksForward(rules) /\ rosters \in Rosters /\ rosters' \in Rosters
             /\ Settled(rules, answers, rosters, V) /\ Settled(rules, answers', rosters', V')
             /\ flow = evaluateRules(rules, answers, rosters)
             /\ flow' = evaluateRules(rules, answers', rosters')
             /\ answers \in [Keys -> Values \cup {None}] /\ answers' \in [Keys -> Values \cup {None}]
  <2>1. RuleInv' /\ rules' = rules
    BY <1>1, StepCases
  <2>2. LooksForward(rules) /\ Settled(rules, answers, rosters, V)
    BY <1>1, FlowFacts DEF RuleInv
  <2>3. Settled(rules, answers', rosters', V')
    <3>1. rules \in RuleSets /\ analyzeRuleGraph(rules) /\ rosters' \in Rosters
          /\ flow' = evaluateRules(rules, answers', rosters')
      BY <1>1, <2>1 DEF RuleInv
    <3>2. QED
      BY <3>1, FlowFacts
  <2>4. QED
    BY <1>1, <2>1, <2>2, <2>3 DEF RuleInv
<1>2. ASSUME RuleInv, [Next]_vars, NEW k \in Keys, answers'[k] # answers[k]
      PROVE  /\ visibleUpTo(position(k[1]), flow') = visibleUpTo(position(k[1]), flow)
             /\ pagesUpTo(position(k[1]), flow') = pagesUpTo(position(k[1]), flow)
  <2> DEFINE P == position(k[1])
  <2>1. /\ UNCHANGED rosters /\ k \in V
        /\ \A j \in Keys : j # k => answers'[j] = answers[j]
    BY <1>2, StepCases
  <2>2. P \in Positions /\ P \in Nat
    BY KeysFacts, PositionOf, PositionsFacts
  <2>3. Alike(answers, rosters, answers', rosters, P)
    BY <2>1, <2>2 DEF Alike, LiveCells
  <2>4. /\ LooksForward(rules) /\ rosters \in Rosters
        /\ Settled(rules, answers, rosters, V) /\ Settled(rules, answers', rosters, V')
    BY <1>1, <1>2, <2>1
  <2>5. k \in LiveCells(rosters)
    BY <2>1, <2>4 DEF Settled
  <2> HIDE DEF V
  <2>6. SameUpTo(rosters, V, rosters, V', P)
    BY <2>2, <2>3, <2>4, SettledForward
  <2>7. \A j : position(j[1]) <= P => (j \in V <=> j \in V')
    BY <2>4, <2>6 DEF SameUpTo, Settled
  <2>8. visibleUpTo(P, flow') = visibleUpTo(P, flow)
    BY <2>7 DEF visibleUpTo, V
  <2>9. k \in V'
    BY <2>1, <2>2, <2>7
  <2> DEFINE v == flow.visible
             w == flow'.visible
             X == visibleSteps(rules, answers, rosters, v)
             Y == visibleSteps(rules, answers', rosters, w)
  <2>10. ASSUME NEW n \in Positions, n <= P, opensStep(n)
         PROVE  Document[n].step \in X <=> Document[n].step \in Y
    <3>1. /\ Settled(rules, answers, rosters, ToSet(v)) /\ Settled(rules, answers', rosters, ToSet(w))
          /\ SameUpTo(rosters, ToSet(v), rosters, ToSet(w), P)
          /\ k \in ToSet(v) /\ k \in ToSet(w)
      BY <2>1, <2>4, <2>6, <2>9 DEF V
    <3>2. P \in Positions /\ position(k[1]) = P
      BY <2>2
    <3> HIDE DEF v, w, P
    <3>3. QED
      BY <2>3, <2>4, <2>10, <3>1, <3>2, SameStepsShown
  <2>11. flow.views = stepViews(X, rosters) /\ flow'.views = stepViews(Y, rosters)
    <3>1. flow = evaluateRules(rules, answers, rosters) /\ flow' = evaluateRules(rules, answers', rosters)
      BY <1>1, <1>2, <2>1
    <3>2. \A as : LET f == evaluateRules(rules, as, rosters)
                  IN f.views = stepViews(visibleSteps(rules, as, rosters, f.visible), rosters)
      BY DEF evaluateRules
    <3>3. QED
      BY <3>1, <3>2
  <2> HIDE DEF X, Y, P
  <2>12. PagesIn(P, flow.views) = PagesIn(P, flow'.views)
    BY <2>2, <2>4, <2>10, <2>11, SameSteps
  <2>13. pagesUpTo(P, flow') = pagesUpTo(P, flow)
    BY <2>12, Zenon DEF PagesIn, pagesUpTo
  <2>14. QED
    BY <2>8, <2>13 DEF P
<1>3. ASSUME RuleInv, [Next]_vars, NEW g \in Groups, rosters'[g] # rosters[g]
      PROVE  visibleUpTo(LastOf(g), flow') \cap live = visibleUpTo(LastOf(g), flow) \cap live'
  <2> DEFINE P == LastOf(g)
  <2>1. answers' = answers /\ \A h \in Groups : h # g => rosters'[h] = rosters[h]
    BY <1>3, StepCases
  <2>2. P \in Nat
    BY LastOfGroup, PositionsFacts
  <2>3. Alike(answers, rosters, answers', rosters', P)
    BY <2>1, <2>2 DEF Alike
  <2>4. /\ LooksForward(rules) /\ rosters \in Rosters /\ rosters' \in Rosters
        /\ Settled(rules, answers, rosters, V) /\ Settled(rules, answers', rosters', V')
    BY <1>1, <1>3
  <2>5. live = LiveCells(rosters) /\ live' = LiveCells(rosters')
    BY <2>4, LiveKeysFacts DEF live
  <2> HIDE DEF V, P
  <2>6. SameUpTo(rosters, V, rosters', V', P)
    BY <2>2, <2>3, <2>4, SettledForward
  <2>7. visibleUpTo(P, flow') \cap live = visibleUpTo(P, flow) \cap live'
    BY <2>4, <2>5, <2>6 DEF SameUpTo, Settled, visibleUpTo, V
  <2>8. QED
    BY <2>7 DEF P
<1>4. ASSUME RuleInv, [Next]_vars
      PROVE  [/\ \A k \in Keys : answers'[k] # answers[k] =>
                   /\ visibleUpTo(position(k[1]), flow') = visibleUpTo(position(k[1]), flow)
                   /\ pagesUpTo(position(k[1]), flow') = pagesUpTo(position(k[1]), flow)
              /\ \A g \in Groups : rosters'[g] # rosters[g] =>
                   visibleUpTo(LastOf(g), flow') \cap live = visibleUpTo(LastOf(g), flow) \cap live']_vars
  BY <1>2, <1>3, <1>4
<1>5. QED
  BY <1>4, RuleInvariant, PTL DEF Spec, ChangesLookForward
=============================================================================
