---------------------------- MODULE Roster_proofs ----------------------------
(***************************************************************************)
(* The rosters of one session, for any groups, any number of requests and  *)
(* any order in which they get the lock: sizes, tokens and what is sealed. *)
(***************************************************************************)
EXTENDS Roster, FiniteSetTheorems, TLAPS

-----------------------------------------------------------------------------
(* The first n rows of an order.                                           *)

prec(rs, r) == {s \in rs : Before(s, r)}
firstRows(rs, n) == {r \in rs : Cardinality(prec(rs, r)) < n}
Total(rs) == \A r, s \in rs : r # s => Before(r, s) \/ Before(s, r)

\* Instances name rows: no two rows of the set have one instance.
Named(rs) == \A r, s \in rs : r.instance = s.instance => r = s

\* A set of named rows has as many instances as rows.
LEMMA InstanceCount ==
    ASSUME NEW rs, IsFiniteSet(rs)
    PROVE  /\ IsFiniteSet({r.instance : r \in rs})
           /\ Cardinality({r.instance : r \in rs}) <= Cardinality(rs)
           /\ Named(rs) => Cardinality({r.instance : r \in rs}) = Cardinality(rs)
<1> DEFINE T == {r.instance : r \in rs}
           f == [r \in rs |-> r.instance]
<1>1. f \in Surjection(rs, T)
  BY DEF Surjection
<1>2. Named(rs) => f \in Injection(rs, T)
  BY DEF Named, Injection, IsInjective
<1> HIDE DEF f
<1>3. QED
  BY <1>1, <1>2, FS_Surjection

\* The rows before a row are a proper part of the rows before any later one.
LEMMA PrecGrows ==
    ASSUME NEW rs \in SUBSET Row, NEW r \in rs, NEW s \in rs, Before(r, s)
    PROVE  prec(rs, r) \subseteq prec(rs, s) /\ r \in prec(rs, s) \ prec(rs, r)
<1>1. \A x \in rs : x.at \in Nat /\ x.instance \in Nat \X Nat
  BY DEF Row
<1>2. \A x \in rs : x.instance[1] \in Nat /\ x.instance[2] \in Nat
  BY <1>1
<1>3. QED
  BY <1>1, <1>2 DEF prec, Before

\* So its number in the order is smaller.
LEMMA RankGrows ==
    ASSUME NEW rs \in SUBSET Row, IsFiniteSet(rs), NEW r \in rs, NEW s \in rs, Before(r, s)
    PROVE  /\ Cardinality(prec(rs, r)) \in Nat /\ Cardinality(prec(rs, s)) \in Nat
           /\ Cardinality(prec(rs, r)) < Cardinality(prec(rs, s))
<1>1. prec(rs, r) \subseteq prec(rs, s) /\ prec(rs, r) # prec(rs, s)
  BY PrecGrows
<1>2. prec(rs, s) \in SUBSET rs
  BY DEF prec
<1>3. IsFiniteSet(prec(rs, s))
  BY <1>2, FS_Subset
<1>4. IsFiniteSet(prec(rs, r))
  BY <1>1, <1>3, FS_Subset
<1>5. QED
  BY <1>1, <1>3, <1>4, FS_Subset, FS_CardinalityType

\* There are at most n first rows.
LEMMA FirstAtMost ==
    ASSUME NEW rs \in SUBSET Row, IsFiniteSet(rs), Total(rs), NEW n \in Nat
    PROVE  /\ IsFiniteSet(firstRows(rs, n))
           /\ Cardinality(firstRows(rs, n)) \in Nat
           /\ Cardinality(firstRows(rs, n)) <= n
<1> DEFINE S == firstRows(rs, n)
           f == [r \in S |-> Cardinality(prec(rs, r))]
<1>1. S \in SUBSET rs
  BY DEF firstRows
<1>2. IsFiniteSet(S) /\ Cardinality(S) \in Nat
  BY <1>1, FS_Subset, FS_CardinalityType
<1>3. \A r \in S : Cardinality(prec(rs, r)) \in Nat
  <2> TAKE r \in S
  <2>1. prec(rs, r) \in SUBSET rs
    BY DEF prec
  <2>2. QED
    BY <2>1, FS_Subset, FS_CardinalityType
<1>4. \A r \in S : Cardinality(prec(rs, r)) \in 0 .. (n - 1)
  BY <1>3 DEF firstRows
<1>5. \A r, s \in S : Cardinality(prec(rs, r)) = Cardinality(prec(rs, s)) => r = s
  BY <1>1, <1>3, RankGrows DEF Total
<1>6. f \in Injection(S, 0 .. (n - 1))
  <2>1. \A r \in S : f[r] = Cardinality(prec(rs, r))
    OBVIOUS
  <2>2. f \in [S -> 0 .. (n - 1)]
    BY <1>4
  <2>3. IsInjective(f)
    <3>1. DOMAIN f = S
      OBVIOUS
    <3> HIDE DEF f
    <3>2. QED
      BY <1>5, <2>1, <3>1 DEF IsInjective
  <2> HIDE DEF f, S
  <2>4. QED
    BY <2>2, <2>3 DEF Injection
<1>7. IsFiniteSet(0 .. (n - 1)) /\ Cardinality(0 .. (n - 1)) = n
  BY FS_Interval
<1> HIDE DEF f, S
<1>8. Cardinality(S) <= n
  BY <1>6, <1>7, FS_Injection
<1>9. QED
  BY <1>2, <1>8 DEF S

\* And at least n, when there are that many rows: the first row left out would
\* have all first rows before it.
LEMMA FirstAtLeast ==
    ASSUME NEW rs \in SUBSET Row, IsFiniteSet(rs), NEW n \in Nat, n <= Cardinality(rs)
    PROVE  n <= Cardinality(firstRows(rs, n))
<1> DEFINE S == firstRows(rs, n)
<1>1. S \in SUBSET rs
  BY DEF firstRows
<1>2. IsFiniteSet(S) /\ Cardinality(S) \in Nat
  BY <1>1, FS_Subset, FS_CardinalityType
<1>3. CASE S = rs
  BY <1>3
<1>4. CASE S # rs
  <2> DEFINE P == {prec(rs, r) : r \in rs \ S}
  <2>1. P \subseteq FiniteSubsetsOf(rs) /\ P # {}
    <3>1. \A r \in rs : prec(rs, r) \in SUBSET rs
      BY DEF prec
    <3>2. FiniteSubsetsOf(rs) = SUBSET rs
      BY FS_FiniteSubsetsOfFinite
    <3>3. PICK r \in rs : r \notin S
      BY <1>1, <1>4
    <3>4. prec(rs, r) \in P
      BY <3>3
    <3>5. P \subseteq SUBSET rs
      BY <3>1
    <3> HIDE DEF P
    <3>6. QED
      BY <3>2, <3>4, <3>5
  <2>2. PICK m \in P : \A p \in P : <<p, m>> \notin StrictSubsetOrdering(rs)
    <3> HIDE DEF P
    <3>1. QED
      BY <2>1, FS_StrictSubsetOrderingWellFounded, WFMin
  <2>3. PICK x \in rs \ S : m = prec(rs, x)
    BY <2>2
  <2>4. prec(rs, x) \subseteq S
    <3>1. SUFFICES ASSUME NEW y \in prec(rs, x), y \notin S PROVE FALSE
      OBVIOUS
    <3>2. y \in rs /\ Before(y, x)
      BY <3>1 DEF prec
    <3>3. prec(rs, y) \subseteq prec(rs, x) /\ prec(rs, y) # prec(rs, x)
      BY <3>2, PrecGrows
    <3>4. prec(rs, y) \in P
      BY <3>1, <3>2
    <3>5. prec(rs, x) \in SUBSET rs /\ prec(rs, y) \in SUBSET rs
      BY DEF prec
    <3>6. <<prec(rs, y), prec(rs, x)>> \in StrictSubsetOrdering(rs)
      BY <3>3, <3>5 DEF StrictSubsetOrdering
    <3>7. QED
      BY <2>2, <2>3, <3>4, <3>6
  <2>5. IsFiniteSet(prec(rs, x)) /\ Cardinality(prec(rs, x)) <= Cardinality(S)
    BY <1>2, <2>4, FS_Subset
  <2>6. Cardinality(prec(rs, x)) \in Nat /\ ~(Cardinality(prec(rs, x)) < n)
    BY <2>3, <2>5, FS_CardinalityType DEF firstRows
  <2>7. QED
    BY <1>2, <2>5, <2>6
<1>5. QED
  BY <1>3, <1>4

\* So First gives exactly n instances.
LEMMA FirstCount ==
    ASSUME NEW rs \in SUBSET Row, IsFiniteSet(rs), Total(rs), NEW n \in Nat
    PROVE  /\ IsFiniteSet(First(rs, n)) /\ Cardinality(First(rs, n)) \in Nat
           /\ Cardinality(First(rs, n)) <= n
           /\ Named(rs) /\ n <= Cardinality(rs) => Cardinality(First(rs, n)) = n
<1> DEFINE S == firstRows(rs, n)
<1>1. First(rs, n) = {r.instance : r \in S}
  BY DEF First, firstRows, prec
<1>2. /\ IsFiniteSet(S) /\ Cardinality(S) \in Nat /\ Cardinality(S) <= n
      /\ n <= Cardinality(rs) => n <= Cardinality(S)
  BY FirstAtMost, FirstAtLeast
<1>3. Named(rs) => Named(S)
  BY DEF Named, firstRows
<1> HIDE DEF S
<1>4. /\ IsFiniteSet(First(rs, n))
      /\ Cardinality(First(rs, n)) <= Cardinality(S)
      /\ Named(S) => Cardinality(First(rs, n)) = Cardinality(S)
  BY <1>1, <1>2, InstanceCount
<1>5. Cardinality(First(rs, n)) \in Nat
  BY <1>4, FS_CardinalityType
<1>6. QED
  BY <1>2, <1>3, <1>4, <1>5

\* Rows that come after all the others do not displace one of the first n.
LEMMA FirstKept ==
    ASSUME NEW rs \in SUBSET Row, NEW more \in SUBSET Row, IsFiniteSet(rs), IsFiniteSet(more),
           rs \subseteq more, \A r \in more \ rs : \A s \in rs : Before(s, r),
           NEW n \in Nat, n <= Cardinality(rs)
    PROVE  First(more, n) = First(rs, n)
<1>1. \A x \in more : x.at \in Nat /\ x.instance \in Nat \X Nat
  BY DEF Row
<1>2. \A x \in more : x.instance[2] \in Nat
  BY <1>1
<1>3. \A r, s \in more : Before(s, r) => ~Before(r, s)
  BY <1>1, <1>2 DEF Before
<1>4. \A r \in rs : prec(more, r) = prec(rs, r)
  BY <1>3 DEF prec
<1>5. \A r \in more \ rs : ~(Cardinality(prec(more, r)) < n)
  <2> TAKE r \in more \ rs
  <2>1. rs \subseteq prec(more, r) /\ prec(more, r) \in SUBSET more
    BY DEF prec
  <2>2. IsFiniteSet(prec(more, r))
    BY <2>1, FS_Subset
  <2>3. Cardinality(rs) <= Cardinality(prec(more, r))
    BY <2>1, <2>2, FS_Subset
  <2>4. Cardinality(rs) \in Nat /\ Cardinality(prec(more, r)) \in Nat
    BY <2>2, FS_CardinalityType
  <2>5. QED
    BY <2>3, <2>4
<1>6. firstRows(more, n) = firstRows(rs, n)
  BY <1>4, <1>5 DEF firstRows
<1>7. /\ First(more, n) = {r.instance : r \in firstRows(more, n)}
      /\ First(rs, n) = {r.instance : r \in firstRows(rs, n)}
  BY DEF First, firstRows, prec
<1>8. QED
  BY <1>6, <1>7

-----------------------------------------------------------------------------
(* The rules of a group's count.                                           *)

Answer == Sizes \cup {None}

\* Every size a group is given is a number within its maximum.
LEMMA LimitBounds ==
    ASSUME NEW g \in Groups, NEW answer \in Answer
    PROVE  /\ liveInstanceLimit(g, answer) \in Nat /\ liveInstanceLimit(g, answer) <= Count[g].max
           /\ mintTarget(g, answer) \in Nat /\ mintTarget(g, answer) <= Count[g].max
           /\ Count[g].max \in Nat
           /\ Count[g].source = "open" => mintTarget(g, answer) = mintTarget(g, None)
<1>1. /\ Count[g].min \in Nat /\ Count[g].max \in Nat /\ Count[g].max >= 1
      /\ Count[g].min <= Count[g].max
      /\ Count[g].source \in {"fixed", "fromAnswer", "open"}
  BY CountAssumption DEF RepeatCount
<1>2. answer # None => answer \in Nat
  BY InputAssumption DEF Answer
<1>3. /\ liveInstanceLimit(g, answer) \in Nat
      /\ liveInstanceLimit(g, answer) <= Count[g].max
  BY <1>1, <1>2 DEF liveInstanceLimit, clamp
<1>4. QED
  BY <1>1, <1>3 DEF mintTarget

-----------------------------------------------------------------------------
(* What a set of rows satisfies, whoever appended to it.                   *)

\* The instances no Add accounts for, and how many a group may have of them.
tokenless(rs, g) == {r \in added(rs, g) : r.token = None}
opensWith(g) == IF Count[g].source = "open" THEN mintTarget(g, None) ELSE Count[g].max

\* The instances that are not removed.
standing(rs, g) == {r.instance : r \in presentRows(rs, g)}

RowsOK(rs) ==
    /\ rs \subseteq Row /\ IsFiniteSet(rs)
    /\ \A r \in rs : r.event = "added" => r.instance[1] = r.at
    /\ \A g \in Groups : Named(added(rs, g))
    /\ \A r \in rs : r.event = "removed" => Count[r.group].source = "open"
    /\ \A r, s \in rs : r.token # None /\ r.token = s.token => r = s
    /\ \A g \in Groups : Cardinality(tokenless(rs, g)) <= opensWith(g)
    /\ \A g \in Groups : Count[g].source = "open" =>
                             Cardinality(standing(rs, g)) <= Count[g].max

\* The instances one transaction has minted in a group are numbered within it.
Numbered(rs, g, at) ==
    \A r \in added(rs, g) : r.at = at => r.instance[2] <= Cardinality(minted(rs, g))

\* The rows of a group, counted.
LEMMA GroupFacts ==
    ASSUME NEW rs, RowsOK(rs), NEW g \in Groups
    PROVE  /\ added(rs, g) \in SUBSET Row /\ IsFiniteSet(added(rs, g)) /\ Total(added(rs, g))
           /\ IsFiniteSet(minted(rs, g)) /\ Cardinality(minted(rs, g)) \in Nat
           /\ Cardinality(minted(rs, g)) = Cardinality(added(rs, g))
           /\ IsFiniteSet(tokenless(rs, g)) /\ Cardinality(tokenless(rs, g)) \in Nat
           /\ Cardinality(tokenless(rs, g)) <= Cardinality(minted(rs, g))
           /\ presentRows(rs, g) \in SUBSET Row /\ IsFiniteSet(presentRows(rs, g))
           /\ Total(presentRows(rs, g)) /\ Named(presentRows(rs, g))
           /\ standing(rs, g) \subseteq minted(rs, g)
           /\ IsFiniteSet(standing(rs, g)) /\ Cardinality(standing(rs, g)) \in Nat
           /\ Cardinality(standing(rs, g)) <= Cardinality(minted(rs, g))
<1>1. /\ added(rs, g) \in SUBSET rs /\ tokenless(rs, g) \in SUBSET added(rs, g)
      /\ presentRows(rs, g) \in SUBSET added(rs, g)
      /\ rs \subseteq Row /\ IsFiniteSet(rs) /\ Named(added(rs, g))
  BY DEF RowsOK, added, tokenless, presentRows
<1>2. IsFiniteSet(added(rs, g))
  BY <1>1, FS_Subset
<1>3. /\ IsFiniteSet(tokenless(rs, g))
      /\ Cardinality(tokenless(rs, g)) <= Cardinality(added(rs, g))
      /\ Cardinality(tokenless(rs, g)) \in Nat /\ Cardinality(added(rs, g)) \in Nat
      /\ IsFiniteSet(presentRows(rs, g))
  BY <1>1, <1>2, FS_Subset, FS_CardinalityType
<1>4. Total(added(rs, g))
  <2> SUFFICES ASSUME NEW r \in added(rs, g), NEW s \in added(rs, g), r # s
               PROVE  Before(r, s) \/ Before(s, r)
    BY DEF Total
  <2>1. /\ r.at \in Nat /\ s.at \in Nat
        /\ r.instance \in Nat \X Nat /\ s.instance \in Nat \X Nat
    BY <1>1 DEF Row
  <2>2. r.instance[1] = r.at /\ s.instance[1] = s.at
    BY DEF RowsOK, added
  <2>3. r.instance # s.instance
    BY <1>1 DEF Named
  <2>4. r.instance[1] # s.instance[1] \/ r.instance[2] # s.instance[2]
    BY <2>1, <2>3
  <2>5. r.instance[2] \in Nat /\ s.instance[2] \in Nat
    BY <2>1
  <2>6. QED
    BY <2>1, <2>2, <2>4, <2>5 DEF Before
<1>5. /\ IsFiniteSet(minted(rs, g)) /\ Cardinality(minted(rs, g)) = Cardinality(added(rs, g))
  BY <1>1, <1>2, InstanceCount DEF minted
<1>6. standing(rs, g) \in SUBSET minted(rs, g)
  BY <1>1 DEF standing, minted
<1>7. /\ IsFiniteSet(standing(rs, g)) /\ Cardinality(standing(rs, g)) \in Nat
      /\ Cardinality(standing(rs, g)) <= Cardinality(minted(rs, g))
  BY <1>5, <1>6, FS_Subset, FS_CardinalityType
<1>8. Total(presentRows(rs, g)) /\ Named(presentRows(rs, g))
  BY <1>1, <1>4 DEF Total, Named
<1>9. QED
  BY <1>1, <1>2, <1>3, <1>4, <1>5, <1>6, <1>7, <1>8

\* addInstances appends n rows with instances nobody has had.
LEMMA FreshRows ==
    ASSUME NEW rs, RowsOK(rs), NEW g \in Groups, NEW n \in Nat, NEW at \in Nat,
           NEW token \in Tokens \cup {None}, Numbered(rs, g, at)
    PROVE  LET D == addInstances(rs, g, n, token, at)
           IN  /\ D \in SUBSET Row /\ IsFiniteSet(D) /\ Cardinality(D) = n /\ Named(D)
               /\ \A r \in D : /\ r.group = g /\ r.event = "added" /\ r.token = token
                               /\ r.at = at /\ r.instance[1] = at
                               /\ r.instance[2] <= Cardinality(minted(rs, g)) + n
                               /\ r.instance \notin minted(rs, g)
<1> DEFINE last == Cardinality(minted(rs, g))
           I == (last + 1) .. (last + n)
           row(i) == [group |-> g, instance |-> <<at, i>>, event |-> "added",
                      token |-> token, at |-> at]
           D == {row(i) : i \in I}
           f == [i \in I |-> row(i)]
<1>1. addInstances(rs, g, n, token, at) = D
  BY DEF addInstances
<1>2. last \in Nat
  BY GroupFacts
<1>3. IsFiniteSet(I) /\ Cardinality(I) = n
  <2> HIDE DEF last
  <2>1. last + 1 \in Int /\ last + n \in Int
    BY <1>2
  <2>2. /\ IsFiniteSet(I)
        /\ Cardinality(I) = IF last + 1 > last + n THEN 0 ELSE (last + n) - (last + 1) + 1
    BY <2>1, FS_Interval
  <2>3. QED
    BY <1>2, <2>2
<1>4. \A i \in I : /\ row(i) \in Row
                   /\ row(i).instance[2] = i /\ row(i).instance[1] = at
  BY <1>2 DEF Row
<1>5. f \in Surjection(I, D)
  BY DEF Surjection
<1>6. IsInjective(f)
  <2>1. \A i, j \in I : row(i) = row(j) => i = j
    BY <1>4
  <2>2. DOMAIN f = I /\ \A i \in I : f[i] = row(i)
    OBVIOUS
  <2> HIDE DEF f, row, I
  <2>3. QED
    BY <2>1, <2>2 DEF IsInjective
<1>7. f \in Injection(I, D)
  <2>1. f \in [I -> D]
    OBVIOUS
  <2> HIDE DEF f, D, I
  <2>2. QED
    BY <1>6, <2>1 DEF Injection
<1>8. IsFiniteSet(D) /\ Cardinality(D) = n
  <2> HIDE DEF f, D, I
  <2>1. QED
    BY <1>3, <1>5, <1>7, FS_Surjection
<1>9. Named(D)
  <2> SUFFICES ASSUME NEW r \in D, NEW s \in D, r.instance = s.instance PROVE r = s
    BY DEF Named
  <2>1. PICK i \in I : r = row(i)
    OBVIOUS
  <2>2. PICK j \in I : s = row(j)
    OBVIOUS
  <2>3. i = j
    BY <1>4, <2>1, <2>2
  <2>4. QED
    BY <2>1, <2>2, <2>3
<1>10. \A i \in I : row(i).instance \notin minted(rs, g)
  <2> SUFFICES ASSUME NEW i \in I, <<at, i>> \in minted(rs, g) PROVE FALSE
    OBVIOUS
  <2>1. PICK r \in added(rs, g) : r.instance = <<at, i>>
    BY DEF minted
  <2>2. r.at = at
    BY <2>1 DEF RowsOK, added
  <2>3. i <= last
    BY <2>1, <2>2 DEF Numbered
  <2>4. QED
    BY <1>2, <2>3
<1>11. D \in SUBSET Row
  BY <1>4
<1>12. \A r \in D : /\ r.group = g /\ r.event = "added" /\ r.token = token
                    /\ r.at = at /\ r.instance[1] = at
                    /\ r.instance[2] <= last + n
                    /\ r.instance \notin minted(rs, g)
  BY <1>2, <1>4, <1>10
<1> HIDE DEF D
<1>13. QED
  BY <1>1, <1>8, <1>9, <1>11, <1>12

\* What they do to the counts of their group.
LEMMA GroupGrows ==
    ASSUME NEW rs, RowsOK(rs), NEW g \in Groups, NEW n \in Nat, NEW at \in Nat,
           NEW token \in Tokens \cup {None}, Numbered(rs, g, at),
           NEW more, added(more, g) = added(rs, g) \cup addInstances(rs, g, n, token, at)
    PROVE  /\ Named(added(more, g)) /\ IsFiniteSet(added(more, g))
           /\ IsFiniteSet(minted(more, g))
           /\ Cardinality(minted(more, g)) = Cardinality(minted(rs, g)) + n
           /\ token = None => Cardinality(tokenless(more, g)) <= Cardinality(tokenless(rs, g)) + n
           /\ token # None => tokenless(more, g) = tokenless(rs, g)
           /\ Numbered(more, g, at)
<1> DEFINE D == addInstances(rs, g, n, token, at)
<1>1. /\ IsFiniteSet(D) /\ Cardinality(D) = n /\ Named(D)
      /\ \A r \in D : /\ r.token = token /\ r.at = at
                      /\ r.instance[2] <= Cardinality(minted(rs, g)) + n
                      /\ r.instance \notin minted(rs, g)
  BY FreshRows
<1>2. /\ IsFiniteSet(added(rs, g)) /\ Cardinality(minted(rs, g)) = Cardinality(added(rs, g))
      /\ Cardinality(minted(rs, g)) \in Nat /\ added(rs, g) \in SUBSET Row
      /\ IsFiniteSet(tokenless(rs, g)) /\ Cardinality(tokenless(rs, g)) \in Nat
      /\ Named(added(rs, g))
  BY GroupFacts DEF RowsOK
<1>3. added(more, g) = added(rs, g) \cup D
  OBVIOUS
<1> HIDE DEF D
<1>4. \A r \in added(rs, g) : r.instance \in minted(rs, g)
  BY DEF minted
<1>5. Named(added(more, g))
  BY <1>1, <1>2, <1>3, <1>4 DEF Named
<1>6. /\ IsFiniteSet(added(more, g))
      /\ Cardinality(added(more, g)) = Cardinality(minted(rs, g)) + n
  <2>1. added(rs, g) \cap D = {}
    BY <1>1, <1>4
  <2>2. /\ IsFiniteSet(added(more, g))
        /\ Cardinality(added(more, g)) =
               Cardinality(added(rs, g)) + Cardinality(D) - Cardinality(added(rs, g) \cap D)
    BY <1>1, <1>2, <1>3, FS_Union
  <2>3. Cardinality(added(rs, g) \cap D) = 0
    BY <2>1, FS_EmptySet
  <2>4. QED
    BY <1>1, <1>2, <2>2, <2>3
<1>7. /\ IsFiniteSet(minted(more, g))
      /\ Cardinality(minted(more, g)) = Cardinality(added(more, g))
  BY <1>5, <1>6, InstanceCount DEF minted
<1>8. ASSUME token = None
      PROVE  Cardinality(tokenless(more, g)) <= Cardinality(tokenless(rs, g)) + n
  <2>1. tokenless(more, g) = tokenless(rs, g) \cup D
    BY <1>1, <1>3, <1>8 DEF tokenless
  <2>2. Cardinality(tokenless(more, g)) =
            Cardinality(tokenless(rs, g)) + n - Cardinality(tokenless(rs, g) \cap D)
    BY <1>1, <1>2, <2>1, FS_Union
  <2>3. Cardinality(tokenless(rs, g) \cap D) \in Nat
    BY <1>2, FS_Intersection, FS_CardinalityType
  <2>4. QED
    BY <1>2, <2>2, <2>3
<1>9. token # None => tokenless(more, g) = tokenless(rs, g)
  BY <1>1, <1>3 DEF tokenless
<1>10. Numbered(more, g, at)
  <2> SUFFICES ASSUME NEW r \in added(more, g), r.at = at
               PROVE  r.instance[2] <= Cardinality(minted(more, g))
    BY DEF Numbered
  <2>1. CASE r \in D
    BY <1>1, <1>6, <1>7, <2>1
  <2>2. CASE r \in added(rs, g)
    <3>1. r.instance[2] <= Cardinality(minted(rs, g))
      BY <2>2 DEF Numbered
    <3>2. r.instance \in Nat \X Nat
      BY <1>2, <2>2 DEF Row
    <3>3. r.instance[2] \in Nat
      BY <3>2
    <3>4. QED
      BY <1>2, <1>6, <1>7, <3>1, <3>3
  <2>3. QED
    BY <1>3, <2>1, <2>2
<1>11. QED
  BY <1>5, <1>6, <1>7, <1>8, <1>9, <1>10

-----------------------------------------------------------------------------
(* A mint.                                                                 *)

\* How many instances a response mints in a group.
mintCount(rs, g, answer, step) == IF g \in due(step) THEN shortfall(rs, g, answer) ELSE 0

\* It mints up to the target, and nothing in a group that has reached it.
LEMMA MintCount ==
    ASSUME NEW rs, RowsOK(rs), NEW g \in Groups, NEW answer \in Answer, NEW step
    PROVE  /\ mintCount(rs, g, answer, step) \in Nat
           /\ mintCount(rs, g, answer, step) # 0 =>
                /\ Cardinality(minted(rs, g)) < mintTarget(g, answer)
                /\ Cardinality(minted(rs, g)) + mintCount(rs, g, answer, step) =
                       mintTarget(g, answer)
           /\ g \in due(step) =>
                mintTarget(g, answer) <=
                    Cardinality(minted(rs, g)) + mintCount(rs, g, answer, step)
<1>1. Cardinality(minted(rs, g)) \in Nat /\ mintTarget(g, answer) \in Nat
  BY GroupFacts, LimitBounds
<1>2. QED
  BY <1>1 DEF mintCount, shortfall

\* The rows a mint appends, and those of each group afterwards.
LEMMA MintRows ==
    ASSUME NEW rs, RowsOK(rs), NEW answer \in Answer, NEW step \in SUBSET Groups,
           NEW at \in Nat, \A g \in Groups : Numbered(rs, g, at)
    PROVE  /\ rs \subseteq mintDue(rs, answer, step, at)
           /\ IsFiniteSet(mintDue(rs, answer, step, at))
           /\ \A r \in mintDue(rs, answer, step, at) \ rs :
                 /\ r \in Row /\ r.event = "added" /\ r.token = None /\ r.at = at
                 /\ r.instance[1] = at /\ r.group \in Groups
                 /\ Cardinality(minted(rs, r.group)) < mintTarget(r.group, answer)
           /\ \A g \in Groups :
                 added(mintDue(rs, answer, step, at), g) =
                     added(rs, g) \cup
                         addInstances(rs, g, mintCount(rs, g, answer, step), None, at)
<1> DEFINE D(g) == addInstances(rs, g, shortfall(rs, g, answer), None, at)
           all == UNION {D(g) : g \in due(step)}
           more == mintDue(rs, answer, step, at)
<1>1. due(step) \in SUBSET Groups
  BY DEF due
<1>2. ASSUME NEW g \in due(step)
      PROVE  /\ mintCount(rs, g, answer, step) = shortfall(rs, g, answer)
             /\ shortfall(rs, g, answer) \in Nat
  BY <1>1, MintCount DEF mintCount
<1>3. ASSUME NEW g \in due(step)
      PROVE  /\ IsFiniteSet(D(g)) /\ D(g) \in SUBSET Row
             /\ Cardinality(D(g)) = shortfall(rs, g, answer)
             /\ \A r \in D(g) : /\ r.group = g /\ r.event = "added" /\ r.token = None
                                /\ r.at = at /\ r.instance[1] = at
  BY <1>1, <1>2, FreshRows
<1>4. more = rs \cup all
  BY DEF mintDue
<1>5. IsFiniteSet(all)
  <2> DEFINE f == [g \in due(step) |-> D(g)]
  <2>1. IsFiniteSet(due(step))
    BY <1>1, CountAssumption, FS_Subset
  <2>2. f \in Surjection(due(step), {D(g) : g \in due(step)})
    BY DEF Surjection
  <2>3. \A S \in {D(g) : g \in due(step)} : IsFiniteSet(S)
    BY <1>3
  <2> HIDE DEF D, f
  <2>4. IsFiniteSet({D(g) : g \in due(step)})
    BY <2>1, <2>2, FS_Surjection
  <2>5. QED
    BY <2>3, <2>4, FS_UNION
<1>6. IsFiniteSet(more)
  <2>1. IsFiniteSet(rs)
    BY DEF RowsOK
  <2> HIDE DEF all, more
  <2>2. QED
    BY <1>4, <1>5, <2>1, FS_Union
<1>7. ASSUME NEW r \in more \ rs
      PROVE  /\ r \in Row /\ r.event = "added" /\ r.token = None /\ r.at = at
             /\ r.instance[1] = at /\ r.group \in Groups
             /\ Cardinality(minted(rs, r.group)) < mintTarget(r.group, answer)
  <2>1. PICK g \in due(step) : r \in D(g)
    BY <1>4, <1>7
  <2>2. D(g) # {} /\ IsFiniteSet(D(g))
    BY <1>3, <2>1
  <2>3. shortfall(rs, g, answer) # 0
    BY <1>3, <2>2, FS_EmptySet
  <2>4. QED
    BY <1>1, <1>2, <1>3, <2>1, <2>3, MintCount
<1>8. ASSUME NEW g \in Groups
      PROVE  added(more, g) = added(rs, g) \cup
                 addInstances(rs, g, mintCount(rs, g, answer, step), None, at)
  <2>1. {r \in all : r.group = g /\ r.event = "added"} =
            IF g \in due(step) THEN D(g) ELSE {}
    BY <1>3
  <2>2. added(more, g) = added(rs, g) \cup (IF g \in due(step) THEN D(g) ELSE {})
    BY <1>4, <2>1 DEF added
  <2>3. g \notin due(step) => addInstances(rs, g, mintCount(rs, g, answer, step), None, at) = {}
    <3>1. Cardinality(minted(rs, g)) \in Nat
      BY GroupFacts
    <3>2. (Cardinality(minted(rs, g)) + 1) .. (Cardinality(minted(rs, g)) + 0) = {}
      BY <3>1
    <3>3. QED
      BY <3>2 DEF addInstances, mintCount
  <2>4. QED
    BY <1>2, <2>2, <2>3
<1> HIDE DEF more
<1>9. rs \subseteq more
  BY <1>4
<1>10. QED
  BY <1>6, <1>7, <1>8, <1>9 DEF more

\* In short: nothing is lost, and what is new is the transaction's.
LEMMA MintStamps ==
    ASSUME NEW rs, RowsOK(rs), NEW answer \in Answer, NEW step \in SUBSET Groups,
           NEW at \in Nat, \A g \in Groups : Numbered(rs, g, at)
    PROVE  /\ rs \subseteq mintDue(rs, answer, step, at)
           /\ \A r \in mintDue(rs, answer, step, at) \ rs : r.at = at
<1>1. rs \subseteq mintDue(rs, answer, step, at)
  BY MintRows
<1>2. \A r \in mintDue(rs, answer, step, at) \ rs :
          /\ r \in Row /\ r.event = "added" /\ r.token = None /\ r.at = at
          /\ r.instance[1] = at /\ r.group \in Groups
          /\ Cardinality(minted(rs, r.group)) < mintTarget(r.group, answer)
  BY MintRows
<1>3. QED
  BY <1>1, <1>2

\* Rows without a removal leave the removals of a group as they are.
LEMMA StandingKept ==
    ASSUME NEW rs, NEW more, rs \subseteq more, NEW g,
           \A r \in more \ rs : r.event = "added", added(more, g) = added(rs, g)
    PROVE  standing(more, g) = standing(rs, g)
<1>1. presentRows(more, g) = presentRows(rs, g)
  <2>1. \A s \in more : s.event = "removed" => s \in rs
    OBVIOUS
  <2>2. QED
    BY <2>1 DEF presentRows
<1>2. QED
  BY <1>1 DEF standing

\* A mint keeps what every set of rows satisfies, and brings each group a
\* response may draw to its target.
LEMMA MintKeeps ==
    ASSUME NEW rs, RowsOK(rs), NEW answer \in Answer, NEW step \in SUBSET Groups,
           NEW at \in Nat, \A g \in Groups : Numbered(rs, g, at)
    PROVE  /\ RowsOK(mintDue(rs, answer, step, at))
           /\ \A g \in Groups :
                 /\ Cardinality(minted(rs, g)) <= Cardinality(minted(mintDue(rs, answer, step, at), g))
                 /\ g \in due(step) =>
                       mintTarget(g, answer) <= Cardinality(minted(mintDue(rs, answer, step, at), g))
<1> DEFINE more == mintDue(rs, answer, step, at)
           n(g) == mintCount(rs, g, answer, step)
<1>1. /\ rs \subseteq more /\ IsFiniteSet(more)
      /\ \A r \in more \ rs : /\ r \in Row /\ r.event = "added" /\ r.token = None
                              /\ r.at = at /\ r.instance[1] = at
  <2>1. /\ rs \subseteq more /\ IsFiniteSet(more)
        /\ \A r \in more \ rs :
              /\ r \in Row /\ r.event = "added" /\ r.token = None /\ r.at = at
              /\ r.instance[1] = at /\ r.group \in Groups
              /\ Cardinality(minted(rs, r.group)) < mintTarget(r.group, answer)
    BY MintRows
  <2> HIDE DEF more
  <2>2. QED
    BY <2>1
<1>2. ASSUME NEW g \in Groups
      PROVE  /\ n(g) \in Nat
             /\ n(g) # 0 => Cardinality(minted(rs, g)) + n(g) = mintTarget(g, answer)
             /\ g \in due(step) => mintTarget(g, answer) <= Cardinality(minted(rs, g)) + n(g)
  BY MintCount
<1>3. ASSUME NEW g \in Groups
      PROVE  /\ Named(added(more, g)) /\ IsFiniteSet(added(more, g))
             /\ IsFiniteSet(minted(more, g))
             /\ Cardinality(minted(more, g)) = Cardinality(minted(rs, g)) + n(g)
             /\ Cardinality(tokenless(more, g)) <= Cardinality(tokenless(rs, g)) + n(g)
  <2>1. added(more, g) = added(rs, g) \cup addInstances(rs, g, n(g), None, at)
    BY MintRows
  <2> HIDE DEF more
  <2>2. QED
    BY <1>2, <2>1, GroupGrows
<1>4. ASSUME NEW g \in Groups
      PROVE  Cardinality(tokenless(more, g)) <= opensWith(g)
  <2>1. /\ Cardinality(tokenless(rs, g)) \in Nat /\ Cardinality(minted(rs, g)) \in Nat
        /\ Cardinality(tokenless(rs, g)) <= Cardinality(minted(rs, g))
        /\ Cardinality(tokenless(rs, g)) <= opensWith(g)
    BY GroupFacts DEF RowsOK
  <2>2. tokenless(more, g) \in SUBSET added(more, g)
    BY DEF tokenless
  <2>3. Cardinality(tokenless(more, g)) \in Nat
    BY <1>3, <2>2, FS_Subset, FS_CardinalityType
  <2>4. mintTarget(g, answer) \in Nat /\ opensWith(g) \in Nat /\ mintTarget(g, answer) <= opensWith(g)
    <3>1. None \in Answer
      BY DEF Answer
    <3>2. QED
      BY <3>1, LimitBounds DEF opensWith
  <2>5. QED
    BY <1>2, <1>3, <2>1, <2>3, <2>4
<1>5. ASSUME NEW g \in Groups, Count[g].source = "open"
      PROVE  Cardinality(standing(more, g)) <= Count[g].max
  <2>1. CASE n(g) = 0
    <3>1. added(more, g) = added(rs, g)
      <4>1. added(more, g) = added(rs, g) \cup addInstances(rs, g, 0, None, at)
        BY <2>1, MintRows
      <4>2. Cardinality(minted(rs, g)) \in Nat
        BY GroupFacts
      <4>3. (Cardinality(minted(rs, g)) + 1) .. (Cardinality(minted(rs, g)) + 0) = {}
        BY <4>2
      <4>4. QED
        BY <4>1, <4>3 DEF addInstances
    <3>2. QED
      BY <1>1, <1>5, <3>1, StandingKept DEF RowsOK
  <2>2. CASE n(g) # 0
    <3>1. standing(more, g) \in SUBSET minted(more, g)
      BY DEF standing, presentRows, minted
    <3>2. /\ Cardinality(standing(more, g)) \in Nat
          /\ Cardinality(standing(more, g)) <= Cardinality(minted(more, g))
      BY <1>3, <3>1, FS_Subset, FS_CardinalityType
    <3>3. Cardinality(minted(more, g)) = mintTarget(g, answer)
      BY <1>2, <1>3, <2>2
    <3>4. mintTarget(g, answer) \in Nat /\ mintTarget(g, answer) <= Count[g].max
          /\ Count[g].max \in Nat
      BY LimitBounds
    <3>5. QED
      BY <3>2, <3>3, <3>4
  <2>3. QED
    BY <2>1, <2>2
<1> HIDE DEF more, n
<1>6. RowsOK(more)
  BY <1>1, <1>3, <1>4, <1>5 DEF RowsOK
<1>7. ASSUME NEW g \in Groups
      PROVE  /\ Cardinality(minted(rs, g)) <= Cardinality(minted(more, g))
             /\ g \in due(step) => mintTarget(g, answer) <= Cardinality(minted(more, g))
  <2>1. Cardinality(minted(rs, g)) \in Nat
    BY GroupFacts
  <2>2. QED
    BY <1>2, <1>3, <2>1
<1>8. QED
  BY <1>6, <1>7 DEF more

-----------------------------------------------------------------------------
(* Adds and removals.                                                      *)

\* An Add leaves the rows of its group named and numbered.
LEMMA AddGrows ==
    ASSUME NEW rs, RowsOK(rs), NEW g \in Groups, NEW at \in Nat, NEW token \in Tokens,
           Numbered(rs, g, at),
           NEW more, added(more, g) = added(rs, g) \cup addInstances(rs, g, 1, token, at)
    PROVE  /\ Named(added(more, g)) /\ IsFiniteSet(added(more, g))
           /\ Numbered(more, g, at)
<1>1. 1 \in Nat /\ token \in Tokens \cup {None}
  OBVIOUS
<1>2. Named(added(more, g))
  BY <1>1, GroupGrows
<1>3. IsFiniteSet(added(more, g))
  BY <1>1, GroupGrows
<1>4. Numbered(more, g, at)
  BY <1>1, GroupGrows
<1>5. QED
  BY <1>2, <1>3, <1>4

\* An Add below the maximum keeps what every set of rows satisfies.
LEMMA AddKeeps ==
    ASSUME NEW rs, RowsOK(rs), NEW g \in Groups, NEW at \in Nat, NEW token \in Tokens,
           \A h \in Groups : Numbered(rs, h, at),
           \A r \in rs : r.token # token, Count[g].source = "open",
           Cardinality(standing(rs, g)) < Count[g].max,
           NEW more, more = rs \cup addInstances(rs, g, 1, token, at)
    PROVE  /\ RowsOK(more)
           /\ \A h \in Groups : Numbered(more, h, at)
           /\ \A h \in Groups \ {g} : added(more, h) = added(rs, h)
<1> DEFINE D == addInstances(rs, g, 1, token, at)
<1>1. /\ D \in SUBSET Row /\ IsFiniteSet(D) /\ Cardinality(D) = 1
      /\ \A r \in D : /\ r.group = g /\ r.event = "added" /\ r.token = token
                      /\ r.at = at /\ r.instance[1] = at
  BY FreshRows
<1>2. more = rs \cup D
  OBVIOUS
<1>3. PICK d : D = {d}
  BY <1>1, FS_Singleton
<1>4. token # None
  BY InputAssumption
<1> HIDE DEF D
<1>5. added(more, g) = added(rs, g) \cup D /\ \A h \in Groups \ {g} : added(more, h) = added(rs, h)
  BY <1>1, <1>2 DEF added
<1>6. /\ Named(added(more, g)) /\ IsFiniteSet(added(more, g))
      /\ tokenless(more, g) = tokenless(rs, g)
      /\ Numbered(more, g, at)
  <2>1. Numbered(rs, g, at)
    OBVIOUS
  <2>2. added(more, g) = added(rs, g) \cup addInstances(rs, g, 1, token, at)
    BY <1>5 DEF D
  <2>3. Named(added(more, g)) /\ IsFiniteSet(added(more, g))
    BY <2>1, <2>2, AddGrows, Zenon
  <2>4. tokenless(more, g) = tokenless(rs, g)
    BY <1>1, <1>4, <1>5 DEF tokenless
  <2>5. Numbered(more, g, at)
    BY <2>1, <2>2, AddGrows, Zenon
  <2>6. QED
    BY <2>3, <2>4, <2>5
<1>7. ASSUME NEW h \in Groups \ {g}
      PROVE  /\ Named(added(more, h)) /\ Numbered(more, h, at)
             /\ tokenless(more, h) = tokenless(rs, h)
  BY <1>5 DEF RowsOK, Numbered, minted, tokenless
<1>8. ASSUME NEW h \in Groups, Count[h].source = "open"
      PROVE  Cardinality(standing(more, h)) <= Count[h].max
  <2>1. CASE h # g
    <3>1. /\ rs \subseteq more /\ \A r \in more \ rs : r.event = "added"
          /\ added(more, h) = added(rs, h)
      BY <1>1, <1>2, <1>5, <2>1
    <3>2. standing(more, h) = standing(rs, h)
      BY <3>1, StandingKept
    <3>3. QED
      BY <1>8, <3>2 DEF RowsOK
  <2>2. CASE h = g
    <3>1. standing(more, g) \subseteq standing(rs, g) \cup {d.instance}
      <4>1. presentRows(more, g) \subseteq presentRows(rs, g) \cup D
        BY <1>2, <1>5 DEF presentRows
      <4>2. QED
        BY <1>3, <4>1 DEF standing
    <3>2. IsFiniteSet(standing(rs, g)) /\ Cardinality(standing(rs, g)) \in Nat
      BY GroupFacts
    <3>3. /\ IsFiniteSet(standing(rs, g) \cup {d.instance})
          /\ Cardinality(standing(rs, g) \cup {d.instance}) <= Cardinality(standing(rs, g)) + 1
          /\ Cardinality(standing(rs, g) \cup {d.instance}) \in Nat
      BY <3>2, FS_AddElement, FS_CardinalityType
    <3>4. Cardinality(standing(more, g)) <= Cardinality(standing(rs, g) \cup {d.instance})
          /\ Cardinality(standing(more, g)) \in Nat
      BY <3>1, <3>3, FS_Subset, FS_CardinalityType
    <3>5. Count[g].max \in Nat
      BY CountAssumption DEF RepeatCount
    <3>6. QED
      BY <2>2, <3>2, <3>3, <3>4, <3>5
  <2>3. QED
    BY <2>1, <2>2
<1>9. IsFiniteSet(more)
  <2>1. IsFiniteSet(rs)
    BY DEF RowsOK
  <2>2. IsFiniteSet(rs \cup D)
    BY <1>1, <2>1, FS_Union
  <2>3. QED
    BY <1>2, <2>2
<1>10. RowsOK(more)
  <2>1. more \subseteq Row /\ \A r \in more : r.event = "added" => r.instance[1] = r.at
    BY <1>1, <1>2 DEF RowsOK
  <2>2. \A r \in more : r.event = "removed" => Count[r.group].source = "open"
    BY <1>1, <1>2 DEF RowsOK
  <2>3. \A r, s \in more : r.token # None /\ r.token = s.token => r = s
    BY <1>1, <1>2, <1>3 DEF RowsOK
  <2>4. \A h \in Groups : Named(added(more, h)) /\ Cardinality(tokenless(more, h)) <= opensWith(h)
    BY <1>6, <1>7 DEF RowsOK
  <2>5. QED
    BY <1>8, <1>9, <2>1, <2>2, <2>3, <2>4 DEF RowsOK
<1>11. QED
  BY <1>5, <1>6, <1>7, <1>10

\* So does a removal.
LEMMA RemoveKeeps ==
    ASSUME NEW rs, RowsOK(rs), NEW d \in Row, d.event = "removed", d.token # None,
           Count[d.group].source = "open", NEW at, \A h \in Groups : Numbered(rs, h, at),
           \A r \in rs : r.token # d.token,
           NEW more, more = rs \cup {d}
    PROVE  /\ RowsOK(more)
           /\ \A h \in Groups : Numbered(more, h, at)
           /\ \A h \in Groups : added(more, h) = added(rs, h)
<1>1. \A h \in Groups : added(more, h) = added(rs, h)
  BY DEF added
<1>2. \A h \in Groups : /\ Named(added(more, h)) /\ Numbered(more, h, at)
                        /\ tokenless(more, h) = tokenless(rs, h)
  BY <1>1 DEF RowsOK, Numbered, minted, tokenless
<1>3. ASSUME NEW h \in Groups, Count[h].source = "open"
      PROVE  Cardinality(standing(more, h)) <= Count[h].max
  <2>1. standing(more, h) \in SUBSET standing(rs, h)
    BY <1>1 DEF standing, presentRows
  <2>2. IsFiniteSet(standing(rs, h)) /\ Cardinality(standing(rs, h)) \in Nat
    BY GroupFacts
  <2>3. /\ Cardinality(standing(more, h)) \in Nat
        /\ Cardinality(standing(more, h)) <= Cardinality(standing(rs, h))
    BY <2>1, <2>2, FS_Subset, FS_CardinalityType
  <2>4. Count[h].max \in Nat /\ Cardinality(standing(rs, h)) <= Count[h].max
    BY <1>3, CountAssumption DEF RepeatCount, RowsOK
  <2>5. QED
    BY <2>2, <2>3, <2>4
<1>4. IsFiniteSet(more)
  BY FS_AddElement DEF RowsOK
<1>5. /\ more \subseteq Row /\ \A r \in more : r.event = "added" => r.instance[1] = r.at
      /\ \A r \in more : r.event = "removed" => Count[r.group].source = "open"
      /\ \A r, s \in more : r.token # None /\ r.token = s.token => r = s
      /\ \A h \in Groups : Named(added(more, h)) /\ Cardinality(tokenless(more, h)) <= opensWith(h)
  BY <1>2 DEF RowsOK
<1>6. QED
  BY <1>1, <1>2, <1>3, <1>4, <1>5 DEF RowsOK

-----------------------------------------------------------------------------
(* The inductive invariant.                                                *)

SizeRec == [value : Answer, at : Nat]
OpRec == [kind : {"none", "serve", "submit", "size", "add", "remove"}, group : Groups \cup {None},
          token : Tokens \cup {None}, instance : Nat \X Nat, value : Answer]
RequestRec == [pc : {"idle", "begun", "locked", "done", "failed"}, op : OpRec, at : Nat,
               rows : SUBSET Row, size : SizeRec \cup {None}]

\* A roster operation, and nothing else, carries a token.
OpOK(op) ==
    IF op.kind \in {"add", "remove"} THEN op.group \in Groups /\ op.token \in Tokens
    ELSE op.token = None

Types ==
    /\ RowsOK(rows) /\ size \in SizeRec /\ clock \in Nat
    /\ request \in [Requests -> RequestRec]
    /\ \A q \in Requests : OpOK(request[q].op)

\* The holder of the lock is the one request in its transaction, and what it
\* has read is still so.
Locking ==
    /\ \A q \in Requests : request[q].pc = "locked" =>
           lock = q /\ request[q].rows = rows /\ request[q].size = size
    /\ lock # None => lock \in Requests /\ request[lock].pc = "locked"

\* A transaction in flight has a stamp of its own, which no row has yet.
Active(q) == request[q].pc \in {"begun", "locked"}
Stamps ==
    /\ \A r \in rows : r.at <= clock
    /\ \A q \in Requests : Active(q) => /\ request[q].at <= clock
                                        /\ \A r \in rows : r.at # request[q].at
    /\ \A p, q \in Requests : Active(p) /\ Active(q) /\ request[p].at = request[q].at => p = q

Applied ==
    \A q \in Requests : request[q].pc = "done" /\ Op(q).token # None =>
                            \E r \in rows : r.token = Op(q).token

\* The instances an answer asks for exist, and were minted no later than the
\* answer that decides was begun.
Sized(rs, sz) ==
    \A g \in Groups : Count[g].source = "fromAnswer" =>
        /\ liveInstanceLimit(g, sz.value) <= Cardinality(minted(rs, g))
        /\ \A r \in added(rs, g) : r.at <= sz.at

Sealing == SealedInRange /\ (sealed # None => sealed.count \in Answer)

RosterInv == Types /\ Locking /\ Stamps /\ Applied /\ Sized(rows, size) /\ Sealing

\* The instances a group sized by an answer gets come after those it has.
Appended(rs, more) ==
    \A g \in Groups : Count[g].source = "fromAnswer" =>
        \A r \in added(more, g) \ added(rs, g) : \A s \in added(rs, g) : s.at < r.at

\* What request q commits.
Transaction(q, rs, sz) ==
    /\ RowsOK(rs) /\ rows \subseteq rs
    /\ \A r \in rs \ rows : r.at = request[q].at
    /\ sz \in SizeRec /\ Sized(rs, sz) /\ Appended(rows, rs)
    /\ Op(q).token # None => \E r \in rs : r.token = Op(q).token

-----------------------------------------------------------------------------
(* What the invariant says of the properties.                              *)

\* A group sized by an answer has as many live instances as it asks for.
LEMMA LiveFromAnswer ==
    ASSUME NEW rs, NEW sz \in SizeRec, RowsOK(rs), Sized(rs, sz),
           NEW g \in Groups, Count[g].source = "fromAnswer"
    PROVE  Cardinality(liveInstances(rs, g, sz.value)) = liveInstanceLimit(g, sz.value)
<1>1. presentRows(rs, g) = added(rs, g)
  <2>1. \A s \in rs : s.event = "removed" => s.group # g
    BY DEF RowsOK
  <2>2. QED
    BY <2>1 DEF presentRows
<1>2. liveInstances(rs, g, sz.value) = First(added(rs, g), liveInstanceLimit(g, sz.value))
  BY <1>1 DEF liveInstances
<1>3. /\ added(rs, g) \in SUBSET Row /\ IsFiniteSet(added(rs, g)) /\ Total(added(rs, g))
      /\ Named(added(rs, g)) /\ Cardinality(minted(rs, g)) = Cardinality(added(rs, g))
  BY GroupFacts DEF RowsOK
<1>4. sz.value \in Answer
  BY DEF SizeRec
<1>5. liveInstanceLimit(g, sz.value) \in Nat
  BY <1>4, LimitBounds
<1>6. liveInstanceLimit(g, sz.value) <= Cardinality(added(rs, g))
  BY <1>3 DEF Sized
<1>7. QED
  BY <1>2, <1>3, <1>5, <1>6, FirstCount

\* Every group has at most its maximum.
LEMMA LiveWithinMax ==
    ASSUME NEW rs, NEW answer \in Answer, RowsOK(rs), NEW g \in Groups
    PROVE  Cardinality(liveInstances(rs, g, answer)) <= Count[g].max
<1>1. CASE Count[g].source = "open"
  BY <1>1 DEF RowsOK, liveInstances, standing
<1>2. CASE Count[g].source # "open"
  <2>1. liveInstances(rs, g, answer) = First(presentRows(rs, g), liveInstanceLimit(g, answer))
    BY <1>2 DEF liveInstances
  <2>2. /\ presentRows(rs, g) \in SUBSET Row /\ IsFiniteSet(presentRows(rs, g))
        /\ Total(presentRows(rs, g))
    BY GroupFacts
  <2>3. /\ liveInstanceLimit(g, answer) \in Nat /\ liveInstanceLimit(g, answer) <= Count[g].max
        /\ Count[g].max \in Nat
    BY LimitBounds
  <2>4. /\ Cardinality(First(presentRows(rs, g), liveInstanceLimit(g, answer))) \in Nat
        /\ Cardinality(First(presentRows(rs, g), liveInstanceLimit(g, answer))) <=
               liveInstanceLimit(g, answer)
    BY <2>2, <2>3, FirstCount
  <2>5. QED
    BY <2>1, <2>3, <2>4
<1>3. QED
  BY <1>1, <1>2

-----------------------------------------------------------------------------
(* What each transaction commits.                                          *)

\* A mint for the answer that already decides adds nothing to a group sized by
\* an answer.
LEMMA MintSized ==
    ASSUME NEW rs, RowsOK(rs), NEW sz \in SizeRec, Sized(rs, sz), NEW step \in SUBSET Groups,
           NEW at \in Nat, \A g \in Groups : Numbered(rs, g, at)
    PROVE  /\ Sized(mintDue(rs, sz.value, step, at), sz)
           /\ \A g \in Groups : Count[g].source = "fromAnswer" =>
                 added(mintDue(rs, sz.value, step, at), g) = added(rs, g)
<1> DEFINE more == mintDue(rs, sz.value, step, at)
<1>1. sz.value \in Answer
  BY DEF SizeRec
<1>2. ASSUME NEW g \in Groups, Count[g].source = "fromAnswer"
      PROVE  added(more, g) = added(rs, g)
  <2>1. mintTarget(g, sz.value) <= Cardinality(minted(rs, g))
    BY <1>2 DEF Sized, mintTarget
  <2>2. mintTarget(g, sz.value) \in Nat /\ Cardinality(minted(rs, g)) \in Nat
    BY <1>1, LimitBounds, GroupFacts
  <2>3. /\ rs \subseteq more
        /\ \A r \in more \ rs :
              /\ r \in Row /\ r.event = "added" /\ r.token = None /\ r.at = at
              /\ r.instance[1] = at /\ r.group \in Groups
              /\ Cardinality(minted(rs, r.group)) < mintTarget(r.group, sz.value)
    BY <1>1, MintRows
  <2> HIDE DEF more
  <2>4. \A r \in more \ rs : r.group # g
    BY <2>1, <2>2, <2>3
  <2>5. QED
    BY <2>3, <2>4 DEF added
<1> HIDE DEF more
<1>3. Sized(more, sz)
  BY <1>2 DEF Sized, minted
<1>4. QED
  BY <1>2, <1>3 DEF more

\* A request in its transaction has a fresh stamp.
LEMMA Fresh ==
    ASSUME RosterInv, NEW q \in Requests, request[q].pc = "locked"
    PROVE  /\ request[q].at \in Nat /\ \A g \in Groups : Numbered(rows, g, request[q].at)
           /\ RowsOK(rows) /\ size \in SizeRec /\ Sized(rows, size)
           /\ request[q].rows = rows /\ request[q].size = size
<1>1. request[q] \in RequestRec
  BY DEF RosterInv, Types
<1>2. request[q].at \in Nat
  BY <1>1 DEF RequestRec
<1>3. QED
  BY <1>2 DEF RosterInv, Types, Stamps, Active, Numbered, added, Locking

\* A step of a form is a set of its groups.
LEMMA StepType ==
    ASSUME NEW step \in Steps \cup {{}}
    PROVE  step \in SUBSET Groups
BY InputAssumption

\* A mint that follows an operation, or none.
LEMMA MintTransaction ==
    ASSUME RosterInv, NEW q \in Requests, request[q].pc = "locked",
           NEW rs, RowsOK(rs), rows \subseteq rs, \A r \in rs \ rows : r.at = request[q].at,
           \A g \in Groups : Numbered(rs, g, request[q].at),
           \A g \in Groups : Count[g].source = "fromAnswer" => added(rs, g) = added(rows, g),
           Op(q).token # None => \E r \in rs : r.token = Op(q).token,
           NEW step \in SUBSET Groups
    PROVE  Transaction(q, mintDue(rs, size.value, step, request[q].at), size)
<1> DEFINE at == request[q].at
           more == mintDue(rs, size.value, step, at)
<1>1. /\ at \in Nat /\ size \in SizeRec /\ size.value \in Answer /\ Sized(rows, size)
  BY Fresh DEF SizeRec
<1>2. Sized(rs, size)
  BY <1>1 DEF Sized, minted
<1>3. Sized(more, size) /\ \A g \in Groups : Count[g].source = "fromAnswer" =>
                               added(more, g) = added(rs, g)
  BY <1>1, <1>2, MintSized
<1>4. RowsOK(more)
  BY <1>1, MintKeeps
<1>5. /\ rs \subseteq more
      /\ \A r \in more \ rs : r.at = at
  BY <1>1, MintStamps
<1> HIDE DEF more
<1>6. Transaction(q, more, size)
  BY <1>1, <1>3, <1>4, <1>5 DEF Transaction, Appended
<1>7. QED
  BY <1>6 DEF more

\* A serve, and a replayed operation, only mint.
LEMMA ServeTransaction ==
    ASSUME RosterInv, NEW q \in Requests, NEW step \in Steps \cup {{}},
           Serve(q, step) \/ ReplayRosterOp(q, step)
    PROVE  \E rs, sz : Transaction(q, rs, sz) /\ Commit(q, rs, sz) /\ UNCHANGED sealed
<1>1. request[q].pc = "locked"
  BY DEF Serve, ReplayRosterOp, Holds
<1>2. Op(q).token # None => \E r \in rows : r.token = Op(q).token
  <2>1. CASE Serve(q, step)
    BY <2>1 DEF Serve, Holds, RosterInv, Types, OpOK, Op
  <2>2. CASE ReplayRosterOp(q, step)
    BY <1>1, <2>2, Fresh DEF ReplayRosterOp, rosterOpApplied
  <2>3. QED
    BY <2>1, <2>2
<1>3. Transaction(q, mintDue(rows, size.value, step, request[q].at), size)
  BY <1>1, <1>2, Fresh, StepType, MintTransaction
<1>4. Commit(q, mintDue(rows, size.value, step, request[q].at), size) /\ UNCHANGED sealed
  BY <1>1, Fresh DEF Serve, ReplayRosterOp, At
<1>5. QED
  BY <1>3, <1>4

\* An Add or a removal appends its one row, with its token.
LEMMA RosterOpRows ==
    ASSUME RosterInv, NEW q \in Requests, NEW step \in Steps \cup {{}}, RosterOp(q, step)
    PROVE  /\ RowsOK(rows \cup Effect(q))
           /\ \A h \in Groups : Numbered(rows \cup Effect(q), h, request[q].at)
           /\ \A h \in Groups \ {Op(q).group} : added(rows \cup Effect(q), h) = added(rows, h)
           /\ \A r \in (rows \cup Effect(q)) \ rows : r.at = request[q].at
           /\ \E r \in rows \cup Effect(q) : r.token = Op(q).token
<1> DEFINE at == request[q].at
           g == Op(q).group
           rs == rows \cup Effect(q)
<1>1. /\ request[q].pc = "locked" /\ Op(q).kind \in {"add", "remove"}
      /\ request[q].rows = rows /\ request[q].size = size /\ at \in Nat /\ RowsOK(rows)
      /\ \A h \in Groups : Numbered(rows, h, at)
      /\ ~rosterOpApplied(rows, Op(q).token) /\ Accepts(q)
  BY Fresh DEF RosterOp, Holds
<1>2. /\ g \in Groups /\ Op(q).token \in Tokens /\ Op(q).token # None
      /\ Op(q) \in OpRec
  BY <1>1, InputAssumption DEF RosterInv, Types, OpOK, Op, RequestRec
<1>3. /\ \A r \in rows : r.token # Op(q).token
      /\ Count[g].source = "open"
  BY <1>1 DEF rosterOpApplied, Accepts
<1>4. /\ RowsOK(rs) /\ \A h \in Groups : Numbered(rs, h, at)
      /\ \A h \in Groups \ {g} : added(rs, h) = added(rows, h)
      /\ \A r \in rs \ rows : r.at = at
      /\ \E r \in rs : r.token = Op(q).token
  <2>1. CASE Op(q).kind = "add"
    <3>1. Cardinality(standing(rows, g)) < Count[g].max
      BY <1>1, <1>3, <2>1 DEF Accepts, liveInstances, standing
    <3>2. Effect(q) = addInstances(rows, g, 1, Op(q).token, at)
      BY <1>1, <2>1 DEF Effect, At
    <3> DEFINE token == Op(q).token
    <3> HIDE DEF at, g, token, rs
    <3>3. token \in Tokens /\ rs = rows \cup addInstances(rows, g, 1, token, at)
      BY <1>2, <3>2 DEF token, rs, g, at
    <3>4. /\ g \in Groups /\ at \in Nat /\ \A r \in rows : r.token # token
          /\ Count[g].source = "open"
      BY <1>1, <1>2, <1>3 DEF token, g, at
    <3>5. RowsOK(rs) /\ \A h \in Groups : Numbered(rs, h, at)
      BY <1>1, <3>1, <3>3, <3>4, AddKeeps
    <3>6. \A h \in Groups \ {g} : added(rs, h) = added(rows, h)
      BY <1>1, <3>1, <3>3, <3>4, AddKeeps
    <3>7. \A r \in Effect(q) : r.at = at /\ r.token = Op(q).token
      BY <3>2 DEF addInstances
    <3>8. Effect(q) # {}
      <4>1. Cardinality(minted(rows, g)) \in Nat
        BY <1>1, <1>2, GroupFacts
      <4>2. Cardinality(minted(rows, g)) + 1 \in
                (Cardinality(minted(rows, g)) + 1) .. (Cardinality(minted(rows, g)) + 1)
        BY <4>1
      <4>3. QED
        BY <3>2, <4>2 DEF addInstances
    <3>9. QED
      BY <3>5, <3>6, <3>7, <3>8 DEF rs
  <2>2. CASE Op(q).kind = "remove"
    <3> DEFINE d == [group |-> g, instance |-> Op(q).instance, event |-> "removed",
                     token |-> Op(q).token, at |-> at]
    <3>1. Effect(q) = {d}
      BY <2>2 DEF Effect, At
    <3>2. /\ d \in Row /\ d.event = "removed" /\ d.token = Op(q).token /\ d.group = g
          /\ d.at = at
      BY <1>1, <1>2 DEF Row, OpRec
    <3> HIDE DEF d
    <3>3. /\ RowsOK(rs) /\ \A h \in Groups : Numbered(rs, h, at)
          /\ \A h \in Groups : added(rs, h) = added(rows, h)
      <4>1. rs = rows \cup {d} /\ d.token # None /\ Count[d.group].source = "open"
            /\ \A r \in rows : r.token # d.token
        BY <1>2, <1>3, <3>1, <3>2
      <4> HIDE DEF rs, at, g
      <4>2. RowsOK(rs)
        BY <1>1, <3>2, <4>1, RemoveKeeps
      <4>3. \A h \in Groups : Numbered(rs, h, at)
        BY <1>1, <3>2, <4>1, RemoveKeeps
      <4>4. \A h \in Groups : added(rs, h) = added(rows, h)
        BY <1>1, <3>2, <4>1, RemoveKeeps
      <4>5. QED
        BY <4>2, <4>3, <4>4
    <3>4. QED
      BY <3>1, <3>2, <3>3
  <2>3. QED
    BY <1>1, <2>1, <2>2
<1>5. QED
  BY <1>4

\* And then it mints.
LEMMA RosterOpTransaction ==
    ASSUME RosterInv, NEW q \in Requests, NEW step \in Steps \cup {{}}, RosterOp(q, step)
    PROVE  \E rs, sz : Transaction(q, rs, sz) /\ Commit(q, rs, sz) /\ UNCHANGED sealed
<1> DEFINE at == request[q].at
           g == Op(q).group
           rs == rows \cup Effect(q)
<1>1. /\ request[q].pc = "locked" /\ request[q].rows = rows /\ request[q].size = size
      /\ Count[g].source = "open"
  BY Fresh DEF RosterOp, Holds, Accepts
<1>2. /\ RowsOK(rs) /\ \A h \in Groups : Numbered(rs, h, at)
      /\ \A h \in Groups \ {g} : added(rs, h) = added(rows, h)
      /\ \A r \in rs \ rows : r.at = at
      /\ \E r \in rs : r.token = Op(q).token
  BY RosterOpRows
<1> HIDE DEF rs
<1>3. rows \subseteq rs
  BY DEF rs
<1>4. \A h \in Groups : Count[h].source = "fromAnswer" => added(rs, h) = added(rows, h)
  BY <1>1, <1>2
<1>5. Transaction(q, mintDue(rs, size.value, step, at), size)
  BY <1>1, <1>2, <1>3, <1>4, StepType, MintTransaction
<1>6. Commit(q, mintDue(rs, size.value, step, at), size) /\ UNCHANGED sealed
  BY <1>1 DEF RosterOp, At, rs
<1>7. QED
  BY <1>5, <1>6

\* An answer to the count question: if it decides, its stamp is the newest, and
\* the mint that follows gives every group the size it asks for.
LEMMA ResizeTransaction ==
    ASSUME RosterInv, NEW q \in Requests, NEW step \in Steps \cup {{}}, Resize(q, step)
    PROVE  \E rs, sz : Transaction(q, rs, sz) /\ Commit(q, rs, sz) /\ UNCHANGED sealed
<1> DEFINE at == request[q].at
           after == answered(size, Op(q).value, at)
           rs == mintDue(rows, after.value, step, at)
<1>1. /\ request[q].pc = "locked" /\ Op(q).kind = "size"
      /\ request[q].rows = rows /\ request[q].size = size /\ at \in Nat /\ RowsOK(rows)
      /\ \A h \in Groups : Numbered(rows, h, at)
      /\ size \in SizeRec /\ Sized(rows, size)
  BY Fresh DEF Resize, Holds
<1>2. Op(q).token = None /\ Op(q).value \in Answer
  BY <1>1 DEF RosterInv, Types, OpOK, Op, RequestRec, OpRec
<1>3. Commit(q, rs, after) /\ UNCHANGED sealed
  BY <1>1 DEF Resize, At
<1>4. CASE after = size
  <2>1. Transaction(q, mintDue(rows, size.value, step, at), size)
    BY <1>1, <1>2, StepType, MintTransaction
  <2>2. QED
    BY <1>3, <1>4, <2>1
<1>5. CASE after # size
  <2>1. after = [value |-> Op(q).value, at |-> at] /\ at > size.at
    BY <1>5 DEF answered
  <2>2. after \in SizeRec /\ after.value \in Answer /\ after.at = at
    BY <1>1, <1>2, <2>1 DEF SizeRec
  <2> HIDE DEF after
  <2>3. RowsOK(rs)
    BY <1>1, <2>2, StepType, MintKeeps
  <2>4. /\ rows \subseteq rs
        /\ \A r \in rs \ rows : r.at = at
    BY <1>1, <2>2, StepType, MintStamps
  <2>5. \A g \in Groups : g \in due(step) =>
            mintTarget(g, after.value) <= Cardinality(minted(rs, g))
    BY <1>1, <2>2, StepType, MintKeeps
  <2> HIDE DEF rs
  <2>6. ASSUME NEW g \in Groups, Count[g].source = "fromAnswer"
        PROVE  /\ liveInstanceLimit(g, after.value) <= Cardinality(minted(rs, g))
               /\ \A r \in added(rs, g) : r.at <= after.at
               /\ \A r \in added(rs, g) \ added(rows, g) : \A s \in added(rows, g) : s.at < r.at
    <3>1. \A s \in added(rows, g) : s.at <= size.at /\ s.at \in Nat
      BY <1>1, <2>6 DEF Sized, RowsOK, added, Row
    <3>2. \A r \in added(rs, g) \ added(rows, g) : r.at = at
      BY <2>4 DEF added
    <3>3. size.at \in Nat
      BY <1>1 DEF SizeRec
    <3>4. \A s \in added(rows, g) : s.at < at
      BY <1>1, <2>1, <3>1, <3>3
    <3>5. liveInstanceLimit(g, after.value) <= Cardinality(minted(rs, g))
      BY <2>5, <2>6 DEF due, mintTarget
    <3>6. \A r \in added(rs, g) : r.at <= after.at
      <4> TAKE r \in added(rs, g)
      <4>1. CASE r \in added(rows, g)
        BY <1>1, <2>2, <3>1, <3>4, <4>1
      <4>2. CASE r \notin added(rows, g)
        BY <1>1, <2>2, <3>2, <4>2
      <4>3. QED
        BY <4>1, <4>2
    <3>7. QED
      BY <3>2, <3>4, <3>5, <3>6
  <2>7. Transaction(q, rs, after)
    BY <1>2, <2>2, <2>3, <2>4, <2>6 DEF Transaction, Sized, Appended
  <2>8. QED
    BY <1>3, <2>7
<1>6. QED
  BY <1>4, <1>5

\* A submit appends nothing; what it seals passes the check it made, and is the
\* size of the answer sealed with it.
LEMMA SubmitTransaction ==
    ASSUME RosterInv, NEW q \in Requests, Submit(q)
    PROVE  Transaction(q, rows, size) /\ Commit(q, rows, size) /\ Sealing'
<1>1. /\ request[q].pc = "locked" /\ Op(q).kind = "submit"
      /\ request[q].rows = rows /\ request[q].size = size /\ RowsOK(rows)
      /\ size \in SizeRec /\ Sized(rows, size)
  BY Fresh DEF Submit, Holds
<1>2. Op(q).token = None
  BY <1>1 DEF RosterInv, Types, OpOK, Op
<1>3. Transaction(q, rows, size)
  BY <1>1, <1>2 DEF Transaction, Appended
<1>4. Commit(q, rows, size)
  BY <1>1 DEF Submit
<1>5. CASE sealed # None
  <2>1. sealed' = sealed
    BY <1>5 DEF Submit
  <2>2. QED
    BY <1>3, <1>4, <2>1 DEF Sealing, SealedInRange, RosterInv
<1>6. CASE sealed = None
  <2> DEFINE live == [g \in Groups |-> liveInstances(rows, g, size.value)]
  <2>1. /\ sealed' = [live |-> live, count |-> size.value]
        /\ checkRepeatCounts(live)
    BY <1>1, <1>6 DEF Submit, Live
  <2>2. \A g \in Groups : live[g] = liveInstances(rows, g, size.value)
    OBVIOUS
  <2>3. \A g \in Groups : Count[g].source = "fromAnswer" =>
            Cardinality(live[g]) = liveInstanceLimit(g, size.value)
    BY <1>1, <2>2, LiveFromAnswer
  <2>4. size.value \in Answer
    BY <1>1 DEF SizeRec
  <2> HIDE DEF live
  <2>5. sealed'.live = live /\ sealed'.count = size.value
    BY <2>1
  <2>6. QED
    <3>1. \A g \in Groups : Cardinality(live[g]) \in Count[g].min .. Count[g].max
      BY <2>1 DEF checkRepeatCounts
    <3>2. \A g \in Groups :
              /\ Cardinality(sealed'.live[g]) \in Count[g].min .. Count[g].max
              /\ Count[g].source = "fromAnswer" =>
                   Cardinality(sealed'.live[g]) = liveInstanceLimit(g, sealed'.count)
      BY <2>3, <2>5, <3>1
    <3>3. QED
      BY <1>3, <1>4, <2>4, <2>5, <3>2 DEF Sealing, SealedInRange
<1>7. QED
  BY <1>3, <1>4, <1>5, <1>6

\* The commit of a transaction keeps the invariant.
LEMMA TransactionKeeps ==
    ASSUME RosterInv, NEW q \in Requests, request[q].pc = "locked",
           NEW rs, NEW sz, Transaction(q, rs, sz), Commit(q, rs, sz), Sealing'
    PROVE  RosterInv'
<1>1. request[q].rows = rows /\ lock = q /\ request \in [Requests -> RequestRec]
  BY DEF RosterInv, Types, Locking
<1>2. /\ rows' = rs /\ size' = sz /\ lock' = None /\ clock' = clock
      /\ request' = [request EXCEPT ![q] = [Idle EXCEPT !.pc = "done", !.op = Op(q)]]
  BY <1>1 DEF Commit, Transaction
<1> DEFINE r == [Idle EXCEPT !.pc = "done", !.op = Op(q)]
<1>3. r \in RequestRec /\ r.pc = "done" /\ r.op = Op(q)
  BY <1>1 DEF Idle, Op, RequestRec
<1> HIDE DEF r
<1>4. /\ request'[q] = r /\ request' \in [Requests -> RequestRec]
      /\ \A p \in Requests : p # q => request'[p] = request[p]
  BY <1>1, <1>2, <1>3 DEF r
<1>5. \A p \in Requests : request'[p].op = request[p].op
  BY <1>3, <1>4 DEF Op
<1>6. Types'
  BY <1>2, <1>4, <1>5 DEF Types, Transaction, RosterInv
<1>7. \A p \in Requests : request'[p].pc # "locked"
  BY <1>1, <1>3, <1>4 DEF RosterInv, Locking
<1>8. Locking'
  BY <1>2, <1>7 DEF Locking
<1>9. Stamps'
  <2>1. \A p \in Requests : Active(p)' => Active(p) /\ p # q /\ request'[p].at = request[p].at
    BY <1>3, <1>4 DEF Active
  <2>2. Active(q)
    BY DEF Active
  <2>3. \A x \in rs : x \in rows \/ x.at = request[q].at
    BY DEF Transaction
  <2>4. \A x \in rs : x.at <= clock
    BY <2>2, <2>3 DEF RosterInv, Stamps
  <2>5. \A p \in Requests : Active(p) /\ p # q => request[p].at # request[q].at
    BY <2>2 DEF RosterInv, Stamps
  <2>6. \A p \in Requests : Active(p) /\ p # q => \A x \in rs : x.at # request[p].at
    BY <2>3, <2>5 DEF RosterInv, Stamps
  <2>7. QED
    BY <1>2, <2>1, <2>4, <2>6 DEF RosterInv, Stamps
<1>10. Applied'
  <2> SUFFICES ASSUME NEW p \in Requests, request'[p].pc = "done", request'[p].op.token # None
               PROVE  \E x \in rs : x.token = request'[p].op.token
    BY <1>2 DEF Applied, Op
  <2>1. CASE p = q
    BY <1>5, <2>1 DEF Transaction, Op
  <2>2. CASE p # q
    BY <1>4, <2>2 DEF RosterInv, Applied, Op, Transaction
  <2>3. QED
    BY <2>1, <2>2
<1>11. Sized(rows, size)'
  BY <1>2 DEF Transaction, Sized
<1>12. QED
  BY <1>6, <1>8, <1>9, <1>10, <1>11 DEF RosterInv

\* The instances a client can name are pairs of numbers.
LEMMA OpsType ==
    ASSUME RosterInv, NEW op \in Ops
    PROVE  op \in OpRec /\ OpOK(op)
<1>1. Unknown \in Nat \X Nat /\ \A h \in Groups : minted(rows, h) \subseteq Nat \X Nat
  BY DEF Unknown, minted, added, RosterInv, Types, RowsOK, Row
<1>2. NoOp \in OpRec /\ NoOp.token = None
  BY <1>1 DEF NoOp, OpRec, Answer
<1> DEFINE I == {Unknown} \cup UNION {minted(rows, h) : h \in Groups}
<1>3. I \in SUBSET (Nat \X Nat)
  BY <1>1
<1>4. \/ op \in {[NoOp EXCEPT !.kind = "serve"], [NoOp EXCEPT !.kind = "submit"]}
      \/ \E v \in Sizes \cup {None} : op = sizeOp(v)
      \/ \E g \in Groups, t \in Tokens : op = addOp(g, t)
      \/ \E g \in Groups, t \in Tokens, i \in I : op = removeOp(g, t, i)
  BY DEF Ops
<1> HIDE DEF I
<1>5. CASE op \in {[NoOp EXCEPT !.kind = "serve"], [NoOp EXCEPT !.kind = "submit"]}
  BY <1>2, <1>5 DEF OpRec, OpOK
<1>6. ASSUME NEW v \in Sizes \cup {None}, op = sizeOp(v)
      PROVE  op \in OpRec /\ OpOK(op)
  BY <1>2, <1>6 DEF sizeOp, OpRec, OpOK, Answer
<1>7. ASSUME NEW g \in Groups, NEW t \in Tokens, op = addOp(g, t)
      PROVE  op \in OpRec /\ OpOK(op)
  BY <1>2, <1>7 DEF addOp, OpRec, OpOK
<1>8. ASSUME NEW g \in Groups, NEW t \in Tokens, NEW i \in I, op = removeOp(g, t, i)
      PROVE  op \in OpRec /\ OpOK(op)
  BY <1>2, <1>3, <1>8 DEF removeOp, OpRec, OpOK
<1>9. QED
  BY <1>4, <1>5, <1>6, <1>7, <1>8

\* A request that begins takes the next stamp.
LEMMA BeginKeeps ==
    ASSUME RosterInv, NEW q \in Requests, Begin(q)
    PROVE  RosterInv'
<1>1. PICK op \in Ops :
          request' = [request EXCEPT ![q] = [Idle EXCEPT !.pc = "begun", !.op = op,
                                                         !.at = clock + 1]]
  BY DEF Begin
<1>2. /\ UNCHANGED <<rows, size, sealed, lock>> /\ clock' = clock + 1
      /\ request[q].pc = "idle" /\ request \in [Requests -> RequestRec] /\ clock \in Nat
  BY DEF Begin, RosterInv, Types
<1> DEFINE r == [Idle EXCEPT !.pc = "begun", !.op = op, !.at = clock + 1]
<1>3. r \in RequestRec /\ r.pc = "begun" /\ r.op = op /\ r.at = clock + 1
  <2>1. op \in OpRec
    BY OpsType
  <2>2. clock + 1 \in Nat
    BY <1>2
  <2>3. ASSUME NEW at \in Nat
        PROVE  LET b == [Idle EXCEPT !.pc = "begun", !.op = op, !.at = at]
               IN  b \in RequestRec /\ b.pc = "begun" /\ b.op = op /\ b.at = at
    BY <2>1 DEF Idle, RequestRec
  <2>4. QED
    BY <2>2, <2>3
<1> HIDE DEF r
<1>4. /\ request'[q] = r /\ request' \in [Requests -> RequestRec]
      /\ \A p \in Requests : p # q => request'[p] = request[p]
  BY <1>1, <1>2, <1>3 DEF r
<1>5. Types'
  BY <1>2, <1>3, <1>4, OpsType DEF RosterInv, Types
<1>6. Locking'
  BY <1>2, <1>3, <1>4 DEF RosterInv, Locking
<1>7. Stamps'
  <2>1. \A x \in rows : x.at \in Nat /\ x.at <= clock
    BY DEF RosterInv, Stamps, Types, RowsOK, Row
  <2>2. \A p \in Requests : p # q /\ Active(p)' =>
            /\ Active(p) /\ request'[p].at = request[p].at
            /\ request[p].at \in Nat /\ request[p].at <= clock
    BY <1>2, <1>4 DEF RosterInv, Stamps, Active, RequestRec
  <2>3. \A x \in rows : x.at <= clock' /\ x.at # clock + 1
    BY <1>2, <2>1
  <2>4. \A p \in Requests : Active(p)' => /\ request'[p].at <= clock'
                                          /\ \A x \in rows : x.at # request'[p].at
    <3> TAKE p \in Requests
    <3>1. CASE p = q
      BY <1>2, <1>3, <1>4, <2>3, <3>1
    <3>2. CASE p # q
      BY <1>2, <2>2, <3>2 DEF RosterInv, Stamps
    <3>3. QED
      BY <3>1, <3>2
  <2>5. \A p \in Requests : p # q /\ Active(p)' => request'[p].at # request'[q].at
    BY <1>2, <1>3, <1>4, <2>2
  <2>6. \A p, s \in Requests :
            Active(p)' /\ Active(s)' /\ request'[p].at = request'[s].at => p = s
    BY <2>2, <2>5 DEF RosterInv, Stamps
  <2>7. QED
    BY <1>2, <2>3, <2>4, <2>6 DEF Stamps
<1>8. Applied'
  BY <1>2, <1>3, <1>4 DEF RosterInv, Applied, Op
<1>9. Sized(rows, size)' /\ Sealing'
  BY <1>2 DEF RosterInv, Sized, Sealing, SealedInRange
<1>10. QED
  BY <1>5, <1>6, <1>7, <1>8, <1>9 DEF RosterInv

\* A request that is granted the lock reads what is there, and a rollback only
\* gives the lock back.
LEMMA LockKeeps ==
    ASSUME RosterInv, NEW q \in Requests, Lock(q) \/ Abort(q)
    PROVE  RosterInv'
<1>1. /\ UNCHANGED <<rows, size, sealed, clock>> /\ request \in [Requests -> RequestRec]
      /\ size \in SizeRec /\ rows \in SUBSET Row
  BY DEF Lock, Abort, RosterInv, Types, RowsOK
<1>2. PICK r \in RequestRec :
          /\ request' = [request EXCEPT ![q] = r] /\ r.op = request[q].op
          /\ \/ /\ request[q].pc = "begun" /\ lock = None /\ lock' = q /\ r.pc = "locked"
                /\ r.at = request[q].at /\ r.rows = rows /\ r.size = size
             \/ /\ request[q].pc = "locked" /\ lock' = None /\ r.pc = "failed"
  <2>1. CASE Lock(q)
    <3> DEFINE r == [request[q] EXCEPT !.pc = "locked", !.rows = rows, !.size = size]
    <3>1. request' = [request EXCEPT ![q] = r]
      BY <1>1, <2>1 DEF Lock
    <3>2. /\ r \in RequestRec /\ r.op = request[q].op /\ r.pc = "locked"
          /\ r.at = request[q].at /\ r.rows = rows /\ r.size = size
      BY <1>1 DEF RequestRec
    <3> HIDE DEF r
    <3>3. QED
      BY <2>1, <3>1, <3>2 DEF Lock
  <2>2. CASE Abort(q)
    <3> DEFINE r == [Idle EXCEPT !.pc = "failed", !.op = Op(q)]
    <3>1. r \in RequestRec /\ r.op = request[q].op /\ r.pc = "failed"
      BY <1>1 DEF Idle, RequestRec, Op
    <3>2. lock = q
      BY <2>2 DEF Abort, RosterInv, Locking
    <3>3. request' = [request EXCEPT ![q] = r]
      BY <2>2 DEF Abort
    <3> HIDE DEF r
    <3>4. QED
      BY <2>2, <3>1, <3>2, <3>3 DEF Abort
  <2>3. QED
    BY <2>1, <2>2
<1>3. /\ request'[q] = r /\ request' \in [Requests -> RequestRec]
      /\ \A p \in Requests : p # q => request'[p] = request[p]
      /\ \A p \in Requests : request'[p].op = request[p].op
  BY <1>1, <1>2
<1>4. Types'
  <2>1. RowsOK(rows) /\ clock \in Nat /\ \A p \in Requests : OpOK(request[p].op)
    BY DEF RosterInv, Types
  <2>2. \A p \in Requests : OpOK(request'[p].op)
    BY <1>3, <2>1
  <2>3. QED
    BY <1>1, <1>3, <2>1, <2>2 DEF Types
<1>5. \A p \in Requests : p # None
  BY InputAssumption
<1>6. \A p \in Requests : p # q => request[p].pc # "locked"
  <2>1. lock = None \/ lock = q
    BY <1>2 DEF RosterInv, Locking
  <2>2. QED
    BY <1>5, <2>1 DEF RosterInv, Locking
<1>7. Locking'
  BY <1>1, <1>2, <1>3, <1>5, <1>6 DEF Locking
<1>8. Stamps'
  <2>1. \A p \in Requests : Active(p)' => Active(p) /\ request'[p].at = request[p].at
    BY <1>2, <1>3 DEF Active
  <2>2. QED
    BY <1>1, <2>1 DEF RosterInv, Stamps
<1>9. Applied'
  BY <1>1, <1>2, <1>3 DEF RosterInv, Applied, Op
<1>10. Sized(rows, size)' /\ Sealing'
  BY <1>1 DEF RosterInv, Sized, Sealing, SealedInRange
<1>11. QED
  BY <1>4, <1>7, <1>8, <1>9, <1>10 DEF RosterInv

-----------------------------------------------------------------------------
(* The theorems.                                                           *)

\* Nothing is minted before the first serve.
LEMMA RosterInvInit == Init => RosterInv
<1> SUFFICES ASSUME Init PROVE RosterInv
  OBVIOUS
<1>1. \A g \in Groups : added({}, g) = {} /\ minted({}, g) = {} /\ tokenless({}, g) = {}
                        /\ standing({}, g) = {}
  BY DEF added, minted, tokenless, standing, presentRows
<1>2. Cardinality({}) = 0 /\ IsFiniteSet({})
  BY FS_EmptySet
<1>3. None \in Answer
  BY DEF Answer
<1>4. ASSUME NEW g \in Groups
      PROVE  /\ opensWith(g) \in Nat /\ Count[g].max \in Nat
             /\ Count[g].source = "fromAnswer" => liveInstanceLimit(g, None) = 0
  BY <1>3, LimitBounds DEF opensWith, liveInstanceLimit
<1>5. \A g \in Groups : 0 <= opensWith(g) /\ 0 <= Count[g].max
  BY <1>4
<1>6. RowsOK({})
  BY <1>1, <1>2, <1>5 DEF RowsOK, Named
<1>7. \A q \in Requests : request[q] = Idle
  BY DEF Init
<1>8. Idle \in RequestRec /\ OpOK(Idle.op) /\ Idle.pc = "idle"
  <2>1. NoOp \in OpRec /\ OpOK(NoOp)
    BY <1>3 DEF NoOp, OpRec, OpOK, Unknown
  <2>2. QED
    BY <2>1 DEF Idle, RequestRec
<1>9. Types
  BY <1>3, <1>6, <1>7, <1>8 DEF Init, Types, SizeRec
<1>10. Locking /\ Stamps /\ Applied
  BY <1>7, <1>8 DEF Init, Locking, Stamps, Active, Applied
<1>11. Sized(rows, size)
  BY <1>1, <1>2, <1>4 DEF Init, Sized
<1>12. Sealing
  BY DEF Init, Sealing, SealedInRange
<1>13. QED
  BY <1>9, <1>10, <1>11, <1>12 DEF RosterInv

\* What a step that commits rows commits.
LEMMA CommitStep ==
    ASSUME RosterInv, NEW q \in Requests, NEW step \in Steps \cup {{}},
           \/ Serve(q, step) \/ Resize(q, step) \/ ReplayRosterOp(q, step) \/ RosterOp(q, step)
           \/ Submit(q)
    PROVE  /\ request[q].pc = "locked"
           /\ \E rs, sz : Transaction(q, rs, sz) /\ Commit(q, rs, sz) /\ Sealing'
<1>1. request[q].pc = "locked"
  BY DEF Serve, Resize, ReplayRosterOp, RosterOp, Submit, Holds
<1>2. UNCHANGED sealed => Sealing'
  BY DEF Sealing, SealedInRange, RosterInv
<1>3. QED
  BY <1>1, <1>2, ServeTransaction, ResizeTransaction, RosterOpTransaction, SubmitTransaction

\* Every step keeps the invariant.
LEMMA RosterInvStep == RosterInv /\ [Next]_vars => RosterInv'
<1> SUFFICES ASSUME RosterInv, [Next]_vars PROVE RosterInv'
  OBVIOUS
<1>1. CASE UNCHANGED vars
  BY <1>1 DEF vars, RosterInv, Types, Locking, Stamps, Active, Applied, Op, Sized, Sealing,
              SealedInRange
<1>2. ASSUME NEW q \in Requests, Begin(q) \/ Lock(q) \/ Abort(q)
      PROVE  RosterInv'
  BY <1>2, BeginKeeps, LockKeeps
<1>3. ASSUME NEW q \in Requests, NEW step \in Steps \cup {{}},
             \/ Serve(q, step) \/ Resize(q, step) \/ ReplayRosterOp(q, step) \/ RosterOp(q, step)
             \/ Submit(q)
      PROVE  RosterInv'
  BY <1>3, CommitStep, TransactionKeeps
<1>4. QED
  BY <1>1, <1>2, <1>3 DEF Next

\* The inductive invariant: who holds the lock, whose stamp is whose, and what
\* the ledger holds of each group.
THEOREM RosterInvariant == Spec => []RosterInv
  BY RosterInvInit, RosterInvStep, PTL DEF Spec

\* Every row, answer and request keeps its shape, and only a request in its
\* transaction holds the session's lock.
THEOREM RosterTypeCorrect == Spec => []TypeOK
<1>1. RosterInv => TypeOK
  <2> SUFFICES ASSUME RosterInv PROVE TypeOK
    OBVIOUS
  <2>1. rows \subseteq Row /\ size \in SizeRec /\ clock \in Nat
    BY DEF RosterInv, Types, RowsOK
  <2>2. \A q \in Requests : request[q].pc \in {"idle", "begun", "locked", "done", "failed"}
    BY DEF RosterInv, Types, RequestRec
  <2>3. QED
    BY <2>1, <2>2 DEF RosterInv, Locking, Sealing, SizeRec, Answer, TypeOK
<1>2. QED
  BY <1>1, RosterInvariant, PTL

\* No group ever has more live instances than its author allowed, whatever
\* serves, answers, Adds and removals raced (applyRosterOp's check).
THEOREM NeverPastTheMax == Spec => []WithinMax
<1>1. RosterInv => WithinMax
  BY LiveWithinMax DEF RosterInv, Types, SizeRec, WithinMax
<1>2. QED
  BY <1>1, RosterInvariant, PTL

\* Serves mint one set of instances between them, however many there are, and
\* replace none that was removed.
THEOREM MintIsIdempotent == Spec => []MintedOnce
<1>1. RosterInv => MintedOnce
  BY DEF RosterInv, Types, RowsOK, tokenless, opensWith, MintedOnce
<1>2. QED
  BY <1>1, RosterInvariant, PTL

\* A roster form takes effect once however often it is posted, and has taken
\* effect when its client is told so.
THEOREM TokenIsSpentOnce == Spec => []OneEffectPerToken
<1>1. RosterInv => OneEffectPerToken
  BY DEF RosterInv, Types, RowsOK, Applied, OneEffectPerToken
<1>2. QED
  BY <1>1, RosterInvariant, PTL

\* A group sized by an answer has, at every moment, the live instances its
\* current answer asks for.
THEOREM AlwaysSizedAsAnswered == Spec => []SizedAsAnswered
<1>1. RosterInv => SizedAsAnswered
  BY LiveFromAnswer DEF RosterInv, Types, SizedAsAnswered
<1>2. QED
  BY <1>1, RosterInvariant, PTL

\* What a submit seals is within every group's bounds, and a group sized by an
\* answer is sealed at the size of the answer sealed with it.
THEOREM SealIsInRange == Spec => []SealedInRange
<1>1. RosterInv => SealedInRange
  BY DEF RosterInv, Sealing
<1>2. QED
  BY <1>1, RosterInvariant, PTL

\* A count lowered and raised again re-lives the instances it had: what a later
\* transaction mints in a group sized by an answer carries a later stamp.
THEOREM RelivesWhatItHad == Spec => RelivesTheSame
<1>1. ASSUME RosterInv, [Next]_vars, NEW g \in Groups, Count[g].source = "fromAnswer",
             NEW n \in 1 .. Cardinality(added(rows, g))
      PROVE  First(added(rows', g), n) = First(added(rows, g), n)
  <2>1. CASE UNCHANGED rows
    BY <2>1
  <2>2. CASE ~UNCHANGED rows
    <3>1. PICK q \in Requests, step \in Steps \cup {{}} :
              \/ Serve(q, step) \/ Resize(q, step) \/ ReplayRosterOp(q, step)
              \/ RosterOp(q, step) \/ Submit(q)
      BY <1>1, <2>2 DEF Next, vars, Begin, Lock, Abort
    <3>2. PICK rs, sz : Transaction(q, rs, sz) /\ Commit(q, rs, sz)
      BY <1>1, <3>1, CommitStep
    <3>3. request[q].rows = rows
      BY <1>1, <3>1, CommitStep, Fresh
    <3>4. rows' = rs /\ RowsOK(rs) /\ rows \subseteq rs /\ Appended(rows, rs) /\ RowsOK(rows)
      BY <1>1, <3>2, <3>3 DEF Commit, Transaction, RosterInv, Types
    <3>5. /\ added(rs, g) \in SUBSET Row /\ IsFiniteSet(added(rs, g))
          /\ added(rows, g) \in SUBSET Row /\ IsFiniteSet(added(rows, g))
          /\ Cardinality(added(rows, g)) \in Nat
      BY <3>4, GroupFacts, FS_CardinalityType
    <3>6. added(rows, g) \subseteq added(rs, g)
      BY <3>4 DEF added
    <3>7. \A r \in added(rs, g) \ added(rows, g) : \A s \in added(rows, g) : Before(s, r)
      BY <1>1, <3>4 DEF Appended, Before
    <3>8. n \in Nat /\ n <= Cardinality(added(rows, g))
      BY <1>1, <3>5
    <3>9. First(added(rs, g), n) = First(added(rows, g), n)
      BY <3>5, <3>6, <3>7, <3>8, FirstKept
    <3>10. QED
      BY <3>4, <3>9
  <2>3. QED
    BY <2>1, <2>2
<1>2. RosterInv /\ [Next]_vars =>
          [\A g \in Groups : Count[g].source = "fromAnswer" =>
               \A n \in 1 .. Cardinality(added(rows, g)) :
                   First(added(rows', g), n) = First(added(rows, g), n)]_vars
  BY <1>1
<1>3. QED
  BY <1>2, RosterInvariant, PTL DEF Spec, RelivesTheSame

-----------------------------------------------------------------------------
(* The contract: what a response does with one group.                      *)

\* A fixed group is minted whole, and a removal names an instance of its group.
Whole(rs) ==
    \A g \in Groups : Count[g].source = "fixed" =>
        minted(rs, g) = {} \/ Cardinality(minted(rs, g)) = Count[g].max
RemovesMinted(rs) == \A s \in rs : s.event = "removed" => s.instance \in minted(rs, s.group)

\* Rows added to a group, with instances it has not had, stand.
LEMMA FreshStand ==
    ASSUME NEW rs, RowsOK(rs), RemovesMinted(rs), NEW g \in Groups, NEW n \in Nat, NEW at \in Nat,
           NEW token \in Tokens \cup {None}, Numbered(rs, g, at),
           NEW more, rs \subseteq more, \A r \in more \ rs : r.event = "added",
           added(more, g) = added(rs, g) \cup addInstances(rs, g, n, token, at)
    PROVE  /\ minted(rs, g) \subseteq minted(more, g)
           /\ standing(more, g) = standing(rs, g) \cup (minted(more, g) \ minted(rs, g))
<1> DEFINE D == addInstances(rs, g, n, token, at)
<1>1. \A r \in D : r.instance \notin minted(rs, g)
  BY FreshRows
<1>2. added(more, g) = added(rs, g) \cup D
  OBVIOUS
<1> HIDE DEF D
<1>3. minted(more, g) = minted(rs, g) \cup {r.instance : r \in D}
  BY <1>2 DEF minted
<1>4. presentRows(more, g) = presentRows(rs, g) \cup D
  <2>1. \A s \in more : s.event = "removed" => s \in rs
    OBVIOUS
  <2>2. \A r \in added(rs, g) : r \in presentRows(more, g) <=> r \in presentRows(rs, g)
    BY <1>2, <2>1 DEF presentRows
  <2>3. ASSUME NEW r \in D PROVE r \in presentRows(more, g)
    <3>1. \A s \in more : ~(s.group = g /\ s.instance = r.instance /\ s.event = "removed")
      BY <1>1, <2>1 DEF RemovesMinted
    <3>2. r \in added(more, g)
      BY <1>2
    <3>3. QED
      BY <3>1, <3>2 DEF presentRows
  <2>4. presentRows(more, g) \subseteq added(rs, g) \cup D /\ presentRows(rs, g) \subseteq added(rs, g)
    BY <1>2 DEF presentRows
  <2>5. QED
    BY <2>2, <2>3, <2>4
<1>5. standing(more, g) = standing(rs, g) \cup {r.instance : r \in D}
  BY <1>4 DEF standing
<1>6. minted(more, g) \ minted(rs, g) = {r.instance : r \in D}
  BY <1>1, <1>3
<1>7. QED
  BY <1>3, <1>5, <1>6

\* A mint appends up to the target of a group, or nothing.
LEMMA MintOrNot ==
    ASSUME NEW rs, RowsOK(rs), NEW answer \in Answer, NEW step \in SUBSET Groups,
           NEW at \in Nat, \A h \in Groups : Numbered(rs, h, at), NEW g \in Groups
    PROVE  \/ added(mintDue(rs, answer, step, at), g) = added(rs, g)
           \/ /\ Cardinality(minted(rs, g)) < mintTarget(g, answer)
              /\ Cardinality(minted(mintDue(rs, answer, step, at), g)) = mintTarget(g, answer)
<1> DEFINE more == mintDue(rs, answer, step, at)
           n == mintCount(rs, g, answer, step)
<1>1. n \in Nat
  BY MintCount
<1>2. added(more, g) = added(rs, g) \cup addInstances(rs, g, n, None, at)
  BY MintRows
<1> HIDE DEF more
<1>3. CASE n = 0
  <2>1. Cardinality(minted(rs, g)) \in Nat
    BY GroupFacts
  <2>2. (Cardinality(minted(rs, g)) + 1) .. (Cardinality(minted(rs, g)) + 0) = {}
    BY <2>1
  <2>3. addInstances(rs, g, 0, None, at) = {}
    BY <2>2 DEF addInstances
  <2>4. QED
    BY <1>2, <1>3, <2>3 DEF more
<1>4. CASE n # 0
  <2>1. /\ Cardinality(minted(rs, g)) < mintTarget(g, answer)
        /\ Cardinality(minted(rs, g)) + n = mintTarget(g, answer)
    BY <1>4, MintCount
  <2> HIDE DEF n
  <2>2. Cardinality(minted(more, g)) = Cardinality(minted(rs, g)) + n
    BY <1>1, <1>2, GroupGrows
  <2>3. QED
    BY <2>1, <2>2 DEF more
<1>5. QED
  BY <1>3, <1>4

\* An open group, with instances m ever made and l listed before the response,
\* as the contract says it comes out.
drew(g, m, l, more) ==
    /\ m \subseteq minted(more, g)
    /\ minted(more, g) = m \/ Cardinality(minted(more, g)) = opensWith(g)
    /\ standing(more, g) = l \cup (minted(more, g) \ m)

LEMMA MintDraws ==
    ASSUME NEW rs, RowsOK(rs), RemovesMinted(rs), NEW answer \in Answer,
           NEW step \in SUBSET Groups, NEW at \in Nat, \A h \in Groups : Numbered(rs, h, at),
           NEW g \in openGroups
    PROVE  drew(g, minted(rs, g), standing(rs, g), mintDue(rs, answer, step, at))
<1> DEFINE more == mintDue(rs, answer, step, at)
           n == mintCount(rs, g, answer, step)
<1>1. g \in Groups /\ Count[g].source = "open"
  BY DEF openGroups
<1>2. n \in Nat
  BY <1>1, MintCount
<1>3. added(more, g) = added(rs, g) \cup addInstances(rs, g, n, None, at)
  BY <1>1, MintRows
<1>4. rs \subseteq more
  BY MintRows
<1>5. \A r \in more \ rs : /\ r \in Row /\ r.event = "added" /\ r.token = None /\ r.at = at
                           /\ r.instance[1] = at /\ r.group \in Groups
                           /\ Cardinality(minted(rs, r.group)) < mintTarget(r.group, answer)
  BY MintRows
<1>6. \/ added(more, g) = added(rs, g)
      \/ /\ Cardinality(minted(rs, g)) < mintTarget(g, answer)
         /\ Cardinality(minted(more, g)) = mintTarget(g, answer)
  BY <1>1, MintOrNot
<1>7. mintTarget(g, answer) = opensWith(g)
  BY <1>1 DEF opensWith, mintTarget
<1> HIDE DEF more, n
<1>8. None \in Tokens \cup {None} /\ \A r \in more \ rs : r.event = "added"
  BY <1>5
<1>9. /\ minted(rs, g) \subseteq minted(more, g)
      /\ standing(more, g) = standing(rs, g) \cup (minted(more, g) \ minted(rs, g))
  BY <1>1, <1>2, <1>3, <1>4, <1>8, FreshStand
<1>10. minted(more, g) = minted(rs, g) \/ Cardinality(minted(more, g)) = opensWith(g)
  BY <1>6, <1>7 DEF minted
<1>11. drew(g, minted(rs, g), standing(rs, g), more)
  BY <1>9, <1>10 DEF drew
<1>12. QED
  BY <1>11 DEF more

\* The first rows of an order are among the first of any longer part of it.
LEMMA FirstGrows ==
    ASSUME NEW rs \in SUBSET Row, IsFiniteSet(rs), NEW n \in Nat, n > 0
    PROVE  First(rs, n - 1) \subseteq First(rs, n)
<1>1. \A r \in rs : Cardinality(prec(rs, r)) \in Nat
  <2> TAKE r \in rs
  <2>1. prec(rs, r) \in SUBSET rs
    BY DEF prec
  <2>2. QED
    BY <2>1, FS_Subset, FS_CardinalityType
<1>2. firstRows(rs, n - 1) \subseteq firstRows(rs, n)
  BY <1>1 DEF firstRows
<1>3. /\ First(rs, n) = {r.instance : r \in firstRows(rs, n)}
      /\ First(rs, n - 1) = {r.instance : r \in firstRows(rs, n - 1)}
  BY DEF First, firstRows, prec
<1>4. QED
  BY <1>2, <1>3

\* What a group shows at each count it has reached.
reached(rs, g) == [n \in 0 .. Cardinality(added(rs, g)) |-> First(added(rs, g), n)]

\* A sized group, as the contract says it comes out of a response for which it
\* is to have limit live instances.
grew(old, new, limit) ==
    \/ new = old
    \/ /\ DOMAIN new = 0 .. limit
       /\ \A n \in DOMAIN old : n \in DOMAIN new /\ new[n] = old[n]
       /\ \A n \in DOMAIN new :
            Cardinality(new[n]) = n /\ (n > 0 => new[n - 1] \subseteq new[n])

LEMMA SizedGrows ==
    ASSUME NEW rs, RowsOK(rs), NEW more, RowsOK(more), rs \subseteq more, NEW g \in Groups,
           \A r \in added(more, g) \ added(rs, g) : \A s \in added(rs, g) : s.at < r.at,
           NEW limit \in Nat,
           added(more, g) = added(rs, g) \/ Cardinality(minted(more, g)) = limit
    PROVE  grew(reached(rs, g), reached(more, g), limit)
<1>1. CASE added(more, g) = added(rs, g)
  BY <1>1 DEF reached, grew
<1>2. CASE Cardinality(minted(more, g)) = limit
  <2>1. /\ added(rs, g) \in SUBSET Row /\ IsFiniteSet(added(rs, g))
        /\ Cardinality(minted(rs, g)) = Cardinality(added(rs, g))
        /\ Cardinality(minted(rs, g)) \in Nat
    BY GroupFacts
  <2>2. /\ added(more, g) \in SUBSET Row /\ IsFiniteSet(added(more, g)) /\ Total(added(more, g))
        /\ Cardinality(minted(more, g)) = Cardinality(added(more, g))
        /\ Named(added(more, g))
    BY GroupFacts DEF RowsOK
  <2>3. added(rs, g) \subseteq added(more, g)
    BY DEF added
  <2>4. Cardinality(added(rs, g)) <= limit /\ Cardinality(added(more, g)) = limit
    BY <1>2, <2>1, <2>2, <2>3, FS_Subset
  <2>5. \A r \in added(more, g) \ added(rs, g) : \A s \in added(rs, g) : Before(s, r)
    BY DEF Before
  <2>6. ASSUME NEW n \in 0 .. Cardinality(added(rs, g))
        PROVE  n \in 0 .. limit /\ First(added(more, g), n) = First(added(rs, g), n)
    <3>1. n \in Nat /\ n <= Cardinality(added(rs, g)) /\ n \in 0 .. limit
      BY <2>1, <2>4
    <3>2. First(added(more, g), n) = First(added(rs, g), n)
      BY <2>1, <2>2, <2>3, <2>5, <3>1, FirstKept
    <3>3. QED
      BY <3>1, <3>2
  <2>7. ASSUME NEW n \in 0 .. limit
        PROVE  /\ Cardinality(First(added(more, g), n)) = n
               /\ n > 0 => n - 1 \in 0 .. limit /\ First(added(more, g), n - 1) \subseteq First(added(more, g), n)
    <3>1. n \in Nat /\ n <= Cardinality(added(more, g))
      BY <2>4
    <3>2. Cardinality(First(added(more, g), n)) = n
      BY <2>2, <3>1, FirstCount
    <3>3. n > 0 => First(added(more, g), n - 1) \subseteq First(added(more, g), n)
      BY <2>2, <3>1, FirstGrows
    <3>4. QED
      BY <3>1, <3>2, <3>3
  <2> DEFINE old == reached(rs, g)
             new == reached(more, g)
  <2>8. DOMAIN old = 0 .. Cardinality(added(rs, g)) /\ DOMAIN new = 0 .. limit
    BY <2>4 DEF reached
  <2>9. \A n \in DOMAIN old : old[n] = First(added(rs, g), n)
    BY DEF reached
  <2>10. \A n \in DOMAIN new : new[n] = First(added(more, g), n)
    BY DEF reached
  <2> HIDE DEF old, new
  <2>11. \A n \in DOMAIN old : n \in DOMAIN new /\ new[n] = old[n]
    BY <2>6, <2>8, <2>9, <2>10
  <2>12. \A n \in DOMAIN new : Cardinality(new[n]) = n /\ (n > 0 => new[n - 1] \subseteq new[n])
    BY <2>7, <2>8, <2>10
  <2>13. grew(old, new, limit)
    BY <2>8, <2>11, <2>12 DEF grew
  <2>14. QED
    BY <2>13 DEF old, new
<1>3. QED
  BY <1>1, <1>2

-----------------------------------------------------------------------------
(* The contract: what a response commits.                                  *)

\* A removal in flight carries a later stamp than the instance it names.
RemovesLater ==
    \A q \in Requests : Active(q) /\ Op(q).kind = "remove" => Op(q).instance[1] < request[q].at

ContractInv == RosterInv /\ Whole(rows) /\ RemovesMinted(rows) /\ RemovesLater

tokens(rs) == {r.token : r \in rs} \ {None}

\* Request q commits a mint over rs: the rows it read, with its operation's.
Responds(q, rs, step) ==
    /\ RowsOK(rs) /\ RemovesMinted(rs) /\ rows \subseteq rs /\ step \in SUBSET Groups
    /\ \A g \in Groups : Numbered(rs, g, request[q].at)
    /\ \A g \in sizedGroups : added(rs, g) = added(rows, g)
    /\ rows' = mintDue(rs, size'.value, step, request[q].at)
    /\ size' \in SizeRec /\ Sized(rows', size') /\ Appended(rows, rows')

\* The rows of a committed transaction.
LEMMA CommittedRows ==
    ASSUME RosterInv, NEW q \in Requests, request[q].pc = "locked",
           NEW rs, NEW sz, Transaction(q, rs, sz), Commit(q, rs, sz)
    PROVE  /\ rows' = rs /\ size' = sz
           /\ size' \in SizeRec /\ Sized(rows', size') /\ Appended(rows, rows')
BY Fresh DEF Commit, Transaction

\* A serve, an answer and a replayed operation mint over what they read.
LEMMA PageResponds ==
    ASSUME ContractInv, NEW q \in Requests, NEW step \in Steps \cup {{}},
           Serve(q, step) \/ Resize(q, step) \/ ReplayRosterOp(q, step)
    PROVE  Responds(q, rows, step) /\ UNCHANGED sealed
<1>1. /\ RosterInv /\ RemovesMinted(rows) /\ step \in SUBSET Groups
      /\ request[q].pc = "locked"
  BY StepType DEF ContractInv, Serve, Resize, ReplayRosterOp, Holds
<1>2. /\ request[q].at \in Nat /\ \A g \in Groups : Numbered(rows, g, request[q].at)
      /\ RowsOK(rows) /\ request[q].rows = rows /\ request[q].size = size /\ size \in SizeRec
  BY <1>1, Fresh
<1>3. PICK rs, sz : Transaction(q, rs, sz) /\ Commit(q, rs, sz) /\ UNCHANGED sealed
  BY <1>1, ServeTransaction, ResizeTransaction
<1>4. /\ size' \in SizeRec /\ Sized(rows', size') /\ Appended(rows, rows') /\ UNCHANGED sealed
  BY <1>1, <1>3, CommittedRows
<1>5. PICK after : Commit(q, mintDue(rows, after.value, step, request[q].at), after)
  BY <1>2 DEF Serve, Resize, ReplayRosterOp, At
<1>6. size' = after /\ rows' = rows \cup (mintDue(rows, after.value, step, request[q].at) \ rows)
  BY <1>2, <1>5 DEF Commit
<1>7. after.value \in Answer
  BY <1>4, <1>6 DEF SizeRec
<1>8. rows \subseteq mintDue(rows, after.value, step, request[q].at)
  BY <1>1, <1>2, <1>7, MintStamps
<1>9. rows' = mintDue(rows, size'.value, step, request[q].at)
  BY <1>6, <1>8
<1>10. QED
  BY <1>1, <1>2, <1>4, <1>9 DEF Responds

\* An Add or a removal mints over those and its own row.
LEMMA RosterOpResponds ==
    ASSUME ContractInv, NEW q \in Requests, NEW step \in Steps \cup {{}}, RosterOp(q, step)
    PROVE  /\ Responds(q, rows \cup Effect(q), step) /\ UNCHANGED <<size, sealed>>
           /\ RowsOK(rows \cup Effect(q))
           /\ \A h \in Groups \ {Op(q).group} : added(rows \cup Effect(q), h) = added(rows, h)
<1> DEFINE rs == rows \cup Effect(q)
           g == Op(q).group
<1>1. /\ RosterInv /\ RemovesMinted(rows) /\ step \in SUBSET Groups
      /\ request[q].pc = "locked" /\ Op(q).kind \in {"add", "remove"} /\ Accepts(q)
  BY StepType DEF ContractInv, RosterOp, Holds
<1>2. /\ request[q].at \in Nat /\ RowsOK(rows) /\ request[q].rows = rows
      /\ request[q].size = size /\ size \in SizeRec
  BY <1>1, Fresh
<1>3. RowsOK(rs) /\ \A h \in Groups : Numbered(rs, h, request[q].at)
  BY <1>1, RosterOpRows
<1>4. \A h \in Groups \ {g} : added(rs, h) = added(rows, h)
  BY <1>1, RosterOpRows
<1>5. Count[g].source = "open"
  BY <1>1 DEF Accepts
<1>6. RemovesMinted(rs)
  <2>1. \A h : minted(rows, h) \subseteq minted(rs, h)
    BY DEF minted, added
  <2>2. \A s \in Effect(q) : s.event = "removed" => s.instance \in minted(rows, s.group)
    BY <1>1, <1>2 DEF Effect, Accepts, addInstances
  <2>3. QED
    BY <1>1, <2>1, <2>2 DEF RemovesMinted
<1>7. PICK m, sz : Transaction(q, m, sz) /\ Commit(q, m, sz) /\ UNCHANGED sealed
  BY <1>1, RosterOpTransaction
<1>8. /\ size' \in SizeRec /\ Sized(rows', size') /\ Appended(rows, rows') /\ UNCHANGED sealed
  BY <1>1, <1>7, CommittedRows
<1>9. Commit(q, mintDue(rs, size.value, step, request[q].at), size)
  BY <1>2 DEF RosterOp, At
<1>10. /\ size' = size
       /\ rows' = rows \cup (mintDue(rs, size.value, step, request[q].at) \ rows)
  BY <1>2, <1>9 DEF Commit
<1> HIDE DEF rs
<1>11. rs \subseteq mintDue(rs, size.value, step, request[q].at) /\ rows \subseteq rs
  <2>1. size.value \in Answer
    BY <1>2 DEF SizeRec
  <2>2. rs \subseteq mintDue(rs, size.value, step, request[q].at)
    BY <1>1, <1>2, <1>3, <2>1, MintStamps
  <2>3. QED
    BY <2>2 DEF rs
<1>12. rows' = mintDue(rs, size'.value, step, request[q].at)
  BY <1>10, <1>11
<1>13. \A h \in sizedGroups : added(rs, h) = added(rows, h)
  BY <1>4, <1>5 DEF sizedGroups, openGroups
<1>14. Responds(q, rs, step)
  BY <1>1, <1>3, <1>6, <1>8, <1>11, <1>12, <1>13 DEF Responds
<1>15. QED
  BY <1>3, <1>4, <1>8, <1>10, <1>14 DEF rs

\* Every open group comes out as the contract says, and no token is spent by
\* the mint.
LEMMA RespondsDraws ==
    ASSUME NEW q \in Requests, request[q].at \in Nat, NEW rs, NEW step, Responds(q, rs, step)
    PROVE  /\ \A g \in openGroups : drew(g, minted(rs, g), standing(rs, g), rows')
           /\ tokens(rows') = tokens(rs) /\ rs \subseteq rows' /\ RowsOK(rows')
<1>1. /\ RowsOK(rs) /\ RemovesMinted(rs) /\ step \in SUBSET Groups
      /\ \A g \in Groups : Numbered(rs, g, request[q].at)
      /\ rows' = mintDue(rs, size'.value, step, request[q].at)
      /\ size'.value \in Answer
  BY DEF Responds, SizeRec
<1>2. \A g \in openGroups : drew(g, minted(rs, g), standing(rs, g), rows')
  BY <1>1, MintDraws
<1>3. RowsOK(rows')
  BY <1>1, MintKeeps
<1>4. rs \subseteq rows'
  BY <1>1, MintStamps
<1>5. \A r \in rows' \ rs :
          /\ r \in Row /\ r.event = "added" /\ r.token = None /\ r.at = request[q].at
          /\ r.instance[1] = request[q].at /\ r.group \in Groups
          /\ Cardinality(minted(rs, r.group)) < mintTarget(r.group, size'.value)
  BY <1>1, MintRows
<1>6. tokens(rows') = tokens(rs)
  <2>1. \A r \in rows' : r \in rs \/ r.token = None
    BY <1>5
  <2>2. QED
    BY <1>4, <2>1 DEF tokens
<1>7. QED
  BY <1>2, <1>3, <1>4, <1>6

\* Every sized group does, too.
LEMMA RespondsGrows ==
    ASSUME RosterInv, Whole(rows), NEW q \in Requests, request[q].at \in Nat,
           NEW rs, NEW step, Responds(q, rs, step), NEW g \in sizedGroups
    PROVE  /\ grew(reached(rows, g), reached(rows', g), liveInstanceLimit(g, size'.value))
           /\ Count[g].source = "fromAnswer" =>
                  liveInstanceLimit(g, size'.value) \in DOMAIN reached(rows', g)
           /\ Count[g].source = "fixed" =>
                  minted(rows', g) = {} \/ Cardinality(minted(rows', g)) = Count[g].max
<1> DEFINE limit == liveInstanceLimit(g, size'.value)
<1>1. /\ RowsOK(rs) /\ step \in SUBSET Groups
      /\ \A h \in Groups : Numbered(rs, h, request[q].at)
      /\ added(rs, g) = added(rows, g)
      /\ rows' = mintDue(rs, size'.value, step, request[q].at)
      /\ size' \in SizeRec /\ size'.value \in Answer
      /\ Sized(rows', size') /\ Appended(rows, rows') /\ rows \subseteq rs
  BY DEF Responds, SizeRec
<1>2. /\ g \in Groups /\ Count[g].source \in {"fixed", "fromAnswer"} /\ Count[g].source # "open"
  BY CountAssumption DEF sizedGroups, openGroups, RepeatCount
<1>3. limit \in Nat /\ mintTarget(g, size'.value) = limit
  BY <1>1, <1>2, LimitBounds DEF mintTarget
<1>4. RowsOK(rows) /\ RowsOK(rows') /\ rows \subseteq rows'
  BY RespondsDraws, <1>1 DEF RosterInv, Types
<1>5. \/ added(rows', g) = added(rs, g)
      \/ /\ Cardinality(minted(rs, g)) < mintTarget(g, size'.value)
         /\ Cardinality(minted(rows', g)) = mintTarget(g, size'.value)
  BY <1>1, <1>2, MintOrNot
<1>6. minted(rs, g) = minted(rows, g)
  BY <1>1 DEF minted
<1> HIDE DEF limit
<1>7. \/ added(rows', g) = added(rows, g)
      \/ /\ Cardinality(minted(rows, g)) < limit
         /\ Cardinality(minted(rows', g)) = limit
  BY <1>1, <1>3, <1>5, <1>6
<1>8. /\ Cardinality(minted(rows, g)) \in Nat
      /\ Cardinality(minted(rows', g)) \in Nat
      /\ Cardinality(minted(rows', g)) = Cardinality(added(rows', g))
  BY <1>2, <1>4, GroupFacts
<1>9. Count[g].source = "fixed" => limit = Count[g].max
  BY DEF limit, liveInstanceLimit
<1>10. \A r \in added(rows', g) \ added(rows, g) : \A s \in added(rows, g) : s.at < r.at
  <2>1. CASE added(rows', g) = added(rows, g)
    BY <2>1
  <2>2. CASE Count[g].source = "fromAnswer"
    BY <1>1, <1>2, <2>2 DEF Appended
  <2>3. CASE Count[g].source = "fixed" /\ added(rows', g) # added(rows, g)
    <3>1. Cardinality(minted(rows, g)) < Count[g].max
      BY <1>7, <1>9, <2>3
    <3>2. Count[g].max \in Nat
      BY <1>3, <1>9, <2>3
    <3>3. minted(rows, g) = {}
      BY <1>2, <1>8, <2>3, <3>1, <3>2 DEF Whole
    <3>4. added(rows, g) = {}
      BY <3>3 DEF minted
    <3>5. QED
      BY <3>4
  <2>4. QED
    BY <1>2, <2>1, <2>2, <2>3
<1>11. added(rows', g) = added(rows, g) \/ Cardinality(minted(rows', g)) = limit
  BY <1>7
<1>12. grew(reached(rows, g), reached(rows', g), limit)
  BY <1>2, <1>3, <1>4, <1>10, <1>11, SizedGrows
<1>13. Count[g].source = "fromAnswer" => limit \in DOMAIN reached(rows', g)
  <2>1. DOMAIN reached(rows', g) = 0 .. Cardinality(added(rows', g))
    BY DEF reached
  <2>2. Count[g].source = "fromAnswer" => limit <= Cardinality(minted(rows', g))
    BY <1>1, <1>2 DEF Sized, limit
  <2>3. QED
    BY <1>3, <1>8, <2>1, <2>2
<1>14. Count[g].source = "fixed" =>
           minted(rows', g) = {} \/ Cardinality(minted(rows', g)) = Count[g].max
  <2>1. added(rows', g) = added(rows, g) => minted(rows', g) = minted(rows, g)
    BY DEF minted
  <2>2. QED
    BY <1>2, <1>7, <1>9, <2>1 DEF Whole
<1>15. QED
  BY <1>12, <1>13, <1>14 DEF limit

\* So a response keeps what the contract relies on.
LEMMA RespondsKeeps ==
    ASSUME RosterInv, Whole(rows), NEW q \in Requests, request[q].at \in Nat,
           NEW rs, NEW step, Responds(q, rs, step)
    PROVE  Whole(rows') /\ RemovesMinted(rows')
<1>1. Whole(rows')
  <2>1. \A g \in Groups : Count[g].source = "fixed" => g \in sizedGroups
    BY DEF sizedGroups, openGroups
  <2>2. QED
    BY <2>1, RespondsGrows DEF Whole
<1>2. RemovesMinted(rows')
  <2>1. /\ RowsOK(rs) /\ RemovesMinted(rs) /\ step \in SUBSET Groups
        /\ \A g \in Groups : Numbered(rs, g, request[q].at)
        /\ rows' = mintDue(rs, size'.value, step, request[q].at)
        /\ size'.value \in Answer
    BY DEF Responds, SizeRec
  <2>2. \A r \in rows' \ rs :
            /\ r \in Row /\ r.event = "added" /\ r.token = None /\ r.at = request[q].at
            /\ r.instance[1] = request[q].at /\ r.group \in Groups
            /\ Cardinality(minted(rs, r.group)) < mintTarget(r.group, size'.value)
    BY <2>1, MintRows
  <2>3. rs \subseteq rows'
    BY RespondsDraws
  <2>4. \A s \in rows' : s.event = "removed" => s \in rs
    BY <2>2
  <2>5. \A g : minted(rs, g) \subseteq minted(rows', g)
    BY <2>3 DEF minted, added
  <2>6. QED
    BY <2>1, <2>4, <2>5 DEF RemovesMinted
<1>3. QED
  BY <1>1, <1>2

-----------------------------------------------------------------------------
(* The contract: each act.                                                 *)

\* What an Add does before the mint: one instance more, and its token.
LEMMA AddEffect ==
    ASSUME ContractInv, NEW q \in Requests, NEW step \in Steps \cup {{}},
           RosterOp(q, step), Op(q).kind = "add"
    PROVE  LET g == Op(q).group
               rs == rows \cup Effect(q)
           IN  \E i : /\ i \notin minted(rows, g)
                      /\ minted(rs, g) = minted(rows, g) \cup {i}
                      /\ standing(rs, g) = standing(rows, g) \cup {i}
                      /\ tokens(rs) = tokens(rows) \cup {Op(q).token}
                      /\ \A h \in Groups \ {g} : standing(rs, h) = standing(rows, h)
<1> DEFINE g == Op(q).group
           rs == rows \cup Effect(q)
           token == Op(q).token
           at == request[q].at
<1>1. /\ RosterInv /\ RemovesMinted(rows) /\ request[q].pc = "locked"
  BY DEF ContractInv, RosterOp, Holds
<1>2. /\ at \in Nat /\ RowsOK(rows) /\ request[q].rows = rows
      /\ \A h \in Groups : Numbered(rows, h, at)
  BY <1>1, Fresh
<1>3. g \in Groups /\ token \in Tokens /\ token # None
  BY <1>1, InputAssumption DEF RosterInv, Types, OpOK, Op
<1>4. Effect(q) = addInstances(rows, g, 1, token, at)
  BY <1>2 DEF Effect, At
<1> DEFINE D == addInstances(rows, g, 1, token, at)
<1>5. /\ D \in SUBSET Row /\ IsFiniteSet(D) /\ Cardinality(D) = 1 /\ Named(D)
      /\ \A r \in D : /\ r.group = g /\ r.event = "added" /\ r.token = token
                      /\ r.at = at /\ r.instance[1] = at
                      /\ r.instance[2] <= Cardinality(minted(rows, g)) + 1
                      /\ r.instance \notin minted(rows, g)
  <2> HIDE DEF g, token, at
  <2>1. 1 \in Nat /\ token \in Tokens \cup {None} /\ Numbered(rows, g, at)
    BY <1>2, <1>3
  <2>2. QED
    BY <1>2, <1>3, <2>1, FreshRows
<1>6. PICK d : D = {d}
  BY <1>5, FS_Singleton
<1>7. added(rs, g) = added(rows, g) \cup D /\ \A h \in Groups \ {g} : added(rs, h) = added(rows, h)
  BY <1>4, <1>5 DEF added
<1>8. rows \subseteq rs /\ \A r \in rs \ rows : r.event = "added"
  BY <1>4, <1>5
<1>9. standing(rs, g) = standing(rows, g) \cup (minted(rs, g) \ minted(rows, g))
  <2> HIDE DEF rs, g, token, at
  <2>1. 1 \in Nat /\ token \in Tokens \cup {None} /\ Numbered(rows, g, at)
    BY <1>2, <1>3
  <2>2. added(rs, g) = added(rows, g) \cup addInstances(rows, g, 1, token, at)
    BY <1>7
  <2>3. QED
    BY <1>1, <1>2, <1>3, <1>8, <2>1, <2>2, FreshStand
<1>10. \A h \in Groups \ {g} : standing(rs, h) = standing(rows, h)
  BY <1>7, <1>8, StandingKept
<1> HIDE DEF D
<1>11. d.instance \notin minted(rows, g) /\ d.token = token
  BY <1>5, <1>6
<1>12. minted(rs, g) = minted(rows, g) \cup {d.instance}
  BY <1>6, <1>7 DEF minted
<1>13. tokens(rs) = tokens(rows) \cup {token}
  <2>1. rs = rows \cup {d}
    BY <1>4, <1>6 DEF D
  <2> HIDE DEF rs
  <2>2. QED
    BY <1>3, <1>11, <2>1 DEF tokens
<1>14. standing(rs, g) = standing(rows, g) \cup {d.instance}
  BY <1>9, <1>11, <1>12
<1>15. QED
  BY <1>10, <1>11, <1>12, <1>13, <1>14

\* What a removal does: one instance less, and its token.
LEMMA RemoveEffect ==
    ASSUME ContractInv, NEW q \in Requests, NEW step \in Steps \cup {{}},
           RosterOp(q, step), Op(q).kind = "remove"
    PROVE  LET g == Op(q).group
               rs == rows \cup Effect(q)
           IN  /\ Op(q).instance \in minted(rows, g)
               /\ minted(rs, g) = minted(rows, g)
               /\ standing(rs, g) = standing(rows, g) \ {Op(q).instance}
               /\ tokens(rs) = tokens(rows) \cup {Op(q).token}
               /\ \A h \in Groups \ {g} : standing(rs, h) = standing(rows, h)
<1> DEFINE g == Op(q).group
           rs == rows \cup Effect(q)
           at == request[q].at
           d == [group |-> g, instance |-> Op(q).instance, event |-> "removed",
                 token |-> Op(q).token, at |-> at]
<1>1. /\ RosterInv /\ request[q].pc = "locked" /\ Accepts(q) /\ Active(q)
  BY DEF ContractInv, RosterOp, Holds, Active
<1>2. at \in Nat /\ RowsOK(rows) /\ request[q].rows = rows
  BY <1>1, Fresh
<1>3. g \in Groups /\ Op(q).token \in Tokens /\ Op(q).token # None
  BY <1>1, InputAssumption DEF RosterInv, Types, OpOK, Op
<1>4. Op(q).instance \in minted(rows, g)
  BY <1>1, <1>2 DEF Accepts
<1>5. rs = rows \cup {d}
  BY DEF Effect, At
<1>6. /\ d.group = g /\ d.instance = Op(q).instance /\ d.event = "removed"
      /\ d.token = Op(q).token /\ d.at = at
  OBVIOUS
<1> HIDE DEF d, rs, g, at
<1>7. \A h : added(rs, h) = added(rows, h)
  BY <1>5, <1>6 DEF added
<1>8. minted(rs, g) = minted(rows, g)
  BY <1>7 DEF minted
<1>9. \A h \in Groups \ {g} : standing(rs, h) = standing(rows, h)
  <2>1. \A h \in Groups \ {g} : presentRows(rs, h) = presentRows(rows, h)
    BY <1>5, <1>6, <1>7 DEF presentRows
  <2>2. QED
    BY <2>1 DEF standing
<1>10. ASSUME NEW r \in added(rows, g), r.instance = d.instance PROVE ~(d.at < r.at)
  <2>1. r.at \in Nat /\ r.instance[1] = r.at
    BY <1>2 DEF RowsOK, Row, added
  <2>2. Op(q).instance[1] < at
    BY <1>1 DEF ContractInv, RemovesLater, at
  <2>3. QED
    BY <1>2, <1>6, <1>10, <2>1, <2>2
<1>11. presentRows(rs, g) = {r \in presentRows(rows, g) : r.instance # d.instance}
  <2>1. \A r \in added(rows, g) :
            r \in presentRows(rs, g) <=> r \in presentRows(rows, g) /\ r.instance # d.instance
    BY <1>5, <1>6, <1>7, <1>10 DEF presentRows
  <2>2. /\ presentRows(rs, g) \subseteq added(rows, g)
        /\ presentRows(rows, g) \subseteq added(rows, g)
    BY <1>7 DEF presentRows
  <2>3. QED
    BY <2>1, <2>2
<1>12. standing(rs, g) = standing(rows, g) \ {Op(q).instance}
  BY <1>6, <1>11 DEF standing
<1>13. tokens(rs) = tokens(rows) \cup {Op(q).token}
  BY <1>3, <1>5, <1>6 DEF tokens
<1>14. QED
  BY <1>4, <1>8, <1>9, <1>12, <1>13 DEF rs, g

\* So is the number of elements it speaks of.
LEMMA ContractCardinality == ASSUME NEW S PROVE Contract!Cardinality(S) = Cardinality(S)
  BY DEF Contract!Cardinality, Cardinality

\* The sizes the contract speaks of are the code's.
LEMMA ContractSizes ==
    ASSUME NEW g \in Groups, NEW answer \in Answer
    PROVE  /\ g \in sizedGroups => Contract!Asked(g, answer) = liveInstanceLimit(g, answer)
           /\ g \in openGroups => Contract!OpensWith(g) = opensWith(g)
<1>1. g \in sizedGroups => Contract!Asked(g, answer) = liveInstanceLimit(g, answer)
  BY DEF Contract!Asked, liveInstanceLimit, clamp
<1>2. g \in openGroups => Contract!OpensWith(g) = opensWith(g)
  BY DEF Contract!OpensWith, opensWith, mintTarget, openGroups
<1>3. QED
  BY <1>1, <1>2

\* The contract's state, after a step as before it.
LEMMA Mapped ==
    /\ \A g \in openGroups : Made[g] = minted(rows, g) /\ Made'[g] = minted(rows', g)
    /\ \A g \in openGroups : Listed[g] = standing(rows, g) /\ Listed'[g] = standing(rows', g)
    /\ \A g \in sizedGroups : Shown[g] = reached(rows, g) /\ Shown'[g] = reached(rows', g)
    /\ DOMAIN Made' = openGroups /\ DOMAIN Listed' = openGroups /\ DOMAIN Shown' = sizedGroups
<1>1. \A g \in openGroups : Made[g] = minted(rows, g) /\ Made'[g] = minted(rows', g)
  BY DEF Made
<1>2. \A g \in openGroups : Listed[g] = standing(rows, g) /\ Listed'[g] = standing(rows', g)
  BY DEF Listed, standing
<1>3. \A g \in sizedGroups : Shown[g] = reached(rows, g) /\ Shown'[g] = reached(rows', g)
  BY DEF Shown, reached
<1>4. DOMAIN Made' = openGroups /\ DOMAIN Listed' = openGroups /\ DOMAIN Shown' = sizedGroups
  BY DEF Made, Listed, Shown
<1>5. QED
  BY <1>1, <1>2, <1>3, <1>4

\* An open group is drawn, and a sized one grown, as the contract says.
LEMMA ContractDrawn ==
    ASSUME NEW g \in openGroups, NEW m, NEW l, drew(g, m, l, rows')
    PROVE  Contract!Drawn(g, m, l)
<1>1. Contract!OpensWith(g) = opensWith(g)
  BY ContractSizes DEF openGroups, Answer
<1>2. Made'[g] = minted(rows', g) /\ Listed'[g] = standing(rows', g)
  BY Mapped
<1>3. Contract!Cardinality(minted(rows', g)) = Cardinality(minted(rows', g))
  BY ContractCardinality
<1>4. QED
  BY <1>1, <1>2, <1>3 DEF Contract!Drawn, drew

LEMMA ContractGrown ==
    ASSUME NEW g \in sizedGroups, size' \in SizeRec,
           grew(reached(rows, g), reached(rows', g), liveInstanceLimit(g, size'.value)),
           Count[g].source = "fromAnswer" =>
               liveInstanceLimit(g, size'.value) \in DOMAIN reached(rows', g)
    PROVE  Contract!Grown(g)
<1>1. Contract!Asked(g, size'.value) = liveInstanceLimit(g, size'.value)
  BY ContractSizes DEF sizedGroups, SizeRec
<1>2. Shown[g] = reached(rows, g) /\ Shown'[g] = reached(rows', g)
  BY Mapped
<1>3. \A n \in DOMAIN reached(rows', g) :
          Contract!Cardinality(reached(rows', g)[n]) = Cardinality(reached(rows', g)[n])
  BY ContractCardinality
<1>4. QED
  BY <1>1, <1>2, <1>3 DEF Contract!Grown, grew

\* A response grows every sized group as the contract says.
LEMMA ResponseGrows ==
    ASSUME ContractInv, NEW q \in Requests, request[q].pc = "locked",
           NEW rs, NEW step, Responds(q, rs, step)
    PROVE  /\ \A g \in sizedGroups : Contract!Grown(g)
           /\ DOMAIN Made' = openGroups /\ DOMAIN Listed' = openGroups
           /\ DOMAIN Shown' = sizedGroups
<1>1. /\ RosterInv /\ Whole(rows) /\ request[q].at \in Nat /\ size' \in SizeRec
  BY Fresh DEF ContractInv, Responds
<1>2. ASSUME NEW g \in sizedGroups PROVE Contract!Grown(g)
  <2>1. grew(reached(rows, g), reached(rows', g), liveInstanceLimit(g, size'.value))
    BY <1>1, RespondsGrows
  <2>2. Count[g].source = "fromAnswer" =>
            liveInstanceLimit(g, size'.value) \in DOMAIN reached(rows', g)
    BY <1>1, RespondsGrows
  <2>3. QED
    BY <1>1, <2>1, <2>2, ContractGrown
<1>3. QED
  BY <1>2, Mapped

\* A page, an answer and a replayed operation are responses.
LEMMA PageContract ==
    ASSUME ContractInv, NEW q \in Requests, NEW step \in Steps \cup {{}},
           Serve(q, step) \/ Resize(q, step) \/ ReplayRosterOp(q, step)
    PROVE  Contract!Next
<1>1. /\ Responds(q, rows, step) /\ UNCHANGED sealed /\ request[q].pc = "locked"
  BY PageResponds DEF Serve, Resize, ReplayRosterOp, Holds
<1>2. request[q].at \in Nat
  BY <1>1, Fresh DEF ContractInv
<1>3. ASSUME NEW g \in openGroups PROVE Contract!Drawn(g, Made[g], Listed[g])
  <2>1. drew(g, minted(rows, g), standing(rows, g), rows')
    BY <1>1, <1>2, RespondsDraws
  <2>2. Contract!Drawn(g, minted(rows, g), standing(rows, g))
    BY <2>1, ContractDrawn
  <2>3. QED
    BY <2>2, Mapped
<1>4. tokens(rows') = tokens(rows)
  BY <1>1, <1>2, RespondsDraws
<1>5. size'.value \in Sizes \cup {None}
  BY <1>1 DEF Responds, SizeRec, Answer
<1>6. Contract!Respond
  BY <1>3, <1>4, <1>5 DEF Contract!Respond, Contract!DrawnAsIs, tokens
<1>7. QED
  BY <1>1, <1>6, ResponseGrows DEF Contract!Next

\* An Add and a removal take effect once, within the bounds.
LEMMA RosterOpContract ==
    ASSUME ContractInv, NEW q \in Requests, NEW step \in Steps \cup {{}}, RosterOp(q, step)
    PROVE  Contract!Next
<1> DEFINE rs == rows \cup Effect(q)
<1> PICK g, t : g = Op(q).group /\ t = Op(q).token
  OBVIOUS
<1>1. /\ RosterInv /\ request[q].pc = "locked" /\ Op(q).kind \in {"add", "remove"}
      /\ ~rosterOpApplied(request[q].rows, t) /\ Accepts(q)
  BY DEF ContractInv, RosterOp, Holds
<1>2. /\ request[q].at \in Nat /\ request[q].rows = rows /\ request[q].size = size
  BY <1>1, Fresh
<1>3. /\ Responds(q, rs, step) /\ UNCHANGED <<size, sealed>>
      /\ \A h \in Groups \ {g} : added(rs, h) = added(rows, h)
  BY RosterOpResponds
<1>4. /\ g \in openGroups /\ g \in Groups /\ t \in Tokens /\ t # None /\ t \notin tokens(rows)
  BY <1>1, <1>2, InputAssumption
     DEF RosterInv, Types, OpOK, Op, Accepts, openGroups, rosterOpApplied, tokens
<1> HIDE DEF rs
<1>5. \A h \in openGroups : drew(h, minted(rs, h), standing(rs, h), rows')
  BY <1>2, <1>3, RespondsDraws
<1>6. tokens(rows') = tokens(rs)
  BY <1>2, <1>3, RespondsDraws
<1>7. ASSUME \A h \in Groups \ {g} : standing(rs, h) = standing(rows, h)
      PROVE  Contract!DrawnAsIs(openGroups \ {g})
  <2>1. ASSUME NEW h \in openGroups \ {g} PROVE Contract!Drawn(h, Made[h], Listed[h])
    <3>1. h \in Groups \ {g} /\ h \in openGroups
      BY DEF openGroups
    <3>2. minted(rs, h) = minted(rows, h) /\ standing(rs, h) = standing(rows, h)
      BY <1>3, <1>7, <3>1 DEF minted
    <3>3. Contract!Drawn(h, minted(rows, h), standing(rows, h))
      BY <1>5, <3>1, <3>2, ContractDrawn
    <3>4. QED
      BY <3>1, <3>3, Mapped
  <2>2. QED
    BY <2>1 DEF Contract!DrawnAsIs
<1>8. ASSUME tokens(rs) = tokens(rows) \cup {t} PROVE Contract!Spend(t)
  BY <1>3, <1>4, <1>6, <1>8 DEF Contract!Spend, tokens
<1>9. /\ \A h \in sizedGroups : Contract!Grown(h)
      /\ DOMAIN Made' = openGroups /\ DOMAIN Listed' = openGroups
      /\ DOMAIN Shown' = sizedGroups
  BY <1>1, <1>3, ResponseGrows
<1>10. ASSUME Contract!Add(g, t) \/ Contract!Remove(g, t) PROVE Contract!Next
  BY <1>3, <1>4, <1>9, <1>10 DEF Contract!Next
<1>11. CASE Op(q).kind = "add"
  <2>1. PICK i : /\ i \notin minted(rows, g)
                 /\ minted(rs, g) = minted(rows, g) \cup {i}
                 /\ standing(rs, g) = standing(rows, g) \cup {i}
                 /\ tokens(rs) = tokens(rows) \cup {t}
                 /\ \A h \in Groups \ {g} : standing(rs, h) = standing(rows, h)
    BY <1>11, AddEffect DEF rs
  <2>2. Contract!Cardinality(Listed[g]) < Count[g].max
    <3>1. Cardinality(standing(rows, g)) < Count[g].max
      BY <1>1, <1>2, <1>4, <1>11 DEF Accepts, liveInstances, standing, openGroups
    <3>2. QED
      BY <1>4, <3>1, Mapped, ContractCardinality
  <2>3. Contract!Drawn(g, Made[g] \cup {i}, Listed[g] \cup {i})
    <3>1. drew(g, minted(rows, g) \cup {i}, standing(rows, g) \cup {i}, rows')
      BY <1>4, <1>5, <2>1
    <3>2. Contract!Drawn(g, minted(rows, g) \cup {i}, standing(rows, g) \cup {i})
      BY <1>4, <3>1, ContractDrawn
    <3>3. QED
      BY <1>4, <3>2, Mapped
  <2>4. i \in Made'[g] \ Made[g]
    <3>1. drew(g, minted(rs, g), standing(rs, g), rows')
      BY <1>4, <1>5
    <3>2. i \in minted(rows', g)
      BY <2>1, <3>1 DEF drew
    <3>3. QED
      BY <1>4, <2>1, <3>2, Mapped
  <2>5. Contract!Add(g, t)
    BY <1>7, <1>8, <2>1, <2>2, <2>3, <2>4 DEF Contract!Add
  <2>6. QED
    BY <1>10, <2>5
<1>12. CASE Op(q).kind = "remove"
  <2> DEFINE i == Op(q).instance
  <2>1. /\ i \in minted(rows, g) /\ minted(rs, g) = minted(rows, g)
        /\ standing(rs, g) = standing(rows, g) \ {i}
        /\ tokens(rs) = tokens(rows) \cup {t}
        /\ \A h \in Groups \ {g} : standing(rs, h) = standing(rows, h)
    BY <1>12, RemoveEffect DEF rs
  <2> HIDE DEF i
  <2>2. Contract!Drawn(g, Made[g], Listed[g] \ {i})
    <3>1. drew(g, minted(rows, g), standing(rows, g) \ {i}, rows')
      BY <1>4, <1>5, <2>1
    <3>2. Contract!Drawn(g, minted(rows, g), standing(rows, g) \ {i})
      BY <1>4, <3>1, ContractDrawn
    <3>3. QED
      BY <1>4, <3>2, Mapped
  <2>3. i \in Made[g]
    BY <1>4, <2>1, Mapped
  <2>4. Contract!Remove(g, t)
    BY <1>7, <1>8, <2>1, <2>2, <2>3 DEF Contract!Remove
  <2>5. QED
    BY <1>10, <2>4
<1>13. QED
  BY <1>1, <1>11, <1>12

\* What is live when a submit looks is what the contract shows.
LEMMA LiveShown ==
    ASSUME ContractInv, NEW g \in Groups,
           Cardinality(liveInstances(rows, g, size.value)) \in Count[g].min .. Count[g].max
    PROVE  /\ g \in sizedGroups => Contract!Asked(g, size.value) \in DOMAIN Shown[g]
           /\ Contract!Live(g) = liveInstances(rows, g, size.value)
<1> DEFINE limit == liveInstanceLimit(g, size.value)
<1>1. /\ RowsOK(rows) /\ Whole(rows) /\ Sized(rows, size) /\ size.value \in Answer
  BY DEF ContractInv, RosterInv, Types, SizeRec
<1>2. CASE g \in openGroups
  BY <1>2, Mapped DEF openGroups, sizedGroups, standing, liveInstances, Contract!Live
<1>3. CASE g \in sizedGroups
  <2>1. Count[g].source \in {"fixed", "fromAnswer"} /\ Count[g].source # "open"
    BY <1>3, CountAssumption DEF sizedGroups, openGroups, RepeatCount
  <2>2. presentRows(rows, g) = added(rows, g)
    <3>1. \A s \in rows : s.event = "removed" => s.group # g
      BY <1>1, <2>1 DEF RowsOK
    <3>2. QED
      BY <3>1 DEF presentRows
  <2>3. liveInstances(rows, g, size.value) = First(added(rows, g), limit)
    BY <2>1, <2>2 DEF liveInstances
  <2>4. limit \in Nat
    BY <1>1, LimitBounds
  <2>5. /\ Cardinality(minted(rows, g)) = Cardinality(added(rows, g))
        /\ Cardinality(minted(rows, g)) \in Nat
    BY <1>1, GroupFacts
  <2>6. limit <= Cardinality(added(rows, g))
    <3>1. CASE Count[g].source = "fromAnswer"
      BY <1>1, <2>5, <3>1 DEF Sized
    <3>2. CASE Count[g].source = "fixed"
      <4>1. limit = Count[g].max /\ Count[g].min = Count[g].max /\ Count[g].max >= 1
        BY <3>2, CountAssumption DEF liveInstanceLimit
      <4>2. minted(rows, g) # {}
        <5>1. SUFFICES ASSUME minted(rows, g) = {} PROVE FALSE
          OBVIOUS
        <5>2. added(rows, g) = {}
          BY <5>1 DEF minted
        <5>3. First(added(rows, g), limit) = {}
          BY <5>2 DEF First
        <5>4. Cardinality(liveInstances(rows, g, size.value)) = 0
          BY <2>3, <5>3, FS_EmptySet
        <5>5. Count[g].min \in Nat /\ Count[g].max \in Nat
          BY CountAssumption DEF RepeatCount
        <5>6. QED
          BY <4>1, <5>4, <5>5
      <4>3. QED
        BY <1>1, <2>4, <2>5, <3>2, <4>1, <4>2 DEF Whole
    <3>3. QED
      BY <2>1, <3>1, <3>2
  <2>7. Contract!Asked(g, size.value) = limit
    BY <1>1, <1>3, ContractSizes
  <2> HIDE DEF limit
  <2>8. /\ limit \in DOMAIN reached(rows, g)
        /\ reached(rows, g)[limit] = First(added(rows, g), limit)
    BY <2>4, <2>5, <2>6 DEF reached
  <2>9. Shown[g] = reached(rows, g) /\ g \notin openGroups
    BY <1>3, Mapped DEF sizedGroups
  <2>10. Contract!Live(g) = liveInstances(rows, g, size.value)
    BY <2>3, <2>7, <2>8, <2>9 DEF Contract!Live
  <2>11. QED
    BY <2>7, <2>8, <2>9, <2>10
<1>4. QED
  BY <1>2, <1>3 DEF sizedGroups

\* A submit seals what is live, or answers again with what it sealed.
LEMMA SubmitContract ==
    ASSUME ContractInv, NEW q \in Requests, Submit(q)
    PROVE  Contract!Next \/ UNCHANGED <<rows, size, sealed>>
<1>1. /\ RosterInv /\ request[q].pc = "locked" /\ Op(q).kind = "submit"
  BY DEF ContractInv, Submit, Holds
<1>2. request[q].rows = rows /\ request[q].size = size
  BY <1>1, Fresh
<1>3. UNCHANGED <<rows, size>>
  BY <1>2 DEF Submit, Commit
<1>4. CASE sealed # None
  BY <1>3, <1>4 DEF Submit
<1>5. CASE sealed = None
  <2> DEFINE live == [g \in Groups |-> liveInstances(rows, g, size.value)]
  <2>1. checkRepeatCounts(live) /\ sealed' = [live |-> live, count |-> size.value]
    BY <1>2, <1>5 DEF Submit, Live
  <2>2. \A g \in Groups :
            Cardinality(liveInstances(rows, g, size.value)) \in Count[g].min .. Count[g].max
    BY <2>1 DEF checkRepeatCounts
  <2>3. \A g \in sizedGroups : Contract!Asked(g, size.value) \in DOMAIN Shown[g]
    BY <2>2, LiveShown DEF sizedGroups
  <2>4. \A g \in Groups : Contract!Live(g) = liveInstances(rows, g, size.value)
    BY <2>2, LiveShown
  <2>5. openGroups \cup sizedGroups = Groups
    BY DEF openGroups, sizedGroups
  <2>6. \A g \in openGroups \cup sizedGroups :
            Contract!Cardinality(Contract!Live(g)) \in Count[g].min .. Count[g].max
    BY <2>2, <2>4, <2>5, ContractCardinality
  <2>7. [g \in openGroups \cup sizedGroups |-> Contract!Live(g)] = live
    BY <2>4, <2>5
  <2>8. sealed' = [live |-> [g \in openGroups \cup sizedGroups |-> Contract!Live(g)],
                   count |-> size.value]
    BY <2>1, <2>7
  <2>9. UNCHANGED <<Made, Listed, Shown, size.value, {r.token : r \in rows} \ {None}>>
    BY <1>3 DEF Made, Listed, Shown
  <2>10. Contract!Submit
    BY <1>5, <2>3, <2>6, <2>8, <2>9 DEF Contract!Submit
  <2>11. QED
    BY <2>10 DEF Contract!Next
<1>6. QED
  BY <1>4, <1>5

-----------------------------------------------------------------------------
(* The contract: its invariant, and the theorem.                           *)

LEMMA ContractInvInit == Init => ContractInv /\ Contract!Init
<1> SUFFICES ASSUME Init PROVE ContractInv /\ Contract!Init
  OBVIOUS
<1>1. rows = {} /\ size.value = None /\ sealed = None /\ \A q \in Requests : request[q] = Idle
  BY DEF Init
<1>2. \A g : added({}, g) = {} /\ minted({}, g) = {} /\ standing({}, g) = {}
             /\ First({}, 0) = {}
  BY DEF added, minted, standing, presentRows, First
<1>3. Cardinality({}) = 0
  BY FS_EmptySet
<1>4. RosterInv /\ Whole(rows) /\ RemovesMinted(rows)
  BY <1>1, <1>2, RosterInvInit DEF Whole, RemovesMinted
<1>5. RemovesLater
  BY <1>1 DEF RemovesLater, Active, Idle
<1>6. Made = [g \in openGroups |-> {}] /\ Listed = [g \in openGroups |-> {}]
  BY <1>1, <1>2 DEF Made, Listed, standing
<1>7. Shown = [g \in sizedGroups |-> [n \in 0 .. 0 |-> {}]]
  <2>1. \A n \in 0 .. 0 : First({}, n) = {}
    BY DEF First
  <2>2. QED
    BY <1>1, <1>2, <1>3, <2>1 DEF Shown
<1>8. QED
  BY <1>1, <1>4, <1>5, <1>6, <1>7 DEF ContractInv, Contract!Init

\* What is in flight keeps its stamp and its operation.
LEMMA ContractInvStep == ContractInv /\ [Next]_vars => ContractInv'
<1> SUFFICES ASSUME ContractInv, [Next]_vars PROVE ContractInv'
  OBVIOUS
<1>1. RosterInv'
  BY RosterInvStep DEF ContractInv
<1>2. request \in [Requests -> RequestRec] /\ RowsOK(rows) /\ clock \in Nat
  BY DEF ContractInv, RosterInv, Types
<1>3. ASSUME \A q \in Requests :
                 Active(q)' => /\ Active(q) /\ request'[q].at = request[q].at
                               /\ request'[q].op = request[q].op
      PROVE  RemovesLater'
  BY <1>3 DEF ContractInv, RemovesLater, Op
<1>4. CASE UNCHANGED vars
  BY <1>1, <1>4 DEF vars, ContractInv, RemovesLater, Active, Op
<1>5. ASSUME NEW q \in Requests, Begin(q) PROVE ContractInv'
  <2>1. PICK op \in Ops :
            /\ op.instance = Unknown \/ op.instance \in minted(rows, op.group)
            /\ request' = [request EXCEPT ![q] = [Idle EXCEPT !.pc = "begun", !.op = op,
                                                              !.at = clock + 1]]
    BY <1>5 DEF Begin
  <2>2. rows' = rows
    BY <1>5 DEF Begin
  <2>3. request'[q].at = clock + 1 /\ request'[q].op = op
    BY <1>2, <2>1 DEF Idle
  <2>4. op.instance[1] < clock + 1
    <3>1. CASE op.instance = Unknown
      BY <1>2, <3>1 DEF Unknown
    <3>2. CASE op.instance \in minted(rows, op.group)
      <4>1. PICK r \in rows : r.event = "added" /\ r.instance = op.instance
        BY <3>2 DEF minted, added
      <4>2. r.instance[1] = r.at /\ r.at \in Nat /\ r.at <= clock
        BY <1>2, <4>1 DEF RowsOK, Row, ContractInv, RosterInv, Stamps
      <4>3. QED
        BY <1>2, <4>1, <4>2
    <3>3. QED
      BY <2>1, <3>1, <3>2
  <2>5. \A p \in Requests : p # q => request'[p] = request[p]
    BY <1>2, <2>1
  <2>6. RemovesLater'
    <3> SUFFICES ASSUME NEW p \in Requests, Active(p)', request'[p].op.kind = "remove"
                 PROVE  request'[p].op.instance[1] < request'[p].at
      BY DEF RemovesLater, Op
    <3>1. CASE p = q
      BY <2>3, <2>4, <3>1
    <3>2. CASE p # q
      BY <2>5, <3>2 DEF ContractInv, RemovesLater, Active, Op
    <3>3. QED
      BY <3>1, <3>2
  <2>7. QED
    BY <1>1, <2>2, <2>6 DEF ContractInv
<1>6. ASSUME NEW q \in Requests, Lock(q) \/ Abort(q) PROVE ContractInv'
  <2>1. rows' = rows
    BY <1>6 DEF Lock, Abort
  <2>2. \A p \in Requests :
            Active(p)' => /\ Active(p) /\ request'[p].at = request[p].at
                          /\ request'[p].op = request[p].op
    <3>1. CASE Lock(q)
      BY <1>2, <3>1 DEF Lock, Active, RequestRec
    <3>2. CASE Abort(q)
      BY <1>2, <3>2 DEF Abort, Active, Idle
    <3>3. QED
      BY <1>6, <3>1, <3>2
  <2>3. QED
    BY <1>1, <1>3, <2>1, <2>2 DEF ContractInv
<1>7. ASSUME NEW q \in Requests, NEW rs, NEW sz, Commit(q, rs, sz),
             Whole(rows') /\ RemovesMinted(rows')
      PROVE  ContractInv'
  <2>1. \A p \in Requests :
            Active(p)' => /\ Active(p) /\ request'[p].at = request[p].at
                          /\ request'[p].op = request[p].op
    BY <1>2, <1>7 DEF Commit, Active, RequestRec, Idle, Op
  <2>2. QED
    BY <1>1, <1>3, <1>7, <2>1 DEF ContractInv
<1>8. ASSUME NEW q \in Requests, NEW step \in Steps \cup {{}},
             Serve(q, step) \/ Resize(q, step) \/ ReplayRosterOp(q, step) \/ RosterOp(q, step)
      PROVE  ContractInv'
  <2>1. request[q].pc = "locked" /\ \E rs : Responds(q, rs, step)
    BY <1>8, PageResponds, RosterOpResponds DEF Serve, Resize, ReplayRosterOp, RosterOp, Holds
  <2>2. request[q].at \in Nat /\ RosterInv /\ Whole(rows)
    BY <2>1, Fresh DEF ContractInv
  <2>3. Whole(rows') /\ RemovesMinted(rows')
    BY <2>1, <2>2, RespondsKeeps
  <2>4. \E rs, sz : Commit(q, rs, sz)
    BY <1>8, <2>2, CommitStep
  <2>5. QED
    BY <1>7, <2>3, <2>4
<1>9. ASSUME NEW q \in Requests, Submit(q) PROVE ContractInv'
  <2>1. Commit(q, request[q].rows, size) /\ rows' = rows
    BY <1>9 DEF Submit, Commit
  <2>2. QED
    BY <1>7, <2>1 DEF ContractInv
<1>10. QED
  BY <1>4, <1>5, <1>6, <1>8, <1>9 DEF Next

\* The transactions of a session, however they race for its lock and whatever
\* of them is late, replayed or rolled back, are the acts of the contract one
\* after another: each commit is one of them, and nothing else changes a roster.
THEOREM RosterImplementsContract == Spec => ImplementsRoster
<1>1. ASSUME ContractInv, [Next]_vars PROVE [Contract!Next]_Contract!vars
  <2>1. UNCHANGED <<rows, size, sealed>> => UNCHANGED Contract!vars
    BY DEF Contract!vars, Made, Listed, Shown
  <2>2. CASE UNCHANGED vars
    BY <2>1, <2>2 DEF vars
  <2>3. ASSUME NEW q \in Requests, Begin(q) \/ Lock(q) \/ Abort(q)
        PROVE  [Contract!Next]_Contract!vars
    BY <2>1, <2>3 DEF Begin, Lock, Abort
  <2>4. ASSUME NEW q \in Requests, NEW step \in Steps \cup {{}},
               Serve(q, step) \/ Resize(q, step) \/ ReplayRosterOp(q, step) \/ RosterOp(q, step)
        PROVE  [Contract!Next]_Contract!vars
    BY <1>1, <2>4, PageContract, RosterOpContract
  <2>5. ASSUME NEW q \in Requests, Submit(q) PROVE [Contract!Next]_Contract!vars
    BY <1>1, <2>1, <2>5, SubmitContract
  <2>6. QED
    BY <1>1, <2>2, <2>3, <2>4, <2>5 DEF Next
<1>2. ContractInv /\ [Next]_vars => [Contract!Next]_Contract!vars
  BY <1>1
<1>3. Spec => []ContractInv
  BY ContractInvInit, ContractInvStep, PTL DEF Spec
<1>4. QED
  BY <1>2, <1>3, ContractInvInit, PTL DEF Spec, ImplementsRoster, Contract!Spec
=============================================================================
