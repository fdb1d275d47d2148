------------------------------ MODULE FiniteFacts ------------------------------
(* Facts that the proofs of several components cite: what SQLite and the      *)
(* server hold at a time is finite, so that there is a largest id, and adding *)
(* a message or a row keeps it so; a finite set of numbers can be put in      *)
(* order; what is computed step by step along a sequence exists.              *)
EXTENDS Naturals, FiniteSets, Sequences, FiniteSetTheorems, WellFoundedInduction, TLAPS

\* A finite set of numbers has a largest.
LEMMA MaxExists ==
  ASSUME NEW S, S \subseteq Nat, IsFiniteSet(S), S # {}
  PROVE  \E m \in S : \A n \in S : n <= m
<1> DEFINE Bad == {T \in FiniteSubsetsOf(S) : T # {} /\ ~ \E m \in T : \A n \in T : n <= m}
<1> SUFFICES ASSUME Bad # {} PROVE FALSE
  BY FS_FiniteSubsetsOfFinite
<1>1. PICK T \in Bad : \A U \in Bad : <<U, T>> \notin StrictSubsetOrdering(S)
  <2>1. Bad \subseteq FiniteSubsetsOf(S)
    OBVIOUS
  <2> HIDE DEF Bad
  <2> QED
    BY <2>1, FS_StrictSubsetOrderingWellFounded, WFMin
<1>2. PICK x \in T : TRUE
  OBVIOUS
<1> DEFINE U == T \ {x}
<1>3. U \in FiniteSubsetsOf(S) /\ <<U, T>> \in StrictSubsetOrdering(S)
  BY <1>1, <1>2, FS_RemoveElement DEF FiniteSubsetsOf, StrictSubsetOrdering
<1>4. T \subseteq Nat
  BY <1>1 DEF FiniteSubsetsOf
<1>5. CASE U = {}
  BY <1>1, <1>2, <1>4, <1>5
<1>6. CASE U # {}
  <2>1. PICK m \in U : \A n \in U : n <= m
    BY <1>1, <1>3, <1>6
  <2>2. \/ m <= x /\ \A n \in T : n <= x
        \/ \A n \in T : n <= m
    BY <1>2, <1>4, <2>1
  <2> QED
    BY <1>1, <1>2, <2>1, <2>2
<1> QED
  BY <1>5, <1>6

\* A set of numbers has a least.
LEMMA LeastExists ==
  ASSUME NEW S, S \subseteq Nat, S # {}
  PROVE  \E k \in S : \A l \in S : k <= l
<1>1. PICK k \in S : \A l \in S : <<l, k>> \notin OpToRel(<, Nat)
  BY NatLessThanWellFounded, WFMin
<1>2. ASSUME NEW l \in S PROVE k <= l
  <2>1. k \in Nat /\ l \in Nat
    OBVIOUS
  <2>2. ~ l < k
    BY <1>1, <2>1 DEF OpToRel
  <2> QED
    BY <2>1, <2>2
<1> QED
  BY <1>2

\* The values of a field over a finite set of records, or of any function, are finite.
LEMMA ImageFinite ==
  ASSUME NEW S, IsFiniteSet(S), NEW f, DOMAIN f = S
  PROVE  IsFiniteSet({f[x] : x \in S})
<1> DEFINE T == {f[x] : x \in S}
           g == [x \in S |-> f[x]]
<1>1. g \in Surjection(S, T)
  BY DEF Surjection
<1> QED
  BY <1>1, FS_Surjection

\* Counting what is not above u tells the members of a finite set apart, in order.
LEMMA RanksDiffer ==
  ASSUME NEW S, S \subseteq Nat, IsFiniteSet(S), NEW u \in S, NEW v \in S, u < v
  PROVE  /\ Cardinality({x \in S : x <= u}) \in Nat \ {0}
         /\ Cardinality({x \in S : x <= v}) \in Nat \ {0}
         /\ Cardinality({x \in S : x <= u}) < Cardinality({x \in S : x <= v})
<1> DEFINE A == {x \in S : x <= u}
           B == {x \in S : x <= v}
<1>1. IsFiniteSet(A) /\ IsFiniteSet(B)
  BY FS_Subset
<1>2. Cardinality(A) \in Nat /\ Cardinality(B) \in Nat
  BY <1>1, FS_CardinalityType
<1>3. A \subseteq B /\ v \in B /\ v \notin A /\ u \in A
  <2>1. u \in Nat /\ v \in Nat
    OBVIOUS
  <2>2. \A x \in S : x <= u => x <= v
    BY <2>1
  <2>3. u <= u /\ v <= v /\ ~ v <= u
    BY <2>1
  <2> QED
    BY <2>2, <2>3
<1>4. Cardinality(A) # 0 /\ Cardinality(B) # 0
  BY <1>1, <1>3, FS_EmptySet
<1> HIDE DEF A, B
<1>5. Cardinality(A) <= Cardinality(B) /\ Cardinality(A) # Cardinality(B)
  BY <1>1, <1>3, FS_Subset
<1> QED
  BY <1>2, <1>4, <1>5 DEF A, B

\* Induction up to a number, for a set.
LEMMA UpTo ==
  ASSUME NEW n \in Nat, NEW S, 0 \in S, \A i \in 1..n : i - 1 \in S => i \in S
  PROVE  \A i \in 0..n : i \in S
<1> DEFINE P == {k \in 0..n : \A i \in 0..k : i \in S}
<1>1. P \subseteq 0..n /\ 0 \in P
  OBVIOUS
<1>2. PICK k \in P : \A m \in P : m <= k
  <2> HIDE DEF P
  <2>1. IsFiniteSet(0..n)
    BY FS_Interval
  <2>2. IsFiniteSet(P)
    BY <1>1, <2>1, FS_Subset
  <2>3. P \subseteq Nat /\ P # {}
    BY <1>1
  <2> QED
    BY <2>2, <2>3, MaxExists
<1>3. k \in 0..n /\ \A i \in 0..k : i \in S
  BY <1>2
<1>4. ASSUME k # n PROVE FALSE
  <2>1. k + 1 \in 1..n /\ (k + 1) - 1 = k /\ k \in 0..k
    BY <1>3, <1>4
  <2>2. k + 1 \in S
    BY <1>3, <2>1
  <2>3. \A i \in 0..(k + 1) : i \in 0..k \/ i = k + 1
    BY <1>3
  <2>4. k + 1 \in P
    BY <1>3, <2>1, <2>2, <2>3
  <2> HIDE DEF P
  <2>5. k + 1 <= k
    BY <1>2, <2>4
  <2> QED
    BY <1>3, <2>5
<1> QED
  BY <1>3, <1>4

\* A recursion over 0..n within a set of values has a solution.
Solvable(n, S, base, step) ==
    base \in S /\ (\A i \in 1..n, t \in S : step[i][t] \in S) =>
        \E h \in [0..n -> S] : h[0] = base /\ \A i \in 1..n : h[i] = step[i][h[i - 1]]

LEMMA Recursion ==
  ASSUME NEW n \in Nat, NEW S, NEW base, NEW step
  PROVE  Solvable(n, S, base, step)
<1> SUFFICES ASSUME base \in S, \A i \in 1..n, t \in S : step[i][t] \in S
             PROVE  \E h \in [0..n -> S] : h[0] = base /\ \A i \in 1..n : h[i] = step[i][h[i - 1]]
  BY DEF Solvable
<1> DEFINE Solves(h, k) == /\ h = [i \in 0..k |-> IF i = 0 THEN base ELSE step[i][h[i - 1]]]
                           /\ \A i \in 0..k : h[i] \in S
           Good == {k \in 0..n : \E h : Solves(h, k)}
<1>1. 0 \in Good
  <2> DEFINE h == [i \in 0..0 |-> base]
  <2>1. h = [i \in 0..0 |-> IF i = 0 THEN base ELSE step[i][h[i - 1]]]
    OBVIOUS
  <2>2. \A i \in 0..0 : h[i] \in S
    OBVIOUS
  <2>3. Solves(h, 0)
    BY <2>1, <2>2
  <2> HIDE DEF Solves, h
  <2>4. QED
    BY <2>3
<1>2. ASSUME NEW i \in 1..n, i - 1 \in Good
      PROVE  i \in Good
  <2> DEFINE k == i - 1
  <2>1. PICK h : Solves(h, k)
    BY <1>2
  <2>2. k \in 0..n /\ k \in Nat /\ k + 1 \in 1..n /\ i = k + 1
    BY <1>2
  <2> HIDE DEF k
  <2>3. h = [j \in 0..k |-> IF j = 0 THEN base ELSE step[j][h[j - 1]]]
    BY <2>1
  <2>4. \A j \in 0..k : h[j] = IF j = 0 THEN base ELSE step[j][h[j - 1]]
    BY <2>3
  <2>5. \A j \in 0..k : h[j] \in S
    BY <2>1
  <2> DEFINE g == [j \in 0..(k + 1) |-> IF j = k + 1 THEN step[j][h[k]] ELSE h[j]]
  <2>6. \A j \in 0..k : g[j] = h[j]
    BY <2>2
  <2>7. g[k + 1] = step[k + 1][g[k]] /\ g[k + 1] \in S
    <3>1. g[k + 1] = step[k + 1][h[k]]
      BY <2>2
    <3>2. step[k + 1][h[k]] \in S
      BY <2>2, <2>5
    <3>3. g[k] = h[k]
      BY <2>2, <2>6
    <3> HIDE DEF g
    <3>4. QED
      BY <3>1, <3>2, <3>3
  <2>8. DOMAIN g = 0..(k + 1) /\ g = [j \in 0..(k + 1) |-> g[j]]
    OBVIOUS
  <2> HIDE DEF g
  <2>9. \A j \in 0..(k + 1) : g[j] = IF j = 0 THEN base ELSE step[j][g[j - 1]]
    <3>1. ASSUME NEW j \in 0..k
          PROVE  g[j] = IF j = 0 THEN base ELSE step[j][g[j - 1]]
      <4>1. j # 0 => j - 1 \in 0..k
        BY <2>2
      <4>2. QED
        BY <2>4, <2>6, <4>1
    <3>2. \A j \in 0..(k + 1) : j \in 0..k \/ (j = k + 1 /\ j # 0 /\ j - 1 = k)
      BY <2>2
    <3>3. QED
      BY <2>7, <3>1, <3>2
  <2>10. g = [j \in 0..(k + 1) |-> IF j = 0 THEN base ELSE step[j][g[j - 1]]]
    BY <2>8, <2>9
  <2>11. \A j \in 0..(k + 1) : g[j] \in S
    BY <2>2, <2>5, <2>6, <2>7
  <2>12. Solves(g, k + 1)
    BY <2>10, <2>11
  <2> HIDE DEF Solves
  <2>13. QED
    BY <2>2, <2>12
<1>3. Good \subseteq 0..n
  OBVIOUS
<1> HIDE DEF Good
<1>4. n \in Good
  BY <1>1, <1>2, <1>3, UpTo
<1>5. PICK h : Solves(h, n)
  BY <1>4 DEF Good
<1>6. /\ h = [i \in 0..n |-> IF i = 0 THEN base ELSE step[i][h[i - 1]]]
      /\ \A i \in 0..n : h[i] \in S
  BY <1>5
<1>7. \A i \in 0..n : h[i] = IF i = 0 THEN base ELSE step[i][h[i - 1]]
  BY <1>6
<1>8. h[0] = base /\ \A i \in 1..n : h[i] = step[i][h[i - 1]]
  <2>1. 0 \in 0..n /\ \A i \in 1..n : i \in 0..n /\ i # 0
    OBVIOUS
  <2>2. QED
    BY <1>7, <2>1
<1>9. h \in [0..n -> S]
  BY <1>6
<1>10. QED
  BY <1>8, <1>9

Increases(s, n) == \A i, j \in 1..n : i < j => s[i] < s[j]

\* A finite set of numbers can be put in order: each has its rank.
LEMMA Sortable ==
  ASSUME NEW S, S \subseteq Nat, IsFiniteSet(S)
  PROVE  Cardinality(S) \in Nat /\ \E s \in [1..Cardinality(S) -> S] : Increases(s, Cardinality(S))
<1> DEFINE n == Cardinality(S)
           below(x) == {y \in S : y <= x}
           r == [x \in S |-> Cardinality(below(x))]
<1>1. n \in Nat /\ IsFiniteSet(1..n) /\ Cardinality(1..n) = n
  <2>1. n \in Nat
    BY FS_CardinalityType
  <2>2. IsFiniteSet(1..n) /\ ExistsBijection(1..n, S)
    BY <2>1, FS_Interval, FS_CardinalityType
  <2>3. Cardinality(1..n) = n
    BY <2>2, FS_Bijection
  <2>4. QED
    BY <2>1, <2>2, <2>3
<1>2. \A x \in S : r[x] \in 1..n
  <2>1. SUFFICES ASSUME NEW x \in S PROVE Cardinality(below(x)) \in 1..n
    OBVIOUS
  <2>2. below(x) \subseteq S /\ x \in below(x)
    OBVIOUS
  <2> HIDE DEF below
  <2>3. IsFiniteSet(below(x)) /\ Cardinality(below(x)) <= n
    BY <2>2, FS_Subset
  <2>4. Cardinality(below(x)) \in Nat /\ Cardinality(below(x)) # 0
    BY <2>2, <2>3, FS_CardinalityType, FS_EmptySet
  <2> HIDE DEF n
  <2>5. QED
    BY <1>1, <2>3, <2>4
<1>3. \A x, y \in S : x < y => r[x] < r[y]
  <2>1. SUFFICES ASSUME NEW x \in S, NEW y \in S, x < y
                 PROVE  Cardinality(below(x)) < Cardinality(below(y))
    OBVIOUS
  <2>2. QED
    BY <2>1, RanksDiffer
<1>4. r \in [S -> 1..n]
  BY <1>2
<1> HIDE DEF r, below
<1>5. \A x, y \in S : r[x] = r[y] => x = y
  <2>1. SUFFICES ASSUME NEW x \in S, NEW y \in S, r[x] = r[y], x # y PROVE FALSE
    OBVIOUS
  <2>2. x \in Nat /\ y \in Nat /\ r[x] \in Nat
    BY <1>2
  <2>3. x < y \/ y < x
    BY <2>1, <2>2
  <2>4. QED
    BY <1>3, <2>1, <2>2, <2>3
<1>6. \A i \in 1..n : \E x \in S : r[x] = i
  <2>1. r \in Injection(S, 1..n)
    BY <1>4, <1>5 DEF Injection, IsInjective
  <2>2. r \in Surjection(S, 1..n)
    BY <1>1, <2>1, FS_Injection
  <2>3. QED
    BY <2>2 DEF Surjection
<1> DEFINE s == [i \in 1..n |-> CHOOSE x \in S : r[x] = i]
<1>7. s \in [1..n -> S] /\ \A i \in 1..n : r[s[i]] = i
  BY <1>6
<1> HIDE DEF s, n
<1>8. Increases(s, n)
  <2>1. SUFFICES ASSUME NEW i \in 1..n, NEW j \in 1..n, i < j PROVE s[i] < s[j]
    BY DEF Increases
  <2>2. s[i] \in S /\ s[j] \in S /\ r[s[i]] = i /\ r[s[j]] = j
    BY <1>7
  <2>3. s[i] \in Nat /\ s[j] \in Nat
    BY <2>2
  <2>4. ASSUME s[j] < s[i] PROVE FALSE
    <3>1. r[s[j]] < r[s[i]]
      BY <1>3, <2>2, <2>4
    <3>2. j < i
      BY <2>2, <3>1
    <3>3. QED
      BY <1>1, <2>1, <3>2
  <2>5. s[i] # s[j]
    BY <1>1, <2>1, <2>2
  <2>6. QED
    BY <2>3, <2>4, <2>5
<1>9. QED
  BY <1>1, <1>7, <1>8 DEF n

\* A function from 1..n to a set of n that tells numbers apart reaches all of it.
LEMMA Reaches ==
  ASSUME NEW S, IsFiniteSet(S), NEW s \in [1..Cardinality(S) -> S],
         \A i, j \in 1..Cardinality(S) : i < j => s[i] # s[j]
  PROVE  /\ s \in Seq(S) /\ Len(s) = Cardinality(S) /\ DOMAIN s = 1..Len(s)
         /\ \A x \in S : \E i \in 1..Len(s) : s[i] = x
<1> DEFINE n == Cardinality(S)
<1>1. n \in Nat /\ IsFiniteSet(1..n) /\ Cardinality(1..n) = n
  <2>1. n \in Nat
    BY FS_CardinalityType
  <2>2. IsFiniteSet(1..n) /\ ExistsBijection(1..n, S)
    BY <2>1, FS_Interval, FS_CardinalityType
  <2>3. Cardinality(1..n) = n
    BY <2>2, FS_Bijection
  <2>4. QED
    BY <2>1, <2>2, <2>3
<1>2. \A i, j \in 1..n : s[i] = s[j] => i = j
  <2>1. \A i, j \in 1..n : i < j \/ j < i \/ i = j
    BY <1>1
  <2>2. QED
    BY <2>1
<1> HIDE DEF n
<1>3. s \in [1..n -> S]
  BY DEF n
<1>4. s \in Injection(1..n, S)
  BY <1>2, <1>3 DEF Injection, IsInjective
<1>5. s \in Surjection(1..n, S)
  BY <1>1, <1>4, FS_Injection DEF n
<1>6. \A x \in S : \E i \in 1..n : s[i] = x
  BY <1>5 DEF Surjection
<1>7. s \in Seq(S) /\ Len(s) = n /\ DOMAIN s = 1..n
  BY <1>1, <1>3
<1>8. QED
  BY <1>6, <1>7 DEF n
=============================================================================
