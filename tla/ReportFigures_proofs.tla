------------------------ MODULE ReportFigures_proofs ------------------------
(* The figures of a report agree, for any number of trials, branches and   *)
(* bugs, any cadence, time limit and length of a campaign.                 *)
EXTENDS ReportFigures, FiniteSetTheorems, SequenceTheorems,
  WellFoundedInduction, TLAPS

-----------------------------------------------------------------------------
(* Sets of numbers *)

LEMMA MinOfNats ==
  ASSUME NEW S \in SUBSET Nat, S # {}
  PROVE  Min(S) \in S /\ \A x \in S : Min(S) <= x
<1>1. PICK n \in S : \A m \in S : ~ (<<m, n>> \in OpToRel(<, Nat))
  BY WFMin, NatLessThanWellFounded, Zenon
<1>2. \A m \in S : ~ (m < n) BY <1>1 DEF OpToRel
<1>3. \A m \in S : n <= m BY <1>2
<1> QED BY <1>3 DEF Min

UpTo(S, i) == {y \in S : y <= i}

LEMMA UpToFinite ==
  ASSUME NEW S \in SUBSET Nat, IsFiniteSet(S), NEW i
  PROVE  /\ IsFiniteSet(UpTo(S, i)) /\ Cardinality(UpTo(S, i)) \in Nat
         /\ Cardinality(UpTo(S, i)) <= Cardinality(S)
<1>1. UpTo(S, i) \in SUBSET S BY DEF UpTo
<1> QED BY <1>1, FS_Subset, FS_CardinalityType

\* The next element above an initial part of a set has the next rank.
LEMMA NextRank ==
  ASSUME NEW S \in SUBSET Nat, IsFiniteSet(S), NEW B \in SUBSET S,
         \A x \in B, y \in S \ B : x < y, B # S
  PROVE  \E i \in S : Cardinality(UpTo(S, i)) = Cardinality(B) + 1
<1> DEFINE Above == S \ B
<1>1. Above \in SUBSET Nat /\ Above # {} OBVIOUS
<1>2. PICK i \in Above : \A j \in Above : i <= j
  <2> HIDE DEF Above
  <2> QED BY <1>1, MinOfNats
<1>3. UpTo(S, i) = B \cup {i}
  <2>1. ASSUME NEW j \in S PROVE j <= i <=> j \in B \cup {i}
    <3>1. CASE j \in B
      <4>1. j < i BY <3>1
      <4> QED BY <3>1, <4>1
    <3>2. CASE j \notin B
      <4>1. i <= j BY <1>2, <3>2
      <4> QED BY <3>2, <4>1, <1>1
    <3> QED BY <3>1, <3>2
  <2> QED BY <2>1 DEF UpTo
<1>4. IsFiniteSet(B) BY FS_Subset
<1>5. Cardinality(B \cup {i}) = Cardinality(B) + 1 BY <1>4, FS_AddElement
<1> QED BY <1>3, <1>5

\* Every rank is the rank of some element.
LEMMA RankExists ==
  ASSUME NEW S \in SUBSET Nat, IsFiniteSet(S), NEW n \in 1..Cardinality(S)
  PROVE  \E i \in S : Cardinality(UpTo(S, i)) = n
<1>0. Cardinality(S) \in Nat BY FS_CardinalityType
<1> DEFINE Bad == {k \in 1..Cardinality(S) : ~ \E i \in S : Cardinality(UpTo(S, i)) = k}
<1>1. SUFFICES ASSUME Bad # {} PROVE FALSE BY <1>1
<1>2. Bad \subseteq Nat OBVIOUS
<1>3. PICK k \in Bad : \A l \in Bad : k <= l
  <2> HIDE DEF Bad
  <2> QED BY <1>1, <1>2, MinOfNats
<1>4. k \in 1..Cardinality(S) /\ ~ \E i \in S : Cardinality(UpTo(S, i)) = k BY <1>3
<1>5. CASE k = 1
  <2>1. Cardinality({}) = 0 BY FS_EmptySet
  <2>2. S # {} BY <1>4, <1>5, <2>1
  <2>3. \E i \in S : Cardinality(UpTo(S, i)) = Cardinality({}) + 1 BY <2>2, NextRank
  <2> QED BY <1>4, <1>5, <2>1, <2>3
<1>6. CASE k # 1
  <2>1. k - 1 \in 1..Cardinality(S) /\ k - 1 \notin Bad BY <1>0, <1>3, <1>4, <1>6
  <2>2. PICK i \in S : Cardinality(UpTo(S, i)) = k - 1 BY <2>1
  <2> DEFINE B == UpTo(S, i)
  <2>3. B \in SUBSET S /\ \A x \in B, y \in S \ B : x < y BY DEF UpTo
  <2>4. B # S BY <1>0, <1>4, <2>2
  <2>5. Cardinality(B) + 1 = k BY <1>4, <2>2
  <2> HIDE DEF B
  <2> QED BY <1>4, <2>3, <2>4, <2>5, NextRank
<1> QED BY <1>5, <1>6

LEMMA MaxOfFinite ==
  ASSUME NEW S \in SUBSET Nat, IsFiniteSet(S), S # {}
  PROVE  Max(S) \in S /\ \A x \in S : x <= Max(S)
<1>1. Cardinality(S) \in Nat /\ Cardinality(S) # 0 BY FS_CardinalityType, FS_EmptySet
<1>2. PICK i \in S : Cardinality(UpTo(S, i)) = Cardinality(S) BY <1>1, RankExists
<1>3. UpTo(S, i) = S
  <2>1. UpTo(S, i) \in SUBSET S BY DEF UpTo
  <2> QED BY <1>2, <2>1, FS_Subset
<1>4. \A x \in S : i >= x BY <1>3 DEF UpTo
<1>5. Max(S) \in S /\ \A x \in S : Max(S) >= x BY <1>4 DEF Max
<1> QED BY <1>5

LEMMA MaxOfIndices ==
  ASSUME NEW m \in Nat, NEW S \in SUBSET (1..m), S # {}
  PROVE  Max(S) \in S /\ \A x \in S : x <= Max(S)
<1>1. IsFiniteSet(1..m) BY FS_Interval
<1>2. IsFiniteSet(S) BY <1>1, FS_Subset
<1>3. S \in SUBSET Nat OBVIOUS
<1> QED BY <1>2, <1>3, MaxOfFinite

\* The greatest number of a set is what it is.
LEMMA MaxIs ==
  ASSUME NEW S \in SUBSET Nat, NEW m \in S, \A x \in S : x <= m
  PROVE  Max(S) = m
<1>1. \A x \in S : m >= x OBVIOUS
<1>2. Max(S) \in S /\ \A x \in S : Max(S) >= x BY <1>1 DEF Max
<1>3. Max(S) \in Nat /\ m \in Nat BY <1>2
<1> QED BY <1>2, <1>3

LEMMA MinIs ==
  ASSUME NEW S \in SUBSET Nat, NEW m \in S, \A x \in S : m <= x
  PROVE  Min(S) = m
<1>1. Min(S) \in S /\ \A x \in S : Min(S) <= x BY MinOfNats
<1>2. Min(S) \in Nat /\ m \in Nat BY <1>1
<1> QED BY <1>1, <1>2

\* A set in its order: every element once.
LEMMA AscendingLists ==
  ASSUME NEW S \in SUBSET Nat, IsFiniteSet(S)
  PROVE  /\ Cardinality(S) \in Nat
         /\ Ascending(S) \in [1..Cardinality(S) -> S] /\ Ascending(S) \in Seq(S)
         /\ Len(Ascending(S)) = Cardinality(S)
         /\ \A i, j \in 1..Cardinality(S) : i < j => Ascending(S)[i] < Ascending(S)[j]
         /\ \A x \in S : \E i \in 1..Cardinality(S) : Ascending(S)[i] = x
<1> DEFINE c == Cardinality(S)
           a == Ascending(S)
           at(n) == CHOOSE x \in S : Cardinality({y \in S : y <= x}) = n
<1>1. c \in Nat BY FS_CardinalityType
<1>2. a = [n \in 1..c |-> at(n)] BY DEF Ascending
<1>3. ASSUME NEW n \in 1..c PROVE at(n) \in S /\ Cardinality(UpTo(S, at(n))) = n
  <2>1. \E x \in S : Cardinality(UpTo(S, x)) = n BY RankExists
  <2> QED BY <2>1 DEF UpTo
<1> HIDE DEF at, c, a
<1>4. a \in [1..c -> S] BY <1>2, <1>3
<1>5. a \in Seq(S) BY <1>1, <1>4, SeqDef
<1>6. Len(a) = c
  <2>1. DOMAIN a = 1..Len(a) /\ Len(a) \in Nat BY <1>5, LenProperties
  <2>2. DOMAIN a = 1..c BY <1>4
  <2>3. 1..Len(a) = 1..c /\ Len(a) \in Nat BY <2>1, <2>2
  <2> QED BY <1>1, <2>3
<1>7. \A n \in 1..c : a[n] \in S /\ Cardinality(UpTo(S, a[n])) = n BY <1>2, <1>3
<1>8. ASSUME NEW x \in S, NEW y \in S, x <= y
      PROVE  Cardinality(UpTo(S, x)) <= Cardinality(UpTo(S, y))
  <2>1. UpTo(S, x) \in SUBSET UpTo(S, y)
    <3>1. \A z \in S : z \in Nat /\ (z <= x => z <= y) BY <1>8
    <3> QED BY <3>1 DEF UpTo
  <2>2. IsFiniteSet(UpTo(S, y)) BY UpToFinite
  <2> QED BY <2>1, <2>2, FS_Subset
<1>9. ASSUME NEW i \in 1..c, NEW j \in 1..c, i < j PROVE a[i] < a[j]
  <2>1. a[i] \in Nat /\ a[j] \in Nat BY <1>7
  <2>2. a[j] <= a[i] => j <= i BY <1>7, <1>8
  <2> QED BY <1>1, <1>9, <2>1, <2>2
<1>10. ASSUME NEW x \in S PROVE \E i \in 1..c : a[i] = x
  <2> DEFINE n == Cardinality(UpTo(S, x))
  <2>1. n \in Nat /\ n <= c BY UpToFinite DEF c
  <2>2. n # 0
    <3>1. x \in UpTo(S, x) BY DEF UpTo
    <3> QED BY <3>1, UpToFinite, FS_EmptySet
  <2>3. n \in 1..c BY <1>1, <2>1, <2>2
  <2>4. a[n] \in S /\ Cardinality(UpTo(S, a[n])) = Cardinality(UpTo(S, x)) BY <1>7, <2>3
  <2>5. a[n] = x
    <3>1. ASSUME NEW y \in S, NEW z \in S, y < z
          PROVE  Cardinality(UpTo(S, y)) < Cardinality(UpTo(S, z))
      <4>1. UpTo(S, y) \cup {z} \in SUBSET UpTo(S, z)
        <5>1. \A v \in S : v \in Nat /\ (v <= y \/ v = z => v <= z) BY <3>1
        <5> QED BY <5>1 DEF UpTo
      <4>2. z \notin UpTo(S, y)
        <5>1. y \in Nat /\ z \in Nat OBVIOUS
        <5> QED BY <3>1, <5>1 DEF UpTo
      <4>3. Cardinality(UpTo(S, y) \cup {z}) = Cardinality(UpTo(S, y)) + 1
        BY <4>2, UpToFinite, FS_AddElement
      <4>4. Cardinality(UpTo(S, y) \cup {z}) <= Cardinality(UpTo(S, z))
        BY <4>1, UpToFinite, FS_Subset
      <4> QED BY <4>3, <4>4, UpToFinite
    <3>2. Cardinality(UpTo(S, x)) \in Nat BY UpToFinite
    <3> HIDE DEF n
    <3>6. ASSUME NEW y \in S, Cardinality(UpTo(S, y)) = Cardinality(UpTo(S, x)) PROVE ~ (y < x) /\ ~ (x < y)
      BY <3>1, <3>2, <3>6
    <3>3. ~ (a[n] < x) /\ ~ (x < a[n]) BY <2>4, <3>6
    <3>4. a[n] \in Nat /\ x \in Nat BY <2>4
    <3> QED BY <3>3, <3>4
  <2> QED BY <2>3, <2>5
<1> QED BY <1>1, <1>4, <1>5, <1>6, <1>9, <1>10 DEF a, c


-----------------------------------------------------------------------------
(* Sums *)

Units(f) == UNION {{x} \X (1..f[x]) : x \in DOMAIN f}

LEMMA UnitsFinite ==
  ASSUME NEW f, IsFiniteSet(DOMAIN f), \A x \in DOMAIN f : f[x] \in Nat
  PROVE  IsFiniteSet(Units(f)) /\ Total(f) = Cardinality(Units(f)) /\ Total(f) \in Nat
<1> DEFINE Parts == {{x} \X (1..f[x]) : x \in DOMAIN f}
<1>1. IsFiniteSet(Parts)
  <2> DEFINE part(x) == {x} \X (1..f[x])
             g == [x \in DOMAIN f |-> part(x)]
  <2>1. g \in Surjection(DOMAIN f, Parts)
    <3>1. g \in [DOMAIN f -> Parts] OBVIOUS
    <3>2. \A p \in Parts : \E x \in DOMAIN f : g[x] = p OBVIOUS
    <3> HIDE DEF g, Parts
    <3> QED BY <3>1, <3>2 DEF Surjection
  <2> HIDE DEF g, Parts
  <2> QED BY <2>1, FS_Surjection
<1>2. ASSUME NEW p \in Parts PROVE IsFiniteSet(p)
  <2>1. PICK x \in DOMAIN f : p = {x} \X (1..f[x]) OBVIOUS
  <2>2. IsFiniteSet({x}) BY FS_Singleton
  <2>3. f[x] \in Int /\ 1 \in Int OBVIOUS
  <2>4. IsFiniteSet(1..f[x]) BY <2>3, FS_Interval
  <2> QED BY <2>1, <2>2, <2>4, FS_Product
<1>3. IsFiniteSet(UNION Parts)
  <2> HIDE DEF Parts
  <2> QED BY <1>1, <1>2, FS_UNION
<1>4. Units(f) = UNION Parts BY DEF Units
<1> QED BY <1>3, <1>4, FS_CardinalityType DEF Units, Total

Pairs(P) == UNION {{x} \X P[x] : x \in DOMAIN P}

LEMMA InPairs ==
  ASSUME NEW P, NEW x \in DOMAIN P, NEW y \in P[x]
  PROVE  <<x, y>> \in Pairs(P)
<1>1. <<x, y>> \in {x} \X P[x] OBVIOUS
<1> QED BY <1>1 DEF Pairs

LEMMA OfPairs ==
  ASSUME NEW P, NEW p \in Pairs(P)
  PROVE  \E x \in DOMAIN P : \E y \in P[x] : p = <<x, y>>
<1>1. PICK x \in DOMAIN P : p \in {x} \X P[x] BY DEF Pairs
<1> QED BY <1>1

\* The sizes of sets add up to the number of pairs.
LEMMA TotalOfSizes ==
  ASSUME NEW P, IsFiniteSet(DOMAIN P), \A x \in DOMAIN P : IsFiniteSet(P[x])
  PROVE  /\ IsFiniteSet(Pairs(P))
         /\ Total([x \in DOMAIN P |-> Cardinality(P[x])]) = Cardinality(Pairs(P))
<1> DEFINE f == [x \in DOMAIN P |-> Cardinality(P[x])]
           g == [x \in DOMAIN P |-> CHOOSE h : h \in Bijection(1..Cardinality(P[x]), P[x])]
<1>1. \A x \in DOMAIN P : f[x] \in Nat BY FS_CardinalityType
<1>2. ASSUME NEW x \in DOMAIN P PROVE g[x] \in Bijection(1..f[x], P[x])
  <2>1. ExistsBijection(1..Cardinality(P[x]), P[x]) BY FS_CardinalityType
  <2> QED BY <2>1 DEF ExistsBijection
<1>3. DOMAIN f = DOMAIN P OBVIOUS
<1>4. IsFiniteSet(Units(f)) /\ Total(f) = Cardinality(Units(f))
  <2> HIDE DEF f
  <2> QED BY <1>1, <1>3, UnitsFinite
<1> HIDE DEF f, g
<1>5. \A x \in DOMAIN P : \A n \in 1..f[x] : g[x][n] \in P[x]
  BY <1>2 DEF Bijection, Injection, Surjection
<1>6. \A x \in DOMAIN P : \A m, n \in 1..f[x] : g[x][m] = g[x][n] => m = n
  <2> TAKE x \in DOMAIN P
  <2>1. DOMAIN g[x] = 1..f[x] /\ IsInjective(g[x]) BY <1>2 DEF Bijection, Injection
  <2> QED BY <2>1 DEF IsInjective
<1>7. \A x \in DOMAIN P : \A y \in P[x] : \E n \in 1..f[x] : g[x][n] = y
  BY <1>2 DEF Bijection, Surjection
<1> DEFINE to(u) == <<u[1], g[u[1]][u[2]]>>
           h == [u \in Units(f) |-> to(u)]
<1>8. ASSUME NEW u \in Units(f)
      PROVE  \E x \in DOMAIN P : \E n \in 1..f[x] : u = <<x, n>>
  <2>1. PICK x \in DOMAIN P : u \in {x} \X (1..f[x]) BY <1>3 DEF Units
  <2> QED BY <2>1
<1>9. ASSUME NEW x \in DOMAIN P, NEW n \in 1..f[x]
      PROVE  <<x, n>> \in Units(f) /\ h[<<x, n>>] = <<x, g[x][n]>>
  <2>1. <<x, n>> \in {x} \X (1..f[x]) OBVIOUS
  <2>2. <<x, n>> \in Units(f) BY <1>3, <2>1 DEF Units
  <2> QED BY <2>2
<1>10. h \in [Units(f) -> Pairs(P)]
  <2>1. ASSUME NEW u \in Units(f) PROVE to(u) \in Pairs(P)
    <3>1. PICK x \in DOMAIN P : \E n \in 1..f[x] : u = <<x, n>> BY <1>8
    <3>2. PICK n \in 1..f[x] : u = <<x, n>> BY <3>1
    <3>3. to(u) = <<x, g[x][n]>> BY <3>2
    <3>4. g[x][n] \in P[x] BY <1>5
    <3> HIDE DEF to
    <3> QED BY <3>3, <3>4, InPairs
  <2> HIDE DEF to
  <2> QED BY <2>1
<1> HIDE DEF h, to
<1>11. ASSUME NEW u \in Units(f), NEW v \in Units(f), h[u] = h[v] PROVE u = v
  <2>1. PICK x \in DOMAIN P : \E n \in 1..f[x] : u = <<x, n>> BY <1>8
  <2>2. PICK n \in 1..f[x] : u = <<x, n>> BY <2>1
  <2>3. PICK y \in DOMAIN P : \E m \in 1..f[y] : v = <<y, m>> BY <1>8
  <2>4. PICK m \in 1..f[y] : v = <<y, m>> BY <2>3
  <2>5. <<x, g[x][n]>> = <<y, g[y][m]>> BY <1>9, <1>11, <2>2, <2>4
  <2>6. x = y /\ g[x][n] = g[y][m] BY <2>5
  <2>7. n = m BY <1>6, <2>6
  <2> QED BY <2>2, <2>4, <2>6, <2>7
<1>12. ASSUME NEW p \in Pairs(P) PROVE \E u \in Units(f) : h[u] = p
  <2>1. PICK x \in DOMAIN P : \E y \in P[x] : p = <<x, y>> BY OfPairs
  <2>2. PICK y \in P[x] : p = <<x, y>> BY <2>1
  <2>3. PICK n \in 1..f[x] : g[x][n] = y BY <1>7
  <2>4. <<x, n>> \in Units(f) /\ h[<<x, n>>] = p BY <1>9, <2>2, <2>3
  <2> QED BY <2>4
<1>13. h \in Bijection(Units(f), Pairs(P))
  BY <1>10, <1>11, <1>12 DEF Bijection, Injection, Surjection, IsInjective
<1>14. ExistsBijection(Units(f), Pairs(P)) BY <1>13 DEF ExistsBijection
<1>15. IsFiniteSet(Pairs(P)) /\ Cardinality(Pairs(P)) = Cardinality(Units(f))
  BY <1>4, <1>14, FS_Bijection
<1> QED BY <1>4, <1>15 DEF f

\* Terms that fit into the gaps between numbers up to a limit.
LEMMA TotalOfGaps ==
  ASSUME NEW S \in SUBSET Nat, IsFiniteSet(S), NEW f, DOMAIN f = S,
         NEW height \in Nat, NEW limit \in Nat, NEW end, end \in [S -> Nat],
         \A x \in S : f[x] \in Nat /\ f[x] <= height * (end[x] - x) /\ x <= end[x] /\ end[x] <= limit,
         \A x, y \in S : x < y => end[x] <= y
  PROVE  Total(f) \in Nat /\ Total(f) <= height * limit
<1> DEFINE place(u) == height * u[1] + u[2]
           g == [u \in Units(f) |-> place(u)]
           room == 1..height * limit
<1>1. IsFiniteSet(Units(f)) /\ Total(f) = Cardinality(Units(f)) /\ Total(f) \in Nat
  BY UnitsFinite
<1>2. ASSUME NEW u \in Units(f)
      PROVE  \E x \in S : \E n \in 1..f[x] : u = <<x, n>>
  <2>1. PICK x \in S : u \in {x} \X (1..f[x]) BY DEF Units
  <2> QED BY <2>1
<1>3. ASSUME NEW x \in S, NEW n \in 1..f[x]
      PROVE  /\ height * x + n \in Nat /\ height * x < height * x + n
             /\ height * x + n <= height * end[x]
  <2>1. /\ x \in Nat /\ end[x] \in Nat /\ n \in Nat /\ n >= 1 /\ f[x] \in Nat /\ n <= f[x]
        /\ f[x] <= height * (end[x] - x)
    OBVIOUS
  <2>2. height * x \in Nat /\ height * end[x] \in Nat BY <2>1
  <2>3. height * (end[x] - x) = height * end[x] - height * x BY <2>1
  <2> QED BY <2>1, <2>2, <2>3
<1>4. ASSUME NEW a \in Nat, NEW b \in Nat, a <= b PROVE height * a <= height * b
  BY <1>4
<1>5. ASSUME NEW x \in S, NEW n \in 1..f[x], NEW y \in S, NEW m \in 1..f[y], x < y
      PROVE  height * x + n < height * y + m
  <2>1. end[x] <= y /\ end[x] \in Nat /\ y \in Nat BY <1>5
  <2>2. height * end[x] <= height * y BY <1>4, <2>1
  <2>3. height * end[x] \in Nat /\ height * y \in Nat BY <2>1
  <2> QED BY <1>3, <2>2, <2>3
<1>6. g \in [Units(f) -> room]
  <2>1. ASSUME NEW u \in Units(f) PROVE place(u) \in room
    <3>1. PICK x \in S : \E n \in 1..f[x] : u = <<x, n>> BY <1>2
    <3>2. PICK n \in 1..f[x] : u = <<x, n>> BY <3>1
    <3>3. place(u) = height * x + n BY <3>2
    <3>4. end[x] \in Nat /\ end[x] <= limit OBVIOUS
    <3>5. height * end[x] <= height * limit BY <1>4, <3>4
    <3>6. height * end[x] \in Nat /\ height * limit \in Nat /\ height * x \in Nat BY <3>4
    <3> HIDE DEF place
    <3> QED BY <1>3, <3>3, <3>5, <3>6
  <2> HIDE DEF place
  <2> QED BY <2>1
<1>7. ASSUME NEW u \in Units(f), NEW v \in Units(f), g[u] = g[v] PROVE u = v
  <2>1. PICK x \in S : \E n \in 1..f[x] : u = <<x, n>> BY <1>2
  <2>2. PICK n \in 1..f[x] : u = <<x, n>> BY <2>1
  <2>3. PICK y \in S : \E m \in 1..f[y] : v = <<y, m>> BY <1>2
  <2>4. PICK m \in 1..f[y] : v = <<y, m>> BY <2>3
  <2>5. height * x + n = height * y + m BY <1>7, <2>2, <2>4
  <2>6. height * x + n \in Nat BY <1>3
  <2>7. ~ (x < y) /\ ~ (y < x) BY <1>5, <2>5, <2>6
  <2>8. x \in Nat /\ y \in Nat OBVIOUS
  <2>9. x = y BY <2>7, <2>8
  <2>10. n = m
    <3>1. n \in Nat /\ m \in Nat /\ height * x \in Nat BY <2>8
    <3> QED BY <2>5, <2>9, <3>1
  <2> QED BY <2>2, <2>4, <2>9, <2>10
<1> HIDE DEF g
<1>8. g \in Injection(Units(f), room) BY <1>6, <1>7 DEF Injection, IsInjective
<1>9. IsFiniteSet(room) /\ Cardinality(room) = height * limit
  <2> DEFINE b == height * limit
  <2>1. b \in Nat OBVIOUS
  <2> HIDE DEF b
  <2>2. IsFiniteSet(1..b) /\ Cardinality(1..b) = IF 1 > b THEN 0 ELSE b - 1 + 1 BY <2>1, FS_Interval
  <2>3. IsFiniteSet(1..b) /\ Cardinality(1..b) = b BY <2>1, <2>2
  <2> QED BY <2>3 DEF b
<1> QED BY <1>1, <1>8, <1>9, FS_Injection

-----------------------------------------------------------------------------
(* Ticks and rows *)

LEMMA Typed ==
  ASSUME TypeOK
  PROVE  /\ Len(ticks) \in Nat /\ DOMAIN ticks = 1..Len(ticks)
         /\ \A i \in DOMAIN ticks : ticks[i] \in Tick
         /\ Len(due) \in Nat /\ DOMAIN due = 1..Len(due)
         /\ \A k \in DOMAIN due : due[k].ts \in Nat /\ due[k].trials \subseteq Trials
         /\ \A t \in Trials : /\ DOMAIN rows[t] \subseteq DOMAIN ticks
                              /\ rows[t] \in [DOMAIN rows[t] -> Row]
                              /\ \A i \in DOMAIN rows[t] : rows[t][i] \in Row
         /\ DOMAIN agg \subseteq DOMAIN ticks /\ agg \in [DOMAIN agg -> SUBSET Elements]
<1>1. /\ Len(ticks) \in Nat /\ DOMAIN ticks = 1..Len(ticks)
      /\ \A i \in DOMAIN ticks : ticks[i] \in Tick
  BY LenProperties, ElementOfSeq DEF TypeOK
<1>2. /\ Len(due) \in Nat /\ DOMAIN due = 1..Len(due)
      /\ \A k \in DOMAIN due : due[k].ts \in Nat /\ due[k].trials \subseteq Trials
  <2>1. due \in Seq([ts : Nat, trials : SUBSET Trials]) BY DEF TypeOK
  <2>2. Len(due) \in Nat /\ DOMAIN due = 1..Len(due) BY <2>1, LenProperties
  <2>3. \A k \in 1..Len(due) : due[k] \in [ts : Nat, trials : SUBSET Trials]
    BY <2>1, ElementOfSeq
  <2> QED BY <2>2, <2>3
<1>3. ASSUME NEW t \in Trials
      PROVE  /\ DOMAIN rows[t] \subseteq DOMAIN ticks
             /\ rows[t] \in [DOMAIN rows[t] -> Row]
             /\ \A i \in DOMAIN rows[t] : rows[t][i] \in Row
  <2>1. rows[t] \in UNION {[D -> Row] : D \in SUBSET (DOMAIN ticks)} BY DEF TypeOK
  <2>2. PICK D \in SUBSET (DOMAIN ticks) : rows[t] \in [D -> Row] BY <2>1
  <2> QED BY <2>2
<1>4. DOMAIN agg \subseteq DOMAIN ticks /\ agg \in [DOMAIN agg -> SUBSET Elements]
  <2>1. PICK D \in SUBSET (DOMAIN ticks) : agg \in [D -> SUBSET Elements] BY DEF TypeOK
  <2> QED BY <2>1
<1> QED BY <1>1, <1>2, <1>3, <1>4

LEMMA CurrentIs ==
  ASSUME TypeOK, Pending # {}
  PROVE  /\ Current \in DOMAIN ticks /\ Current \in Pending
         /\ \A i \in Pending : Current <= i
<1>1. Pending \in SUBSET Nat BY Typed DEF Pending
<1> QED BY <1>1, MinOfNats DEF Current, Pending

\* What is not a matter of time stays with the ticks and rows.
LEMMA SameFigures ==
  ASSUME UNCHANGED <<seed, ticks, rows, agg>>, TicksInTurn, CampaignCovers, TrialsGrow
  PROVE  TicksInTurn' /\ CampaignCovers' /\ TrialsGrow'
<1>1. Pending' = Pending BY DEF Pending
<1> QED BY <1>1 DEF TicksInTurn, CampaignCovers, TrialsGrow, CoveredBy

\* What is only a matter of time does not look at the status of a tick.
LEMMA SameTimes ==
  ASSUME TypeOK, UNCHANGED <<clock, started, ended, nextDue, due>>,
         stopping' = stopping \/ stopping', DOMAIN ticks' = DOMAIN ticks,
         \A i \in DOMAIN ticks : /\ ticks'[i].ts = ticks[i].ts
                                 /\ ticks'[i].trials = ticks[i].trials
                                 /\ ticks'[i].telemetry = ticks[i].telemetry,
         TrialTimes, DueInTime, TicksInTime
  PROVE  TrialTimes' /\ DueInTime' /\ TicksInTime'
<1>1. Active' = Active BY DEF Active
<1>2. TrialTimes' BY <1>1 DEF TrialTimes
<1>3. DueInTime' BY DEF DueInTime
<1>4. TicksInTime' BY DEF TicksInTime
<1> QED BY <1>2, <1>3, <1>4

LEMMA InitInv == Init => FiguresInv
<1> SUFFICES ASSUME Init PROVE FiguresInv OBVIOUS
<1> USE DEF Init
<1>1. ticks = <<>> /\ due = <<>> /\ agg = <<>> /\ rows = [t \in Trials |-> <<>>] OBVIOUS
<1>2. DOMAIN <<>> = {} OBVIOUS
<1>3. \A D : <<>> \in [{} -> D] BY <1>2
<1>4. TypeOK
  <2>1. <<>> \in Seq(Tick) /\ <<>> \in Seq([ts : Nat, trials : SUBSET Trials]) BY EmptySeq
  <2>2. {} \in SUBSET (DOMAIN ticks) OBVIOUS
  <2>3. <<>> \in UNION {[D -> Row] : D \in SUBSET (DOMAIN ticks)} BY <1>3, <2>2
  <2>4. <<>> \in UNION {[D -> SUBSET Elements] : D \in SUBSET (DOMAIN ticks)} BY <1>3, <2>2
  <2>5. rows \in [Trials -> UNION {[D -> Row] : D \in SUBSET (DOMAIN ticks)}]
    BY <1>1, <2>3
  <2>6. agg \in UNION {[D -> SUBSET Elements] : D \in SUBSET (DOMAIN ticks)} BY <1>1, <2>4
  <2>7. due \in Seq([ts : Nat, trials : SUBSET Trials]) /\ ticks \in Seq(Tick) BY <1>1, <2>1
  <2>8. /\ clock \in Nat \ {0} /\ seed \in Coverage /\ stopping \in BOOLEAN
        /\ started \in [Trials -> Nat] /\ ended \in [Trials -> Nat] /\ nextDue \in [Trials -> Nat]
    <3>1. clock \in Nat \ {0} OBVIOUS
    <3>2. seed \in Coverage /\ stopping \in BOOLEAN OBVIOUS
    <3>3. started \in [Trials -> Nat] /\ ended \in [Trials -> Nat] /\ nextDue \in [Trials -> Nat]
      OBVIOUS
    <3> QED BY <3>1, <3>2, <3>3
  <2> QED BY <2>5, <2>6, <2>7, <2>8 DEF TypeOK
<1>5. TicksInTurn BY <1>1, <1>2 DEF TicksInTurn
<1>6. CampaignCovers BY <1>1, <1>2 DEF CampaignCovers
<1>7. TrialsGrow BY <1>1, <1>2 DEF TrialsGrow
<1>8. TrialTimes BY DEF TrialTimes
<1>9. DueInTime BY <1>1, <1>2 DEF DueInTime
<1>10. TicksInTime BY <1>1, <1>2 DEF TicksInTime
<1> QED BY <1>4, <1>5, <1>6, <1>7, <1>8, <1>9, <1>10 DEF FiguresInv

-----------------------------------------------------------------------------
(* Trials and the clock *)

LEMMA TockInv ==
  ASSUME FiguresInv, Tock
  PROVE  FiguresInv'
<1> USE DEF FiguresInv
<1>1. TypeOK' BY DEF Tock, TypeOK
<1>2. TicksInTurn' /\ CampaignCovers' /\ TrialsGrow' BY SameFigures DEF Tock
<1>3. Active' = Active BY DEF Tock, Active
<1>4. TrialTimes'
  <2>1. clock \in Nat /\ TimeLimit \in Nat /\ \A t \in Trials : started[t] \in Nat
    BY ReportAssumption DEF TypeOK
  <2> QED BY <1>3, <2>1 DEF Tock, TrialTimes
<1>5. DueInTime' /\ TicksInTime' BY DEF Tock, DueInTime, TicksInTime
<1> QED BY <1>1, <1>2, <1>4, <1>5

LEMMA StopInv ==
  ASSUME FiguresInv, Stop
  PROVE  FiguresInv'
<1> USE DEF FiguresInv
<1>1. TypeOK' BY DEF Stop, TypeOK
<1>2. TicksInTurn' /\ CampaignCovers' /\ TrialsGrow' BY SameFigures DEF Stop
<1>3. TrialTimes' /\ DueInTime' /\ TicksInTime' BY SameTimes DEF Stop
<1> QED BY <1>1, <1>2, <1>3

LEMMA StartInv ==
  ASSUME FiguresInv, NEW t \in Trials, Start(t)
  PROVE  FiguresInv'
<1> USE DEF FiguresInv
<1>0. /\ clock \in Nat /\ clock > 0 /\ TimeLimit \in Nat /\ TimeLimit > 0 /\ Every \in Nat /\ Every > 0
      /\ \A u \in Trials : started[u] \in Nat /\ ended[u] \in Nat /\ nextDue[u] \in Nat
  BY ReportAssumption DEF TypeOK
<1>1. /\ started[t] = 0 /\ started'[t] = clock
      /\ nextDue'[t] = IF Every < TimeLimit THEN clock + Every ELSE 0
      /\ \A u \in Trials \ {t} : started'[u] = started[u] /\ nextDue'[u] = nextDue[u]
      /\ UNCHANGED <<clock, seed, ended, due, ticks, rows, agg, stopping>>
  BY DEF Start, TypeOK
<1>2. TypeOK'
  <2>1. started' \in [Trials -> Nat] /\ nextDue' \in [Trials -> Nat]
    BY <1>0 DEF Start, TypeOK
  <2> QED BY <1>1, <2>1 DEF TypeOK
<1>3. TicksInTurn' /\ CampaignCovers' /\ TrialsGrow' BY <1>1, SameFigures
<1>4. ended[t] = 0
  BY <1>0, <1>1 DEF TrialTimes
<1>5. TrialTimes'
  <2>1. ASSUME NEW u \in Trials, nextDue'[u] > 0
        PROVE  /\ u \in Active' /\ started'[u] < nextDue'[u]
               /\ nextDue'[u] < started'[u] + TimeLimit
    <3>1. CASE u = t BY <1>0, <1>1, <1>4, <2>1, <3>1 DEF Active
    <3>2. CASE u # t BY <1>1, <2>1, <3>2 DEF Active, TrialTimes
    <3> QED BY <3>1, <3>2
  <2>2. ASSUME NEW u \in Trials
        PROVE  /\ started'[u] <= clock' /\ (ended'[u] > 0 => started'[u] > 0)
               /\ ended'[u] > 0 /\ ~stopping' => started'[u] + TimeLimit <= clock'
    BY <1>0, <1>1, <1>4 DEF TrialTimes
  <2> QED BY <2>1, <2>2 DEF TrialTimes
<1>6. /\ \A k \in DOMAIN due : t \notin due[k].trials
      /\ \A i \in DOMAIN ticks : t \notin ticks[i].trials
  BY <1>0, <1>1 DEF DueInTime, TicksInTime
<1>7. DueInTime'
  <2>1. \A k \in DOMAIN due : \A u \in due[k].trials : u \in Trials \ {t} BY <1>6, Typed
  <2> QED BY <1>1, <2>1 DEF DueInTime
<1>8. TicksInTime'
  <2>1. \A i \in DOMAIN ticks : \A u \in ticks[i].trials : u \in Trials \ {t}
    BY <1>6, Typed DEF Tick
  <2> QED BY <1>1, <2>1 DEF TicksInTime
<1> QED BY <1>2, <1>3, <1>5, <1>7, <1>8

LEMMA EndInv ==
  ASSUME FiguresInv, NEW t \in Trials, End(t)
  PROVE  FiguresInv'
<1> USE DEF FiguresInv
<1>0. /\ clock \in Nat /\ clock > 0 /\ TimeLimit \in Nat /\ TimeLimit > 0
      /\ \A u \in Trials : started[u] \in Nat /\ ended[u] \in Nat /\ nextDue[u] \in Nat
  BY ReportAssumption DEF TypeOK
<1>1. /\ started[t] > 0 /\ ended'[t] = clock /\ nextDue'[t] = 0
      /\ stopping \/ clock >= started[t] + TimeLimit
      /\ \A u \in Trials \ {t} : ended'[u] = ended[u] /\ nextDue'[u] = nextDue[u]
      /\ UNCHANGED <<clock, seed, started, due, ticks, rows, agg, stopping>>
  BY DEF End, TypeOK, Active
<1>2. TypeOK'
  <2>1. ended' \in [Trials -> Nat] /\ nextDue' \in [Trials -> Nat]
    BY <1>0 DEF End, TypeOK
  <2> QED BY <1>1, <2>1 DEF TypeOK
<1>3. TicksInTurn' /\ CampaignCovers' /\ TrialsGrow' BY <1>1, SameFigures
<1>4. TrialTimes'
  <2>1. ASSUME NEW u \in Trials, nextDue'[u] > 0
        PROVE  /\ u \in Active' /\ started'[u] < nextDue'[u]
               /\ nextDue'[u] < started'[u] + TimeLimit
    BY <1>0, <1>1, <2>1 DEF Active, TrialTimes
  <2>2. ASSUME NEW u \in Trials
        PROVE  /\ started'[u] <= clock' /\ (ended'[u] > 0 => started'[u] > 0)
               /\ ended'[u] > 0 /\ ~stopping' => started'[u] + TimeLimit <= clock'
    BY <1>0, <1>1 DEF TrialTimes
  <2> QED BY <2>1, <2>2 DEF TrialTimes
<1>5. \A u \in Trials : nextDue'[u] > 0 => nextDue[u] = nextDue'[u]
  BY <1>0, <1>1
<1>6. DueInTime'
  <2>1. \A k \in DOMAIN due : \A u \in due[k].trials : u \in Trials BY Typed
  <2> QED BY <1>1, <1>5, <2>1 DEF DueInTime
<1>7. TicksInTime'
  <2>1. \A i \in DOMAIN ticks : \A u \in ticks[i].trials : u \in Trials
    BY Typed DEF Tick
  <2> QED BY <1>1, <1>5, <2>1 DEF TicksInTime
<1> QED BY <1>2, <1>3, <1>4, <1>6, <1>7

-----------------------------------------------------------------------------
(* Recording ticks *)

\* The times of a trial that have come lie between its next one and its end.
LEMMA DueTimesAre ==
  ASSUME TypeOK, NEW t \in Trials
  PROVE  /\ DueTimes(t) \in SUBSET Nat /\ IsFiniteSet(DueTimes(t))
         /\ \A ts \in DueTimes(t) : /\ 0 < nextDue[t] /\ nextDue[t] <= ts
                                    /\ ts <= clock /\ ts < started[t] + TimeLimit
<1> DEFINE bounds == {clock, started[t] + TimeLimit - 1}
<1>1. /\ clock \in Nat /\ started[t] \in Nat /\ TimeLimit \in Nat /\ TimeLimit > 0 /\ nextDue[t] \in Nat
  BY ReportAssumption DEF TypeOK
<1>2. bounds \in SUBSET Nat /\ bounds # {} BY <1>1
<1> HIDE DEF bounds
<1>3. Min(bounds) \in Nat /\ \A x \in bounds : Min(bounds) <= x BY <1>2, MinOfNats
<1>4. Min(bounds) <= clock /\ Min(bounds) <= started[t] + TimeLimit - 1 BY <1>3 DEF bounds
<1>5. ASSUME NEW ts \in DueTimes(t)
      PROVE  /\ ts \in Nat /\ 0 < nextDue[t] /\ nextDue[t] <= ts
             /\ ts <= clock /\ ts < started[t] + TimeLimit
  <2>1. nextDue[t] # 0 /\ ts \in nextDue[t]..Min(bounds) BY <1>5 DEF DueTimes, bounds
  <2> QED BY <1>1, <1>3, <1>4, <2>1
<1>6. DueTimes(t) \in SUBSET (0..clock) BY <1>1, <1>5
<1>7. IsFiniteSet(0..clock) BY <1>1, FS_Interval
<1>8. IsFiniteSet(DueTimes(t)) BY <1>6, <1>7, FS_Subset
<1> QED BY <1>5, <1>8

LEMMA TakeDueInv ==
  ASSUME FiguresInv, TakeDue
  PROVE  FiguresInv'
<1> USE DEF FiguresInv
<1> DEFINE times == UNION {DueTimes(t) : t \in Active}
           order == Ascending(times)
           c == Cardinality(times)
<1>0. /\ clock \in Nat /\ TimeLimit \in Nat /\ TimeLimit > 0 /\ Every \in Nat /\ Every > 0
      /\ \A u \in Trials : started[u] \in Nat /\ ended[u] \in Nat /\ nextDue[u] \in Nat
  BY ReportAssumption DEF TypeOK
<1>1. /\ due = <<>>
      /\ due' = [i \in DOMAIN order |->
           [ts |-> order[i], trials |-> {t \in Active : order[i] \in DueTimes(t)}]]
      /\ nextDue' = [t \in Trials |->
           IF DueTimes(t) = {} THEN nextDue[t]
           ELSE IF Max(DueTimes(t)) + Every < started[t] + TimeLimit
                THEN Max(DueTimes(t)) + Every ELSE 0]
      /\ UNCHANGED <<clock, seed, started, ended, ticks, rows, agg, stopping>>
  BY DEF TakeDue
<1>2. times \in SUBSET Nat /\ IsFiniteSet(times)
  <2>1. \A t \in Active : \A ts \in DueTimes(t) : ts \in 0..clock
    BY <1>0, DueTimesAre DEF Active
  <2>2. times \in SUBSET (0..clock) BY <2>1
  <2>3. IsFiniteSet(0..clock) BY <1>0, FS_Interval
  <2>4. IsFiniteSet(times)
    <3> HIDE DEF times
    <3> QED BY <2>2, <2>3, FS_Subset
  <2> QED BY <1>0, <2>2, <2>4
<1> HIDE DEF times
<1>3. /\ c \in Nat /\ order \in [1..c -> times]
      /\ \A i, j \in 1..c : i < j => order[i] < order[j]
  BY <1>2, AscendingLists
<1> HIDE DEF order, c
<1>4. /\ due' = [i \in 1..c |->
           [ts |-> order[i], trials |-> {t \in Active : order[i] \in DueTimes(t)}]]
      /\ DOMAIN due' = 1..c
      /\ \A i \in 1..c : /\ due'[i].ts = order[i] /\ order[i] \in Nat
                         /\ due'[i].trials = {t \in Active : order[i] \in DueTimes(t)}
  BY <1>1, <1>2, <1>3
<1>5. due' \in Seq([ts : Nat, trials : SUBSET Trials])
  <2>1. \A i \in 1..c : [ts |-> order[i], trials |-> {t \in Active : order[i] \in DueTimes(t)}]
                          \in [ts : Nat, trials : SUBSET Trials]
    BY <1>4 DEF Active
  <2> DEFINE D == [ts : Nat, trials : SUBSET Trials]
  <2>2. due' \in [1..c -> D] BY <1>4, <2>1
  <2> HIDE DEF D
  <2>3. due' \in Seq(D) BY <1>3, <2>2, SeqDef
  <2> QED BY <2>3 DEF D
<1>6. ASSUME NEW t \in Trials
      PROVE  /\ DueTimes(t) = {} => nextDue'[t] = nextDue[t]
             /\ nextDue'[t] \in Nat
             /\ nextDue'[t] > 0 =>
                  /\ nextDue'[t] >= nextDue[t] /\ nextDue[t] > 0
                  /\ nextDue'[t] < started[t] + TimeLimit
                  /\ \A ts \in DueTimes(t) : ts < nextDue'[t]
  <2>1. CASE DueTimes(t) = {}
    <3>1. nextDue'[t] = nextDue[t] BY <1>1, <2>1
    <3> QED BY <1>0, <2>1, <3>1 DEF TrialTimes
  <2>2. CASE DueTimes(t) # {}
    <3> DEFINE m == Max(DueTimes(t))
    <3>1. DueTimes(t) \in SUBSET Nat /\ IsFiniteSet(DueTimes(t)) BY DueTimesAre
    <3>2. m \in DueTimes(t) /\ \A ts \in DueTimes(t) : ts <= m BY <2>2, <3>1, MaxOfFinite
    <3>3. nextDue'[t] = IF m + Every < started[t] + TimeLimit THEN m + Every ELSE 0
      BY <1>1, <2>2
    <3> HIDE DEF m
    <3>4. m \in Nat /\ 0 < nextDue[t] /\ nextDue[t] <= m BY <3>1, <3>2, DueTimesAre
    <3>5. \A ts \in DueTimes(t) : ts \in Nat /\ ts <= m BY <3>1, <3>2
    <3> QED BY <1>0, <2>2, <3>3, <3>4, <3>5
  <2> QED BY <2>1, <2>2
<1>7. TypeOK'
  <2>1. nextDue' \in [Trials -> Nat] BY <1>1, <1>6
  <2> QED BY <1>1, <1>5, <2>1 DEF TypeOK
<1>8. TicksInTurn' /\ CampaignCovers' /\ TrialsGrow' BY <1>1, SameFigures
<1>9. TrialTimes'
  <2>1. Active' = Active BY <1>1 DEF Active
  <2>2. ASSUME NEW u \in Trials, nextDue'[u] > 0
        PROVE  u \in Active /\ started[u] < nextDue'[u] /\ nextDue'[u] < started[u] + TimeLimit
    BY <1>0, <1>6, <2>2 DEF TrialTimes
  <2> QED BY <1>1, <2>1, <2>2 DEF TrialTimes
<1>10. ASSUME NEW k \in 1..c, NEW t \in due'[k].trials
       PROVE  /\ t \in Trials /\ started[t] > 0 /\ nextDue[t] > 0 /\ nextDue[t] <= order[k]
              /\ started[t] < order[k] /\ order[k] < started[t] + TimeLimit
              /\ nextDue'[t] > 0 => order[k] < nextDue'[t]
  <2>1. t \in Active /\ t \in Trials /\ order[k] \in DueTimes(t) BY <1>4 DEF Active
  <2>2. /\ 0 < nextDue[t] /\ nextDue[t] <= order[k] /\ order[k] < started[t] + TimeLimit
    BY <2>1, DueTimesAre
  <2>3. started[t] < nextDue[t] BY <2>1, <2>2 DEF TrialTimes
  <2>4. started[t] > 0 BY <2>1 DEF Active
  <2>5. nextDue'[t] > 0 => order[k] < nextDue'[t] BY <1>6, <2>1
  <2> QED BY <1>0, <1>4, <2>1, <2>2, <2>3, <2>4, <2>5
<1>11. DueInTime'
  <2>1. \A k, l \in 1..c : k < l => due'[k].ts < due'[l].ts BY <1>3, <1>4
  <2>2. \A k \in 1..c : \A t \in due'[k].trials :
          /\ started'[t] > 0 /\ started'[t] < due'[k].ts /\ due'[k].ts < started'[t] + TimeLimit
          /\ nextDue'[t] > 0 => due'[k].ts < nextDue'[t]
    BY <1>1, <1>4, <1>10
  <2> QED BY <1>4, <2>1, <2>2 DEF DueInTime
<1>12. TicksInTime'
  <2>1. ASSUME NEW i \in DOMAIN ticks, NEW t \in ticks[i].trials, ticks[i].telemetry
        PROVE  /\ nextDue'[t] > 0 => ticks[i].ts < nextDue'[t]
               /\ \A k \in 1..c : t \in due'[k].trials => ticks[i].ts < due'[k].ts
    <3>1. t \in Trials /\ ticks[i].ts \in Nat BY Typed DEF Tick
    <3>2. nextDue[t] > 0 => ticks[i].ts < nextDue[t] BY <2>1 DEF TicksInTime
    <3>3. nextDue'[t] > 0 => ticks[i].ts < nextDue'[t] BY <1>0, <1>6, <3>1, <3>2
    <3>4. ASSUME NEW k \in 1..c, t \in due'[k].trials PROVE ticks[i].ts < due'[k].ts
      <4>1. nextDue[t] > 0 /\ nextDue[t] <= order[k] BY <1>10, <3>4
      <4> QED BY <1>0, <1>4, <3>1, <3>2, <4>1
    <3> QED BY <3>3, <3>4
  <2> QED BY <1>1, <1>4, <2>1 DEF TicksInTime
<1> QED BY <1>7, <1>8, <1>9, <1>11, <1>12

LEMMA RecordFacts ==
  ASSUME TypeOK, NEW ts \in Nat, NEW trials \in SUBSET Trials, NEW telemetry \in BOOLEAN,
         Record(ts, trials, telemetry)
  PROVE  LET n == Len(ticks) + 1
         IN /\ ticks' \in Seq(Tick) /\ n \in Nat /\ DOMAIN ticks = 1..n - 1 /\ DOMAIN ticks' = 1..n
            /\ ticks'[n].ts = ts /\ ticks'[n].trials = trials
            /\ ticks'[n].telemetry = telemetry /\ ticks'[n].status = "queued"
            /\ \A i \in 1..n - 1 : ticks'[i] = ticks[i]
<1> DEFINE x == [ts |-> ts, trials |-> trials, telemetry |-> telemetry, status |-> "queued"]
<1>1. x \in Tick BY DEF Tick, Statuses
<1>2. x.ts = ts /\ x.trials = trials /\ x.telemetry = telemetry /\ x.status = "queued"
  OBVIOUS
<1>3. ticks' = Append(ticks, x) BY DEF Record
<1> HIDE DEF x
<1>4. ticks \in Seq(Tick) BY DEF TypeOK
<1>5. /\ ticks' \in Seq(Tick) /\ Len(ticks') = Len(ticks) + 1
      /\ \A i \in 1..Len(ticks) : ticks'[i] = ticks[i]
      /\ ticks'[Len(ticks) + 1] = x
  BY <1>1, <1>3, <1>4, AppendProperties
<1>6. Len(ticks) \in Nat /\ DOMAIN ticks = 1..Len(ticks) BY Typed
<1>7. DOMAIN ticks' = 1..Len(ticks') BY <1>5, LenProperties
<1> QED BY <1>2, <1>5, <1>6, <1>7

\* A tick that joins the others is queued and has no rows.
LEMMA RecordKeeps ==
  ASSUME FiguresInv, NEW ts \in Nat, NEW trials \in SUBSET Trials, NEW telemetry \in BOOLEAN,
         Record(ts, trials, telemetry), UNCHANGED <<seed, rows, agg>>
  PROVE  /\ rows' \in [Trials -> UNION {[D -> Row] : D \in SUBSET (DOMAIN ticks')}]
         /\ agg' \in UNION {[D -> SUBSET Elements] : D \in SUBSET (DOMAIN ticks')}
         /\ TicksInTurn' /\ CampaignCovers' /\ TrialsGrow'
<1> USE DEF FiguresInv
<1> DEFINE n == Len(ticks) + 1
<1>1. /\ ticks' \in Seq(Tick) /\ n \in Nat /\ DOMAIN ticks = 1..n - 1 /\ DOMAIN ticks' = 1..n
      /\ ticks'[n].status = "queued"
      /\ \A i \in 1..n - 1 : ticks'[i] = ticks[i]
  BY RecordFacts
<1> HIDE DEF n
<1>2. \A i \in DOMAIN ticks : i \in DOMAIN ticks' /\ ticks'[i] = ticks[i] BY <1>1
<1>3. /\ \A t \in Trials : DOMAIN rows[t] \subseteq DOMAIN ticks /\ rows[t] \in [DOMAIN rows[t] -> Row]
      /\ DOMAIN agg \subseteq DOMAIN ticks /\ agg \in [DOMAIN agg -> SUBSET Elements]
  BY Typed
<1>4. rows' \in [Trials -> UNION {[D -> Row] : D \in SUBSET (DOMAIN ticks')}]
  <2>1. rows \in [Trials -> UNION {[D -> Row] : D \in SUBSET (DOMAIN ticks)}] BY DEF TypeOK
  <2>2. \A t \in Trials : DOMAIN rows[t] \in SUBSET (DOMAIN ticks') BY <1>2, <1>3
  <2>3. \A t \in Trials : rows[t] \in UNION {[D -> Row] : D \in SUBSET (DOMAIN ticks')}
    BY <1>3, <2>2
  <2> QED BY <2>1, <2>3
<1>5. agg' \in UNION {[D -> SUBSET Elements] : D \in SUBSET (DOMAIN ticks')}
  <2>1. DOMAIN agg \in SUBSET (DOMAIN ticks') BY <1>2, <1>3
  <2> QED BY <1>3, <2>1
<1>6. TicksInTurn'
  <2>1. ASSUME NEW i \in 1..n, NEW j \in 1..n, i < j, i \in Pending'
        PROVE  ticks'[j].status = "queued"
    <3>1. CASE j = n BY <1>1, <3>1
    <3>2. CASE j # n
      <4>1. i \in DOMAIN ticks /\ j \in DOMAIN ticks BY <1>1, <2>1, <3>2
      <4>2. i \in Pending BY <1>2, <2>1, <4>1 DEF Pending
      <4> QED BY <1>2, <2>1, <4>1, <4>2 DEF TicksInTurn
    <3> QED BY <3>1, <3>2
  <2> QED BY <1>1, <2>1 DEF TicksInTurn
<1>7. CampaignCovers' BY <1>2, <1>3 DEF CampaignCovers, CoveredBy
<1>8. TrialsGrow' BY DEF TrialsGrow, CoveredBy
<1> QED BY <1>4, <1>5, <1>6, <1>7, <1>8

LEMMA PeriodicTickInv ==
  ASSUME FiguresInv, PeriodicTick
  PROVE  FiguresInv'
<1> USE DEF FiguresInv
<1> DEFINE n == Len(ticks) + 1
           m == Len(due)
<1>0. /\ \A u \in Trials : started[u] \in Nat /\ nextDue[u] \in Nat
      /\ TimeLimit \in Nat
  BY ReportAssumption DEF TypeOK
<1>1. /\ due # <<>> /\ due \in Seq([ts : Nat, trials : SUBSET Trials])
      /\ UNCHANGED <<clock, seed, started, ended, nextDue, rows, agg, stopping>>
      /\ due' = Tail(due) /\ Record(Head(due).ts, Head(due).trials, TRUE)
  BY DEF PeriodicTick, TypeOK
<1>2. /\ due' \in Seq([ts : Nat, trials : SUBSET Trials]) /\ Head(due) = due[1]
      /\ m \in Nat /\ m >= 1 /\ DOMAIN due = 1..m /\ DOMAIN due' = 1..m - 1
      /\ \A k \in 1..m - 1 : due'[k] = due[k + 1]
  <2>1. /\ Tail(due) \in Seq([ts : Nat, trials : SUBSET Trials]) /\ Len(Tail(due)) = Len(due) - 1
        /\ \A k \in 1..Len(Tail(due)) : Tail(due)[k] = due[k + 1]
        /\ Head(due) = due[1]
    BY <1>1, HeadTailProperties
  <2>2. Len(due) \in Nat /\ DOMAIN due = 1..Len(due) BY Typed
  <2>3. Len(due) # 0 BY <1>1, EmptySeq
  <2>4. DOMAIN Tail(due) = 1..Len(Tail(due)) BY <2>1, LenProperties
  <2> QED BY <1>1, <2>1, <2>2, <2>3, <2>4
<1>3. /\ due[1].ts \in Nat /\ due[1].trials \in SUBSET Trials /\ 1 \in DOMAIN due
      /\ Record(due[1].ts, due[1].trials, TRUE)
  <2>1. 1 \in DOMAIN due BY <1>2
  <2>2. due[1].ts \in Nat /\ due[1].trials \in SUBSET Trials BY <2>1, Typed
  <2>3. Record(due[1].ts, due[1].trials, TRUE) BY <1>1, <1>2
  <2> QED BY <2>1, <2>2, <2>3
<1>4. /\ ticks' \in Seq(Tick) /\ n \in Nat /\ DOMAIN ticks = 1..n - 1 /\ DOMAIN ticks' = 1..n
      /\ ticks'[n].ts = due[1].ts /\ ticks'[n].trials = due[1].trials /\ ticks'[n].telemetry
      /\ \A i \in 1..n - 1 : ticks'[i] = ticks[i]
  BY <1>3, RecordFacts
<1>5. /\ rows' \in [Trials -> UNION {[D -> Row] : D \in SUBSET (DOMAIN ticks')}]
      /\ agg' \in UNION {[D -> SUBSET Elements] : D \in SUBSET (DOMAIN ticks')}
      /\ TicksInTurn' /\ CampaignCovers' /\ TrialsGrow'
  BY <1>1, <1>3, RecordKeeps
<1> HIDE DEF n, m
<1>6. TypeOK' BY <1>1, <1>2, <1>4, <1>5 DEF TypeOK
<1>7. TrialTimes'
  <2>1. Active' = Active BY <1>1 DEF Active
  <2> QED BY <1>1, <2>1 DEF TrialTimes
<1>8. \A k \in 1..m - 1 : k + 1 \in DOMAIN due /\ due'[k] = due[k + 1] /\ 1 < k + 1
  BY <1>2
<1>9. DueInTime'
  <2>1. \A k, l \in 1..m - 1 : k < l => k + 1 < l + 1 BY <1>2
  <2>2. \A k, l \in 1..m - 1 : k < l => due'[k].ts < due'[l].ts
    BY <1>8, <2>1 DEF DueInTime
  <2>3. \A k \in 1..m - 1 : \A t \in due'[k].trials :
          /\ started[t] > 0 /\ started[t] < due'[k].ts /\ due'[k].ts < started[t] + TimeLimit
          /\ nextDue[t] > 0 => due'[k].ts < nextDue[t]
    BY <1>8 DEF DueInTime
  <2> QED BY <1>1, <1>2, <2>2, <2>3 DEF DueInTime
<1>10. TicksInTime'
  <2>1. ASSUME NEW i \in 1..n, NEW t \in ticks'[i].trials
        PROVE  /\ started[t] > 0 /\ started[t] < ticks'[i].ts
               /\ ticks'[i].telemetry =>
                    /\ ticks'[i].ts < started[t] + TimeLimit
                    /\ nextDue[t] > 0 => ticks'[i].ts < nextDue[t]
                    /\ \A k \in 1..m - 1 : t \in due'[k].trials => ticks'[i].ts < due'[k].ts
                    /\ \A j \in 1..n :
                         j < i /\ ticks'[j].telemetry /\ t \in ticks'[j].trials => ticks'[j].ts < ticks'[i].ts
               /\ ~ticks'[i].telemetry => started[t] + TimeLimit <= ticks'[i].ts
    <3>1. CASE i = n
      <4>1. t \in due[1].trials /\ ticks'[i].ts = due[1].ts /\ ticks'[i].telemetry
        BY <1>4, <2>1, <3>1
      <4>2. \A k \in 1..m - 1 : due[1].ts < due'[k].ts BY <1>3, <1>8 DEF DueInTime
      <4>3. \A j \in 1..n : j < i /\ ticks'[j].telemetry /\ t \in ticks'[j].trials
              => ticks'[j].ts < due[1].ts
        <5> SUFFICES ASSUME NEW j \in 1..n, j < i, ticks'[j].telemetry, t \in ticks'[j].trials
                     PROVE  ticks'[j].ts < due[1].ts
          OBVIOUS
        <5>1. j \in DOMAIN ticks /\ ticks'[j] = ticks[j] BY <1>4, <3>1
        <5> QED BY <1>3, <4>1, <5>1 DEF TicksInTime
      <4> QED BY <1>3, <4>1, <4>2, <4>3 DEF DueInTime
    <3>2. CASE i # n
      <4>1. i \in DOMAIN ticks /\ ticks'[i] = ticks[i] BY <1>4, <3>2
      <4>2. \A j \in 1..n : j < i => j \in DOMAIN ticks /\ ticks'[j] = ticks[j] BY <1>4, <3>2
      <4>3. t \in ticks[i].trials BY <2>1, <4>1
      <4>4. ticks[i].telemetry => \A k \in 1..m - 1 : t \in due'[k].trials => ticks[i].ts < due'[k].ts
        BY <1>8, <4>1, <4>3 DEF TicksInTime
      <4>5. ticks[i].telemetry => \A j \in 1..n : j < i /\ ticks'[j].telemetry /\ t \in ticks'[j].trials
              => ticks'[j].ts < ticks[i].ts
        BY <4>1, <4>2, <4>3 DEF TicksInTime
      <4>6. /\ started[t] > 0 /\ started[t] < ticks[i].ts
            /\ ticks[i].telemetry =>
                 /\ ticks[i].ts < started[t] + TimeLimit
                 /\ nextDue[t] > 0 => ticks[i].ts < nextDue[t]
            /\ ~ticks[i].telemetry => started[t] + TimeLimit <= ticks[i].ts
        BY <4>1, <4>3 DEF TicksInTime
      <4> QED BY <4>1, <4>4, <4>5, <4>6
    <3> QED BY <3>1, <3>2
  <2>2. ASSUME NEW i \in 1..n, NEW j \in 1..n, ~ticks'[i].telemetry, ~ticks'[j].telemetry
        PROVE  i = j
    <3>1. i # n /\ j # n BY <1>4, <2>2
    <3>2. i \in DOMAIN ticks /\ j \in DOMAIN ticks /\ ticks'[i] = ticks[i] /\ ticks'[j] = ticks[j]
      BY <1>4, <3>1
    <3> QED BY <2>2, <3>2 DEF TicksInTime
  <2> QED BY <1>1, <1>2, <1>4, <2>1, <2>2 DEF TicksInTime
<1> QED BY <1>5, <1>6, <1>7, <1>9, <1>10

LEMMA FinalTickInv ==
  ASSUME FiguresInv, FinalTick
  PROVE  FiguresInv'
<1> USE DEF FiguresInv
<1> DEFINE n == Len(ticks) + 1
<1>0. /\ \A u \in Trials : started[u] \in Nat /\ nextDue[u] \in Nat
      /\ TimeLimit \in Nat /\ TimeLimit > 0 /\ clock \in Nat
  BY ReportAssumption DEF TypeOK
<1>1. /\ \A t \in Trials : ended[t] > 0
      /\ ~stopping /\ ~FinalRecorded /\ Record(clock, Trials, FALSE)
      /\ UNCHANGED <<clock, seed, started, ended, nextDue, due, rows, agg, stopping>>
  BY DEF FinalTick
<1>2. Trials \in SUBSET Trials /\ FALSE \in BOOLEAN OBVIOUS
<1>3. /\ ticks' \in Seq(Tick) /\ n \in Nat /\ DOMAIN ticks = 1..n - 1 /\ DOMAIN ticks' = 1..n
      /\ ticks'[n].ts = clock /\ ticks'[n].trials = Trials /\ ~ticks'[n].telemetry
      /\ \A i \in 1..n - 1 : ticks'[i] = ticks[i]
  <2>1. ticks'[n].telemetry = FALSE BY <1>0, <1>1, <1>2, RecordFacts
  <2> QED BY <1>0, <1>1, <1>2, <2>1, RecordFacts
<1>4. /\ rows' \in [Trials -> UNION {[D -> Row] : D \in SUBSET (DOMAIN ticks')}]
      /\ agg' \in UNION {[D -> SUBSET Elements] : D \in SUBSET (DOMAIN ticks')}
      /\ TicksInTurn' /\ CampaignCovers' /\ TrialsGrow'
  BY <1>0, <1>1, <1>2, RecordKeeps
<1> HIDE DEF n
<1>5. TypeOK' BY <1>1, <1>3, <1>4 DEF TypeOK
<1>6. TrialTimes' /\ DueInTime'
  <2>1. Active' = Active BY <1>1 DEF Active
  <2> QED BY <1>1, <2>1 DEF TrialTimes, DueInTime
<1>7. TicksInTime'
  <2>1. ASSUME NEW i \in 1..n, NEW t \in ticks'[i].trials
        PROVE  /\ started[t] > 0 /\ started[t] < ticks'[i].ts
               /\ ticks'[i].telemetry =>
                    /\ ticks'[i].ts < started[t] + TimeLimit
                    /\ nextDue[t] > 0 => ticks'[i].ts < nextDue[t]
                    /\ \A k \in DOMAIN due : t \in due[k].trials => ticks'[i].ts < due[k].ts
                    /\ \A j \in 1..n :
                         j < i /\ ticks'[j].telemetry /\ t \in ticks'[j].trials => ticks'[j].ts < ticks'[i].ts
               /\ ~ticks'[i].telemetry => started[t] + TimeLimit <= ticks'[i].ts
    <3>1. CASE i = n
      <4>1. t \in Trials BY <1>3, <2>1, <3>1
      <4>2. started[t] > 0 /\ started[t] + TimeLimit <= clock BY <1>1, <4>1 DEF TrialTimes
      <4>3. started[t] < clock BY <1>0, <4>1, <4>2
      <4> QED BY <1>3, <3>1, <4>2, <4>3
    <3>2. CASE i # n
      <4>1. i \in DOMAIN ticks /\ ticks'[i] = ticks[i] BY <1>3, <3>2
      <4>2. \A j \in 1..n : j < i => j \in DOMAIN ticks /\ ticks'[j] = ticks[j] BY <1>3, <3>2
      <4>3. t \in ticks[i].trials BY <2>1, <4>1
      <4>5. ticks[i].telemetry => \A j \in 1..n : j < i /\ ticks'[j].telemetry /\ t \in ticks'[j].trials
              => ticks'[j].ts < ticks[i].ts
        BY <4>1, <4>2, <4>3 DEF TicksInTime
      <4>6. /\ started[t] > 0 /\ started[t] < ticks[i].ts
            /\ ticks[i].telemetry =>
                 /\ ticks[i].ts < started[t] + TimeLimit
                 /\ nextDue[t] > 0 => ticks[i].ts < nextDue[t]
                 /\ \A k \in DOMAIN due : t \in due[k].trials => ticks[i].ts < due[k].ts
            /\ ~ticks[i].telemetry => started[t] + TimeLimit <= ticks[i].ts
        BY <4>1, <4>3 DEF TicksInTime
      <4> QED BY <4>1, <4>5, <4>6
    <3> QED BY <3>1, <3>2
  <2>2. ASSUME NEW i \in 1..n, NEW j \in 1..n, ~ticks'[i].telemetry, ~ticks'[j].telemetry
        PROVE  i = j
    <3>1. \A k \in 1..n - 1 : ticks'[k].telemetry
      BY <1>1, <1>3 DEF FinalRecorded
    <3>2. i = n /\ j = n BY <1>3, <2>2, <3>1
    <3> QED BY <3>2
  <2> QED BY <1>1, <1>3, <2>1, <2>2 DEF TicksInTime
<1> QED BY <1>4, <1>5, <1>6, <1>7

-----------------------------------------------------------------------------
(* Measuring *)

\* The tick in hand leaves its status, the ticks behind it stay queued.
LEMMA TurnKeeps ==
  ASSUME TypeOK, TicksInTurn, Pending # {}, DOMAIN ticks' = DOMAIN ticks,
         \A i \in DOMAIN ticks \ {Current} : ticks'[i].status = ticks[i].status
  PROVE  TicksInTurn'
<1>1. Current \in Pending /\ \A i \in Pending : Current <= i BY CurrentIs
<1>2. DOMAIN ticks \subseteq Nat BY Typed
<1>3. ASSUME NEW i \in DOMAIN ticks, NEW j \in DOMAIN ticks, i < j, i \in Pending'
      PROVE  ticks'[j].status = "queued"
  <2>1. i \in Pending BY <1>1, <1>3 DEF Pending
  <2>2. Current <= i /\ Current \in DOMAIN ticks BY <1>1, <2>1 DEF Pending
  <2>3. j # Current BY <1>2, <1>3, <2>2
  <2>4. ticks[j].status = "queued" BY <1>3, <2>1 DEF TicksInTurn
  <2> QED BY <2>3, <2>4
<1> QED BY <1>3 DEF TicksInTurn

LEMMA SetFacts ==
  ASSUME TypeOK, Pending # {}, NEW s \in Statuses, Set(s)
  PROVE  /\ ticks' \in Seq(Tick) /\ DOMAIN ticks' = DOMAIN ticks
         /\ ticks'[Current].status = s
         /\ \A i \in DOMAIN ticks : /\ ticks'[i].ts = ticks[i].ts
                                    /\ ticks'[i].trials = ticks[i].trials
                                    /\ ticks'[i].telemetry = ticks[i].telemetry
                                    /\ i # Current => ticks'[i].status = ticks[i].status
<1> DEFINE c == Current
           x == [ticks[c] EXCEPT !.status = s]
<1>1. c \in DOMAIN ticks /\ ticks[c] \in Tick /\ DOMAIN ticks = 1..Len(ticks)
  BY CurrentIs, Typed
<1>2. ticks' = [ticks EXCEPT ![c] = x] BY DEF Set
<1> HIDE DEF c
<1>3. /\ x \in Tick /\ x.status = s /\ x.ts = ticks[c].ts /\ x.trials = ticks[c].trials
      /\ x.telemetry = ticks[c].telemetry
  BY <1>1 DEF Tick
<1> HIDE DEF x
<1>4. ticks \in Seq(Tick) BY DEF TypeOK
<1>5. ticks' \in Seq(Tick) BY <1>1, <1>2, <1>3, <1>4, ExceptSeq
<1>6. DOMAIN ticks' = DOMAIN ticks BY <1>2
<1>7. \A i \in DOMAIN ticks : ticks'[i] = IF i = c THEN x ELSE ticks[i] BY <1>2
<1> QED BY <1>1, <1>3, <1>5, <1>6, <1>7 DEF c

\* What a step of the tick in hand leaves alone.
LEMMA SetKeeps ==
  ASSUME FiguresInv, Pending # {}, NEW s \in Statuses, Set(s),
         UNCHANGED <<clock, started, ended, nextDue, due>>, stopping' = stopping \/ stopping'
  PROVE  TicksInTurn' /\ TrialTimes' /\ DueInTime' /\ TicksInTime'
BY SetFacts, TurnKeeps, SameTimes DEF FiguresInv

LEMMA RowsType ==
  ASSUME DOMAIN ticks' = DOMAIN ticks, rows' = [t \in Trials |-> rows'[t]],
         \A t \in Trials : /\ DOMAIN rows'[t] \subseteq DOMAIN ticks
                           /\ rows'[t] \in [DOMAIN rows'[t] -> Row]
  PROVE  rows' \in [Trials -> UNION {[D -> Row] : D \in SUBSET (DOMAIN ticks')}]
<1>1. \A t \in Trials : rows'[t] \in UNION {[D -> Row] : D \in SUBSET (DOMAIN ticks')}
  OBVIOUS
<1> QED BY <1>1

\* What a trial or the campaign had covered is what its last rows say.
LEMMA CarriedIs ==
  ASSUME FiguresInv, NEW t \in Trials
  PROVE  /\ Carried(t) \in Coverage
         /\ CoveredBy(seed) \subseteq CoveredBy(Carried(t))
         /\ \A i \in DOMAIN rows[t] : CoveredBy(rows[t][i].cov) \subseteq CoveredBy(Carried(t))
<1> USE DEF FiguresInv
<1> DEFINE D == DOMAIN rows[t]
<1>1. /\ Len(ticks) \in Nat /\ D \in SUBSET (1..Len(ticks))
      /\ \A i \in D : rows[t][i] \in Row
  BY Typed
<1>2. CASE D = {}
  BY <1>2 DEF Carried, TypeOK
<1>3. CASE D # {}
  <2> DEFINE m == Max(D)
  <2>1. m \in D /\ \A i \in D : i <= m
    <3> HIDE DEF D
    <3> QED BY <1>1, <1>3, MaxOfIndices
  <2>2. Carried(t) = rows[t][m].cov BY <1>3 DEF Carried
  <2> HIDE DEF m
  <2>3. rows[t][m].cov \in Coverage BY <1>1, <2>1 DEF Row
  <2>4. \A i \in D : i = m \/ i < m BY <1>1, <2>1
  <2> QED BY <2>1, <2>2, <2>3, <2>4 DEF TrialsGrow
<1> QED BY <1>2, <1>3

LEMMA CampaignBeforeIs ==
  ASSUME FiguresInv
  PROVE  /\ CampaignBefore \subseteq Elements
         /\ CoveredBy(seed) \subseteq CampaignBefore
         /\ \A i \in DOMAIN agg : agg[i] \subseteq CampaignBefore
<1> USE DEF FiguresInv
<1> DEFINE D == DOMAIN agg
<1>1. /\ Len(ticks) \in Nat /\ D \in SUBSET (1..Len(ticks))
      /\ \A i \in D : agg[i] \in SUBSET Elements
  BY Typed
<1>2. CASE D = {}
  <2>1. CoveredBy(seed) \subseteq Elements BY DEF TypeOK, Coverage, CoveredBy
  <2> QED BY <1>2, <2>1 DEF CampaignBefore
<1>3. CASE D # {}
  <2> DEFINE m == Max(D)
  <2>1. m \in D /\ \A i \in D : i <= m
    <3> HIDE DEF D
    <3> QED BY <1>1, <1>3, MaxOfIndices
  <2>2. CampaignBefore = agg[m] BY <1>3 DEF CampaignBefore
  <2> HIDE DEF m
  <2>4. \A i \in D : i = m \/ i < m BY <1>1, <2>1
  <2> QED BY <1>1, <2>1, <2>2, <2>4 DEF CampaignCovers
<1> QED BY <1>2, <1>3

LEMMA MeasureInv ==
  ASSUME FiguresInv, Measure
  PROVE  FiguresInv'
<1> USE DEF FiguresInv
<1> DEFINE c == Current
           S == ticks[c].trials
<1>1. /\ Pending # {} /\ ticks[c].status = "queued" /\ Set("measured")
      /\ UNCHANGED <<clock, seed, started, ended, nextDue, due, stopping>>
  BY DEF Measure, At
<1>2. PICK more \in [S -> Coverage] :
       LET cov == [t \in DOMAIN more |->
             IF more[t] = NoCoverage THEN Carried(t) ELSE CoveredBy(Carried(t)) \cup more[t]]
       IN /\ rows' = [t \in Trials |->
               IF t \in DOMAIN cov
               THEN [i \in DOMAIN rows[t] \cup {c} |->
                       IF i = c THEN [cov |-> cov[t], hits |-> {}] ELSE rows[t][i]]
               ELSE rows[t]]
          /\ agg' = [i \in DOMAIN agg \cup {c} |->
               IF i = c
               THEN CampaignBefore \cup UNION {CoveredBy(cov[t]) : t \in DOMAIN cov}
               ELSE agg[i]]
  BY DEF Measure
<1> DEFINE cov == [t \in S |->
             IF more[t] = NoCoverage THEN Carried(t) ELSE CoveredBy(Carried(t)) \cup more[t]]
           all == CampaignBefore \cup UNION {CoveredBy(cov[t]) : t \in S}
<1>3. /\ rows' = [t \in Trials |->
            IF t \in S
            THEN [i \in DOMAIN rows[t] \cup {c} |->
                    IF i = c THEN [cov |-> cov[t], hits |-> {}] ELSE rows[t][i]]
            ELSE rows[t]]
      /\ agg' = [i \in DOMAIN agg \cup {c} |-> IF i = c THEN all ELSE agg[i]]
  <2>1. DOMAIN more = S OBVIOUS
  <2> QED BY <1>2, <2>1
<1>4. c \in DOMAIN ticks /\ c \in Pending /\ (\A i \in Pending : c <= i) /\ S \subseteq Trials
      /\ DOMAIN ticks \subseteq Nat
  BY <1>1, CurrentIs, Typed DEF Tick
<1>5. ASSUME NEW t \in S
      PROVE  /\ cov[t] \in Coverage
             /\ CoveredBy(Carried(t)) \subseteq CoveredBy(cov[t])
  <2>1. t \in Trials /\ Carried(t) \in Coverage BY <1>4, CarriedIs
  <2>2. CASE more[t] = NoCoverage
    <3>1. cov[t] = Carried(t) BY <2>2
    <3> QED BY <2>1, <3>1
  <2>3. CASE more[t] # NoCoverage
    <3>1. cov[t] = CoveredBy(Carried(t)) \cup more[t] BY <2>3
    <3>2. more[t] \in SUBSET Elements BY <2>3 DEF Coverage
    <3>3. CoveredBy(Carried(t)) \in SUBSET Elements BY <2>1 DEF CoveredBy, Coverage
    <3>4. cov[t] \in SUBSET Elements BY <3>1, <3>2, <3>3
    <3>5. CoveredBy(cov[t]) = cov[t] BY <3>4, ReportAssumption DEF CoveredBy
    <3> QED BY <3>1, <3>4, <3>5 DEF Coverage
  <2> QED BY <2>2, <2>3
<1>6. /\ all \in SUBSET Elements /\ CampaignBefore \subseteq all
      /\ \A t \in S : CoveredBy(cov[t]) \subseteq all
  <2>1. \A t \in S : CoveredBy(cov[t]) \subseteq Elements BY <1>5 DEF CoveredBy, Coverage
  <2> HIDE DEF cov
  <2> QED BY <2>1, CampaignBeforeIs
<1>7. /\ ticks' \in Seq(Tick) /\ DOMAIN ticks' = DOMAIN ticks
      /\ ticks'[c].status = "measured"
      /\ \A i \in DOMAIN ticks : /\ ticks'[i].trials = ticks[i].trials
                                 /\ i # c => ticks'[i].status = ticks[i].status
  BY <1>1, SetFacts DEF Statuses
<1>8. TicksInTurn' /\ TrialTimes' /\ DueInTime' /\ TicksInTime'
  BY <1>1, SetKeeps DEF Statuses
<1> HIDE DEF cov, all, c, S
\* The tick in hand comes after every tick that was measured.
<1>9. \A i \in DOMAIN agg : i \in DOMAIN ticks /\ i < c /\ i # c
  <2> TAKE i \in DOMAIN agg
  <2>1. i \in DOMAIN ticks /\ ticks[i].status # "queued" BY Typed DEF CampaignCovers
  <2>2. i # c BY <1>1, <2>1 DEF c
  <2>3. ~ (c < i) BY <1>4, <2>1 DEF TicksInTurn
  <2> QED BY <1>4, <2>1, <2>2, <2>3
<1>10. \A t \in Trials : \A i \in DOMAIN rows[t] : i \in DOMAIN agg /\ i \in DOMAIN ticks /\ i < c /\ i # c
  BY <1>9 DEF CampaignCovers
<1>11. ASSUME NEW t \in Trials
       PROVE  /\ DOMAIN rows'[t] = DOMAIN rows[t] \cup (IF t \in S THEN {c} ELSE {})
              /\ rows'[t] = [i \in DOMAIN rows'[t] |-> rows'[t][i]]
              /\ t \in S => rows'[t][c] = [cov |-> cov[t], hits |-> {}]
              /\ \A i \in DOMAIN rows[t] : rows'[t][i] = rows[t][i]
  <2>1. CASE t \in S
    <3>1. rows'[t] = [i \in DOMAIN rows[t] \cup {c} |->
                    IF i = c THEN [cov |-> cov[t], hits |-> {}] ELSE rows[t][i]]
      BY <1>3, <2>1
    <3> QED BY <1>10, <2>1, <3>1
  <2>2. CASE t \notin S
    <3>1. rows'[t] = rows[t] BY <1>3, <2>2
    <3>2. rows[t] \in [DOMAIN rows[t] -> Row] BY Typed
    <3> QED BY <2>2, <3>1, <3>2
  <2> QED BY <2>1, <2>2
<1>12. ASSUME NEW t \in Trials, NEW i \in DOMAIN rows'[t], i \notin DOMAIN rows[t]
       PROVE  t \in S /\ i = c /\ rows'[t][i].cov = cov[t] /\ rows'[t][i].hits = {}
                /\ rows'[t][i] = [cov |-> cov[t], hits |-> {}]
  <2>1. DOMAIN rows'[t] = DOMAIN rows[t] \cup (IF t \in S THEN {c} ELSE {}) BY <1>11
  <2>2. t \in S /\ i = c BY <1>12, <2>1
  <2>3. rows'[t][i] = [cov |-> cov[t], hits |-> {}] BY <1>11, <2>2
  <2> QED BY <2>2, <2>3
<1>13. /\ DOMAIN agg' = DOMAIN agg \cup {c} /\ agg'[c] = all
       /\ \A i \in DOMAIN agg : agg'[i] = agg[i]
  BY <1>3, <1>9
<1>14. TypeOK'
  <2>1. \A t \in Trials : DOMAIN rows'[t] \subseteq DOMAIN ticks /\ rows'[t] \in [DOMAIN rows'[t] -> Row]
    <3> TAKE t \in Trials
    <3>1. DOMAIN rows'[t] \subseteq DOMAIN ticks
      <4>1. \A i \in DOMAIN rows'[t] : i \in DOMAIN rows[t] \/ i = c BY <1>12
      <4> QED BY <1>4, <1>10, <4>1
    <3>2. ASSUME NEW i \in DOMAIN rows'[t] PROVE rows'[t][i] \in Row
      <4>1. CASE i \in DOMAIN rows[t] BY <1>11, <4>1, Typed
      <4>2. CASE i \notin DOMAIN rows[t]
        <5>1. t \in S /\ rows'[t][i] = [cov |-> cov[t], hits |-> {}] BY <1>12, <4>2
        <5> QED BY <1>5, <5>1 DEF Row
      <4> QED BY <4>1, <4>2
    <3> QED BY <1>11, <3>1, <3>2
  <2>2. rows' = [t \in Trials |-> rows'[t]] BY <1>3
  <2>3. rows' \in [Trials -> UNION {[D -> Row] : D \in SUBSET (DOMAIN ticks')}]
    BY <1>7, <2>1, <2>2, RowsType
  <2>4. agg' \in UNION {[D -> SUBSET Elements] : D \in SUBSET (DOMAIN ticks')}
    <3>1. \A i \in DOMAIN agg : agg[i] \in SUBSET Elements BY Typed
    <3>2. agg' \in [DOMAIN agg \cup {c} -> SUBSET Elements] BY <1>3, <1>6, <3>1
    <3>3. DOMAIN agg \cup {c} \in SUBSET (DOMAIN ticks') BY <1>4, <1>7, <1>9
    <3> QED BY <3>2, <3>3
  <2> QED BY <1>1, <1>7, <2>3, <2>4 DEF TypeOK
<1>15. CampaignCovers'
  <2>1. CoveredBy(seed)' = CoveredBy(seed) BY <1>1 DEF CoveredBy
  <2>2. \A i \in DOMAIN agg' : ticks'[i].status # "queued"
    BY <1>7, <1>9, <1>13 DEF CampaignCovers
  <2>3. ASSUME NEW i \in DOMAIN agg', NEW j \in DOMAIN agg', i < j PROVE agg'[i] \subseteq agg'[j]
    <3>1. CASE i = c
      <4>1. j # c /\ j \in DOMAIN agg BY <1>4, <1>13, <2>3, <3>1
      <4> QED BY <1>4, <1>9, <2>3, <3>1, <4>1
    <3>2. CASE i # c /\ j = c
      <4>1. i \in DOMAIN agg BY <1>13, <3>2
      <4> QED BY <1>6, <1>13, <3>2, <4>1, CampaignBeforeIs
    <3>3. CASE i # c /\ j # c BY <1>13, <2>3, <3>3 DEF CampaignCovers
    <3> QED BY <3>1, <3>2, <3>3
  <2>4. \A i \in DOMAIN agg' : CoveredBy(seed) \subseteq agg'[i]
    BY <1>6, <1>13, CampaignBeforeIs DEF CampaignCovers
  <2>5. ASSUME NEW t \in Trials, NEW i \in DOMAIN rows'[t]
        PROVE  i \in DOMAIN agg' /\ t \in ticks'[i].trials /\ CoveredBy(rows'[t][i].cov) \subseteq agg'[i]
    <3>1. CASE i \in DOMAIN rows[t]
      BY <1>7, <1>10, <1>11, <1>13, <3>1 DEF CampaignCovers
    <3>2. CASE i \notin DOMAIN rows[t]
      <4>1. t \in S /\ i = c BY <1>12, <3>2
      <4>2. rows'[t][c].cov = cov[t] BY <1>12, <3>2
      <4>3. t \in ticks'[c].trials BY <1>4, <1>7, <4>1 DEF S
      <4> QED BY <1>6, <1>13, <4>1, <4>2, <4>3
    <3> QED BY <3>1, <3>2
  <2>6. \A t \in Trials : \A i \in DOMAIN rows'[t] : CoveredBy(rows[t][i].cov)' = CoveredBy(rows'[t][i].cov)
    BY DEF CoveredBy
  <2> QED BY <2>1, <2>2, <2>3, <2>4, <2>5 DEF CampaignCovers, CoveredBy
<1>16. TrialsGrow'
  <2>1. ASSUME NEW t \in Trials, NEW i \in DOMAIN rows'[t]
        PROVE  /\ CoveredBy(seed) \subseteq CoveredBy(rows'[t][i].cov)
               /\ \A j \in DOMAIN rows'[t] :
                    i < j => CoveredBy(rows'[t][i].cov) \subseteq CoveredBy(rows'[t][j].cov)
    <3>1. CASE i \notin DOMAIN rows[t]
      <4>1. t \in S /\ i = c /\ rows'[t][i].cov = cov[t] BY <1>12, <3>1
      <4>2. CoveredBy(seed) \subseteq CoveredBy(rows'[t][i].cov) BY <1>5, <4>1, CarriedIs
      <4>3. \A j \in DOMAIN rows'[t] : ~ (i < j)
        <5> TAKE j \in DOMAIN rows'[t]
        <5>1. CASE j \in DOMAIN rows[t] BY <1>4, <1>10, <4>1, <5>1
        <5>2. CASE j \notin DOMAIN rows[t]
          <6>1. j = c /\ c \in Nat BY <1>4, <1>12, <5>2
          <6> QED BY <4>1, <6>1
        <5> QED BY <5>1, <5>2
      <4> QED BY <4>2, <4>3
    <3>2. CASE i \in DOMAIN rows[t]
      <4>1. rows'[t][i].cov = rows[t][i].cov BY <1>11, <3>2
      <4>2. ASSUME NEW j \in DOMAIN rows'[t], i < j
            PROVE  CoveredBy(rows[t][i].cov) \subseteq CoveredBy(rows'[t][j].cov)
        <5>1. CASE j \in DOMAIN rows[t] BY <1>11, <3>2, <4>2, <5>1 DEF TrialsGrow
        <5>2. CASE j \notin DOMAIN rows[t]
          <6>1. t \in S /\ rows'[t][j].cov = cov[t] BY <1>12, <5>2
          <6> QED BY <1>5, <3>2, <6>1, CarriedIs
        <5> QED BY <5>1, <5>2
      <4> QED BY <3>2, <4>1, <4>2 DEF TrialsGrow
    <3> QED BY <3>1, <3>2
  <2> QED BY <1>1, <2>1 DEF TrialsGrow, CoveredBy
<1> QED BY <1>8, <1>14, <1>15, <1>16

\* A step that finds hits, or that only ends the tick, leaves the coverage.
LEMMA SameCoverage ==
  ASSUME FiguresInv, DOMAIN ticks' = DOMAIN ticks, UNCHANGED <<seed, agg>>,
         \A i \in DOMAIN ticks : /\ ticks'[i].trials = ticks[i].trials
                                 /\ ticks[i].status # "queued" => ticks'[i].status # "queued",
         \A t \in Trials : DOMAIN rows'[t] = DOMAIN rows[t] /\
           \A i \in DOMAIN rows[t] : rows'[t][i].cov = rows[t][i].cov
  PROVE  CampaignCovers' /\ TrialsGrow'
<1> USE DEF FiguresInv
<1>1. DOMAIN agg \subseteq DOMAIN ticks BY Typed
<1>2. CampaignCovers' BY <1>1 DEF CampaignCovers, CoveredBy
<1>3. TrialsGrow' BY DEF TrialsGrow, CoveredBy
<1> QED BY <1>2, <1>3

LEMMA ReproduceInv ==
  ASSUME FiguresInv, Reproduce
  PROVE  FiguresInv'
<1> USE DEF FiguresInv
<1> DEFINE c == Current
           S == ticks[c].trials
<1>1. /\ Pending # {} /\ ticks[c].status = "measured" /\ Set("reproduced")
      /\ UNCHANGED <<clock, seed, started, ended, nextDue, due, agg, stopping>>
  BY DEF Reproduce, At
<1>2. PICK found \in [S -> SUBSET Bugs] :
       rows' = [t \in Trials |->
         IF t \in S THEN [rows[t] EXCEPT ![c].hits = found[t]] ELSE rows[t]]
  <2>1. PICK found \in [S -> SUBSET Bugs] :
       rows' = [t \in Trials |->
         IF t \in DOMAIN found THEN [rows[t] EXCEPT ![c].hits = found[t]] ELSE rows[t]]
    BY DEF Reproduce
  <2>2. DOMAIN found = S OBVIOUS
  <2> QED BY <2>1, <2>2
<1>3. /\ ticks' \in Seq(Tick) /\ DOMAIN ticks' = DOMAIN ticks
      /\ ticks'[c].status = "reproduced"
      /\ \A i \in DOMAIN ticks : /\ ticks'[i].trials = ticks[i].trials
                                 /\ i # c => ticks'[i].status = ticks[i].status
  BY <1>1, SetFacts DEF Statuses
<1>4. TicksInTurn' /\ TrialTimes' /\ DueInTime' /\ TicksInTime'
  BY <1>1, SetKeeps DEF Statuses
<1> HIDE DEF c, S
<1>5. ASSUME NEW t \in Trials
      PROVE  /\ DOMAIN rows'[t] = DOMAIN rows[t] /\ rows'[t] \in [DOMAIN rows[t] -> Row]
             /\ \A i \in DOMAIN rows[t] : rows'[t][i].cov = rows[t][i].cov
  <2>1. rows[t] \in [DOMAIN rows[t] -> Row] BY Typed
  <2>2. CASE t \in S
    <3> DEFINE x == [rows[t][c] EXCEPT !.hits = found[t]]
    <3>1. rows'[t] = [rows[t] EXCEPT ![c] = x] BY <1>2, <2>2
    <3>2. c \in DOMAIN rows[t] => x \in Row /\ x.cov = rows[t][c].cov
      BY <1>2, <2>1, <2>2 DEF Row
    <3> HIDE DEF x
    <3> QED BY <2>1, <3>1, <3>2
  <2>3. CASE t \notin S
    <3>1. rows'[t] = rows[t] BY <1>2, <2>3
    <3> QED BY <2>1, <3>1
  <2> QED BY <2>2, <2>3
<1>6. TypeOK'
  <2>1. \A t \in Trials : DOMAIN rows'[t] \subseteq DOMAIN ticks /\ rows'[t] \in [DOMAIN rows'[t] -> Row]
    BY <1>5, Typed
  <2>2. rows' = [t \in Trials |-> rows'[t]] BY <1>2
  <2>3. rows' \in [Trials -> UNION {[D -> Row] : D \in SUBSET (DOMAIN ticks')}]
    BY <1>3, <2>1, <2>2, RowsType
  <2> QED BY <1>1, <1>3, <2>3 DEF TypeOK
<1>7. CampaignCovers' /\ TrialsGrow'
  BY <1>1, <1>3, <1>5, SameCoverage
<1> QED BY <1>4, <1>6, <1>7

LEMMA CompleteInv ==
  ASSUME FiguresInv, Complete
  PROVE  FiguresInv'
<1> USE DEF FiguresInv
<1>1. /\ Pending # {} /\ Set("completed")
      /\ UNCHANGED <<clock, seed, started, ended, nextDue, due, rows, agg, stopping>>
  BY DEF Complete, At
<1>3. /\ ticks' \in Seq(Tick) /\ DOMAIN ticks' = DOMAIN ticks
      /\ ticks'[Current].status = "completed"
      /\ \A i \in DOMAIN ticks : /\ ticks'[i].trials = ticks[i].trials
                                 /\ i # Current => ticks'[i].status = ticks[i].status
  BY <1>1, SetFacts DEF Statuses
<1>4. TicksInTurn' /\ TrialTimes' /\ DueInTime' /\ TicksInTime'
  BY <1>1, SetKeeps DEF Statuses
<1>5. TypeOK' BY <1>1, <1>3 DEF TypeOK
<1>6. CampaignCovers' /\ TrialsGrow'
  BY <1>1, <1>3, SameCoverage
<1> QED BY <1>4, <1>5, <1>6

LEMMA FailInv ==
  ASSUME FiguresInv, Fail
  PROVE  FiguresInv'
<1> USE DEF FiguresInv
<1>1. /\ Pending # {} /\ stopping'
      /\ UNCHANGED <<clock, seed, started, ended, nextDue, due, rows, agg>>
  BY DEF Fail
<1>2. CASE stopping
  <2>1. Set("aborted") BY <1>2 DEF Fail
  <2>2. /\ ticks' \in Seq(Tick) /\ DOMAIN ticks' = DOMAIN ticks
        /\ ticks'[Current].status = "aborted"
        /\ \A i \in DOMAIN ticks : /\ ticks'[i].trials = ticks[i].trials
                                   /\ i # Current => ticks'[i].status = ticks[i].status
    BY <1>1, <2>1, SetFacts DEF Statuses
  <2>3. TicksInTurn' /\ TrialTimes' /\ DueInTime' /\ TicksInTime'
    BY <1>1, <2>1, SetKeeps DEF Statuses
  <2>4. stopping' \in BOOLEAN BY DEF Fail
  <2>5. TypeOK' BY <1>1, <2>2, <2>4 DEF TypeOK
  <2>6. CampaignCovers' /\ TrialsGrow'
    BY <1>1, <2>2, SameCoverage
  <2> QED BY <2>3, <2>5, <2>6
<1>3. CASE ~stopping
  <2> DEFINE st(i) == IF i = Current THEN "failed" ELSE IF i \in Pending THEN "aborted" ELSE ticks[i].status
             x(i) == [ticks[i] EXCEPT !.status = st(i)]
  <2>1. ticks' = [i \in DOMAIN ticks |-> x(i)] BY <1>3 DEF Fail
  <2>2. ASSUME NEW i \in DOMAIN ticks
        PROVE  /\ x(i) \in Tick /\ x(i).ts = ticks[i].ts /\ x(i).trials = ticks[i].trials
               /\ x(i).telemetry = ticks[i].telemetry /\ x(i).status = st(i)
    <3>1. ticks[i] \in Tick BY Typed
    <3>2. st(i) \in Statuses BY <3>1 DEF Tick, Statuses
    <3> HIDE DEF st
    <3> QED BY <3>1, <3>2 DEF Tick
  <2>3. \A i \in DOMAIN ticks : st(i) \in {"failed", "aborted"} \/ (i \notin Pending /\ st(i) = ticks[i].status)
    OBVIOUS
  <2> HIDE DEF x, st
  <2>4. /\ DOMAIN ticks' = DOMAIN ticks
        /\ \A i \in DOMAIN ticks : ticks'[i] = x(i)
    BY <2>1
  <2>5. ticks' \in Seq(Tick)
    <3>1. Len(ticks) \in Nat /\ DOMAIN ticks = 1..Len(ticks) BY Typed
    <3>2. ticks' \in [1..Len(ticks) -> Tick] BY <2>1, <2>2, <3>1
    <3> QED BY <3>1, <3>2, SeqDef
  <2>6. Pending' = {}
    <3>1. \A i \in DOMAIN ticks : ticks'[i].status \notin {"queued", "measured", "reproduced"}
      BY <2>2, <2>3, <2>4 DEF Pending
    <3> QED BY <2>4, <3>1 DEF Pending
  <2>7. TicksInTurn' BY <2>6 DEF TicksInTurn
  <2>8. TrialTimes' /\ DueInTime' /\ TicksInTime' BY <1>1, <2>2, <2>4, SameTimes
  <2>9. stopping' \in BOOLEAN BY DEF Fail
  <2>10. TypeOK' BY <1>1, <2>4, <2>5, <2>9 DEF TypeOK
  <2>11. \A i \in DOMAIN ticks : /\ ticks'[i].trials = ticks[i].trials
                                 /\ ticks[i].status # "queued" => ticks'[i].status # "queued"
    BY <2>2, <2>3, <2>4
  <2>12. CampaignCovers' /\ TrialsGrow'
    BY <1>1, <2>4, <2>11, SameCoverage
  <2> QED BY <2>7, <2>8, <2>10, <2>12
<1> QED BY <1>2, <1>3

LEMMA StutterInv ==
  ASSUME FiguresInv, UNCHANGED vars
  PROVE  FiguresInv'
<1> USE DEF FiguresInv, vars
<1>1. TypeOK' BY DEF TypeOK
<1>2. TicksInTurn' /\ CampaignCovers' /\ TrialsGrow' BY SameFigures
<1>3. TrialTimes' /\ DueInTime' /\ TicksInTime' BY SameTimes
<1> QED BY <1>1, <1>2, <1>3

LEMMA NextInv == FiguresInv /\ [Next]_vars => FiguresInv'
<1> SUFFICES ASSUME FiguresInv, [Next]_vars PROVE FiguresInv' OBVIOUS
<1>1. CASE Tock BY <1>1, TockInv
<1>2. CASE Stop BY <1>2, StopInv
<1>3. CASE TakeDue BY <1>3, TakeDueInv
<1>4. CASE PeriodicTick BY <1>4, PeriodicTickInv
<1>5. CASE FinalTick BY <1>5, FinalTickInv
<1>6. CASE Measure BY <1>6, MeasureInv
<1>7. CASE Reproduce BY <1>7, ReproduceInv
<1>8. CASE Complete BY <1>8, CompleteInv
<1>9. CASE Fail BY <1>9, FailInv
<1>10. ASSUME NEW t \in Trials, Start(t) PROVE FiguresInv' BY <1>10, StartInv
<1>11. ASSUME NEW t \in Trials, End(t) PROVE FiguresInv' BY <1>11, EndInv
<1>12. CASE UNCHANGED vars BY <1>12, StutterInv
<1> QED
  BY <1>1, <1>2, <1>3, <1>4, <1>5, <1>6, <1>7, <1>8, <1>9, <1>10, <1>11, <1>12 DEF Next

\* The inductive invariant holds: ticks are measured in turn, the coverage of the
\* trials and of the campaign grows with them, and the times of a trial's periodic
\* ticks grow within its time limit (SnapshotScheduler, db/snapshot.py).
THEOREM FiguresInvHolds == Spec => []FiguresInv
<1>1. Init => FiguresInv BY InitInv
<1>2. FiguresInv /\ [Next]_vars => FiguresInv' BY NextInv
<1> QED BY <1>1, <1>2, PTL DEF Spec

-----------------------------------------------------------------------------
(* Coverage of the campaign *)

\* The rows of a trial that a report shows, and what a report knows of them.
LEMMA ShownRows ==
  ASSUME FiguresInv, NEW t \in Trials
  PROVE  /\ SnapshotRows(t) \subseteq DOMAIN rows[t] /\ DOMAIN rows[t] \subseteq DOMAIN ticks
         /\ DOMAIN rows[t] \in SUBSET Nat /\ IsFiniteSet(DOMAIN rows[t])
         /\ SnapshotRows(t) \in SUBSET Nat /\ IsFiniteSet(SnapshotRows(t))
         /\ Measured(t) \subseteq SnapshotRows(t)
         /\ DOMAIN ticks \in SUBSET Nat /\ IsFiniteSet(DOMAIN ticks)
         /\ SnapshotRows(t) # {} =>
              Latest(t) \in SnapshotRows(t) /\ \A i \in SnapshotRows(t) : i <= Latest(t)
<1> USE DEF FiguresInv
<1>1. /\ Len(ticks) \in Nat /\ DOMAIN ticks = 1..Len(ticks)
      /\ DOMAIN rows[t] \subseteq DOMAIN ticks
  BY Typed
<1>2. SnapshotRows(t) \subseteq DOMAIN rows[t] BY DEF SnapshotRows
<1>3. IsFiniteSet(1..Len(ticks)) BY <1>1, FS_Interval
<1>4. IsFiniteSet(DOMAIN ticks) /\ IsFiniteSet(DOMAIN rows[t]) /\ IsFiniteSet(SnapshotRows(t))
  BY <1>1, <1>2, <1>3, FS_Subset
<1>5. DOMAIN ticks \in SUBSET Nat BY <1>1
<1>6. SnapshotRows(t) # {} =>
        Latest(t) \in SnapshotRows(t) /\ \A i \in SnapshotRows(t) : i <= Latest(t)
  <2> DEFINE S == SnapshotRows(t)
  <2>1. S \in SUBSET Nat /\ IsFiniteSet(S) BY <1>1, <1>2, <1>4, <1>5
  <2> HIDE DEF S
  <2>2. S # {} => Max(S) \in S /\ \A i \in S : i <= Max(S) BY <2>1, MaxOfFinite
  <2> QED BY <2>2 DEF Latest, S
<1> QED BY <1>1, <1>2, <1>4, <1>5, <1>6 DEF Measured

LEMMA CoversTrials == FiguresInv => AggregateCoversTrials
<1> SUFFICES ASSUME FiguresInv, NEW t \in Shown, HasFinal(t)
             PROVE  AggRows # {} /\ rows[t][Latest(t)].cov \subseteq agg[Max(AggRows)]
  BY DEF AggregateCoversTrials
<1> DEFINE l == Latest(t)
           m == Max(AggRows)
<1>1. t \in Trials BY DEF Shown
<1>2. l \in SnapshotRows(t) /\ l \in Measured(t) BY <1>1, ShownRows DEF HasFinal
<1>3. /\ l \in DOMAIN rows[t] /\ ticks[l].status = "completed" /\ rows[t][l].cov # NoCoverage
  BY <1>2 DEF SnapshotRows, Measured
<1>4. l \in DOMAIN agg /\ rows[t][l].cov \subseteq agg[l]
  BY <1>1, <1>3 DEF FiguresInv, CampaignCovers, CoveredBy
<1>5. l \in AggRows BY <1>3, <1>4 DEF AggRows
<1>6. AggRows \subseteq DOMAIN agg /\ DOMAIN agg \subseteq DOMAIN ticks
  BY Typed DEF AggRows, FiguresInv
<1>7. AggRows \in SUBSET (1..Len(ticks)) /\ Len(ticks) \in Nat
  BY <1>6, Typed DEF FiguresInv
<1>8. m \in AggRows /\ l <= m BY <1>5, <1>7, MaxOfIndices
<1>9. agg[l] \subseteq agg[m]
  <2>0. \A i \in AggRows : i \in Nat BY <1>7
  <2> HIDE DEF l, m
  <2>1. l \in Nat /\ m \in Nat BY <1>5, <1>8, <2>0
  <2>2. l = m \/ l < m BY <1>8, <2>1
  <2> QED BY <1>4, <1>6, <1>8, <2>2 DEF FiguresInv, CampaignCovers
<1> QED BY <1>4, <1>5, <1>9

\* At whatever moment a report is made, the campaign coverage it shows holds the
\* coverage of each trial it shows (latest_agg_snapshots_by_fuzzer_target).
THEOREM CampaignCoversTrials == Spec => []AggregateCoversTrials
BY FiguresInvHolds, CoversTrials, PTL

-----------------------------------------------------------------------------
(* Totals of hits and bugs *)

LEMMA NotMore ==
  ASSUME NEW S, NEW T, IsFiniteSet(T), NEW f \in [S -> T],
         \A x, y \in S : f[x] = f[y] => x = y
  PROVE  /\ IsFiniteSet(S) /\ Cardinality(S) <= Cardinality(T)
         /\ (\A z \in T : \E x \in S : f[x] = z) => Cardinality(S) = Cardinality(T)
<1>1. f \in Injection(S, T) BY DEF Injection, IsInjective
<1>2. (\A z \in T : \E x \in S : f[x] = z) => f \in Surjection(S, T) BY DEF Surjection
<1> QED BY <1>1, <1>2, FS_Injection

HitsAt(t) == [i \in DOMAIN rows[t] |-> rows[t][i].hits]
New(t, i) == {b \in rows[t][i].hits : \A j \in DOMAIN rows[t] : j < i => b \notin rows[t][j].hits}
Found(t) == UNION {rows[t][i].hits : i \in DOMAIN rows[t]}

LEMMA HitsFinite ==
  ASSUME FiguresInv, NEW t \in Trials
  PROVE  /\ \A i \in DOMAIN rows[t] : rows[t][i].hits \subseteq Bugs /\ IsFiniteSet(rows[t][i].hits)
         /\ Found(t) \subseteq Bugs /\ IsFiniteSet(Found(t)) /\ UniqueTotal(t) = Cardinality(Found(t))
         /\ IsFiniteSet(Pairs(HitsAt(t))) /\ HitsTotal(t) = Cardinality(Pairs(HitsAt(t)))
         /\ HitsTotal(t) \in Nat /\ UniqueTotal(t) \in Nat
<1>1. \A i \in DOMAIN rows[t] : rows[t][i].hits \subseteq Bugs
  BY Typed DEF FiguresInv, Row
<1>2. Found(t) \subseteq Bugs BY <1>1 DEF Found
<1>3. IsFiniteSet(Found(t)) /\ \A i \in DOMAIN rows[t] : IsFiniteSet(rows[t][i].hits)
  BY <1>1, <1>2, ReportAssumption, FS_Subset
<1>4. /\ DOMAIN HitsAt(t) = DOMAIN rows[t]
      /\ \A i \in DOMAIN rows[t] : HitsAt(t)[i] = rows[t][i].hits
  BY DEF HitsAt
<1>5. IsFiniteSet(Pairs(HitsAt(t))) BY <1>3, <1>4, ShownRows, TotalOfSizes
<1>6. HitsTotal(t) = Cardinality(Pairs(HitsAt(t)))
  <2>1. Pairs(HitsAt(t)) = UNION {{i} \X rows[t][i].hits : i \in DOMAIN rows[t]}
    BY DEF Pairs, HitsAt
  <2> QED BY <2>1 DEF HitsTotal
<1>7. UniqueTotal(t) = Cardinality(Found(t)) BY DEF UniqueTotal, Found
<1> QED BY <1>1, <1>2, <1>3, <1>5, <1>6, <1>7, FS_CardinalityType

\* A bug is new in one row of a trial.
LEMMA NewOnce ==
  ASSUME FiguresInv, NEW t \in Trials, NEW D \in SUBSET (DOMAIN rows[t])
  PROVE  LET P == [i \in D |-> New(t, i)]
         IN /\ Total([i \in D |-> Delta(t, i)]) <= UniqueTotal(t)
            /\ (\A i \in DOMAIN rows[t] \ D : rows[t][i].hits = {}) =>
                 Total([i \in D |-> Delta(t, i)]) = UniqueTotal(t)
<1> DEFINE P == [i \in D |-> New(t, i)]
<1>1. DOMAIN rows[t] \in SUBSET Nat /\ IsFiniteSet(DOMAIN rows[t]) BY ShownRows
<1>2. IsFiniteSet(D) /\ D \in SUBSET Nat BY <1>1, FS_Subset
<1>3. \A i \in D : IsFiniteSet(New(t, i))
  <2>1. \A i \in D : New(t, i) \subseteq rows[t][i].hits /\ IsFiniteSet(rows[t][i].hits)
    BY HitsFinite DEF New
  <2> QED BY <2>1, FS_Subset
<1>4. Total([i \in D |-> Delta(t, i)]) = Cardinality(Pairs(P))
  <2>1. DOMAIN P = D /\ \A i \in D : P[i] = New(t, i) OBVIOUS
  <2>2. [i \in D |-> Delta(t, i)] = [i \in D |-> Cardinality(P[i])] BY DEF Delta, New
  <2> HIDE DEF P
  <2>3. Total([i \in D |-> Cardinality(P[i])]) = Cardinality(Pairs(P))
    BY <1>2, <1>3, <2>1, TotalOfSizes
  <2> QED BY <2>2, <2>3
<1>5. ASSUME NEW p \in Pairs(P)
      PROVE  p = <<p[1], p[2]>> /\ p[1] \in D /\ p[2] \in New(t, p[1])
  <2>1. PICK i \in D : \E b \in New(t, i) : p = <<i, b>> BY OfPairs
  <2> QED BY <2>1
<1>6. ASSUME NEW i \in D, NEW b \in New(t, i) PROVE <<i, b>> \in Pairs(P)
  BY InPairs
<1> HIDE DEF P
<1> DEFINE f == [p \in Pairs(P) |-> p[2]]
<1>7. f \in [Pairs(P) -> Found(t)]
  <2>1. \A p \in Pairs(P) : p[2] \in Found(t) BY <1>5 DEF New, Found
  <2> QED BY <2>1
<1>8. ASSUME NEW p \in Pairs(P), NEW q \in Pairs(P), f[p] = f[q] PROVE p = q
  <2>1. /\ p = <<p[1], p[2]>> /\ p[1] \in D /\ p[2] \in New(t, p[1])
        /\ q = <<q[1], q[2]>> /\ q[1] \in D /\ q[2] \in New(t, q[1])
    BY <1>5
  <2>2. p[2] = q[2] BY <1>8
  <2>3. ~ (p[1] < q[1]) /\ ~ (q[1] < p[1]) BY <2>1, <2>2 DEF New
  <2>4. p[1] \in Nat /\ q[1] \in Nat BY <1>2, <2>1
  <2>5. p[1] = q[1] BY <2>3, <2>4
  <2> QED BY <2>1, <2>2, <2>5
<1>9. ASSUME \A i \in DOMAIN rows[t] \ D : rows[t][i].hits = {}, NEW b \in Found(t)
      PROVE  \E p \in Pairs(P) : f[p] = b
  <2> DEFINE I == {i \in DOMAIN rows[t] : b \in rows[t][i].hits}
  <2>1. I \in SUBSET Nat /\ I # {} BY <1>1 DEF Found
  <2>2. PICK i \in I : \A j \in I : i <= j
    <3> HIDE DEF I
    <3> QED BY <2>1, MinOfNats
  <2>3. i \in D BY <1>9
  <2>4. b \in New(t, i)
    <3>1. b \in rows[t][i].hits OBVIOUS
    <3>2. ASSUME NEW j \in DOMAIN rows[t], j < i PROVE b \notin rows[t][j].hits
      <4>1. j \in Nat /\ i \in Nat BY <1>1
      <4>2. ~ (i <= j) BY <3>2, <4>1
      <4> QED BY <2>2, <4>2
    <3> QED BY <3>1, <3>2 DEF New
  <2> QED BY <1>6, <2>3, <2>4
<1> HIDE DEF f
<1>10. /\ Cardinality(Pairs(P)) <= Cardinality(Found(t))
       /\ (\A i \in DOMAIN rows[t] \ D : rows[t][i].hits = {}) =>
            Cardinality(Pairs(P)) = Cardinality(Found(t))
  BY <1>7, <1>8, <1>9, HitsFinite, NotMore
<1> QED BY <1>4, <1>10, HitsFinite

\* The points of a trial and the last of them.
LEMMA PointsAre ==
  ASSUME FiguresInv, NEW t \in Trials
  PROVE  /\ Points(t) \in SUBSET Nat /\ IsFiniteSet(Points(t)) /\ Points(t) \subseteq DOMAIN ticks
         /\ SnapshotRows(t) \subseteq Points(t)
         /\ \A i \in Points(t) : t \in ticks[i].trials
         /\ Points(t) # {} => Max(Points(t)) \in Points(t) /\ \A i \in Points(t) : i <= Max(Points(t))
<1>1. Points(t) \subseteq DOMAIN ticks /\ SnapshotRows(t) \subseteq Points(t)
  BY ShownRows DEF Points, TelemetryRows
<1>2. Points(t) \in SUBSET Nat /\ IsFiniteSet(Points(t)) BY <1>1, ShownRows, FS_Subset
<1>3. \A i \in Points(t) : t \in ticks[i].trials
  BY DEF Points, TelemetryRows, SnapshotRows, FiguresInv, CampaignCovers
<1> QED BY <1>1, <1>2, <1>3, MaxOfFinite

LEMMA CurvesAgree == FiguresInv => CurveTotalsAgree
<1> SUFFICES ASSUME FiguresInv, NEW t \in Shown, Points(t) # {}
             PROVE  LET last == Max(Points(t))
                    IN /\ HitsUpTo(t, last) <= HitsTotal(t)
                       /\ UniqueUpTo(t, last) <= UniqueTotal(t)
                       /\ (\A i \in DOMAIN rows[t] \ SnapshotRows(t) : rows[t][i].hits = {}) =>
                            HitsUpTo(t, last) = HitsTotal(t) /\ UniqueUpTo(t, last) = UniqueTotal(t)
  BY DEF CurveTotalsAgree
<1> DEFINE last == Max(Points(t))
           D == {j \in SnapshotRows(t) : j <= last}
           H == UNION {{i} \X rows[t][i].hits : i \in D}
           A == Pairs(HitsAt(t))
<1>1. t \in Trials BY DEF Shown
<1>2. D = SnapshotRows(t) BY <1>1, PointsAre
<1> HIDE DEF last
<1>3. HitsUpTo(t, last) = Cardinality(H) BY DEF HitsUpTo
<1>4. UniqueUpTo(t, last) = Total([i \in D |-> Delta(t, i)]) BY DEF UniqueUpTo
<1> HIDE DEF D
<1>5. D \in SUBSET (DOMAIN rows[t]) BY <1>1, <1>2, ShownRows
<1>6. A = UNION {{i} \X rows[t][i].hits : i \in DOMAIN rows[t]} BY DEF Pairs, HitsAt
<1>7. H \subseteq A BY <1>5, <1>6
<1>8. (\A i \in DOMAIN rows[t] \ D : rows[t][i].hits = {}) => H = A
  <2> SUFFICES ASSUME \A i \in DOMAIN rows[t] \ D : rows[t][i].hits = {}, NEW p \in A PROVE p \in H
    BY <1>7
  <2>1. PICK i \in DOMAIN rows[t] : p \in {i} \X rows[t][i].hits BY <1>6
  <2>2. i \in D BY <2>1
  <2> QED BY <2>1, <2>2
<1> HIDE DEF H, A
<1>9. IsFiniteSet(A) /\ HitsTotal(t) = Cardinality(A) BY <1>1, HitsFinite DEF A
<1>10. Cardinality(H) <= Cardinality(A) BY <1>7, <1>9, FS_Subset
<1>11. /\ Total([i \in D |-> Delta(t, i)]) <= UniqueTotal(t)
       /\ (\A i \in DOMAIN rows[t] \ D : rows[t][i].hits = {}) =>
            Total([i \in D |-> Delta(t, i)]) = UniqueTotal(t)
  BY <1>1, <1>5, NewOnce
<1> QED BY <1>2, <1>3, <1>4, <1>8, <1>9, <1>10, <1>11 DEF last

\* The bugs of the entry, the bugs of its trials and their hits.
EntryOf(b) == [bug |-> b, hits |-> HitsOf(b), trials |-> FoundBy(b)]
Where(b) == UNION {{t} \X {i \in DOMAIN rows[t] : b \in rows[t][i].hits} : t \in FoundBy(b)}

LEMMA EntriesAre ==
  /\ \A b \in Bugs : FoundBy(b) # {} => EntryOf(b) \in BugEntries
  /\ \A e \in BugEntries : /\ e.bug \in Bugs /\ FoundBy(e.bug) # {} /\ e = EntryOf(e.bug)
                           /\ e.trials = FoundBy(e.bug) /\ e.hits = Cardinality(Where(e.bug))
<1>1. ASSUME NEW b \in Bugs, FoundBy(b) # {} PROVE EntryOf(b) \in BugEntries
  BY <1>1 DEF BugEntries, EntryOf
<1>2. ASSUME NEW e \in BugEntries
      PROVE  /\ e.bug \in Bugs /\ FoundBy(e.bug) # {} /\ e = EntryOf(e.bug)
             /\ e.trials = FoundBy(e.bug) /\ e.hits = Cardinality(Where(e.bug))
  <2>1. PICK b \in {x \in Bugs : FoundBy(x) # {}} :
          e = [bug |-> b, hits |-> HitsOf(b), trials |-> FoundBy(b)]
    BY DEF BugEntries
  <2>2. e.bug = b /\ e.hits = HitsOf(b) /\ e.trials = FoundBy(b) BY <2>1
  <2> QED BY <2>1, <2>2 DEF EntryOf, HitsOf, Where
<1> QED BY <1>1, <1>2

LEMMA InFoundBy ==
  ASSUME NEW t \in Trials, NEW b
  PROVE  t \in FoundBy(b) <=> b \in Found(t)
BY DEF FoundBy, Found

\* A trial has the bugs whose entries list it.
LEMMA UniqueOfEntries ==
  ASSUME FiguresInv, NEW t \in Trials
  PROVE  UniqueTotal(t) = Cardinality({e \in BugEntries : t \in e.trials})
<1> DEFINE E == {e \in BugEntries : t \in e.trials}
           f == [e \in E |-> e.bug]
<1>1. IsFiniteSet(Found(t)) /\ Found(t) \subseteq Bugs /\ UniqueTotal(t) = Cardinality(Found(t))
  BY HitsFinite
<1>2. ASSUME NEW e \in E PROVE e.bug \in Found(t) /\ e = EntryOf(e.bug)
  BY EntriesAre, InFoundBy
<1>3. f \in [E -> Found(t)] BY <1>2
<1>4. ASSUME NEW d \in E, NEW e \in E, f[d] = f[e] PROVE d = e
  <2>1. d.bug = e.bug BY <1>4
  <2>2. d = EntryOf(d.bug) /\ e = EntryOf(e.bug) BY <1>2
  <2> QED BY <2>1, <2>2
<1>5. ASSUME NEW b \in Found(t) PROVE \E e \in E : f[e] = b
  <2>1. t \in FoundBy(b) /\ b \in Bugs BY <1>1, InFoundBy
  <2>2. EntryOf(b) \in BugEntries /\ EntryOf(b).trials = FoundBy(b) /\ EntryOf(b).bug = b
    BY <2>1, EntriesAre DEF EntryOf
  <2>3. EntryOf(b) \in E BY <2>1, <2>2
  <2> QED BY <2>2, <2>3
<1> HIDE DEF f, E
<1>6. Cardinality(E) = Cardinality(Found(t)) BY <1>1, <1>3, <1>4, <1>5, NotMore
<1> QED BY <1>1, <1>6 DEF E

LEMMA TrialsShown ==
  ASSUME FiguresInv, NEW t \in Trials, DOMAIN rows[t] # {}
  PROVE  t \in Shown
<1>1. PICK i \in DOMAIN rows[t] : TRUE OBVIOUS
<1>2. i \in DOMAIN ticks /\ t \in ticks[i].trials
  BY ShownRows DEF FiguresInv, CampaignCovers
<1> QED BY <1>2 DEF FiguresInv, TicksInTime, Shown

\* Every hit of a shown trial is a hit of a bug's entry, and the other way round.
HitsOfTrials(S) == Pairs([t \in S |-> Pairs(HitsAt(t))])
HitsOfBugs == Pairs([e \in BugEntries |-> Where(e.bug)])

LEMMA InHitsOfTrials ==
  ASSUME NEW S, NEW p
  PROVE  p \in HitsOfTrials(S) <=>
           \E t \in S : \E i \in DOMAIN rows[t] : \E b \in rows[t][i].hits : p = <<t, <<i, b>>>>
<1> DEFINE P == [t \in S |-> Pairs(HitsAt(t))]
<1>1. DOMAIN P = S /\ \A t \in S : P[t] = Pairs(HitsAt(t)) OBVIOUS
<1>2. \A t : DOMAIN HitsAt(t) = DOMAIN rows[t] /\ \A i \in DOMAIN rows[t] : HitsAt(t)[i] = rows[t][i].hits
  BY DEF HitsAt
<1>3. HitsOfTrials(S) = Pairs(P) BY DEF HitsOfTrials
<1> HIDE DEF P
<1>4. ASSUME p \in HitsOfTrials(S)
      PROVE  \E t \in S : \E i \in DOMAIN rows[t] : \E b \in rows[t][i].hits : p = <<t, <<i, b>>>>
  <2>1. PICK t \in S : \E q \in Pairs(HitsAt(t)) : p = <<t, q>>
    BY <1>1, <1>3, <1>4, OfPairs
  <2>2. PICK q \in Pairs(HitsAt(t)) : p = <<t, q>> BY <2>1
  <2>3. PICK i \in DOMAIN rows[t] : \E b \in rows[t][i].hits : q = <<i, b>>
    BY <1>2, OfPairs
  <2>4. PICK b \in rows[t][i].hits : q = <<i, b>> BY <2>3
  <2> QED BY <2>2, <2>4
<1>5. ASSUME NEW t \in S, NEW i \in DOMAIN rows[t], NEW b \in rows[t][i].hits, p = <<t, <<i, b>>>>
      PROVE  p \in HitsOfTrials(S)
  <2>1. <<i, b>> \in Pairs(HitsAt(t)) BY <1>2, InPairs
  <2> QED BY <1>1, <1>3, <1>5, <2>1, InPairs
<1> QED BY <1>4, <1>5

LEMMA InHitsOfBugs ==
  ASSUME NEW p
  PROVE  p \in HitsOfBugs <=>
           \E e \in BugEntries : \E t \in FoundBy(e.bug) : \E i \in DOMAIN rows[t] :
             e.bug \in rows[t][i].hits /\ p = <<e, <<t, i>>>>
<1> DEFINE P == [e \in BugEntries |-> Where(e.bug)]
<1>1. DOMAIN P = BugEntries /\ \A e \in BugEntries : P[e] = Where(e.bug) OBVIOUS
<1>2. HitsOfBugs = Pairs(P) BY DEF HitsOfBugs
<1> HIDE DEF P
<1>3. ASSUME p \in HitsOfBugs
      PROVE  \E e \in BugEntries : \E t \in FoundBy(e.bug) : \E i \in DOMAIN rows[t] :
               e.bug \in rows[t][i].hits /\ p = <<e, <<t, i>>>>
  <2>1. PICK e \in BugEntries : \E q \in Where(e.bug) : p = <<e, q>>
    BY <1>1, <1>2, <1>3, OfPairs
  <2>2. PICK q \in Where(e.bug) : p = <<e, q>> BY <2>1
  <2>3. PICK t \in FoundBy(e.bug) : q \in {t} \X {i \in DOMAIN rows[t] : e.bug \in rows[t][i].hits}
    BY DEF Where
  <2>4. PICK i \in DOMAIN rows[t] : e.bug \in rows[t][i].hits /\ q = <<t, i>> BY <2>3
  <2> QED BY <2>2, <2>4
<1>4. ASSUME NEW e \in BugEntries, NEW t \in FoundBy(e.bug), NEW i \in DOMAIN rows[t],
             e.bug \in rows[t][i].hits, p = <<e, <<t, i>>>>
      PROVE  p \in HitsOfBugs
  <2>1. <<t, i>> \in {t} \X {j \in DOMAIN rows[t] : e.bug \in rows[t][j].hits} BY <1>4
  <2>2. <<t, i>> \in Where(e.bug) BY <2>1 DEF Where
  <2> QED BY <1>1, <1>2, <1>4, <2>2, InPairs
<1> QED BY <1>3, <1>4

LEMMA TotalOfTrials ==
  ASSUME FiguresInv, NEW S \in SUBSET Trials
  PROVE  /\ IsFiniteSet(HitsOfTrials(S))
         /\ Total([t \in S |-> HitsTotal(t)]) = Cardinality(HitsOfTrials(S))
<1> DEFINE P == [t \in S |-> Pairs(HitsAt(t))]
<1>1. DOMAIN P = S /\ IsFiniteSet(S) /\ \A t \in S : IsFiniteSet(P[t])
  BY HitsFinite, ReportAssumption, FS_Subset
<1>2. [t \in S |-> HitsTotal(t)] = [t \in S |-> Cardinality(P[t])] BY HitsFinite
<1>3. HitsOfTrials(S) = Pairs(P) BY DEF HitsOfTrials
<1> HIDE DEF P
<1>4. /\ IsFiniteSet(Pairs(P))
      /\ Total([t \in S |-> Cardinality(P[t])]) = Cardinality(Pairs(P))
  BY <1>1, TotalOfSizes
<1> QED BY <1>2, <1>3, <1>4

LEMMA TotalOfBugs ==
  ASSUME FiguresInv
  PROVE  /\ IsFiniteSet(HitsOfBugs)
         /\ Total([e \in BugEntries |-> e.hits]) = Cardinality(HitsOfBugs)
<1> DEFINE P == [e \in BugEntries |-> Where(e.bug)]
<1>1. IsFiniteSet(BugEntries)
  <2> DEFINE f == [e \in BugEntries |-> e.bug]
  <2>1. f \in [BugEntries -> Bugs] BY EntriesAre
  <2>2. ASSUME NEW d \in BugEntries, NEW e \in BugEntries, f[d] = f[e] PROVE d = e
    <3>1. d.bug = e.bug BY <2>2
    <3>2. d = EntryOf(d.bug) /\ e = EntryOf(e.bug) BY EntriesAre
    <3> QED BY <3>1, <3>2
  <2> HIDE DEF f
  <2> QED BY <2>1, <2>2, ReportAssumption, NotMore
<1>2. \A b : IsFiniteSet(Where(b))
  <2> TAKE b
  <2> DEFINE W == Where(b)
  <2>1. FoundBy(b) \subseteq Trials BY DEF FoundBy
  <2>2. \A t \in FoundBy(b) : DOMAIN rows[t] \subseteq DOMAIN ticks /\ IsFiniteSet(DOMAIN ticks)
    BY <2>1, ShownRows
  <2>3. W \in SUBSET (Trials \X DOMAIN ticks) BY <2>1, <2>2 DEF Where
  <2>4. IsFiniteSet(DOMAIN ticks)
    <3>1. Len(ticks) \in Nat /\ DOMAIN ticks = 1..Len(ticks) BY Typed DEF FiguresInv
    <3> QED BY <3>1, FS_Interval
  <2>5. IsFiniteSet(Trials \X DOMAIN ticks) BY <2>4, ReportAssumption, FS_Product
  <2> HIDE DEF W
  <2>6. IsFiniteSet(W) BY <2>3, <2>5, FS_Subset
  <2> QED BY <2>6 DEF W
<1>3. DOMAIN P = BugEntries /\ \A e \in BugEntries : IsFiniteSet(P[e]) BY <1>2
<1>4. [e \in BugEntries |-> e.hits] = [e \in BugEntries |-> Cardinality(P[e])] BY EntriesAre
<1>5. HitsOfBugs = Pairs(P) BY DEF HitsOfBugs
<1> HIDE DEF P
<1>6. /\ IsFiniteSet(Pairs(P))
      /\ Total([e \in BugEntries |-> Cardinality(P[e])]) = Cardinality(Pairs(P))
  BY <1>1, <1>3, TotalOfSizes
<1> QED BY <1>4, <1>5, <1>6

LEMMA EntriesAgree == FiguresInv => EntryTotalsAgree
<1> SUFFICES ASSUME FiguresInv PROVE EntryTotalsAgree OBVIOUS
<1> DEFINE silent == {t \in Shown \ Counted : HitsTotal(t) > 0}
           A == HitsOfTrials(Counted)
           B == HitsOfTrials(silent)
           f == [p \in HitsOfBugs |-> <<p[2][1], <<p[2][2], p[1].bug>>>>]
<1>1. \A t \in Shown : UniqueTotal(t) = Cardinality({e \in BugEntries : t \in e.trials})
  BY UniqueOfEntries DEF Shown
<1>2. \A e \in BugEntries : e.trials \subseteq Shown
  <2> SUFFICES ASSUME NEW e \in BugEntries, NEW t \in FoundBy(e.bug) PROVE t \in Shown
    BY EntriesAre
  <2> QED BY TrialsShown DEF FoundBy
<1>3. Counted \in SUBSET Trials /\ silent \in SUBSET Trials BY DEF Counted, Shown
<1>4. /\ IsFiniteSet(A) /\ Entry.hits = Cardinality(A)
      /\ IsFiniteSet(B) /\ Total([t \in silent |-> HitsTotal(t)]) = Cardinality(B)
  <2> HIDE DEF silent
  <2>1. Entry.hits = Total([t \in Counted |-> HitsTotal(t)]) BY DEF Entry
  <2> QED BY <1>3, <2>1, TotalOfTrials
<1>5. A \cap B = {}
  <2> SUFFICES ASSUME NEW p \in A, p \in B PROVE FALSE OBVIOUS
  <2>1. PICK t \in Counted : \E i \in DOMAIN rows[t] : \E b \in rows[t][i].hits : p = <<t, <<i, b>>>>
    BY InHitsOfTrials
  <2>2. PICK u \in silent : \E i \in DOMAIN rows[u] : \E b \in rows[u][i].hits : p = <<u, <<i, b>>>>
    BY InHitsOfTrials
  <2>3. t = p[1] /\ u = p[1] BY <2>1, <2>2
  <2> QED BY <2>3
<1>6. ASSUME NEW t \in Trials, NEW i \in DOMAIN rows[t], NEW b \in rows[t][i].hits
      PROVE  <<t, <<i, b>>>> \in A \cup B
  <2>1. t \in Shown BY TrialsShown
  <2>2. t \in Counted \/ t \in silent
    <3>1. <<i, b>> \in Pairs(HitsAt(t)) BY InPairs DEF HitsAt
    <3>2. HitsTotal(t) # 0 /\ HitsTotal(t) \in Nat BY <3>1, HitsFinite, FS_EmptySet
    <3> QED BY <2>1, <3>2
  <2> HIDE DEF silent
  <2> QED BY <2>2, InHitsOfTrials
<1>7. ASSUME NEW p \in A \cup B
      PROVE  \E t \in Trials : \E i \in DOMAIN rows[t] : \E b \in rows[t][i].hits : p = <<t, <<i, b>>>>
  <2> HIDE DEF silent
  <2> QED BY <1>3, InHitsOfTrials
<1> HIDE DEF A, B, silent
<1>8. ASSUME NEW p \in HitsOfBugs
      PROVE  \E e \in BugEntries : \E t \in Trials : \E i \in DOMAIN rows[t] :
               /\ e.bug \in rows[t][i].hits /\ p = <<e, <<t, i>>>> /\ f[p] = <<t, <<i, e.bug>>>>
  <2>1. PICK e \in BugEntries : \E t \in FoundBy(e.bug) : \E i \in DOMAIN rows[t] :
             e.bug \in rows[t][i].hits /\ p = <<e, <<t, i>>>>
    BY InHitsOfBugs
  <2>2. PICK t \in FoundBy(e.bug) : \E i \in DOMAIN rows[t] :
             e.bug \in rows[t][i].hits /\ p = <<e, <<t, i>>>>
    BY <2>1
  <2>3. t \in Trials BY DEF FoundBy
  <2>4. PICK i \in DOMAIN rows[t] : e.bug \in rows[t][i].hits /\ p = <<e, <<t, i>>>> BY <2>2
  <2>5. f[p] = <<t, <<i, e.bug>>>> BY <2>4
  <2> QED BY <2>3, <2>4, <2>5
<1>9. DOMAIN f = HitsOfBugs /\ f = [p \in HitsOfBugs |-> f[p]] OBVIOUS
<1> HIDE DEF f
<1>10. f \in [HitsOfBugs -> A \cup B]
  <2>1. \A p \in HitsOfBugs : f[p] \in A \cup B BY <1>6, <1>8
  <2> QED BY <1>9, <2>1
<1>11. ASSUME NEW p \in HitsOfBugs, NEW q \in HitsOfBugs, f[p] = f[q] PROVE p = q
  <2>1. PICK d \in BugEntries : \E t \in Trials : \E i \in DOMAIN rows[t] :
               p = <<d, <<t, i>>>> /\ f[p] = <<t, <<i, d.bug>>>>
    BY <1>8
  <2>2. PICK t \in Trials : \E i \in DOMAIN rows[t] :
               p = <<d, <<t, i>>>> /\ f[p] = <<t, <<i, d.bug>>>>
    BY <2>1
  <2>3. PICK i \in DOMAIN rows[t] : p = <<d, <<t, i>>>> /\ f[p] = <<t, <<i, d.bug>>>> BY <2>2
  <2>4. PICK e \in BugEntries : \E u \in Trials : \E j \in DOMAIN rows[u] :
               q = <<e, <<u, j>>>> /\ f[q] = <<u, <<j, e.bug>>>>
    BY <1>8
  <2>5. PICK u \in Trials : \E j \in DOMAIN rows[u] :
               q = <<e, <<u, j>>>> /\ f[q] = <<u, <<j, e.bug>>>>
    BY <2>4
  <2>6. PICK j \in DOMAIN rows[u] : q = <<e, <<u, j>>>> /\ f[q] = <<u, <<j, e.bug>>>> BY <2>5
  <2>7. <<t, <<i, d.bug>>>> = <<u, <<j, e.bug>>>> BY <1>11, <2>3, <2>6
  <2>8. t = u /\ i = j /\ d.bug = e.bug BY <2>7
  <2>9. d = e BY <2>8, EntriesAre
  <2> QED BY <2>3, <2>6, <2>8, <2>9
<1>12. ASSUME NEW q \in A \cup B PROVE \E p \in HitsOfBugs : f[p] = q
  <2>1. PICK t \in Trials : \E i \in DOMAIN rows[t] : \E b \in rows[t][i].hits : q = <<t, <<i, b>>>>
    BY <1>7
  <2>2. PICK i \in DOMAIN rows[t] : \E b \in rows[t][i].hits : q = <<t, <<i, b>>>> BY <2>1
  <2>3. PICK b \in rows[t][i].hits : q = <<t, <<i, b>>>> BY <2>2
  <2>4. b \in Bugs /\ t \in FoundBy(b) BY HitsFinite DEF FoundBy
  <2> DEFINE e == EntryOf(b)
             p == <<e, <<t, i>>>>
  <2>5. e \in BugEntries /\ e.bug = b BY <2>4, EntriesAre DEF EntryOf
  <2> HIDE DEF e
  <2>6. p \in HitsOfBugs BY <2>4, <2>5, InHitsOfBugs
  <2>7. f[p] = q
    <3>1. PICK d \in BugEntries : \E u \in Trials : \E j \in DOMAIN rows[u] :
               /\ p = <<d, <<u, j>>>> /\ f[p] = <<u, <<j, d.bug>>>>
      BY <1>8, <2>6
    <3>2. PICK u \in Trials : \E j \in DOMAIN rows[u] :
               p = <<d, <<u, j>>>> /\ f[p] = <<u, <<j, d.bug>>>>
      BY <3>1
    <3>3. PICK j \in DOMAIN rows[u] : p = <<d, <<u, j>>>> /\ f[p] = <<u, <<j, d.bug>>>> BY <3>2
    <3>4. d = e /\ u = t /\ j = i BY <3>3
    <3> QED BY <2>3, <2>5, <3>3, <3>4
  <2> QED BY <2>6, <2>7
<1>13. IsFiniteSet(A \cup B) /\ Cardinality(A \cup B) = Cardinality(A) + Cardinality(B)
  <2>1. IsFiniteSet(A \cup B)
        /\ Cardinality(A \cup B) = Cardinality(A) + Cardinality(B) - Cardinality(A \cap B)
    BY <1>4, FS_Union
  <2>2. Cardinality(A \cap B) = 0 BY <1>5, FS_EmptySet
  <2>3. Cardinality(A) \in Nat /\ Cardinality(B) \in Nat BY <1>4, FS_CardinalityType
  <2> QED BY <2>1, <2>2, <2>3
<1>14. Cardinality(HitsOfBugs) = Cardinality(A \cup B)
  BY <1>10, <1>11, <1>12, <1>13, NotMore
<1>15. Total([e \in BugEntries |-> e.hits]) = Cardinality(HitsOfBugs) BY TotalOfBugs
<1>16. Entry.hits + Total([t \in silent |-> HitsTotal(t)]) = Total([e \in BugEntries |-> e.hits])
  BY <1>4, <1>13, <1>14, <1>15
<1> QED BY <1>1, <1>2, <1>16 DEF EntryTotalsAgree, silent

\* The totals of hits and bugs that a curve, a trial and an entry show come from
\* different queries and agree (bug_stats_by_trial, unique_bug_delta_by_snapshot,
\* bug_hits_by_bug).
THEOREM TotalsAgree == Spec => []BugTotalsAgree
<1>1. FiguresInv => BugTotalsAgree BY CurvesAgree, EntriesAgree DEF BugTotalsAgree
<1> QED BY <1>1, FiguresInvHolds, PTL

-----------------------------------------------------------------------------
(* The area under the coverage of a trial *)

LEMMA MinOfTwo ==
  ASSUME NEW a \in Nat, NEW b \in Nat
  PROVE  Min({a, b}) = IF a <= b THEN a ELSE b
<1>1. {a, b} \in SUBSET Nat OBVIOUS
<1>2. a <= b => Min({a, b}) = a BY <1>1, MinIs
<1>3. b <= a => Min({a, b}) = b BY <1>1, MinIs
<1> QED BY <1>2, <1>3

\* Where a tick stands on the time axis of a trial.
LEMMA PlaceOfTick ==
  ASSUME FiguresInv, NEW t \in Trials, NEW i \in DOMAIN ticks, t \in ticks[i].trials
  PROVE  /\ started[t] \in Nat /\ ticks[i].ts \in Nat /\ started[t] < ticks[i].ts
         /\ At0(t, i) \in Nat /\ 0 < At0(t, i) /\ At0(t, i) <= TimeLimit
         /\ ticks[i].ts < started[t] + TimeLimit => At0(t, i) = ticks[i].ts - started[t]
         /\ started[t] + TimeLimit <= ticks[i].ts => At0(t, i) = TimeLimit
<1>1. started[t] \in Nat BY DEF FiguresInv, TypeOK
<1>2. ticks[i].ts \in Nat BY Typed DEF FiguresInv, Tick
<1>3. started[t] < ticks[i].ts BY DEF FiguresInv, TicksInTime
<1>4. TimeLimit \in Nat /\ TimeLimit # 0 BY ReportAssumption
<1> DEFINE gap == ticks[i].ts - started[t]
<1>5. gap \in Nat /\ 0 < gap BY <1>1, <1>2, <1>3
<1>6. At0(t, i) = Min({gap, TimeLimit}) BY DEF At0, Elapsed
<1>7. At0(t, i) = IF gap <= TimeLimit THEN gap ELSE TimeLimit
  <2> HIDE DEF gap
  <2> QED BY <1>4, <1>5, <1>6, MinOfTwo
<1> QED BY <1>1, <1>2, <1>3, <1>4, <1>7

LEMMA RowsAreTicks ==
  ASSUME FiguresInv, NEW t \in Trials, NEW i \in DOMAIN rows[t]
  PROVE  i \in DOMAIN ticks /\ t \in ticks[i].trials /\ i \in Nat
<1>1. t \in ticks[i].trials BY DEF FiguresInv, CampaignCovers
<1> QED BY <1>1, ShownRows

\* In time order no snapshot stands behind the last one.
LEMMA PlaceOfLatest ==
  ASSUME FiguresInv, NEW t \in Trials, InTimeOrder(t), NEW i \in SnapshotRows(t)
  PROVE  At0(t, i) <= At0(t, Latest(t)) /\ TrialElapsed(t) = At0(t, Latest(t))
<1> DEFINE l == Latest(t)
<1>1. l \in SnapshotRows(t) /\ i <= l BY ShownRows
<1>2. i \in DOMAIN rows[t] /\ l \in DOMAIN rows[t] BY <1>1, ShownRows
<1>3. TrialElapsed(t) = At0(t, l) BY DEF TrialElapsed, At0, Elapsed
<1> HIDE DEF l
<1>4. /\ i \in Nat /\ l \in Nat /\ i \in DOMAIN ticks /\ t \in ticks[i].trials
      /\ l \in DOMAIN ticks /\ t \in ticks[l].trials
  BY <1>2, RowsAreTicks
<1>5. ticks[i].ts \in Nat /\ ticks[l].ts \in Nat /\ started[t] \in Nat /\ TimeLimit \in Nat
  BY <1>4, PlaceOfTick, ReportAssumption
<1>6. ticks[i].ts <= ticks[l].ts BY <1>1, <1>4, <1>5 DEF InTimeOrder
<1>7. At0(t, i) <= TimeLimit BY <1>4, PlaceOfTick
<1>8. CASE ticks[l].ts < started[t] + TimeLimit
  <2>1. At0(t, l) = ticks[l].ts - started[t] BY <1>4, <1>8, PlaceOfTick
  <2>2. ticks[i].ts < started[t] + TimeLimit BY <1>5, <1>6, <1>8
  <2>3. At0(t, i) = ticks[i].ts - started[t] BY <1>4, <2>2, PlaceOfTick
  <2> QED BY <1>3, <1>5, <1>6, <2>1, <2>3 DEF l
<1>9. CASE ~ (ticks[l].ts < started[t] + TimeLimit)
  <2>1. started[t] + TimeLimit <= ticks[l].ts BY <1>5, <1>9
  <2>2. At0(t, l) = TimeLimit BY <1>4, <2>1, PlaceOfTick
  <2> QED BY <1>3, <1>7, <2>2 DEF l
<1> QED BY <1>8, <1>9

\* What a trial has covered is counted between the seeds and its last row.
LEMMA CountsGrow ==
  ASSUME FiguresInv, NEW t \in Trials
  PROVE  /\ Cardinality(CoveredBy(seed)) \in Nat
         /\ \A i \in Measured(t) : Covered(t, i) \in Nat /\ Cardinality(CoveredBy(seed)) <= Covered(t, i)
         /\ \A i, j \in Measured(t) : i <= j => Covered(t, i) <= Covered(t, j)
<1> USE DEF FiguresInv
<1>1. CoveredBy(seed) \subseteq Elements BY DEF TypeOK, CoveredBy, Coverage
<1>2. ASSUME NEW i \in Measured(t)
      PROVE  /\ i \in DOMAIN rows[t] /\ i \in Nat
             /\ CoveredBy(rows[t][i].cov) = rows[t][i].cov
             /\ rows[t][i].cov \subseteq Elements /\ IsFiniteSet(rows[t][i].cov)
  <2>1. i \in DOMAIN rows[t] /\ i \in Nat /\ rows[t][i].cov # NoCoverage BY ShownRows DEF Measured
  <2>2. rows[t][i] \in Row BY <2>1, Typed
  <2>3. rows[t][i].cov \in Coverage BY <2>2 DEF Row
  <2>4. rows[t][i].cov \subseteq Elements BY <2>1, <2>3 DEF Coverage
  <2>5. IsFiniteSet(rows[t][i].cov) BY <2>4, ReportAssumption, FS_Subset
  <2> QED BY <2>1, <2>4, <2>5 DEF CoveredBy
<1>3. Cardinality(CoveredBy(seed)) \in Nat
  BY <1>1, ReportAssumption, FS_Subset, FS_CardinalityType
<1>4. ASSUME NEW i \in Measured(t)
      PROVE  Covered(t, i) \in Nat /\ Cardinality(CoveredBy(seed)) <= Covered(t, i)
  <2>1. CoveredBy(seed) \subseteq rows[t][i].cov BY <1>2 DEF TrialsGrow
  <2> QED BY <1>2, <2>1, FS_Subset, FS_CardinalityType DEF Covered
<1>5. ASSUME NEW i \in Measured(t), NEW j \in Measured(t), i <= j
      PROVE  Covered(t, i) <= Covered(t, j)
  <2>1. i = j \/ i < j BY <1>2, <1>5
  <2>2. rows[t][i].cov \subseteq rows[t][j].cov BY <1>2, <2>1 DEF TrialsGrow
  <2>3. Cardinality(rows[t][i].cov) <= Cardinality(rows[t][j].cov) BY <1>2, <2>2, FS_Subset
  <2> QED BY <2>3 DEF Covered
<1> QED BY <1>3, <1>4, <1>5

LEMMA Products ==
  ASSUME NEW a \in Nat, NEW b \in Nat, a <= b, NEW c \in Nat
  PROVE  c * a \in Nat /\ c * a <= c * b /\ c * a = a * c
OBVIOUS

\* At any time the height under the curve is at most the final coverage.
LEMMA HeightBounded ==
  ASSUME FiguresInv, NEW t \in Trials, HasFinal(t), NEW x
  PROVE  /\ FinalCovered(t) \in Nat /\ AreaAt(t, x) \in Nat
         /\ AreaAt(t, x) <= FinalCovered(t)
<1> DEFINE l == Latest(t)
           here == {i \in Measured(t) : At0(t, i) = x}
<1>1. l \in Measured(t) /\ l \in SnapshotRows(t) BY DEF HasFinal, Measured
<1>2. here \in SUBSET Nat /\ IsFiniteSet(here) /\ here \subseteq Measured(t)
  <2>1. here \subseteq Measured(t) OBVIOUS
  <2>2. Measured(t) \in SUBSET Nat /\ IsFiniteSet(Measured(t)) BY ShownRows, FS_Subset
  <2> HIDE DEF here
  <2> QED BY <2>1, <2>2, FS_Subset
<1>3. AreaAt(t, x) = IF here = {} THEN Cardinality(CoveredBy(seed)) ELSE Covered(t, Max(here))
  BY DEF AreaAt
<1> HIDE DEF here
<1>4. here # {} => Max(here) \in here BY <1>2, MaxOfFinite
<1>5. \A i \in Measured(t) : i <= l BY <1>1, ShownRows
<1>6. FinalCovered(t) = Covered(t, l) BY DEF FinalCovered
<1> HIDE DEF l
<1> QED BY <1>1, <1>2, <1>3, <1>4, <1>5, <1>6, CountsGrow

LEMMA AreaFits ==
  ASSUME FiguresInv, NEW t \in Trials, HasFinal(t), InTimeOrder(t)
  PROVE  /\ DoubleArea(t) \in Nat /\ FinalCovered(t) \in Nat /\ TrialElapsed(t) \in Nat
         /\ DoubleArea(t) <= 2 * FinalCovered(t) * TrialElapsed(t)
<1> DEFINE xs == {At0(t, i) : i \in Measured(t)} \cup {0}
           after(x) == {y \in xs : y > x}
           L == TrialElapsed(t)
           F == FinalCovered(t)
           term(x) ==
             IF after(x) # {} THEN (Min(after(x)) - x) * (AreaAt(t, x) + AreaAt(t, Min(after(x))))
             ELSE IF L > x THEN 2 * (L - x) * AreaAt(t, x) ELSE 0
           f == [x \in xs |-> term(x)]
           till(x) == IF after(x) # {} THEN Min(after(x)) ELSE L
           end == [x \in xs |-> till(x)]
<1>1. DoubleArea(t) = Total(f) BY DEF DoubleArea
<1>2. F \in Nat BY HeightBounded
<1>3. \A x : AreaAt(t, x) \in Nat /\ AreaAt(t, x) <= F BY HeightBounded
<1>4. Latest(t) \in SnapshotRows(t) /\ L = At0(t, Latest(t))
  BY PlaceOfLatest, ShownRows DEF HasFinal
<1>5. ASSUME NEW i \in SnapshotRows(t) PROVE At0(t, i) \in Nat /\ At0(t, i) <= L
  <2>1. i \in DOMAIN rows[t] BY ShownRows
  <2> QED BY <1>4, <2>1, PlaceOfLatest, PlaceOfTick, RowsAreTicks
<1>6. L \in Nat BY <1>4, <1>5
<1> HIDE DEF L, F
<1>7. xs \in SUBSET Nat /\ \A x \in xs : x <= L
  <2>1. Measured(t) \subseteq SnapshotRows(t) BY ShownRows
  <2> QED BY <1>5, <1>6, <2>1
<1> HIDE DEF xs
<1>8. IsFiniteSet(xs)
  <2>1. IsFiniteSet(0..L) BY <1>6, FS_Interval
  <2>2. xs \subseteq 0..L
    <3>1. \A x \in xs : x \in Nat /\ x <= L BY <1>7
    <3> QED BY <1>6, <3>1
  <2> QED BY <2>1, <2>2, FS_Subset
<1>9. ASSUME NEW x \in xs, after(x) # {}
      PROVE  /\ Min(after(x)) \in xs /\ x < Min(after(x))
             /\ \A y \in xs : x < y => Min(after(x)) <= y
  <2>1. after(x) \in SUBSET Nat BY <1>7
  <2>2. Min(after(x)) \in after(x) /\ \A y \in after(x) : Min(after(x)) <= y
    <3> HIDE DEF after
    <3> QED BY <1>9, <2>1, MinOfNats
  <2>3. x \in Nat /\ \A y \in xs : y \in Nat /\ (x < y => y > x) BY <1>7
  <2> QED BY <2>2, <2>3
<1>10. ASSUME NEW x \in xs
       PROVE  till(x) \in Nat /\ x \in Nat /\ x <= till(x) /\ till(x) <= L
  <2>1. CASE after(x) # {}
    <3> DEFINE n == Min(after(x))
    <3>1. n \in xs /\ x < n /\ till(x) = n BY <1>9, <2>1
    <3> HIDE DEF n, after, till
    <3>2. n \in Nat /\ x \in Nat /\ n <= L BY <1>7, <3>1
    <3> QED BY <3>1, <3>2
  <2>2. CASE after(x) = {} BY <1>6, <1>7, <2>2
  <2> QED BY <2>1, <2>2
<1>11. ASSUME NEW x \in xs PROVE term(x) \in Nat /\ term(x) <= 2 * F * (till(x) - x)
  <2>1. CASE after(x) # {}
    <3> DEFINE n == Min(after(x))
               h == AreaAt(t, x) + AreaAt(t, n)
               w == n - x
    <3>1. till(x) = n /\ term(x) = w * h BY <2>1
    <3>2. w \in Nat
      <4>1. x \in Nat /\ till(x) \in Nat /\ x <= till(x) BY <1>10
      <4>2. w = till(x) - x BY <3>1
      <4> HIDE DEF w, till
      <4> QED BY <4>1, <4>2
    <3>3. h \in Nat /\ h <= 2 * F /\ 2 * F \in Nat BY <1>2, <1>3
    <3> HIDE DEF h, n
    <3>4. till(x) - x = w BY <3>1
    <3> HIDE DEF w, till, term, after
    <3>5. w * h \in Nat /\ w * h <= w * (2 * F) /\ w * (2 * F) = 2 * F * w BY <3>2, <3>3, Products
    <3> QED BY <3>1, <3>4, <3>5
  <2>2. CASE after(x) = {}
    <3> DEFINE h == AreaAt(t, x)
               w == L - x
    <3>1. till(x) = L /\ term(x) = IF L > x THEN 2 * (L - x) * h ELSE 0 BY <2>2
    <3>2. w \in Nat
      <4>1. x \in Nat /\ till(x) \in Nat /\ x <= till(x) BY <1>10
      <4>2. w = till(x) - x BY <3>1
      <4> HIDE DEF w, till
      <4> QED BY <4>1, <4>2
    <3>3. h \in Nat /\ h <= F BY <1>3
    <3>4. term(x) = IF L > x THEN 2 * w * h ELSE 0 BY <3>1
    <3>5. till(x) - x = w BY <3>1
    <3> HIDE DEF h, w, till, term, after
    <3>6. w * h \in Nat /\ w * h <= w * F /\ w * F \in Nat BY <1>2, <3>2, <3>3, Products
    <3>7. 2 * w * h = 2 * (w * h) /\ 2 * F * w = 2 * (w * F) BY <1>2, <3>2, <3>3
    <3>8. 2 * w * h \in Nat /\ 2 * w * h <= 2 * F * w /\ 2 * F * w \in Nat BY <3>6, <3>7
    <3> QED BY <3>4, <3>5, <3>8
  <2> QED BY <2>1, <2>2
<1>12. ASSUME NEW x \in xs, NEW y \in xs, x < y PROVE till(x) <= y
  <2>1. x \in Nat /\ y \in Nat BY <1>7
  <2>2. y \in after(x) BY <1>12, <2>1
  <2>3. till(x) = Min(after(x)) BY <2>2
  <2> QED BY <1>9, <1>12, <2>2, <2>3
<1> HIDE DEF after, term, till
<1>13. end \in [xs -> Nat] BY <1>10
<1>14. DOMAIN f = xs /\ \A x \in xs : f[x] = term(x) /\ end[x] = till(x) OBVIOUS
<1> HIDE DEF f, end
<1> DEFINE H == 2 * F
<1>15. H \in Nat BY <1>2
<1>16. \A x \in xs : f[x] \in Nat /\ f[x] <= H * (end[x] - x) /\ x <= end[x] /\ end[x] <= L
  BY <1>10, <1>11, <1>14
<1>17. \A x, y \in xs : x < y => end[x] <= y BY <1>12, <1>14
<1>18. Total(f) \in Nat /\ Total(f) <= H * L
  <2> HIDE DEF H
  <2> QED BY <1>6, <1>7, <1>8, <1>13, <1>14, <1>15, <1>16, <1>17, TotalOfGaps
<1> QED BY <1>1, <1>2, <1>6, <1>18 DEF F, L

LEMMA Percentage ==
  ASSUME NEW a \in Nat, NEW b \in Nat, 0 < b, a <= b
  PROVE  (100 * a) \div b \in 0..100
<1> DEFINE q == (100 * a) \div b
<1>1. q \in Int /\ b * q <= 100 * a /\ 100 * a < b * (q + 1) OBVIOUS
<1> HIDE DEF q
<1>2. q >= 0
  <2>1. CASE q <= -1
    <3>1. b * (q + 1) <= 0 BY <2>1, <1>1
    <3> QED BY <1>1, <3>1
  <2> QED BY <1>1, <2>1
<1>3. q <= 100
  <2>1. CASE q >= 101
    <3>1. b * q >= b * 101 BY <2>1, <1>1
    <3> QED BY <1>1, <3>1
  <2> QED BY <1>1, <2>1
<1> QED BY <1>1, <1>2, <1>3 DEF q

LEMMA AreaWithin == FiguresInv => AreaBounded
<1> SUFFICES ASSUME FiguresInv, NEW t \in Shown, HasFinal(t), InTimeOrder(t)
             PROVE  /\ DoubleArea(t) <= 2 * FinalCovered(t) * TrialElapsed(t)
                    /\ TrialRow(t).convergence \in 0..100
  BY DEF AreaBounded
<1>1. t \in Trials BY DEF Shown
<1> DEFINE F == FinalCovered(t)
           L == TrialElapsed(t)
           D == DoubleArea(t)
<1>2. D \in Nat /\ F \in Nat /\ L \in Nat /\ D <= 2 * F * L BY <1>1, AreaFits
<1>3. TrialRow(t).convergence = ConvergencePct(t) BY DEF TrialRow
<1>4. ConvergencePct(t) = IF F = 0 \/ L = 0 THEN 0 ELSE (100 * D) \div (2 * F * L)
  BY DEF ConvergencePct
<1> HIDE DEF F, L, D
<1>5. ASSUME F # 0, L # 0 PROVE (100 * D) \div (2 * F * L) \in 0..100
  <2> DEFINE b == 2 * F * L
  <2>1. b \in Nat /\ 0 < b /\ D <= b BY <1>2, <1>5
  <2> HIDE DEF b
  <2>2. (100 * D) \div b \in 0..100 BY <1>2, <2>1, Percentage
  <2> QED BY <2>2 DEF b
<1>6. ConvergencePct(t) \in 0..100 BY <1>4, <1>5
<1> QED BY <1>2, <1>3, <1>6 DEF D, F, L

\* The convergence of a trial is a percentage: the area under its coverage fits
\* into its final coverage times its duration (metrics.py, _convergence_pct).
THEOREM AreaIsBounded == Spec => []AreaBounded
BY FiguresInvHolds, AreaWithin, PTL

-----------------------------------------------------------------------------
(* Thinned curves *)

LEMMA Quotients ==
  ASSUME NEW a \in Nat, NEW c \in Nat, NEW b \in Nat, 0 < b
  PROVE  /\ a \div b \in Nat
         /\ a <= c => a \div b <= c \div b
         /\ a + b <= c => (a \div b) + 1 <= c \div b
         /\ (b * a) \div b = a
<1> DEFINE p == a \div b
           q == c \div b
           r == (b * a) \div b
<1>1. p \in Int /\ b * p <= a /\ a < b * (p + 1) OBVIOUS
<1>2. q \in Int /\ b * q <= c /\ c < b * (q + 1) OBVIOUS
<1>3. r \in Int /\ b * r <= b * a /\ b * a < b * (r + 1) OBVIOUS
<1> HIDE DEF p, q, r
<1>4. ASSUME NEW x \in Int, NEW y \in Int, b * x < b * (y + 1) PROVE x <= y
  <2>1. CASE y + 1 <= x
    <3>1. b * (y + 1) <= b * x BY <2>1
    <3> QED BY <1>4, <3>1
  <2> QED BY <2>1
<1>5. p \in Nat
  <2>1. b * 0 < b * (p + 1) BY <1>1
  <2> QED BY <1>1, <1>4, <2>1
<1>6. ASSUME a <= c PROVE p <= q
  <2>1. b * p < b * (q + 1) BY <1>1, <1>2, <1>6
  <2> QED BY <1>1, <1>2, <1>4, <2>1
<1>7. ASSUME a + b <= c PROVE p + 1 <= q
  <2>1. b * (p + 1) = b * p + b BY <1>1
  <2>2. b * (p + 1) < b * (q + 1) BY <1>1, <1>2, <1>7, <2>1
  <2> QED BY <1>1, <1>2, <1>4, <2>2
<1>8. r = a
  <2>1. b * r < b * (a + 1) /\ b * a < b * (r + 1) BY <1>3
  <2> QED BY <1>3, <1>4, <2>1
<1> QED BY <1>5, <1>6, <1>7, <1>8 DEF p, q, r

\* The middle points of the buckets of the interior of a curve.
LEMMA BucketsAscend ==
  ASSUME NEW n \in Nat, NEW b \in Nat, b <= n
  PROVE  LET first(k) == ((k - 1) * n) \div b
             size(k) == Max({first(k) + 1, (k * n) \div b}) - first(k)
             place(k) == 2 + first(k) + size(k) \div 2
         IN /\ \A k \in 1..b : place(k) \in 2..n + 1
            /\ \A k, l \in 1..b : k < l => place(k) < place(l)
<1> DEFINE first(k) == ((k - 1) * n) \div b
           next(k) == (k * n) \div b
           size(k) == Max({first(k) + 1, next(k)}) - first(k)
           place(k) == 2 + first(k) + size(k) \div 2
<1>1. ASSUME NEW k \in 1..b
      PROVE  /\ first(k) \in Nat /\ next(k) \in Nat /\ first(k) + 1 <= next(k)
             /\ next(k) <= n
  <2> DEFINE x == (k - 1) * n
             y == k * n
             z == b * n
  <2>1. k \in Nat /\ k - 1 \in Nat /\ 0 < b /\ k <= b OBVIOUS
  <2>2. x \in Nat /\ y \in Nat /\ z \in Nat /\ y = x + n BY <2>1
  <2>3. y <= z BY <2>1
  <2>4. x + b <= y BY <2>2
  <2>5. first(k) = x \div b /\ next(k) = y \div b OBVIOUS
  <2>6. z \div b = n BY <2>1, Quotients
  <2> HIDE DEF x, y, z, first, next
  <2>7. x \div b \in Nat /\ (x \div b) + 1 <= y \div b /\ y \div b \in Nat /\ y \div b <= z \div b
    BY <2>1, <2>2, <2>3, <2>4, Quotients
  <2> QED BY <2>5, <2>6, <2>7
<1>2. ASSUME NEW k \in 1..b, NEW l \in 1..b, k < l PROVE next(k) <= first(l)
  <2> DEFINE x == k * n
             y == (l - 1) * n
  <2>1. k \in Nat /\ l - 1 \in Nat /\ k <= l - 1 /\ 0 < b BY <1>2
  <2>2. x \in Nat /\ y \in Nat /\ x <= y BY <2>1
  <2>3. next(k) = x \div b /\ first(l) = y \div b OBVIOUS
  <2> HIDE DEF x, y, first, next
  <2> QED BY <2>1, <2>2, <2>3, Quotients
<1>3. ASSUME NEW k \in 1..b
      PROVE  place(k) \in Nat /\ 2 + first(k) <= place(k) /\ place(k) <= 1 + next(k)
  <2> DEFINE S == {first(k) + 1, next(k)}
             s == size(k)
  <2> HIDE DEF first, next
  <2>1. S \in SUBSET Nat /\ next(k) \in S /\ \A v \in S : v <= next(k) BY <1>1
  <2>2. Max(S) = next(k)
    <3> HIDE DEF S
    <3> QED BY <2>1, MaxIs
  <2>3. s = next(k) - first(k) BY <2>2
  <2>4. place(k) = 2 + first(k) + s \div 2 OBVIOUS
  <2> HIDE DEF s, S, size, place
  <2>5. s \in Nat /\ 1 <= s BY <1>1, <2>3
  <2>6. s \div 2 \in Nat /\ s \div 2 <= s - 1 BY <2>5
  <2> QED BY <1>1, <2>3, <2>4, <2>5, <2>6
<1> HIDE DEF place, size, first, next
<1>4. \A k \in 1..b : place(k) \in 2..n + 1 BY <1>1, <1>3
<1>5. ASSUME NEW k \in 1..b, NEW l \in 1..b, k < l PROVE place(k) < place(l)
  <2>1. next(k) <= first(l) BY <1>2, <1>5
  <2> QED BY <1>1, <1>3, <2>1
<1> QED BY <1>4, <1>5 DEF place, size, first, next

\* A thinned curve keeps its ends and its order.
LEMMA ThinKeeps ==
  ASSUME NEW curve \in Seq(Nat), curve # <<>>, NEW max \in Nat \ {0, 1},
         \A i, j \in DOMAIN curve : i < j => curve[i] < curve[j]
  PROVE  LET thin == Downsampled(curve, max)
         IN /\ Len(thin) <= max
            /\ Head(thin) = Head(curve) /\ Last(thin) = Last(curve)
            /\ \A i, j \in DOMAIN thin : i < j => thin[i] < thin[j]
<1>1. /\ Len(curve) \in Nat /\ Len(curve) # 0 /\ DOMAIN curve = 1..Len(curve)
      /\ \A i \in 1..Len(curve) : curve[i] \in Nat
  BY EmptySeq, LenProperties
<1>2. CASE Len(curve) <= max
  <2>1. Downsampled(curve, max) = curve BY <1>2 DEF Downsampled
  <2> QED BY <1>2, <2>1
<1>3. CASE ~ (Len(curve) <= max)
  <2> DEFINE n == Len(curve) - 2
             b == max - 2
             first(k) == ((k - 1) * n) \div b
             size(k) == Max({first(k) + 1, (k * n) \div b}) - first(k)
             place(k) == 2 + first(k) + size(k) \div 2
             mid == [k \in 1..b |-> curve[place(k)]]
             thin == <<Head(curve)>> \o mid \o <<Last(curve)>>
  <2>1. Downsampled(curve, max) = thin BY <1>3 DEF Downsampled
  <2>2. n \in Nat /\ b \in Nat /\ b <= n /\ Len(curve) = n + 2 /\ max = b + 2 BY <1>1, <1>3
  <2> HIDE DEF n, b
  <2>3. /\ \A k \in 1..b : place(k) \in 2..n + 1
        /\ \A k, l \in 1..b : k < l => place(k) < place(l)
    BY <2>2, BucketsAscend
  <2> HIDE DEF place, first, size
  <2>4. mid \in [1..b -> Nat] BY <1>1, <2>2, <2>3
  <2>5. mid \in Seq(Nat) /\ Len(mid) = b /\ \A k \in 1..b : mid[k] = curve[place(k)]
    <3>1. mid \in Seq(Nat) BY <2>2, <2>4, SeqDef
    <3>2. DOMAIN mid = 1..b /\ DOMAIN mid = 1..Len(mid) /\ Len(mid) \in Nat BY <2>4, <3>1, LenProperties
    <3>3. 1..Len(mid) = 1..b /\ Len(mid) \in Nat BY <3>2
    <3>4. Len(mid) = b BY <2>2, <3>3
    <3> QED BY <3>1, <3>4
  <2>6. Head(curve) = curve[1] /\ Last(curve) = curve[n + 2] BY <2>2 DEF Last
  <2> HIDE DEF mid
  <2>7. curve[1] \in Nat /\ curve[n + 2] \in Nat BY <1>1, <2>2
  <2>8. /\ Len(thin) = b + 2 /\ DOMAIN thin = 1..b + 2
        /\ thin[1] = curve[1] /\ thin[b + 2] = curve[n + 2]
        /\ \A i \in 2..b + 1 : thin[i] = mid[i - 1]
    BY <2>2, <2>5, <2>6, <2>7
  <2>9. thin \in Seq(Nat) /\ thin # <<>> BY <2>2, <2>5, <2>6, <2>7
  <2> HIDE DEF thin
  <2> DEFINE at(i) == IF i = 1 THEN 1 ELSE IF i = b + 2 THEN n + 2 ELSE place(i - 1)
  <2>10. ASSUME NEW i \in 1..b + 2 PROVE at(i) \in 1..n + 2 /\ thin[i] = curve[at(i)]
    <3>1. CASE i = 1
      <4>1. at(i) = 1 BY <3>1
      <4> QED BY <2>2, <2>8, <3>1, <4>1
    <3>2. CASE i = b + 2
      <4>1. at(i) = n + 2 BY <2>2, <3>2
      <4> QED BY <2>2, <2>8, <3>2, <4>1
    <3>3. CASE i # 1 /\ i # b + 2
      <4>1. i \in 2..b + 1 /\ i - 1 \in 1..b BY <2>2, <3>3
      <4>2. at(i) = place(i - 1) BY <3>3
      <4>3. place(i - 1) \in 2..n + 1 BY <2>3, <4>1
      <4>4. thin[i] = mid[i - 1] BY <2>8, <4>1
      <4>5. mid[i - 1] = curve[place(i - 1)] BY <2>5, <4>1
      <4>6. thin[i] = curve[at(i)] BY <4>2, <4>4, <4>5
      <4>7. at(i) \in 1..n + 2
        <5> HIDE DEF at
        <5> QED BY <2>2, <4>2, <4>3
      <4> QED BY <4>6, <4>7
    <3> QED BY <3>1, <3>2, <3>3
  <2>11. ASSUME NEW i \in 1..b + 2, NEW j \in 1..b + 2, i < j PROVE at(i) < at(j)
    <3>1. CASE i = 1
      <4>1. CASE j = b + 2 BY <2>2, <3>1, <4>1, <2>11
      <4>2. CASE j # b + 2
        <5>1. j - 1 \in 1..b BY <2>2, <2>11, <3>1, <4>2
        <5>2. at(j) = place(j - 1) /\ place(j - 1) \in 2..n + 1 BY <2>3, <2>11, <3>1, <4>2, <5>1
        <5> QED BY <2>2, <3>1, <5>2
      <4> QED BY <4>1, <4>2
    <3>2. CASE i # 1
      <4>1. i - 1 \in 1..b /\ i # b + 2 BY <2>2, <2>11, <3>2
      <4>2. at(i) = place(i - 1) /\ place(i - 1) \in 2..n + 1 BY <2>3, <3>2, <4>1
      <4>3. CASE j = b + 2
        <5>1. at(j) = n + 2 BY <2>2, <4>3
        <5> QED BY <2>2, <4>2, <5>1
      <4>4. CASE j # b + 2
        <5>1. j - 1 \in 1..b /\ i - 1 < j - 1 /\ j # 1 BY <2>2, <2>11, <4>1, <4>4
        <5>2. at(j) = place(j - 1) BY <4>4, <5>1
        <5> QED BY <2>3, <4>1, <4>2, <5>1, <5>2
      <4> QED BY <4>3, <4>4
    <3> QED BY <3>1, <3>2
  <2> HIDE DEF at
  <2>12. \A i, j \in DOMAIN thin : i < j => thin[i] < thin[j] BY <1>1, <2>2, <2>8, <2>10, <2>11
  <2>13. Head(thin) = Head(curve) /\ Last(thin) = Last(curve)
    BY <2>6, <2>8, <2>9 DEF Last
  <2> QED BY <2>1, <2>2, <2>8, <2>12, <2>13
<1> QED BY <1>2, <1>3

-----------------------------------------------------------------------------
(* Where a curve ends *)

\* Two points of a trial stand apart: in the order of their ticks, except that a
\* due tick recorded after the final one comes before it.
LEMMA PointsApart ==
  ASSUME FiguresInv, NEW t \in Trials, NEW i \in Points(t), NEW j \in Points(t), i < j
  PROVE  \/ At0(t, i) < At0(t, j)
         \/ /\ At0(t, j) < At0(t, i) /\ i \in SnapshotRows(t)
            /\ ticks[i].ts \in Nat /\ ticks[j].ts \in Nat /\ ticks[j].ts < ticks[i].ts
<1>1. /\ i \in DOMAIN ticks /\ j \in DOMAIN ticks
      /\ t \in ticks[i].trials /\ t \in ticks[j].trials
  BY PointsAre
<1>2. /\ started[t] \in Nat /\ TimeLimit \in Nat
      /\ ticks[i].ts \in Nat /\ ticks[j].ts \in Nat
      /\ started[t] < ticks[i].ts
  BY <1>1, PlaceOfTick, ReportAssumption
<1>3. TicksInTime BY DEF FiguresInv
<1>4. ticks[i].telemetry => ticks[i].ts < started[t] + TimeLimit BY <1>1, <1>3 DEF TicksInTime
<1>5. ticks[j].telemetry => ticks[j].ts < started[t] + TimeLimit BY <1>1, <1>3 DEF TicksInTime
<1>6. ~ ticks[i].telemetry => started[t] + TimeLimit <= ticks[i].ts BY <1>1, <1>3 DEF TicksInTime
<1>7. ~ ticks[j].telemetry => started[t] + TimeLimit <= ticks[j].ts BY <1>1, <1>3 DEF TicksInTime
<1>8. CASE ticks[i].telemetry
  <2>1. At0(t, i) = ticks[i].ts - started[t] BY <1>1, <1>4, <1>8, PlaceOfTick
  <2>2. CASE ticks[j].telemetry
    <3>1. ticks[i].ts < ticks[j].ts BY <1>1, <1>3, <1>8, <2>2 DEF TicksInTime
    <3>2. At0(t, j) = ticks[j].ts - started[t] BY <1>1, <1>5, <2>2, PlaceOfTick
    <3>3. At0(t, i) < At0(t, j) BY <1>2, <2>1, <3>1, <3>2
    <3> QED BY <3>3
  <2>3. CASE ~ ticks[j].telemetry
    <3>1. At0(t, j) = TimeLimit BY <1>1, <1>7, <2>3, PlaceOfTick
    <3>2. At0(t, i) < At0(t, j) BY <1>2, <1>4, <1>8, <2>1, <3>1
    <3> QED BY <3>2
  <2> QED BY <2>2, <2>3
<1>9. CASE ~ ticks[i].telemetry
  <2>0. i # j
    <3>1. i \in Nat /\ j \in Nat BY PointsAre
    <3> QED BY <3>1
  <2>1. ticks[j].telemetry BY <1>1, <1>3, <1>9, <2>0 DEF TicksInTime
  <2>2. At0(t, i) = TimeLimit BY <1>1, <1>6, <1>9, PlaceOfTick
  <2>3. At0(t, j) = ticks[j].ts - started[t] BY <1>1, <1>5, <2>1, PlaceOfTick
  <2>4. ticks[j].ts < ticks[i].ts BY <1>2, <1>5, <1>6, <1>9, <2>1
  <2>5. At0(t, j) < At0(t, i) BY <1>2, <1>5, <2>1, <2>2, <2>3
  <2>6. i \in SnapshotRows(t) BY <1>9 DEF Points, TelemetryRows
  <2> QED BY <1>2, <2>4, <2>5, <2>6
<1> QED BY <1>8, <1>9

\* So a point of a trial is the only one at its time.
LEMMA PointAtIs ==
  ASSUME FiguresInv, NEW t \in Trials, NEW i \in Points(t)
  PROVE  PointAt(t, At0(t, i)) = i /\ At0(t, i) \in Nat /\ At0(t, i) <= TimeLimit
<1>1. \A j \in Points(t) : At0(t, j) \in Nat /\ At0(t, j) <= TimeLimit BY PointsAre, PlaceOfTick
<1> DEFINE S == {j \in Points(t) : At0(t, j) = At0(t, i)}
<1>2. ASSUME NEW j \in S PROVE j = i
  <2>1. j \in Points(t) /\ At0(t, j) = At0(t, i) OBVIOUS
  <2>2. i \in Nat /\ j \in Nat BY <2>1, PointsAre
  <2>3. ~ (i < j)
    <3> SUFFICES ASSUME i < j PROVE FALSE OBVIOUS
    <3>1. At0(t, i) < At0(t, j) \/ At0(t, j) < At0(t, i) BY <2>1, PointsApart
    <3> QED BY <1>1, <2>1, <3>1
  <2>4. ~ (j < i)
    <3> SUFFICES ASSUME j < i PROVE FALSE OBVIOUS
    <3>1. At0(t, i) < At0(t, j) \/ At0(t, j) < At0(t, i) BY <2>1, PointsApart
    <3> QED BY <1>1, <2>1, <3>1
  <2> QED BY <2>2, <2>3, <2>4
<1>3. i \in S OBVIOUS
<1>4. PointAt(t, At0(t, i)) = Max(S) BY DEF PointAt
<1>5. i \in Nat BY PointsAre
<1> HIDE DEF S
<1>6. S = {i} BY <1>2, <1>3
<1>7. S \in SUBSET Nat /\ \A x \in S : x <= i BY <1>5, <1>6
<1>8. Max(S) = i BY <1>3, <1>7, MaxIs
<1> QED BY <1>1, <1>4, <1>8

\* The times of all points, in order, and the last of them.
Times == UNION {{At0(t, i) : i \in Points(t)} : t \in Shown}

LEMMA CurveTimesAre ==
  ASSUME FiguresInv
  PROVE  /\ CurveTimes \in Seq(Nat)
         /\ \A i, j \in DOMAIN CurveTimes : i < j => CurveTimes[i] < CurveTimes[j]
         /\ CurveTimes # <<>> =>
              /\ Last(CurveTimes) \in Nat
              /\ \A t \in Shown : \A i \in Points(t) : At0(t, i) <= Last(CurveTimes)
<1>1. \A t \in Shown : t \in Trials BY DEF Shown
<1>2. ASSUME NEW x \in Times PROVE x \in Nat /\ x <= TimeLimit
  <2>1. PICK t \in Shown : x \in {At0(t, i) : i \in Points(t)} BY DEF Times
  <2>2. PICK i \in Points(t) : x = At0(t, i) BY <2>1
  <2> QED BY <1>1, <2>2, PointAtIs
<1>3. Times \in SUBSET Nat /\ IsFiniteSet(Times)
  <2>1. TimeLimit \in Nat BY ReportAssumption
  <2>2. Times \subseteq 0..TimeLimit BY <1>2, <2>1
  <2>3. IsFiniteSet(0..TimeLimit) BY <2>1, FS_Interval
  <2>4. IsFiniteSet(Times) BY <2>2, <2>3, FS_Subset
  <2>5. Times \in SUBSET Nat BY <1>2
  <2> QED BY <2>4, <2>5
<1> DEFINE c == Cardinality(Times)
           a == Ascending(Times)
<1>4. CurveTimes = a BY DEF CurveTimes, Times
<1>5. /\ c \in Nat /\ a \in [1..c -> Times] /\ a \in Seq(Times) /\ Len(a) = c
      /\ \A i, j \in 1..c : i < j => a[i] < a[j]
      /\ \A x \in Times : \E i \in 1..c : a[i] = x
  BY <1>3, AscendingLists
<1> HIDE DEF a, c
<1>6. a \in Seq(Nat) BY <1>3, <1>5, SeqMonotonic
<1>7. DOMAIN a = 1..c BY <1>5
<1>8. ASSUME a # <<>>
      PROVE  /\ a[c] \in Nat /\ Last(a) = a[c]
             /\ \A x \in Times : x <= a[c]
  <2>1. c \in 1..c
    <3>1. c # 0 BY <1>5, <1>8, EmptySeq
    <3> QED BY <1>5, <3>1
  <2>2. a[c] \in Times BY <1>5, <2>1
  <2>3. ASSUME NEW x \in Times PROVE x <= a[c]
    <3>1. PICK i \in 1..c : a[i] = x BY <1>5
    <3>2. i = c \/ i < c BY <1>5
    <3>3. x \in Nat /\ a[c] \in Nat BY <1>2, <2>2
    <3>4. i < c => a[i] < a[c] BY <1>5, <2>1
    <3> QED BY <3>1, <3>2, <3>3, <3>4
  <2>4. Last(a) = a[c] BY <1>5 DEF Last
  <2> QED BY <1>2, <2>2, <2>3, <2>4
<1>9. \A t \in Shown : \A i \in Points(t) : At0(t, i) \in Times BY DEF Times
<1> QED BY <1>4, <1>5, <1>6, <1>7, <1>8, <1>9

\* At the end of the time axis a trial shows its last coverage and all its bugs.
LEMMA EndOfTrial ==
  ASSUME FiguresInv, NEW t \in Shown, HasFinal(t), InTimeOrder(t), NEW x \in Nat,
         \A i \in Points(t) : At0(t, i) <= x
  PROVE  /\ CoveredAt(t, x) = FinalCovered(t)
         /\ UniqueAt(t, x) = UniqueUpTo(t, Max(Points(t)))
<1>1. t \in Trials BY DEF Shown
<1> DEFINE l == Latest(t)
           A == {At0(t, i) : i \in Points(t)}
           known == {y \in A : PointAt(t, y) \in Measured(t)}
<1>2. l \in Measured(t) /\ l \in SnapshotRows(t) /\ \A i \in SnapshotRows(t) : i <= l
  BY <1>1, ShownRows DEF HasFinal, Measured
<1>3. Measured(t) \subseteq SnapshotRows(t) /\ SnapshotRows(t) \subseteq Points(t)
  BY <1>1, ShownRows, PointsAre
<1>4. \A i \in SnapshotRows(t) : At0(t, i) <= At0(t, l) BY <1>1, PlaceOfLatest
<1>5. \A i \in Points(t) : At0(t, i) \in Nat /\ PointAt(t, At0(t, i)) = i BY <1>1, PointAtIs
<1>6. \A i \in Points(t) : i \in Nat BY <1>1, PointsAre
<1>7. Seen(t, x) = A BY DEF Seen
<1>8. FinalCovered(t) = Covered(t, l) BY DEF FinalCovered
<1> HIDE DEF l
<1>9. CoveredAt(t, x) = IF known = {} THEN 0 ELSE Covered(t, PointAt(t, Max(known)))
  BY <1>7 DEF CoveredAt
<1>10. At0(t, l) \in known /\ PointAt(t, At0(t, l)) = l BY <1>2, <1>3, <1>5
<1>11. ASSUME NEW y \in known PROVE y \in Nat /\ y <= At0(t, l)
  <2>1. PICK i \in Points(t) : y = At0(t, i) OBVIOUS
  <2>2. i \in Measured(t) BY <1>5, <2>1
  <2> QED BY <1>3, <1>4, <1>5, <2>1, <2>2
<1>12. A \in SUBSET Nat /\ IsFiniteSet(A) /\ A # {}
  <2>1. \A y \in A : y \in Nat /\ y <= x BY <1>5
  <2>2. A # {} BY <1>2, <1>3
  <2> HIDE DEF A
  <2>3. A \subseteq 0..x BY <2>1
  <2>4. IsFiniteSet(0..x) BY FS_Interval
  <2> QED BY <2>1, <2>2, <2>3, <2>4, FS_Subset
<1>13. Max(known) = At0(t, l)
  <2> HIDE DEF known
  <2>1. known \in SUBSET Nat BY <1>11
  <2> QED BY <1>10, <1>11, <2>1, MaxIs
<1>14. CoveredAt(t, x) = FinalCovered(t) BY <1>8, <1>9, <1>10, <1>13
<1> HIDE DEF known
<1>15. Max(A) \in A /\ \A y \in A : y <= Max(A)
  <2> HIDE DEF A
  <2> QED BY <1>12, MaxOfFinite
<1>16. PICK p \in Points(t) : Max(A) = At0(t, p) BY <1>15
<1>17. PointAt(t, Max(A)) = p BY <1>5, <1>16
<1>18. UniqueAt(t, x) = UniqueUpTo(t, p) BY <1>7, <1>12, <1>17 DEF UniqueAt
<1>19. At0(t, l) <= At0(t, p) BY <1>2, <1>3, <1>15, <1>16
<1> HIDE DEF A
<1>20. l <= p
  <2> SUFFICES ASSUME p < l PROVE FALSE
    <3>1. l \in Nat /\ p \in Nat BY <1>2, <1>3, <1>6
    <3> QED BY <3>1
  <2>1. l \in Points(t) BY <1>2, <1>3
  <2>2. ~ (At0(t, p) < At0(t, l)) BY <1>5, <1>19, <2>1
  <2>3. /\ p \in SnapshotRows(t)
        /\ ticks[p].ts \in Nat /\ ticks[l].ts \in Nat /\ ticks[l].ts < ticks[p].ts
    BY <1>1, <2>1, <2>2, PointsApart
  <2>4. ticks[p].ts <= ticks[l].ts BY <1>2, <2>3 DEF InTimeOrder
  <2> QED BY <2>3, <2>4
<1> DEFINE m == Max(Points(t))
<1>21. m \in Points(t) /\ \A i \in Points(t) : i <= m BY <1>1, <1>16, PointsAre
<1> HIDE DEF m
<1>22. {j \in SnapshotRows(t) : j <= p} = SnapshotRows(t)
  <2>1. ASSUME NEW j \in SnapshotRows(t) PROVE j <= p
    <3>1. j \in Nat /\ l \in Nat /\ p \in Nat BY <1>2, <1>3, <1>6
    <3>2. j <= l BY <1>2
    <3> QED BY <1>20, <3>1, <3>2
  <2> QED BY <2>1
<1>23. {j \in SnapshotRows(t) : j <= m} = SnapshotRows(t) BY <1>3, <1>21
<1>24. UniqueUpTo(t, p) = UniqueUpTo(t, m) BY <1>22, <1>23 DEF UniqueUpTo
<1> QED BY <1>14, <1>18, <1>24 DEF m

LEMMA CurvesEnd == FiguresInv => CurveEndsAtFinals
<1> SUFFICES ASSUME FiguresInv, CurveTimes # <<>>
             PROVE  LET thin == Downsampled(CurveTimes, MaxPoints)
                    IN /\ Len(thin) <= MaxPoints
                       /\ Head(thin) = Head(CurveTimes) /\ Last(thin) = Last(CurveTimes)
                       /\ \A i, j \in DOMAIN thin : i < j => thin[i] < thin[j]
                       /\ \A t \in Shown : HasFinal(t) /\ InTimeOrder(t) =>
                            /\ CoveredAt(t, Last(thin)) = FinalCovered(t)
                            /\ UniqueAt(t, Last(thin)) = UniqueUpTo(t, Max(Points(t)))
  BY DEF CurveEndsAtFinals
<1> DEFINE thin == Downsampled(CurveTimes, MaxPoints)
           curve == CurveTimes
<1>1. /\ curve \in Seq(Nat) /\ curve # <<>>
      /\ \A i, j \in DOMAIN curve : i < j => curve[i] < curve[j]
      /\ Last(curve) \in Nat
      /\ \A t \in Shown : \A i \in Points(t) : At0(t, i) <= Last(curve)
  BY CurveTimesAre
<1>2. MaxPoints \in Nat \ {0, 1} BY ReportAssumption
<1>3. thin = Downsampled(curve, MaxPoints) OBVIOUS
<1> HIDE DEF thin, curve
<1>4. /\ Len(thin) <= MaxPoints
      /\ Head(thin) = Head(curve) /\ Last(thin) = Last(curve)
      /\ \A i, j \in DOMAIN thin : i < j => thin[i] < thin[j]
  BY <1>1, <1>2, <1>3, ThinKeeps
<1>5. ASSUME NEW t \in Shown, HasFinal(t), InTimeOrder(t)
      PROVE  /\ CoveredAt(t, Last(thin)) = FinalCovered(t)
             /\ UniqueAt(t, Last(thin)) = UniqueUpTo(t, Max(Points(t)))
  <2> DEFINE x == Last(thin)
  <2>1. x \in Nat /\ \A i \in Points(t) : At0(t, i) <= x BY <1>1, <1>4
  <2> HIDE DEF x
  <2>2. CoveredAt(t, x) = FinalCovered(t) /\ UniqueAt(t, x) = UniqueUpTo(t, Max(Points(t)))
    BY <1>5, <2>1, EndOfTrial
  <2> QED BY <2>2 DEF x
<1> QED BY <1>4, <1>5 DEF thin, curve

\* The thinned curve keeps its ends and its order, and ends at the final coverage
\* and bugs of each trial (collect_timeseries, build_curve, downsample_curve).
THEOREM CurvesEndAtFinals == Spec => []CurveEndsAtFinals
BY FiguresInvHolds, CurvesEnd, PTL
=============================================================================
