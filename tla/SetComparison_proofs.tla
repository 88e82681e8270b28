------------------------ MODULE SetComparison_proofs ------------------------
(* The figures of a comparison are what their marks say, for any fuzzers,   *)
(* trials and elements and whichever artifacts are missing.                 *)
EXTENDS SetComparison, FiniteSetsExt, FiniteSetTheorems, SequenceTheorems,
  WellFoundedInduction, TLAPS

-----------------------------------------------------------------------------
(* Sums and ranks *)

LEMMA MinOfNats ==
  ASSUME NEW S \in SUBSET Nat, S # {}
  PROVE  Min(S) \in S /\ \A x \in S : Min(S) <= x
<1>1. PICK n \in S : \A m \in S : ~ (<<m, n>> \in OpToRel(<, Nat))
  BY WFMin, NatLessThanWellFounded, Zenon
<1>2. \A m \in S : ~ (m < n) BY <1>1 DEF OpToRel
<1>3. \A m \in S : n <= m BY <1>2
<1> QED BY <1>3 DEF Min

Units(f) == UNION {{x} \X (1..f[x]) : x \in DOMAIN f}

LEMMA UnitsFinite ==
  ASSUME NEW f, IsFiniteSet(DOMAIN f), \A x \in DOMAIN f : f[x] \in Nat
  PROVE  IsFiniteSet(Units(f)) /\ Total(f) = Cardinality(Units(f)) /\ Total(f) \in Nat
<1> DEFINE Parts == {{x} \X (1..f[x]) : x \in DOMAIN f}
<1>1. IsFiniteSet(Parts)
  <2> DEFINE part(x) == {x} \X (1..f[x])
             g == [x \in DOMAIN f |-> part(x)]
  <2>1. g \in Surjection(DOMAIN f, Parts)
    <3>1. g \in [DOMAIN f -> Parts] OBVIOUS
    <3>2. \A p \in Parts : \E x \in DOMAIN f : g[x] = p OBVIOUS
    <3> HIDE DEF g, Parts
    <3> QED BY <3>1, <3>2 DEF Surjection
  <2> HIDE DEF g, Parts
  <2> QED BY <2>1, FS_Surjection
<1>2. ASSUME NEW p \in Parts PROVE IsFiniteSet(p)
  <2>1. PICK x \in DOMAIN f : p = {x} \X (1..f[x]) OBVIOUS
  <2>2. IsFiniteSet({x}) BY FS_Singleton
  <2>3. f[x] \in Int /\ 1 \in Int OBVIOUS
  <2>4. IsFiniteSet(1..f[x]) BY <2>3, FS_Interval
  <2> QED BY <2>1, <2>2, <2>4, FS_Product
<1>3. IsFiniteSet(UNION Parts)
  <2> HIDE DEF Parts
  <2> QED BY <1>1, <1>2, FS_UNION
<1>4. Units(f) = UNION Parts BY DEF Units
<1> QED BY <1>3, <1>4, FS_CardinalityType DEF Units, Total

Pairs(P) == UNION {{x} \X P[x] : x \in DOMAIN P}

LEMMA InPairs ==
  ASSUME NEW P, NEW x \in DOMAIN P, NEW y \in P[x]
  PROVE  <<x, y>> \in Pairs(P)
<1>1. <<x, y>> \in {x} \X P[x] OBVIOUS
<1> QED BY <1>1 DEF Pairs

LEMMA OfPairs ==
  ASSUME NEW P, NEW p \in Pairs(P)
  PROVE  \E x \in DOMAIN P : \E y \in P[x] : p = <<x, y>>
<1>1. PICK x \in DOMAIN P : p \in {x} \X P[x] BY DEF Pairs
<1> QED BY <1>1

\* The sizes of sets add up to the number of pairs.
LEMMA TotalOfSizes ==
  ASSUME NEW P, IsFiniteSet(DOMAIN P), \A x \in DOMAIN P : IsFiniteSet(P[x])
  PROVE  /\ IsFiniteSet(Pairs(P))
         /\ Total([x \in DOMAIN P |-> Cardinality(P[x])]) = Cardinality(Pairs(P))
<1> DEFINE f == [x \in DOMAIN P |-> Cardinality(P[x])]
           g == [x \in DOMAIN P |-> CHOOSE h : h \in Bijection(1..Cardinality(P[x]), P[x])]
<1>1. \A x \in DOMAIN P : f[x] \in Nat BY FS_CardinalityType
<1>2. ASSUME NEW x \in DOMAIN P PROVE g[x] \in Bijection(1..f[x], P[x])
  <2>1. ExistsBijection(1..Cardinality(P[x]), P[x]) BY FS_CardinalityType
  <2> QED BY <2>1 DEF ExistsBijection
<1>3. DOMAIN f = DOMAIN P OBVIOUS
<1>4. IsFiniteSet(Units(f)) /\ Total(f) = Cardinality(Units(f))
  <2> HIDE DEF f
  <2> QED BY <1>1, <1>3, UnitsFinite
<1> HIDE DEF f, g
<1>5. \A x \in DOMAIN P : \A n \in 1..f[x] : g[x][n] \in P[x]
  BY <1>2 DEF Bijection, Injection, Surjection
<1>6. \A x \in DOMAIN P : \A m, n \in 1..f[x] : g[x][m] = g[x][n] => m = n
  <2> TAKE x \in DOMAIN P
  <2>1. DOMAIN g[x] = 1..f[x] /\ IsInjective(g[x]) BY <1>2 DEF Bijection, Injection
  <2> QED BY <2>1 DEF IsInjective
<1>7. \A x \in DOMAIN P : \A y \in P[x] : \E n \in 1..f[x] : g[x][n] = y
  BY <1>2 DEF Bijection, Surjection
<1> DEFINE to(u) == <<u[1], g[u[1]][u[2]]>>
           h == [u \in Units(f) |-> to(u)]
<1>8. ASSUME NEW u \in Units(f)
      PROVE  \E x \in DOMAIN P : \E n \in 1..f[x] : u = <<x, n>>
  <2>1. PICK x \in DOMAIN P : u \in {x} \X (1..f[x]) BY <1>3 DEF Units
  <2> QED BY <2>1
<1>9. ASSUME NEW x \in DOMAIN P, NEW n \in 1..f[x]
      PROVE  <<x, n>> \in Units(f) /\ h[<<x, n>>] = <<x, g[x][n]>>
  <2>1. <<x, n>> \in {x} \X (1..f[x]) OBVIOUS
  <2>2. <<x, n>> \in Units(f) BY <1>3, <2>1 DEF Units
  <2> QED BY <2>2
<1>10. h \in [Units(f) -> Pairs(P)]
  <2>1. ASSUME NEW u \in Units(f) PROVE to(u) \in Pairs(P)
    <3>1. PICK x \in DOMAIN P : \E n \in 1..f[x] : u = <<x, n>> BY <1>8
    <3>2. PICK n \in 1..f[x] : u = <<x, n>> BY <3>1
    <3>3. to(u) = <<x, g[x][n]>> BY <3>2
    <3>4. g[x][n] \in P[x] BY <1>5
    <3> HIDE DEF to
    <3> QED BY <3>3, <3>4, InPairs
  <2> HIDE DEF to
  <2> QED BY <2>1
<1> HIDE DEF h, to
<1>11. ASSUME NEW u \in Units(f), NEW v \in Units(f), h[u] = h[v] PROVE u = v
  <2>1. PICK x \in DOMAIN P : \E n \in 1..f[x] : u = <<x, n>> BY <1>8
  <2>2. PICK n \in 1..f[x] : u = <<x, n>> BY <2>1
  <2>3. PICK y \in DOMAIN P : \E m \in 1..f[y] : v = <<y, m>> BY <1>8
  <2>4. PICK m \in 1..f[y] : v = <<y, m>> BY <2>3
  <2>5. <<x, g[x][n]>> = <<y, g[y][m]>> BY <1>9, <1>11, <2>2, <2>4
  <2>6. x = y /\ g[x][n] = g[y][m] BY <2>5
  <2>7. n = m BY <1>6, <2>6
  <2> QED BY <2>2, <2>4, <2>6, <2>7
<1>12. ASSUME NEW p \in Pairs(P) PROVE \E u \in Units(f) : h[u] = p
  <2>1. PICK x \in DOMAIN P : \E y \in P[x] : p = <<x, y>> BY OfPairs
  <2>2. PICK y \in P[x] : p = <<x, y>> BY <2>1
  <2>3. PICK n \in 1..f[x] : g[x][n] = y BY <1>7
  <2>4. <<x, n>> \in Units(f) /\ h[<<x, n>>] = p BY <1>9, <2>2, <2>3
  <2> QED BY <2>4
<1>13. h \in Bijection(Units(f), Pairs(P))
  BY <1>10, <1>11, <1>12 DEF Bijection, Injection, Surjection, IsInjective
<1>14. ExistsBijection(Units(f), Pairs(P)) BY <1>13 DEF ExistsBijection
<1>15. IsFiniteSet(Pairs(P)) /\ Cardinality(Pairs(P)) = Cardinality(Units(f))
  BY <1>4, <1>14, FS_Bijection
<1> QED BY <1>4, <1>15 DEF f

LEMMA NotMore ==
  ASSUME NEW S, NEW T, IsFiniteSet(T), NEW f \in [S -> T],
         \A x, y \in S : f[x] = f[y] => x = y
  PROVE  /\ IsFiniteSet(S) /\ Cardinality(S) <= Cardinality(T)
         /\ (\A z \in T : \E x \in S : f[x] = z) => Cardinality(S) = Cardinality(T)
<1>1. f \in Injection(S, T) BY DEF Injection, IsInjective
<1>2. (\A z \in T : \E x \in S : f[x] = z) => f \in Surjection(S, T) BY DEF Surjection
<1> QED BY <1>1, <1>2, FS_Injection

\* A rank within the number of arguments is that of some value.
LEMMA RankedIs ==
  ASSUME NEW f, IsFiniteSet(DOMAIN f), NEW b \in Nat,
         \A i \in DOMAIN f : f[i] \in Nat /\ f[i] <= b,
         NEW n \in Nat, 0 < n, n <= Cardinality(DOMAIN f)
  PROVE  \E i \in DOMAIN f : Ranked(f, n) = f[i]
<1> DEFINE Low(y) == {i \in DOMAIN f : f[i] <= y}
           Below(y) == {i \in DOMAIN f : f[i] < y}
           Q == {y \in Nat : n <= Cardinality(Low(y))}
           x == Min(Q)
<1>1. \A y : Cardinality(Low(y)) \in Nat /\ Cardinality(Below(y)) \in Nat
  <2> TAKE y
  <2>1. Low(y) \in SUBSET (DOMAIN f) /\ Below(y) \in SUBSET (DOMAIN f) OBVIOUS
  <2> HIDE DEF Low, Below
  <2> QED BY <2>1, FS_Subset, FS_CardinalityType
<1>2. Low(b) = DOMAIN f OBVIOUS
<1>3. b \in Q BY <1>2
<1>4. x \in Nat /\ n <= Cardinality(Low(x)) /\ \A y \in Nat : n <= Cardinality(Low(y)) => x <= y
  <2>1. Q \in SUBSET Nat /\ Q # {} BY <1>3
  <2>2. x \in Q /\ \A y \in Q : x <= y
    <3> HIDE DEF Q
    <3> QED BY <2>1, MinOfNats
  <2> QED BY <2>2
<1> HIDE DEF x
<1>5. Cardinality(Below(x)) < n
  <2>1. CASE x = 0
    <3>1. Below(x) = {} BY <2>1
    <3>2. Cardinality(Below(x)) = 0 BY <3>1, FS_EmptySet
    <3> QED BY <3>2
  <2>2. CASE x # 0
    <3> DEFINE z == x - 1
    <3>1. z \in Nat /\ z < x /\ \A v \in Nat : v < x <=> v <= z BY <1>4, <2>2
    <3> HIDE DEF z
    <3>2. Below(x) = Low(z) BY <3>1
    <3>3. ~ (n <= Cardinality(Low(z))) BY <1>4, <3>1
    <3> HIDE DEF Low, Below
    <3> QED BY <1>1, <3>2, <3>3
  <2> QED BY <2>1, <2>2
<1>6. \E i \in DOMAIN f : f[i] = x
  <2> SUFFICES ASSUME \A i \in DOMAIN f : f[i] # x PROVE FALSE OBVIOUS
  <2>1. Low(x) = Below(x) BY <1>4
  <2> HIDE DEF Low, Below
  <2> QED BY <1>1, <1>4, <1>5, <2>1
<1>7. x \in {f[i] : i \in DOMAIN f} BY <1>6
<1>8. Ranked(f, n) \in {f[i] : i \in DOMAIN f} BY <1>4, <1>5, <1>7 DEF Ranked
<1> QED BY <1>8

-----------------------------------------------------------------------------
(* Usable sets *)

LEMMA InitInv == Init => TruthInv
<1> SUFFICES ASSUME Init PROVE TruthInv OBVIOUS
<1>1. <<>> \in Seq(SUBSET Elements) BY EmptySeq
<1> QED BY <1>1 DEF Init, TruthInv

LEMMA NextInv == TruthInv /\ [Next]_vars => TruthInv'
<1> SUFFICES ASSUME TruthInv, [Next]_vars PROVE TruthInv' OBVIOUS
<1>1. ASSUME NEW l \in Fuzzers, AddTrial(l) PROVE TruthInv'
  <2>1. PICK set \in SUBSET Elements : truth' = [truth EXCEPT ![l] = Append(@, set)]
    BY <1>1 DEF AddTrial
  <2>2. PICK read \in SUBSET {Len(truth[l]) + 1} : readable' = [readable EXCEPT ![l] = @ \cup read]
    BY <1>1 DEF AddTrial
  <2>3. truth[l] \in Seq(SUBSET Elements) BY DEF TruthInv
  <2>4. Len(truth[l]) \in Nat /\ DOMAIN truth[l] = 1..Len(truth[l]) BY <2>3, LenProperties
  <2> DEFINE x == Append(truth[l], set)
  <2>5. x \in Seq(SUBSET Elements) /\ DOMAIN x = DOMAIN truth[l] \cup {Len(truth[l]) + 1}
    <3>1. x \in Seq(SUBSET Elements) /\ Len(x) = Len(truth[l]) + 1 BY <2>3, AppendProperties
    <3>2. DOMAIN x = 1..Len(truth[l]) + 1 BY <3>1, LenProperties
    <3> QED BY <2>4, <3>1, <3>2
  <2>6. truth' = [truth EXCEPT ![l] = x] BY <2>1 DEF TruthInv
  <2> HIDE DEF x
  <2>7. truth' \in [Fuzzers -> Seq(SUBSET Elements)] BY <2>5, <2>6 DEF TruthInv
  <2>8. readable' \in [Fuzzers -> SUBSET Nat]
    <3>1. read \in SUBSET Nat /\ readable[l] \in SUBSET Nat BY <2>4 DEF TruthInv
    <3>2. readable[l] \cup read \in SUBSET Nat BY <3>1
    <3> QED BY <2>2, <3>2 DEF TruthInv
  <2>9. ASSUME NEW m \in Fuzzers PROVE readable'[m] \subseteq DOMAIN truth'[m]
    <3>1. CASE m = l BY <2>2, <2>5, <2>6, <3>1 DEF TruthInv
    <3>2. CASE m # l BY <2>2, <2>6, <3>2 DEF TruthInv
    <3> QED BY <3>1, <3>2
  <2>10. aggregate' \subseteq Fuzzers BY <1>1 DEF AddTrial, TruthInv
  <2> QED BY <2>7, <2>8, <2>9, <2>10 DEF TruthInv
<1>2. CASE UNCHANGED vars BY <1>2 DEF vars, TruthInv
<1> QED BY <1>1, <1>2 DEF Next

\* Every trial has a set of elements, and only such sets are read
\* (coverage_sets_by_fuzzer, trial_coverage_sets_by_fuzzer).
THEOREM TruthInvHolds == Spec => []TruthInv
<1>1. Init => TruthInv BY InitInv
<1>2. TruthInv /\ [Next]_vars => TruthInv' BY NextInv
<1> QED BY <1>1, <1>2, PTL DEF Spec

\* What can be read of a fuzzer is part of what it covered, and all of it when
\* no set is missing.
LEMMA UsableAre ==
  ASSUME TruthInv, NEW l \in Fuzzers
  PROVE  /\ Len(truth[l]) \in Nat /\ DOMAIN truth[l] = 1..Len(truth[l])
         /\ \A k \in DOMAIN truth[l] : truth[l][k] \subseteq Elements
         /\ Really(l) \subseteq Elements /\ UnionSet(l) \subseteq Really(l)
         /\ UnionSet(l) = UNION {UsableSets(l)[k] : k \in DOMAIN UsableSets(l)}
         /\ IsFiniteSet(DOMAIN UsableSets(l)) /\ Reps(l) \in Nat
         /\ Reps(l) = 0 <=> DOMAIN UsableSets(l) = {}
         /\ Missing(l) \in Nat
         /\ ~ (Missing(l) > 0) => UnionSet(l) = Really(l)
         /\ ~ (Missing(l) > 0) /\ l \notin Fallback =>
              DOMAIN UsableSets(l) = DOMAIN truth[l] /\ \A k \in DOMAIN truth[l] : UsableSets(l)[k] = truth[l][k]
<1>1. truth[l] \in Seq(SUBSET Elements) /\ readable[l] \subseteq DOMAIN truth[l] BY DEF TruthInv
<1>2. /\ Len(truth[l]) \in Nat /\ DOMAIN truth[l] = 1..Len(truth[l])
      /\ \A k \in DOMAIN truth[l] : truth[l][k] \subseteq Elements
  BY <1>1, LenProperties
<1>3. Really(l) = UNION {truth[l][k] : k \in DOMAIN truth[l]} BY DEF Really, UnionOf, Range
<1>4. UnionSet(l) = UNION {UsableSets(l)[k] : k \in DOMAIN UsableSets(l)} BY DEF UnionSet, UnionOf, Range
<1>5. Really(l) \subseteq Elements BY <1>2, <1>3
<1>6. CASE l \in Fallback
  <2>1. UsableSets(l) = <<Really(l)>> BY <1>6 DEF UsableSets, Really
  <2>2. DOMAIN UsableSets(l) = {1} /\ UsableSets(l)[1] = Really(l) BY <2>1
  <2>3. Reps(l) = 1 /\ IsFiniteSet(DOMAIN UsableSets(l)) BY <2>2, FS_Singleton DEF Reps
  <2>4. Missing(l) = 0 BY <1>6 DEF Missing
  <2>5. UnionSet(l) = Really(l) BY <1>4, <2>2
  <2> QED BY <1>2, <1>4, <1>5, <1>6, <2>2, <2>3, <2>4, <2>5
<1>7. CASE l \notin Fallback
  <2>1. /\ DOMAIN UsableSets(l) = readable[l]
        /\ \A k \in readable[l] : UsableSets(l)[k] = truth[l][k]
    BY <1>7 DEF UsableSets
  <2>2. IsFiniteSet(DOMAIN truth[l]) /\ Cardinality(DOMAIN truth[l]) = Len(truth[l])
    <3> DEFINE n == Len(truth[l])
    <3>1. n \in Nat BY <1>2
    <3> HIDE DEF n
    <3>2. IsFiniteSet(1..n) /\ Cardinality(1..n) = IF 1 > n THEN 0 ELSE n - 1 + 1 BY <3>1, FS_Interval
    <3>3. IsFiniteSet(1..n) /\ Cardinality(1..n) = n BY <3>1, <3>2
    <3> QED BY <1>2, <3>3 DEF n
  <2>3. IsFiniteSet(readable[l]) /\ Cardinality(readable[l]) <= Len(truth[l])
        /\ (Cardinality(readable[l]) = Len(truth[l]) => readable[l] = DOMAIN truth[l])
    BY <1>1, <2>2, FS_Subset
  <2>4. Reps(l) = Cardinality(readable[l]) /\ Reps(l) \in Nat BY <2>1, <2>3, FS_CardinalityType DEF Reps
  <2>5. Reps(l) = 0 <=> readable[l] = {} BY <2>3, <2>4, FS_EmptySet
  <2>6. Missing(l) = Len(truth[l]) - Reps(l) BY <1>7 DEF Missing
  <2>7. Missing(l) \in Nat BY <1>2, <2>3, <2>4, <2>6
  <2>8. ~ (Missing(l) > 0) => readable[l] = DOMAIN truth[l] BY <1>2, <2>3, <2>4, <2>6
  <2>9. UnionSet(l) = UNION {truth[l][k] : k \in readable[l]} BY <1>4, <2>1
  <2>10. UnionSet(l) \subseteq Really(l) BY <1>1, <1>3, <2>9
  <2>11. ~ (Missing(l) > 0) => UnionSet(l) = Really(l) BY <1>3, <2>8, <2>9
  <2> QED BY <1>2, <1>4, <1>5, <2>1, <2>3, <2>4, <2>5, <2>7, <2>8, <2>10, <2>11
<1> QED BY <1>6, <1>7

\* The values every usable set of a fuzzer holds, and those of its peers.
Everywhere(l) == {v \in UnionSet(l) : \A k \in DOMAIN UsableSets(l) : v \in UsableSets(l)[k]}
Others(l) == UNION {UnionSet(m) : m \in Fuzzers \ {l}}

LEMMA OwnersAre ==
  ASSUME TruthInv, NEW l \in Fuzzers, NEW v
  PROVE  /\ OwnerCount(v, l) \in Nat
         /\ OwnerCount(v, l) > 0 <=> v \in UnionSet(l)
         /\ OwnerCount(v, l) = Reps(l) <=> \A k \in DOMAIN UsableSets(l) : v \in UsableSets(l)[k]
<1> DEFINE D == DOMAIN UsableSets(l)
           O == {k \in D : v \in UsableSets(l)[k]}
<1>1. IsFiniteSet(D) /\ Reps(l) = Cardinality(D) BY UsableAre DEF Reps
<1>2. O \in SUBSET D OBVIOUS
<1>3. OwnerCount(v, l) = Cardinality(O) BY DEF OwnerCount
<1>4. v \in UnionSet(l) <=> O # {} BY UsableAre
<1>5. (\A k \in D : v \in UsableSets(l)[k]) <=> O = D OBVIOUS
<1> HIDE DEF D, O
<1>6. IsFiniteSet(O) /\ Cardinality(O) \in Nat /\ (Cardinality(O) = Cardinality(D) => O = D)
  BY <1>1, <1>2, FS_Subset, FS_CardinalityType
<1>7. Cardinality(O) = 0 <=> O = {} BY <1>6, FS_EmptySet
<1>8. OwnerCount(v, l) \in Nat /\ (OwnerCount(v, l) > 0 <=> v \in UnionSet(l))
  BY <1>3, <1>4, <1>6, <1>7
<1>9. OwnerCount(v, l) = Reps(l) <=> O = D BY <1>1, <1>3, <1>6
<1> QED BY <1>5, <1>8, <1>9 DEF D

LEMMA OwnersOf ==
  ASSUME TruthInv, NEW v
  PROVE  Owners(v) = {l \in Fuzzers : v \in UnionSet(l)}
BY OwnersAre DEF Owners

\* The counts of the ownership index are the sizes of these sets.
LEMMA CountsAre ==
  ASSUME TruthInv, NEW r \in Fuzzers
  PROVE  /\ UnionSet(r) \subseteq Elements
         /\ \A c \in Fuzzers :
              /\ PairwiseAny(r, c) = Cardinality(UnionSet(r) \ UnionSet(c))
              /\ PairwiseAll(r, c) = Cardinality(Everywhere(r) \ UnionSet(c))
         /\ ExclusiveAny(r) = Cardinality(UnionSet(r) \ Others(r))
         /\ ExclusiveAll(r) = Cardinality(Everywhere(r) \ Others(r))
<1>1. UnionSet(r) \subseteq Elements BY UsableAre
<1>2. \A v : OwnerCount(v, r) = Reps(r) <=> \A k \in DOMAIN UsableSets(r) : v \in UsableSets(r)[k]
  BY OwnersAre
<1>3. \A v, l : l \in Owners(v) <=> l \in Fuzzers /\ v \in UnionSet(l) BY OwnersOf
<1>4. ASSUME NEW c \in Fuzzers
      PROVE  /\ PairwiseAny(r, c) = Cardinality(UnionSet(r) \ UnionSet(c))
             /\ PairwiseAll(r, c) = Cardinality(Everywhere(r) \ UnionSet(c))
  <2>1. {v \in Elements : r \in Owners(v) /\ c \notin Owners(v)} = UnionSet(r) \ UnionSet(c)
    BY <1>1, <1>3
  <2>2. {v \in Elements : r \in Owners(v) /\ c \notin Owners(v) /\ OwnerCount(v, r) = Reps(r)}
          = Everywhere(r) \ UnionSet(c)
    BY <1>1, <1>2, <1>3 DEF Everywhere
  <2> QED BY <2>1, <2>2 DEF PairwiseAny, PairwiseAll
<1>5. \A v : Owners(v) = {r} <=> v \in UnionSet(r) \ Others(r)
  <2> TAKE v
  <2>1. v \in Others(r) <=> \E l \in Fuzzers \ {r} : v \in UnionSet(l) BY DEF Others
  <2>2. Owners(v) = {r} <=> r \in Owners(v) /\ \A l \in Owners(v) : l = r BY <1>3
  <2> QED BY <1>3, <2>1, <2>2
<1>6. {v \in Elements : Owners(v) = {r}} = UnionSet(r) \ Others(r) BY <1>1, <1>5
<1>7. {v \in Elements : Owners(v) = {r} /\ OwnerCount(v, r) = Reps(r)} = Everywhere(r) \ Others(r)
  BY <1>1, <1>2, <1>5 DEF Everywhere
<1> QED BY <1>1, <1>4, <1>6, <1>7 DEF ExclusiveAny, ExclusiveAll

-----------------------------------------------------------------------------
(* Bounds *)

LEMMA Sizes ==
  ASSUME NEW B \in SUBSET Elements, NEW A \in SUBSET B
  PROVE  /\ Cardinality(A) \in Nat /\ Cardinality(B) \in Nat
         /\ Cardinality(A) <= Cardinality(B)
<1>1. IsFiniteSet(B) BY SetComparisonAssumption, FS_Subset
<1> QED BY <1>1, FS_Subset, FS_CardinalityType

\* What a fuzzer covered and others did not: D is what is known of the others,
\* all of what they covered unless some of it is missing.
LEMMA AnyHolds ==
  ASSUME TruthInv, NEW r \in Fuzzers, NEW R, NEW D \in SUBSET R, NEW m \in BOOLEAN, ~m => D = R
  PROVE  Holds(AnyBound(r, m), Cardinality(UnionSet(r) \ D), Cardinality(Really(r) \ R))
<1> DEFINE A == UnionSet(r) \ D
           B == Really(r) \ R
           b == AnyBound(r, m)
<1>1. /\ UnionSet(r) \subseteq Really(r) /\ Really(r) \subseteq Elements
      /\ Missing(r) \in Nat /\ Reps(r) \in Nat
      /\ ~ (Missing(r) > 0) => UnionSet(r) = Really(r)
  BY UsableAre
<1>2. A \in SUBSET Elements /\ B \in SUBSET Elements BY <1>1
<1>3. b = "exact" => ~m /\ ~ (Missing(r) > 0) BY <1>1 DEF AnyBound
<1>4. b = "lower" => ~m BY <1>1 DEF AnyBound
<1>5. b = "upper" => ~ (Missing(r) > 0) BY <1>1 DEF AnyBound
<1>6. b = "exact" => A = B BY <1>1, <1>3
<1>7. b = "lower" => A \in SUBSET B BY <1>1, <1>4
<1>8. b = "upper" => B \in SUBSET A BY <1>1, <1>5
<1> HIDE DEF A, B, b
<1>9. b = "lower" => Cardinality(A) <= Cardinality(B) BY <1>2, <1>7, Sizes
<1>10. b = "upper" => Cardinality(A) >= Cardinality(B) BY <1>2, <1>8, Sizes
<1>11. Holds(b, Cardinality(A), Cardinality(B)) BY <1>6, <1>9, <1>10 DEF Holds
<1> QED BY <1>11 DEF A, B, b

LEMMA AllHolds ==
  ASSUME TruthInv, NEW r \in Fuzzers, NEW R, NEW D \in SUBSET R, NEW m \in BOOLEAN, ~m => D = R
  PROVE  Holds(AllBound(r, m), Cardinality(Everywhere(r) \ D), Cardinality(InAll(r) \ R))
<1> DEFINE A == Everywhere(r) \ D
           B == InAll(r) \ R
           b == AllBound(r, m)
<1>1. /\ UnionSet(r) \subseteq Really(r) /\ Really(r) \subseteq Elements
      /\ Missing(r) \in Nat /\ Reps(r) \in Nat
      /\ Reps(r) = 0 <=> DOMAIN UsableSets(r) = {}
      /\ UnionSet(r) = UNION {UsableSets(r)[k] : k \in DOMAIN UsableSets(r)}
  BY UsableAre
<1>2. A \in SUBSET Elements /\ B \in SUBSET Elements BY <1>1 DEF Everywhere, InAll
<1>3. b # "lower" BY DEF AllBound
<1>4. b # "unknown" => Reps(r) # 0 /\ ~ (Missing(r) > 0) /\ r \notin Fallback BY DEF AllBound
<1>5. b = "exact" => ~m BY DEF AllBound
<1>6. ASSUME b # "unknown" PROVE Everywhere(r) = InAll(r)
  <2>1. /\ DOMAIN UsableSets(r) = DOMAIN truth[r] /\ DOMAIN truth[r] # {}
        /\ \A k \in DOMAIN truth[r] : UsableSets(r)[k] = truth[r][k]
    BY <1>1, <1>4, <1>6, UsableAre
  <2>2. \A v : v \in Everywhere(r) <=> \A k \in DOMAIN truth[r] : v \in truth[r][k]
    <3>1. \A v : v \in UnionSet(r) <=> \E k \in DOMAIN truth[r] : v \in truth[r][k] BY <1>1, <2>1
    <3> QED BY <2>1, <3>1 DEF Everywhere
  <2>3. \A v : v \in Everywhere(r) => v \in Elements BY <1>1 DEF Everywhere
  <2> QED BY <2>2, <2>3 DEF InAll
<1>7. b = "exact" => A = B BY <1>5, <1>6
<1>8. b = "upper" => B \in SUBSET A BY <1>6
<1> HIDE DEF A, B, b
<1>9. b = "upper" => Cardinality(A) >= Cardinality(B) BY <1>2, <1>8, Sizes
<1>10. Holds(b, Cardinality(A), Cardinality(B)) BY <1>3, <1>7, <1>9 DEF Holds
<1> QED BY <1>10 DEF A, B, b

LEMMA BoundsHold == TruthInv => BoundsAreTrue
<1> SUFFICES ASSUME TruthInv PROVE BoundsAreTrue OBVIOUS
<1>1. ASSUME NEW r \in Fuzzers, NEW c \in Fuzzers
      PROVE  /\ Holds(Comparison(r, c).anyBound, Comparison(r, c).any, Cardinality(Really(r) \ Really(c)))
             /\ Holds(Comparison(r, c).allBound, Comparison(r, c).all, Cardinality(InAll(r) \ Really(c)))
  <2> DEFINE m == Missing(c) > 0
  <2>1. /\ Comparison(r, c).any = Cardinality(UnionSet(r) \ UnionSet(c))
        /\ Comparison(r, c).all = Cardinality(Everywhere(r) \ UnionSet(c))
        /\ Comparison(r, c).anyBound = AnyBound(r, m) /\ Comparison(r, c).allBound = AllBound(r, m)
    BY CountsAre DEF Comparison
  <2>2. m \in BOOLEAN /\ (~m => UnionSet(c) = Really(c)) /\ UnionSet(c) \in SUBSET Really(c)
    BY UsableAre
  <2> HIDE DEF m
  <2>3. Holds(AnyBound(r, m), Cardinality(UnionSet(r) \ UnionSet(c)), Cardinality(Really(r) \ Really(c)))
    BY <2>2, AnyHolds
  <2>4. Holds(AllBound(r, m), Cardinality(Everywhere(r) \ UnionSet(c)), Cardinality(InAll(r) \ Really(c)))
    BY <2>2, AllHolds
  <2> QED BY <2>1, <2>3, <2>4
<1>2. ASSUME NEW r \in Fuzzers
      PROVE  LET rest == UNION {Really(l) : l \in Fuzzers \ {r}}
             IN /\ Holds(Exclusive(r).anyBound, Exclusive(r).any, Cardinality(Really(r) \ rest))
                /\ Holds(Exclusive(r).allBound, Exclusive(r).all, Cardinality(InAll(r) \ rest))
  <2> DEFINE rest == UNION {Really(l) : l \in Fuzzers \ {r}}
             m == OthersMissing(r)
  <2>1. /\ Exclusive(r).any = Cardinality(UnionSet(r) \ Others(r))
        /\ Exclusive(r).all = Cardinality(Everywhere(r) \ Others(r))
        /\ Exclusive(r).anyBound = AnyBound(r, m) /\ Exclusive(r).allBound = AllBound(r, m)
    BY CountsAre DEF Exclusive
  <2>2. \A l \in Fuzzers : UnionSet(l) \subseteq Really(l) /\ (~ (Missing(l) > 0) => UnionSet(l) = Really(l))
    BY UsableAre
  <2>3. Others(r) \in SUBSET rest
    <3>1. ASSUME NEW v \in Others(r) PROVE v \in rest
      <4>1. PICK l \in Fuzzers \ {r} : v \in UnionSet(l) BY DEF Others
      <4> QED BY <2>2, <4>1
    <3> QED BY <3>1
  <2>4. ~m => Others(r) = rest
    <3> SUFFICES ASSUME ~m, NEW v \in rest PROVE v \in Others(r) BY <2>3
    <3>1. PICK l \in Fuzzers \ {r} : v \in Really(l) OBVIOUS
    <3>2. ~ (Missing(l) > 0) BY DEF OthersMissing
    <3> QED BY <2>2, <3>1, <3>2 DEF Others
  <2>5. m \in BOOLEAN BY DEF OthersMissing
  <2> HIDE DEF m, rest
  <2>6. Holds(AnyBound(r, m), Cardinality(UnionSet(r) \ Others(r)), Cardinality(Really(r) \ rest))
    BY <2>3, <2>4, <2>5, AnyHolds
  <2>7. Holds(AllBound(r, m), Cardinality(Everywhere(r) \ Others(r)), Cardinality(InAll(r) \ rest))
    BY <2>3, <2>4, <2>5, AllHolds
  <2> QED BY <2>1, <2>6, <2>7 DEF rest
<1> QED BY <1>1, <1>2 DEF BoundsAreTrue

\* Whatever artifacts are missing, a figure marked exact is exact and one marked as
\* a bound bounds what was really covered (the table in _trial_set_counts).
THEOREM MarksAreTrue == Spec => []BoundsAreTrue
BY TruthInvHolds, BoundsHold, PTL

-----------------------------------------------------------------------------
(* Figures *)

LEMMA LabelsAre ==
  /\ IsFiniteSet(Fuzzers) /\ Cardinality(Fuzzers) = Len(Labels)
  /\ \A k \in DOMAIN Labels : Labels[k] \in Fuzzers /\ OtherUnion(k) = Others(Labels[k])
<1>1. /\ Labels \in Seq(Fuzzers)
      /\ \A j, k \in DOMAIN Labels : Labels[j] = Labels[k] => j = k
  BY SetComparisonAssumption DEF Fuzzers, IsInjective
<1> DEFINE n == Len(Labels)
<1>2. n \in Nat /\ DOMAIN Labels = 1..n /\ Labels \in [1..n -> Fuzzers] BY <1>1, LenProperties
<1>3. \A l \in Fuzzers : \E k \in 1..n : Labels[k] = l BY <1>2 DEF Fuzzers, Range
<1> HIDE DEF n
<1>4. IsFiniteSet(1..n) /\ Cardinality(1..n) = n
  <2>1. IsFiniteSet(1..n) /\ Cardinality(1..n) = IF 1 > n THEN 0 ELSE n - 1 + 1 BY <1>2, FS_Interval
  <2> QED BY <1>2, <2>1
<1>5. Labels \in Bijection(1..n, Fuzzers)
  BY <1>1, <1>2, <1>3 DEF Bijection, Injection, Surjection, IsInjective
<1>6. ExistsBijection(1..n, Fuzzers) BY <1>5 DEF ExistsBijection
<1>7. IsFiniteSet(Fuzzers) /\ Cardinality(Fuzzers) = n BY <1>4, <1>6, FS_Bijection
<1>8. ASSUME NEW k \in DOMAIN Labels PROVE Labels[k] \in Fuzzers /\ OtherUnion(k) = Others(Labels[k])
  <2>1. Labels[k] \in Fuzzers BY <1>2
  <2>2. \A l : l \in Fuzzers \ {Labels[k]} <=> \E j \in DOMAIN Labels \ {k} : Labels[j] = l
    BY <1>1, <1>2, <1>3
  <2>3. {UnionSet(Labels[j]) : j \in DOMAIN Labels \ {k}} = {UnionSet(l) : l \in Fuzzers \ {Labels[k]}}
    BY <2>2, Zenon
  <2> QED BY <2>1, <2>3 DEF OtherUnion, Others
<1> QED BY <1>7, <1>8 DEF n

LEMMA ElementsFinite == \A S \in SUBSET Elements : IsFiniteSet(S)
BY SetComparisonAssumption, FS_Subset

\* The exclusive values of a trial contain those of all trials, and all trials
\* together have those of the fuzzer.
LEMMA CountsBetween ==
  ASSUME TruthInv, NEW k \in DOMAIN Labels
  PROVE  LET counts == TrialCounts(k)  own == Exclusive(Labels[k])
         IN /\ \A i \in DOMAIN counts : own.all <= counts[i] /\ counts[i] <= own.any
            /\ DOMAIN counts # {} => own.any <= Total(counts)
<1> DEFINE l == Labels[k]
           counts == TrialCounts(k)
           D == DOMAIN UsableSets(l)
           P == [i \in D |-> UsableSets(l)[i] \ Others(l)]
           S == UnionSet(l) \ Others(l)
<1>1. l \in Fuzzers /\ OtherUnion(k) = Others(l) BY LabelsAre
<1> HIDE DEF l
<1>2. /\ Exclusive(l).any = Cardinality(S)
      /\ Exclusive(l).all = Cardinality(Everywhere(l) \ Others(l))
  BY <1>1, CountsAre DEF Exclusive
<1>3. /\ UnionSet(l) = UNION {UsableSets(l)[i] : i \in D} /\ UnionSet(l) \subseteq Elements
      /\ IsFiniteSet(D)
  BY <1>1, UsableAre
<1>4. IF l \in Fallback THEN counts = <<>> ELSE counts = [i \in D |-> Cardinality(P[i])]
  BY <1>1 DEF TrialCounts, l
<1>5. ASSUME NEW i \in D
      PROVE  /\ P[i] \in SUBSET S /\ Everywhere(l) \ Others(l) \in SUBSET P[i]
             /\ P[i] \in SUBSET Elements
  BY <1>3 DEF Everywhere
<1>6. S \in SUBSET Elements BY <1>3
<1>7. ASSUME NEW i \in DOMAIN counts
      PROVE  Exclusive(l).all <= counts[i] /\ counts[i] <= Exclusive(l).any
  <2>1. l \notin Fallback BY <1>4
  <2>2. i \in D /\ counts[i] = Cardinality(P[i]) BY <1>4, <2>1
  <2>3. P[i] \in SUBSET S /\ Everywhere(l) \ Others(l) \in SUBSET P[i] /\ P[i] \in SUBSET Elements
    BY <1>5, <2>2
  <2> HIDE DEF P, S, counts
  <2>4. Cardinality(P[i]) <= Cardinality(S) BY <1>6, <2>3, Sizes
  <2>5. Cardinality(Everywhere(l) \ Others(l)) <= Cardinality(P[i]) BY <2>3, Sizes
  <2> QED BY <1>2, <2>2, <2>4, <2>5
<1>8. ASSUME DOMAIN counts # {} PROVE Exclusive(l).any <= Total(counts)
  <2>1. l \notin Fallback BY <1>4, <1>8
  <2>2. counts = [i \in DOMAIN P |-> Cardinality(P[i])] BY <1>4, <2>1
  <2>3. IsFiniteSet(DOMAIN P) /\ \A i \in DOMAIN P : IsFiniteSet(P[i]) BY <1>3, <1>5, ElementsFinite
  <2>4. \A v \in S : \E i \in D : v \in P[i] BY <1>3
  <2>5. DOMAIN P = D OBVIOUS
  <2> HIDE DEF P, S, counts, D
  <2>6. IsFiniteSet(Pairs(P)) /\ Total(counts) = Cardinality(Pairs(P)) BY <2>2, <2>3, TotalOfSizes
  <2> DEFINE of(v) == CHOOSE i \in D : v \in P[i]
             f == [v \in S |-> <<of(v), v>>]
  <2>7. \A v \in S : of(v) \in D /\ v \in P[of(v)] BY <2>4
  <2> HIDE DEF of
  <2>8. \A v \in S : <<of(v), v>> \in Pairs(P) BY <2>5, <2>7, InPairs
  <2>9. f \in [S -> Pairs(P)] BY <2>8
  <2>10. \A x, y \in S : f[x] = f[y] => x = y OBVIOUS
  <2> HIDE DEF f
  <2>11. Cardinality(S) <= Cardinality(Pairs(P)) BY <2>6, <2>9, <2>10, NotMore
  <2> QED BY <1>2, <2>6, <2>11
<1> QED BY <1>7, <1>8 DEF l

\* Each value of a trial that a peer lacks is counted once, by its value or by the
\* trial and the peer.
LEMMA NoveltyIs ==
  ASSUME TruthInv, NEW l \in Fuzzers
  PROVE  Novelty(l) = Total([p \in (DOMAIN UsableSets(l)) \X Fuzzers |->
                               Cardinality(UsableSets(l)[p[1]] \ UnionSet(p[2]))])
<1> DEFINE D == DOMAIN UsableSets(l)
           In(v) == {i \in D : v \in UsableSets(l)[i]}
           Q == [v \in Elements |-> In(v) \X (Fuzzers \ Owners(v))]
           R == [p \in D \X Fuzzers |-> UsableSets(l)[p[1]] \ UnionSet(p[2])]
<1>1. /\ IsFiniteSet(D) /\ UnionSet(l) = UNION {UsableSets(l)[i] : i \in D}
      /\ UnionSet(l) \subseteq Elements
  BY UsableAre
<1>2. \A i \in D : UsableSets(l)[i] \subseteq Elements BY <1>1
<1>3. \A v : Owners(v) = {m \in Fuzzers : v \in UnionSet(m)} BY OwnersOf
<1>4. ASSUME NEW v \in Elements
      PROVE  IsFiniteSet(Q[v]) /\ (Len(Labels) - Cardinality(Owners(v))) * OwnerCount(v, l) = Cardinality(Q[v])
  <2>1. OwnerCount(v, l) = Cardinality(In(v)) BY DEF OwnerCount
  <2>2. In(v) \in SUBSET D OBVIOUS
  <2>3. Owners(v) \in SUBSET Fuzzers BY <1>3
  <2>4. Q[v] = In(v) \X (Fuzzers \ Owners(v)) OBVIOUS
  <2> HIDE DEF Q, In, D
  <2>5. IsFiniteSet(In(v)) BY <1>1, <2>2, FS_Subset
  <2> DEFINE L == Fuzzers \ Owners(v)
  <2>6. IsFiniteSet(Fuzzers) /\ Cardinality(Fuzzers) = Len(Labels) BY LabelsAre
  <2>7. IsFiniteSet(L) /\ Cardinality(L) = Cardinality(Fuzzers) - Cardinality(Fuzzers \cap Owners(v))
    BY <2>6, FS_Difference
  <2>8. Fuzzers \cap Owners(v) = Owners(v) BY <2>3
  <2>9. Cardinality(L) = Len(Labels) - Cardinality(Owners(v)) BY <2>6, <2>7, <2>8
  <2> HIDE DEF L
  <2>10. Cardinality(In(v)) \in Nat /\ Cardinality(L) \in Nat BY <2>5, <2>7, FS_CardinalityType
  <2>11. IsFiniteSet(In(v) \X L) /\ Cardinality(In(v) \X L) = Cardinality(In(v)) * Cardinality(L)
    BY <2>5, <2>7, FS_Product
  <2>12. Cardinality(In(v)) * Cardinality(L) = Cardinality(L) * Cardinality(In(v)) BY <2>10
  <2> QED BY <2>1, <2>4, <2>9, <2>11, <2>12 DEF L
<1>5. Novelty(l) = Total([v \in DOMAIN Q |-> Cardinality(Q[v])])
  <2>1. [v \in Elements |-> (Len(Labels) - Cardinality(Owners(v))) * OwnerCount(v, l)]
          = [v \in DOMAIN Q |-> Cardinality(Q[v])]
    <3>1. DOMAIN Q = Elements OBVIOUS
    <3> HIDE DEF Q
    <3> QED BY <1>4, <3>1
  <2> QED BY <2>1 DEF Novelty
<1>6. IsFiniteSet(Pairs(Q)) /\ Novelty(l) = Cardinality(Pairs(Q))
  <2>1. IsFiniteSet(DOMAIN Q) /\ \A v \in DOMAIN Q : IsFiniteSet(Q[v])
    <3>1. DOMAIN Q = Elements OBVIOUS
    <3> HIDE DEF Q
    <3> QED BY <1>4, <3>1, SetComparisonAssumption
  <2> HIDE DEF Q
  <2> QED BY <1>5, <2>1, TotalOfSizes
<1>7. IsFiniteSet(Pairs(R)) /\ Total([p \in DOMAIN R |-> Cardinality(R[p])]) = Cardinality(Pairs(R))
  <2>1. DOMAIN R = D \X Fuzzers OBVIOUS
  <2>2. \A p \in DOMAIN R : R[p] \in SUBSET Elements BY <1>2
  <2> HIDE DEF R, D
  <2>3. IsFiniteSet(D \X Fuzzers) BY <1>1, LabelsAre, FS_Product
  <2> QED BY <2>1, <2>2, <2>3, ElementsFinite, TotalOfSizes
<1> DEFINE f == [q \in Pairs(Q) |-> <<q[2], q[1]>>]
<1>8. ASSUME NEW v, NEW i, NEW m
      PROVE  v \in Elements /\ <<i, m>> \in Q[v] <=> <<i, m>> \in D \X Fuzzers /\ v \in R[<<i, m>>]
  <2>1. i \in D /\ m \in Fuzzers => R[<<i, m>>] = UsableSets(l)[i] \ UnionSet(m) OBVIOUS
  <2>2. v \in Elements => (<<i, m>> \in Q[v] <=> i \in D /\ v \in UsableSets(l)[i] /\ m \in Fuzzers /\ v \notin UnionSet(m))
    BY <1>3
  <2> QED BY <1>2, <2>1, <2>2
<1>9. DOMAIN Q = Elements /\ DOMAIN R = D \X Fuzzers OBVIOUS
<1>10. \A v \in Elements : \A y \in Q[v] : \E i \in D : \E m \in Fuzzers : y = <<i, m>> OBVIOUS
<1> HIDE DEF Q, R
<1>11. ASSUME NEW q \in Pairs(Q)
       PROVE  \E v \in Elements : \E i \in D : \E m \in Fuzzers :
                q = <<v, <<i, m>>>> /\ <<i, m>> \in Q[v]
  <2>1. PICK v \in Elements : \E y \in Q[v] : q = <<v, y>> BY <1>9, OfPairs
  <2>2. PICK y \in Q[v] : q = <<v, y>> BY <2>1
  <2>3. PICK i \in D : \E m \in Fuzzers : y = <<i, m>> BY <1>10
  <2>4. PICK m \in Fuzzers : y = <<i, m>> BY <2>3
  <2> QED BY <2>2, <2>4
<1>12. f \in [Pairs(Q) -> Pairs(R)]
  <2>1. ASSUME NEW q \in Pairs(Q) PROVE <<q[2], q[1]>> \in Pairs(R)
    <3>1. PICK v \in Elements : \E i \in D : \E m \in Fuzzers : q = <<v, <<i, m>>>> /\ <<i, m>> \in Q[v]
      BY <1>11
    <3>2. PICK i \in D : \E m \in Fuzzers : q = <<v, <<i, m>>>> /\ <<i, m>> \in Q[v] BY <3>1
    <3>3. PICK m \in Fuzzers : q = <<v, <<i, m>>>> /\ <<i, m>> \in Q[v] BY <3>2
    <3>4. <<i, m>> \in DOMAIN R /\ v \in R[<<i, m>>] BY <1>8, <1>9, <3>3
    <3>5. <<<<i, m>>, v>> \in Pairs(R) BY <3>4, InPairs
    <3> QED BY <3>3, <3>5
  <2> QED BY <2>1
<1>13. \A p, q \in Pairs(Q) : f[p] = f[q] => p = q
  <2> SUFFICES ASSUME NEW p \in Pairs(Q), NEW q \in Pairs(Q), f[p] = f[q] PROVE p = q OBVIOUS
  <2>1. \A r \in Pairs(Q) : r = <<r[1], r[2]>>
    <3> TAKE r \in Pairs(Q)
    <3>1. PICK v \in Elements : \E i \in D : \E m \in Fuzzers : r = <<v, <<i, m>>>> BY <1>11
    <3>2. PICK i \in D : \E m \in Fuzzers : r = <<v, <<i, m>>>> BY <3>1
    <3> QED BY <3>2
  <2>2. p[1] = q[1] /\ p[2] = q[2] OBVIOUS
  <2> QED BY <2>1, <2>2
<1>14. ASSUME NEW r \in Pairs(R) PROVE \E q \in Pairs(Q) : f[q] = r
  <2>1. PICK p \in D \X Fuzzers : \E v \in R[p] : r = <<p, v>> BY <1>9, OfPairs
  <2>2. PICK v \in R[p] : r = <<p, v>> BY <2>1
  <2>3. PICK i \in D, m \in Fuzzers : p = <<i, m>> BY <2>1
  <2>4. v \in Elements /\ <<i, m>> \in Q[v] BY <1>8, <2>2, <2>3
  <2>5. <<v, <<i, m>>>> \in Pairs(Q) BY <1>9, <2>4, InPairs
  <2>6. f[<<v, <<i, m>>>>] = r BY <2>2, <2>3, <2>5
  <2> QED BY <2>5, <2>6
<1> HIDE DEF f
<1>15. Cardinality(Pairs(Q)) = Cardinality(Pairs(R)) BY <1>7, <1>12, <1>13, <1>14, NotMore
<1>16. [p \in DOMAIN R |-> Cardinality(R[p])]
         = [p \in (DOMAIN UsableSets(l)) \X Fuzzers |-> Cardinality(UsableSets(l)[p[1]] \ UnionSet(p[2]))]
  BY DEF R
<1> QED BY <1>6, <1>7, <1>15, <1>16

\* The shares of the trials lie between what all of them and what any of them has
\* in common with the peer, and so does their median.
LEMMA ContainmentBetween ==
  ASSUME TruthInv, NEW l \in Fuzzers, NEW c \in Fuzzers, DOMAIN UsableSets(l) # {}
  PROVE  /\ Containment(l, c) <= 2 * (Cardinality(UnionSet(c)) - Comparison(c, l).any)
         /\ 2 * Cardinality({v \in UnionSet(c) : OwnerCount(v, l) = Reps(l)}) <= Containment(l, c)
<1> DEFINE D == DOMAIN UsableSets(l)
           shares == [k \in D |-> Cardinality(UsableSets(l)[k] \cap UnionSet(c))]
           common == UnionSet(c) \cap UnionSet(l)
           steady == {v \in UnionSet(c) : OwnerCount(v, l) = Reps(l)}
           n == Reps(l)
           b == Cardinality(common)
           s == Cardinality(steady)
<1>1. /\ IsFiniteSet(D) /\ n \in Nat /\ n # 0 /\ n = Cardinality(D)
      /\ UnionSet(l) = UNION {UsableSets(l)[k] : k \in D}
      /\ UnionSet(l) \subseteq Elements /\ UnionSet(c) \subseteq Elements
  BY UsableAre DEF Reps
<1>2. \A v : OwnerCount(v, l) = n <=> \A k \in D : v \in UsableSets(l)[k] BY OwnersAre
<1>3. b = Cardinality(UnionSet(c)) - Comparison(c, l).any
  <2>1. Comparison(c, l).any = Cardinality(UnionSet(c) \ UnionSet(l)) BY CountsAre DEF Comparison
  <2>2. IsFiniteSet(UnionSet(c)) BY <1>1, ElementsFinite
  <2>3. Cardinality(UnionSet(c) \ UnionSet(l)) = Cardinality(UnionSet(c)) - b BY <2>2, FS_Difference
  <2>4. Cardinality(UnionSet(c)) \in Nat /\ b \in Nat BY <1>1, Sizes
  <2> HIDE DEF b
  <2> QED BY <2>1, <2>3, <2>4
<1>4. ASSUME NEW k \in D
      PROVE  shares[k] \in Nat /\ b \in Nat /\ s \in Nat /\ s <= shares[k] /\ shares[k] <= b
  <2> DEFINE A == UsableSets(l)[k] \cap UnionSet(c)
  <2>1. A \in SUBSET common /\ common \in SUBSET Elements BY <1>1
  <2>2. steady \in SUBSET A BY <1>2
  <2>3. shares[k] = Cardinality(A) OBVIOUS
  <2>4. A \in SUBSET Elements BY <2>1
  <2> HIDE DEF A, common, steady, shares
  <2>5. Cardinality(A) \in Nat /\ b \in Nat /\ Cardinality(A) <= b BY <2>1, Sizes
  <2>6. s \in Nat /\ s <= Cardinality(A) BY <2>2, <2>4, Sizes
  <2> HIDE DEF b, s
  <2> QED BY <2>3, <2>5, <2>6
<1>5. Containment(l, c) = Ranked(shares, (n + 1) \div 2) + Ranked(shares, n \div 2 + 1)
  BY <1>1 DEF Containment
<1>6. DOMAIN shares = D OBVIOUS
<1> HIDE DEF n, shares, b, s, D
<1>7. ASSUME NEW m \in Nat, 0 < m, m <= n
      PROVE  Ranked(shares, m) \in Nat /\ s <= Ranked(shares, m) /\ Ranked(shares, m) <= b
  <2>1. \A k \in DOMAIN shares : shares[k] \in Nat /\ shares[k] <= b BY <1>4, <1>6
  <2>2. b \in Nat BY <1>4 DEF D
  <2>3. IsFiniteSet(DOMAIN shares) /\ m <= Cardinality(DOMAIN shares) BY <1>1, <1>6, <1>7
  <2>4. \E k \in DOMAIN shares : Ranked(shares, m) = shares[k] BY <1>7, <2>1, <2>2, <2>3, RankedIs
  <2> QED BY <1>4, <1>6, <2>4
<1>8. /\ (n + 1) \div 2 \in Nat /\ 0 < (n + 1) \div 2 /\ (n + 1) \div 2 <= n
      /\ n \div 2 + 1 \in Nat /\ 0 < n \div 2 + 1 /\ n \div 2 + 1 <= n
  BY <1>1
<1> DEFINE p == Ranked(shares, (n + 1) \div 2)
           q == Ranked(shares, n \div 2 + 1)
<1>9. p \in Nat /\ s <= p /\ p <= b BY <1>7, <1>8
<1>10. q \in Nat /\ s <= q /\ q <= b BY <1>7, <1>8
<1>11. b \in Nat /\ s \in Nat BY <1>4 DEF D
<1>12. Containment(l, c) = p + q BY <1>5
<1> HIDE DEF p, q
<1>13. Containment(l, c) <= 2 * b /\ 2 * s <= Containment(l, c) BY <1>9, <1>10, <1>11, <1>12
<1> QED BY <1>3, <1>13 DEF s

\* A fuzzer whose every trial covers what another one ever covers is not beaten in
\* any pair of trials.
LEMMA NotBeaten ==
  ASSUME TruthInv, NEW l \in Fuzzers, NEW c \in Fuzzers, Really(c) \subseteq InAll(l)
  PROVE  A12(l, c) >= Len(truth[l]) * Len(truth[c])
<1> DEFINE I == DOMAIN truth[l]
           J == DOMAIN truth[c]
           f == [p \in I \X J |->
                   IF FinalCounts(l)[p[1]] > FinalCounts(c)[p[2]] THEN 2
                   ELSE IF FinalCounts(l)[p[1]] = FinalCounts(c)[p[2]] THEN 1 ELSE 0]
<1>1. /\ Len(truth[l]) \in Nat /\ I = 1..Len(truth[l])
      /\ \A i \in I : truth[l][i] \subseteq Elements
  BY UsableAre
<1>2. /\ Len(truth[c]) \in Nat /\ J = 1..Len(truth[c])
      /\ \A j \in J : truth[c][j] \subseteq Elements
  BY UsableAre
<1>3. ASSUME NEW i \in I, NEW j \in J
      PROVE  /\ FinalCounts(l)[i] \in Nat /\ FinalCounts(c)[j] \in Nat
             /\ FinalCounts(c)[j] <= FinalCounts(l)[i]
  <2>1. truth[c][j] \subseteq Really(c) BY DEF Really, UnionOf, Range
  <2>2. InAll(l) \subseteq truth[l][i] BY DEF InAll
  <2>3. truth[c][j] \in SUBSET truth[l][i] /\ truth[l][i] \in SUBSET Elements BY <1>1, <2>1, <2>2
  <2>4. FinalCounts(l)[i] = Cardinality(truth[l][i]) /\ FinalCounts(c)[j] = Cardinality(truth[c][j])
    BY DEF FinalCounts
  <2> QED BY <2>3, <2>4, Sizes
<1>4. \A p \in I \X J : f[p] \in Nat /\ 1 <= f[p]
  <2> TAKE p \in I \X J
  <2>1. p[1] \in I /\ p[2] \in J OBVIOUS
  <2> DEFINE x == FinalCounts(l)[p[1]]
             y == FinalCounts(c)[p[2]]
  <2>2. x \in Nat /\ y \in Nat /\ y <= x BY <1>3, <2>1
  <2>3. f[p] = IF x > y THEN 2 ELSE IF x = y THEN 1 ELSE 0 OBVIOUS
  <2> HIDE DEF x, y, f
  <2> QED BY <2>2, <2>3
<1>5. A12(l, c) = Total(f) /\ DOMAIN f = I \X J BY DEF A12
<1>6. IsFiniteSet(I) /\ Cardinality(I) = Len(truth[l])
  <2> DEFINE n == Len(truth[l])
  <2>1. n \in Nat /\ I = 1..n BY <1>1
  <2> HIDE DEF n, I
  <2>2. IsFiniteSet(1..n) /\ Cardinality(1..n) = IF 1 > n THEN 0 ELSE n - 1 + 1 BY <2>1, FS_Interval
  <2>3. Cardinality(1..n) = n BY <2>1, <2>2
  <2> QED BY <2>1, <2>2, <2>3 DEF n
<1>7. IsFiniteSet(J) /\ Cardinality(J) = Len(truth[c])
  <2> DEFINE n == Len(truth[c])
  <2>1. n \in Nat /\ J = 1..n BY <1>2
  <2> HIDE DEF n, J
  <2>2. IsFiniteSet(1..n) /\ Cardinality(1..n) = IF 1 > n THEN 0 ELSE n - 1 + 1 BY <2>1, FS_Interval
  <2>3. Cardinality(1..n) = n BY <2>1, <2>2
  <2> QED BY <2>1, <2>2, <2>3 DEF n
<1> HIDE DEF I, J, f
<1>8. IsFiniteSet(I \X J) /\ Cardinality(I \X J) = Len(truth[l]) * Len(truth[c])
  <2>1. IsFiniteSet(I \X J) /\ Cardinality(I \X J) = Cardinality(I) * Cardinality(J)
    BY <1>6, <1>7, FS_Product
  <2> QED BY <1>6, <1>7, <2>1, Zenon
<1>9. IsFiniteSet(Units(f)) /\ Total(f) = Cardinality(Units(f)) /\ Total(f) \in Nat
  BY <1>4, <1>5, <1>8, UnitsFinite
<1> DEFINE g == [p \in I \X J |-> <<p, 1>>]
<1>10. ASSUME NEW p \in I \X J PROVE <<p, 1>> \in Units(f)
  <2>1. f[p] \in Nat /\ 1 <= f[p] BY <1>4
  <2>2. 1 \in 1..f[p] BY <2>1
  <2>3. <<p, 1>> \in {p} \X (1..f[p]) BY <2>2
  <2> QED BY <1>5, <2>3 DEF Units
<1>11. g \in [I \X J -> Units(f)] BY <1>10
<1>12. \A p, q \in I \X J : g[p] = g[q] => p = q OBVIOUS
<1> HIDE DEF g
<1>13. Cardinality(I \X J) <= Cardinality(Units(f)) BY <1>9, <1>11, <1>12, NotMore
<1> DEFINE m == Len(truth[l]) * Len(truth[c])
<1>14. m = Cardinality(I \X J) /\ Cardinality(I \X J) \in Nat BY <1>8, FS_CardinalityType
<1> HIDE DEF m
<1>15. A12(l, c) >= m BY <1>5, <1>9, <1>13, <1>14
<1> QED BY <1>15 DEF m

LEMMA FiguresHold == TruthInv => FiguresAgree
<1> SUFFICES ASSUME TruthInv, NEW k \in DOMAIN Labels
             PROVE  LET l == Labels[k]  sets == UsableSets(l)  counts == TrialCounts(k)  own == Exclusive(l)
                    IN /\ \A i \in DOMAIN counts : own.all <= counts[i] /\ counts[i] <= own.any
                       /\ DOMAIN counts # {} => own.any <= Total(counts)
                       /\ Novelty(l) =
                            Total([p \in (DOMAIN sets) \X Fuzzers |-> Cardinality(sets[p[1]] \ UnionSet(p[2]))])
                       /\ \A c \in Fuzzers \ {l} :
                            LET cell == Cell(l, c)
                                steady == {v \in UnionSet(c) : OwnerCount(v, l) = Reps(l)}
                            IN /\ DOMAIN sets # {} =>
                                    /\ cell.relcov <= 2 * (Cardinality(UnionSet(c)) - Comparison(c, l).any)
                                    /\ 2 * Cardinality(steady) <= cell.relcov
                               /\ Really(c) \subseteq InAll(l) => cell.a12 >= Len(truth[l]) * Len(truth[c])
  BY DEF FiguresAgree
<1> DEFINE l == Labels[k]
<1>1. l \in Fuzzers BY LabelsAre
<1>2. /\ \A i \in DOMAIN TrialCounts(k) :
            Exclusive(l).all <= TrialCounts(k)[i] /\ TrialCounts(k)[i] <= Exclusive(l).any
      /\ DOMAIN TrialCounts(k) # {} => Exclusive(l).any <= Total(TrialCounts(k))
  BY CountsBetween
<1> HIDE DEF l
<1>3. Novelty(l) = Total([p \in (DOMAIN UsableSets(l)) \X Fuzzers |->
                            Cardinality(UsableSets(l)[p[1]] \ UnionSet(p[2]))])
  BY <1>1, NoveltyIs
<1>4. ASSUME NEW c \in Fuzzers
      PROVE  /\ Cell(l, c).relcov = Containment(l, c) /\ Cell(l, c).a12 = A12(l, c)
             /\ DOMAIN UsableSets(l) # {} =>
                  /\ Containment(l, c) <= 2 * (Cardinality(UnionSet(c)) - Comparison(c, l).any)
                  /\ 2 * Cardinality({v \in UnionSet(c) : OwnerCount(v, l) = Reps(l)}) <= Containment(l, c)
             /\ Really(c) \subseteq InAll(l) => A12(l, c) >= Len(truth[l]) * Len(truth[c])
  <2>1. Cell(l, c).relcov = Containment(l, c) /\ Cell(l, c).a12 = A12(l, c) BY DEF Cell
  <2>2. DOMAIN UsableSets(l) # {} =>
          /\ Containment(l, c) <= 2 * (Cardinality(UnionSet(c)) - Comparison(c, l).any)
          /\ 2 * Cardinality({v \in UnionSet(c) : OwnerCount(v, l) = Reps(l)}) <= Containment(l, c)
    BY <1>1, ContainmentBetween
  <2>3. Really(c) \subseteq InAll(l) => A12(l, c) >= Len(truth[l]) * Len(truth[c])
    BY <1>1, NotBeaten
  <2> QED BY <2>1, <2>2, <2>3
<1> QED BY <1>2, <1>3, <1>4 DEF l

\* The figures computed along different ways agree with one another: the trials'
\* exclusive counts with the index, novelty with its definition by peers, the
\* median containment with its bounds, the effect size with dominance.
THEOREM ComparisonsAgree == Spec => []FiguresAgree
BY TruthInvHolds, FiguresHold, PTL
=============================================================================
