---------------------------- MODULE SetComparison ----------------------------
(***************************************************************************)
(* The comparison of the fuzzers of one target by the sets (covered        *)
(* elements, found bugs) of their trials: reporting/set_comparison.py, the *)
(* callers in reporting/analyzers, and reporting/data/coverage_data.py.    *)
(*                                                                         *)
(* The set artifact of a trial may be missing or unreadable.  A fuzzer     *)
(* none of whose trials has one is represented by the set of its campaign, *)
(* if that can be read.  The figures are therefore exact, bounds or        *)
(* unknown, and say which.  The variables hold what was really covered.    *)
(***************************************************************************)
EXTENDS Integers, Sequences, FiniteSets, Functions, Tallies

CONSTANTS
  Labels,     \* the fuzzers in report order, as a sequence
  Elements,   \* covered elements, or bug keys
  Trials      \* bound: the number of trials of each fuzzer

ASSUME SetComparisonAssumption ==
  /\ Labels \in Seq(Range(Labels)) /\ IsInjective(Labels)
  /\ IsFiniteSet(Elements) /\ Trials \in [Range(Labels) -> Nat]

VARIABLES
  truth,      \* what the trials of each fuzzer covered, by trial
  readable,   \* the trials of each fuzzer whose sets can be read
  aggregate   \* the fuzzers whose campaign set can be read

vars == <<truth, readable, aggregate>>

Fuzzers == Range(Labels)

Init ==
  /\ truth = [l \in Fuzzers |-> <<>>] /\ readable = [l \in Fuzzers |-> {}]
  /\ aggregate \in SUBSET Fuzzers

\* A trial is measured, and its artifact can be read or not.
AddTrial(l) ==
  /\ Len(truth[l]) < Trials[l]
  /\ \E set \in SUBSET Elements : truth' = [truth EXCEPT ![l] = Append(@, set)]
  /\ \E read \in SUBSET {Len(truth[l]) + 1} : readable' = [readable EXCEPT ![l] = @ \cup read]
  /\ UNCHANGED aggregate

Next == \E l \in Fuzzers : AddTrial(l)

Spec == Init /\ [][Next]_vars

-----------------------------------------------------------------------------
UnionOf(sets) == UNION Range(sets)
Fallback == {l \in aggregate : readable[l] = {}}

\* with_aggregate_trial_fallback: the usable sets of a fuzzer by trial, and the
\* number of its sets that are missing.
UsableSets(l) ==
  IF l \in Fallback THEN <<UnionOf(truth[l])>> ELSE [k \in readable[l] |-> truth[l][k]]

\* trial_set_index
Reps(l) == Cardinality(DOMAIN UsableSets(l))
Missing(l) == IF l \in Fallback THEN 0 ELSE Len(truth[l]) - Reps(l)
UnionSet(l) == UnionOf(UsableSets(l))
OwnerCount(v, l) == Cardinality({k \in DOMAIN UsableSets(l) : v \in UsableSets(l)[k]})
Owners(v) == {l \in Fuzzers : OwnerCount(v, l) > 0}

\* _trial_set_counts
PairwiseAny(r, c) == Cardinality({v \in Elements : r \in Owners(v) /\ c \notin Owners(v)})
PairwiseAll(r, c) ==
  Cardinality({v \in Elements : /\ r \in Owners(v) /\ c \notin Owners(v)
                                /\ OwnerCount(v, r) = Reps(r)})
ExclusiveAny(r) == Cardinality({v \in Elements : Owners(v) = {r}})
ExclusiveAll(r) == Cardinality({v \in Elements : Owners(v) = {r} /\ OwnerCount(v, r) = Reps(r)})

AnyBound(r, othersMissing) ==
  CASE Reps(r) = 0 -> "unknown"
    [] Reps(r) > 0 /\ Missing(r) > 0 -> IF othersMissing THEN "indeterminate" ELSE "lower"
    [] OTHER -> IF othersMissing THEN "upper" ELSE "exact"

\* Seeded fault: a fuzzer represented by its campaign set counts as complete.
AllBoundOfFallback(r, othersMissing) ==
  CASE Reps(r) = 0 \/ Missing(r) > 0 -> "unknown"
    [] OTHER -> IF othersMissing THEN "upper" ELSE "exact"

\* What every trial covered is unknown when one of them is.
AllBound(r, othersMissing) ==
  CASE Reps(r) = 0 \/ Missing(r) > 0 \/ r \in Fallback -> "unknown"
    [] OTHER -> IF othersMissing THEN "upper" ELSE "exact"

OthersMissing(r) == \E l \in Fuzzers \ {r} : Missing(l) > 0

\* trial_set_comparison: what a report shows of a pair of fuzzers, and of the
\* exclusive values of one, each figure with the mark of its bound.
Comparison(r, c) ==
  [any |-> PairwiseAny(r, c), anyBound |-> AnyBound(r, Missing(c) > 0),
   all |-> PairwiseAll(r, c), allBound |-> AllBound(r, Missing(c) > 0)]
Exclusive(r) ==
  [any |-> ExclusiveAny(r), anyBound |-> AnyBound(r, OthersMissing(r)),
   all |-> ExclusiveAll(r), allBound |-> AllBound(r, OthersMissing(r))]

\* Seeded fault: the suffix already holds the fuzzer's own set.
OtherUnionWithOwn(k) == UNION {UnionSet(Labels[j]) : j \in DOMAIN Labels}

\* The values of the fuzzers before and after the k-th.
OtherUnion(k) == UNION {UnionSet(Labels[j]) : j \in DOMAIN Labels \ {k}}

\* attach_exclusive_coverage_stats: exclusive values of each usable trial.
TrialCounts(k) ==
  IF Labels[k] \in Fallback THEN <<>>
  ELSE [i \in DOMAIN UsableSets(Labels[k]) |->
          Cardinality(UsableSets(Labels[k])[i] \ OtherUnion(k))]

\* novelty_scores, times the number of usable sets.
Novelty(l) ==
  Total([v \in Elements |-> (Len(Labels) - Cardinality(Owners(v))) * OwnerCount(v, l)])

\* relative_containment_matrix: twice the median over the trials of r of the
\* number of values they share with the union of c, by whose size the code
\* divides; 0 without a trial.
Containment(r, c) ==
  LET shares == [k \in DOMAIN UsableSets(r) |-> Cardinality(UsableSets(r)[k] \cap UnionSet(c))]
  IN IF Reps(r) = 0 THEN 0
     ELSE Ranked(shares, (Reps(r) + 1) \div 2) + Ranked(shares, Reps(r) \div 2 + 1)

\* The final counts of covered elements, which do not depend on the artifacts.
FinalCounts(l) == [k \in DOMAIN truth[l] |-> Cardinality(truth[l][k])]

\* vargha_delaney_a12, times twice the number of pairs.
A12(r, c) ==
  Total([p \in (DOMAIN truth[r]) \X (DOMAIN truth[c]) |->
           IF FinalCounts(r)[p[1]] > FinalCounts(c)[p[2]] THEN 2
           ELSE IF FinalCounts(r)[p[1]] = FinalCounts(c)[p[2]] THEN 1 ELSE 0])

\* attach_target_matrices: the cell of r and c in each matrix of the target.
Cell(r, c) == [unique |-> Comparison(r, c), relcov |-> Containment(r, c), a12 |-> A12(r, c)]

-----------------------------------------------------------------------------
InAll(l) == {v \in Elements : \A k \in DOMAIN truth[l] : v \in truth[l][k]}
Really(l) == UnionOf(truth[l])

Holds(bound, value, real) ==
  /\ bound = "exact" => value = real
  /\ bound = "lower" => value <= real
  /\ bound = "upper" => value >= real

\* Every figure of the comparison is what its mark says of the sets really
\* covered, exact or a bound, however many artifacts are missing and whichever
\* fuzzers the campaign set stands for (the table in _trial_set_counts).
BoundsAreTrue ==
  /\ \A r, c \in Fuzzers :
       LET pair == Comparison(r, c)
       IN /\ Holds(pair.anyBound, pair.any, Cardinality(Really(r) \ Really(c)))
          /\ Holds(pair.allBound, pair.all, Cardinality(InAll(r) \ Really(c)))
  /\ \A r \in Fuzzers :
       LET own == Exclusive(r)  others == UNION {Really(l) : l \in Fuzzers \ {r}}
       IN /\ Holds(own.anyBound, own.any, Cardinality(Really(r) \ others))
          /\ Holds(own.allBound, own.all, Cardinality(InAll(r) \ others))

\* The exclusive values of the single trials, computed from prefix and suffix
\* unions, lie between the strict and the non-strict exclusive counts of the
\* ownership index, and the novelty score is the mean number of values of a
\* trial that a peer lacks, summed over the peers.  A fuzzer's median containment
\* of a peer lies between what all of its trials and what any of them shares with
\* that peer, and one that covers in every trial all that a peer ever covers does
\* not get the smaller effect size (bug_analysis.py, coverage_matrices.py,
\* set_comparison.py, metrics.py).
FiguresAgree ==
  \A k \in DOMAIN Labels :
    LET l == Labels[k]  sets == UsableSets(l)  counts == TrialCounts(k)  own == Exclusive(l)
    IN /\ \A i \in DOMAIN counts : own.all <= counts[i] /\ counts[i] <= own.any
       /\ DOMAIN counts # {} => own.any <= Total(counts)
       /\ Novelty(l) =
            Total([p \in (DOMAIN sets) \X Fuzzers |-> Cardinality(sets[p[1]] \ UnionSet(p[2]))])
       /\ \A c \in Fuzzers \ {l} :
            LET cell == Cell(l, c)
                steady == {v \in UnionSet(c) : OwnerCount(v, l) = Reps(l)}
            IN /\ DOMAIN sets # {} =>
                    /\ cell.relcov <= 2 * (Cardinality(UnionSet(c)) - Comparison(c, l).any)
                    /\ 2 * Cardinality(steady) <= cell.relcov
               /\ Really(c) \subseteq InAll(l) => cell.a12 >= Len(truth[l]) * Len(truth[c])

-----------------------------------------------------------------------------
(* The inductive invariant behind these properties.                         *)

TruthInv ==
  /\ truth \in [Fuzzers -> Seq(SUBSET Elements)]
  /\ readable \in [Fuzzers -> SUBSET Nat] /\ \A l \in Fuzzers : readable[l] \subseteq DOMAIN truth[l]
  /\ aggregate \subseteq Fuzzers
=============================================================================
