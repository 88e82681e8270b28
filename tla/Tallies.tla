------------------------------- MODULE Tallies -------------------------------
(***************************************************************************)
(* Sums, orders and ranks, as the figures of a report need them.  They are *)
(* defined by what they are rather than by the loop that computes them, so *)
(* that they can be reasoned about without induction.                      *)
(***************************************************************************)
EXTENDS Naturals, FiniteSets

\* The sum of a function's naturals, as the number of units they consist of.
Total(f) == Cardinality(UNION {{x} \X (1..f[x]) : x \in DOMAIN f})

\* The numbers of a finite set in their order.
Ascending(S) ==
  [n \in 1..Cardinality(S) |-> CHOOSE x \in S : Cardinality({y \in S : y <= x}) = n]

\* The n-th smallest of a function's numbers.
Ranked(f, n) ==
  CHOOSE x \in {f[i] : i \in DOMAIN f} :
    /\ Cardinality({i \in DOMAIN f : f[i] < x}) < n
    /\ n <= Cardinality({i \in DOMAIN f : f[i] <= x})
=============================================================================
