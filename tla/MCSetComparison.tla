--------------------------- MODULE MCSetComparison ---------------------------
(* Instances of SetComparison for TLC.                                       *)
EXTENDS SetComparison

CONSTANTS f1, f2, f3

ThreeFuzzers == <<f1, f2, f3>>
TrialCount == [l \in {f1, f2, f3} |-> IF l = f1 THEN 2 ELSE 1]
=============================================================================
