----------------------------- MODULE MCJobBudget -----------------------------
(* Instances of JobBudget for TLC.                                           *)
EXTENDS JobBudget, TLC

CONSTANTS t1, t2, t3, t4

FourTrials == {t1, t2, t3, t4}
Symmetry == Permutations(FourTrials)
=============================================================================
