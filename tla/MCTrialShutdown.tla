---------------------------- MODULE MCTrialShutdown ----------------------------
(* Instances of TrialShutdown for TLC.                                         *)
EXTENDS TrialShutdown, TLC

CONSTANTS t1, t2

TwoTrials == {t1, t2}
Symmetry == Permutations(TwoTrials)
=============================================================================
