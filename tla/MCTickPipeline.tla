---------------------------- MODULE MCTickPipeline ----------------------------
(* Instances of TickPipeline for TLC.                                        *)
EXTENDS TickPipeline, TLC

CONSTANTS t1, t2

TwoTrials == {t1, t2}
Symmetry == Permutations(TwoTrials)

AnyPhase == TryPhases \cup FinallyPhases
NoPhase == {}
=============================================================================
