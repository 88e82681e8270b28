--------------------------- MODULE MCReportFigures ---------------------------
(* Instances of ReportFigures for TLC.  The curves of its states are short:  *)
(* the thinning is checked on longer ones by the assumption.                 *)
EXTENDS ReportFigures, TLC

ASSUME ThinnedCurves ==
  \A n \in 2..14, max \in 2..6 :
    LET thin == Downsampled([k \in 1..n |-> k], max)
    IN /\ Len(thin) <= max /\ Head(thin) = 1 /\ Last(thin) = n
       /\ \A k \in 2..Len(thin) : thin[k - 1] < thin[k]

Symmetric == Permutations(Trials) \cup Permutations(Elements)
=============================================================================
