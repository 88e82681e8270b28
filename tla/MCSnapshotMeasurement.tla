----------------------- MODULE MCSnapshotMeasurement -----------------------
(* Instances of SnapshotMeasurement for TLC.                                 *)
EXTENDS SnapshotMeasurement

CONSTANTS c1, c2, x1, x2, seed, b1, noBug

FileSet == {c1, c2, x1, x2}
CrashSet == {x1, x2}
OwnerOf == [f \in FileSet |-> IF f \in {c1, x1} THEN 1 ELSE 2]
Reproduces == [f \in CrashSet |-> b1]
Slots == (c1 :> {2, 3, 4}) @@ (c2 :> {2, 4}) @@ (x1 :> {2, 4}) @@ (x2 :> {3, 4})
Starts == [t \in {1, 2} |-> 0]
TickTimes == <<1, 2>>
BothModes == {"live", "replay"}
ReplayMode == {"replay"}
=============================================================================
