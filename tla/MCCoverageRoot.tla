---------------------------- MODULE MCCoverageRoot ----------------------------
(* Instances of CoverageRoot for TLC.                                        *)
EXTENDS CoverageRoot

CONSTANTS i1, i2, i3, i4

NewCorpora == << <<i1, i2, i3>>, <<i4>> >>
=============================================================================
