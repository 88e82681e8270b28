SPECIFICATION Spec
CONSTANTS
  f1 = f1  f2 = f2  f3 = f3
  Labels <- ThreeFuzzers
  Elements = {e1, e2}
  Trials <- TrialCount
INVARIANTS BoundsAreTrue FiguresAgree
CHECK_DEADLOCK FALSE
