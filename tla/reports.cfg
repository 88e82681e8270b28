SPECIFICATION Spec
CONSTANTS
  Trials = {t1, t2}
  Elements = {e1}
  Bugs = {b1}
  TimeLimit = 3  Every = 1  MaxPoints = 2
  MaxTime = 4  MaxBacklog = 1
  NoCoverage = NoCoverage
SYMMETRY Symmetric
INVARIANTS  BugTotalsAgree  
CHECK_DEADLOCK FALSE
