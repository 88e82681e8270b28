SPECIFICATION FairSpec
CONSTANTS
  t1 = t1
  t2 = t2
  Trials <- TwoTrials
  Signals = 2
  DockerStalls = TRUE
INVARIANTS
  TypeOK NothingRunsAfterSweep BlameIsDeserved DoneIsComplete
  NothingLeftBehind
PROPERTIES
  InterruptionHasCause 
CHECK_DEADLOCK FALSE
