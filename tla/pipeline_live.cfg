SPECIFICATION FairSpec
CONSTANTS
  t1 = t1
  t2 = t2
  Trials <- TwoTrials
  TrialWorkers = 2
  Every = 1
  Campaign = 2
  LastStart = 0
  SignalPhases <- AnyPhase
  DbOutage = TRUE
PROPERTIES
  EventuallyOver
