SPECIFICATION Spec
CONSTANTS
  t1 = t1
  t2 = t2
  Trials <- TwoTrials
  TrialWorkers = 2
  Every = 1
  Campaign = 3
  LastStart = 1
  SignalPhases <- NoPhase
  DbOutage = FALSE
SYMMETRY Symmetry
INVARIANTS
   PeriodicInOrder
