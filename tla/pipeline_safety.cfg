SPECIFICATION Spec
CONSTANTS
  t1 = t1
  t2 = t2
  Trials <- TwoTrials
  TrialWorkers = 2
  Every = 1
  Campaign = 2
  LastStart = 1
  SignalPhases <- AnyPhase
  DbOutage = FALSE
SYMMETRY Symmetry
INVARIANTS
  TypeOK SingleOwner FailuresAreGenuine SuccessMeansMeasured
  OnlyFinalLeftPending
PROPERTIES
  OutcomeIsFinal NothingMeasuredAfterFailure
