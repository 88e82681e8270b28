SPECIFICATION Spec
CONSTANTS
  c1 = c1  c2 = c2  x1 = x1  x2 = x2  seed = seed  b1 = b1  noBug = noBug
  Trials = {1, 2}
  Files <- FileSet
  Crashes <- CrashSet
  Owner <- OwnerOf
  BugOf <- Reproduces
  NotReproduced = noBug
  SeedInput = seed
  Baseline = TRUE
  Ns = 2
  Modes <- BothModes
  LiveStart <- Starts
  LiveTicks <- TickTimes
  Overtake = TRUE
  Every = 1
  ReplayRoots = {1, 3}
  LastTime = 5
  WriteTimes <- Slots
  Rewritten = {c1, x1}
  MaxFaults = 1
INVARIANTS
  TypeOK CumulativeCoverage PersistedAfterMerges
   HitsAreComplete
PROPERTIES  CampaignCoverageGrows
CHECK_DEADLOCK FALSE
