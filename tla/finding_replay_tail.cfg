SPECIFICATION Spec
CONSTANTS
  c1 = c1  c2 = c2  x1 = x1  x2 = x2  seed = seed  b1 = b1  noBug = noBug
  Trials = {1, 2}
  Files <- FileSet
  Crashes <- CrashSet
  Owner <- OwnerOf
  BugOf <- Reproduces
  NotReproduced = noBug
  SeedInput = seed
  Baseline = TRUE
  Ns = 2
  Modes <- ReplayMode
  LiveStart <- Starts
  LiveTicks <- TickTimes
  Overtake = TRUE
  Every = 1
  ReplayRoots = {1, 3}
  LastTime = 5
  WriteTimes <- Slots
  Rewritten = {c1}
  MaxFaults = 0
INVARIANT ReplayCountsEveryFile
CHECK_DEADLOCK FALSE
