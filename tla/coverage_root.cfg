SPECIFICATION Spec
CONSTANTS
  i1 = i1  i2 = i2  i3 = i3  i4 = i4
  Inputs = {i1, i2, i3, i4}
  SeedInput = seed
  Corpora <- NewCorpora
  BatchSize = 2
  Attempts = 2
  Kinds = {"trial", "campaign", "seed"}
  Modes = {"in_process", "file"}
  Absent = absent
  MaxFaults = 3
INVARIANTS TypeOK OldOrNew CumulativeProfile 
CHECK_DEADLOCK FALSE
