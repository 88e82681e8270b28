SPECIFICATION Spec
CONSTANTS
  t1 = t1
  t2 = t2
  t3 = t3
  t4 = t4
  Trials <- FourTrials
  ParallelJobs = 5
  SnapshotJobs = 2
SYMMETRY Symmetry
INVARIANTS
  TypeOK BudgetRespected
PROPERTIES
  GrantsNeverShrink
