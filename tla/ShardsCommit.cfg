SPECIFICATION Spec
CONSTANTS
  c1 = c1
  c2 = c2
  d1 = d1
  d2 = d2
  w1 = w1
  w2 = w2
  None = None
  Collector = {c1, c2}
  Dir = {d1, d2}
  Weights = {w1, w2}
  SeedCount = 2
  Conditions <- OneCondition
  Requests <- Asked
  Fragile <- Labels
  MaxEvents = 1
SYMMETRY Same
CHECK_DEADLOCK FALSE
INVARIANT RecordedCommitIsTheCodeThatRan
