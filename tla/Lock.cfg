SPECIFICATION Spec
CONSTANTS
  Document <- MCDocument
  ProbeDocument <- MCProbeDocument
  Approved <- MCApproved
  RateNum = 1
  RateDen = 2
  l1 = l1
  l2 = l2
  r1 = r1
  Edits = 1
  Lockers = {l1, l2}
  Runs = {r1}
  None = None
  Torn = Torn
  Replacements <- MCReplacements
  Checkpoints <- MCCheckpoints
  Blocks <- MCBlocks
  RiskThreshold <- MCRiskThreshold
  Metrics <- MCMetrics
  Scenarios <- MCScenarios
INVARIANTS
  LockedThresholdIsLeast
  RunsKeepTheBudget
  StartedRunsAreApproved
CHECK_DEADLOCK FALSE
