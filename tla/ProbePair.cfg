SPECIFICATION Spec
CONSTANTS
  NoAction = NoAction
  ChunkLength = 4
  MaxQueries = 9
  BaseHorizon = 6
  ProbeSteps = 4
  Latencies <- TwoLatencies
INVARIANTS
  ProbeTypeOK
  PairRejectedOnlyByLatency
  ProbeKeepsItsScript
  ProbeStaysInBudget
  PostWindowsAreComparable
