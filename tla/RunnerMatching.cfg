SPECIFICATION Spec
CONSTANTS
  NoAction = NoAction
  ChunkLength = 2
  MaxQueries = 5
  Faults <- TwoFaults
  Episodes = 1
  Horizon = 3
  MatchWindow = 1
  SharedSchedule = TRUE
  ExposesChunk = TRUE
  Decisions <- QuietOrAlarm
  RetryController = FALSE
  MaxRetries = 0
  MayRaise = FALSE
INVARIANTS
  RunnerTypeOK
  MatchingIsSound
  GreedyMatchingIsMaximum
  WindowShowsAction
  ChunkIdNamesOneQuery
