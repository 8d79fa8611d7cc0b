SPECIFICATION FairSpec
CONSTANTS
  NoAction = NoAction
  ChunkLength = 2
  MaxQueries = 6
  Faults <- OneFault
  Episodes = 2
  Horizon = 3
  MatchWindow = 1
  SharedSchedule = TRUE
  ExposesChunk = TRUE
  Decisions <- QuietOrAlarm
  RetryController = TRUE
  MaxRetries = 1
  MayRaise = TRUE
INVARIANTS
  ScheduleIsReplayed
  RetriesAreBounded
  RunIsAccountedFor
PROPERTIES
  RunTerminates
