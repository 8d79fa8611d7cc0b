SPECIFICATION FairSpec
CONSTANTS
  None = None
  Runs = 2
  CatchesExpired = TRUE
  MaxEpisodes = 2
  MaxActs = 2
  MaxEvents = 3
CHECK_DEADLOCK FALSE
INVARIANTS
  ServerTypeOK
  NoServerOutlivesItsRun
  OwnServerAnswers
  SeededActionsAreReproducible
PROPERTY RunsEnd
