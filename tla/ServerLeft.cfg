SPECIFICATION Spec
CONSTANTS
  None = None
  Runs = 2
  CatchesExpired = FALSE
  MaxEpisodes = 2
  MaxActs = 2
  MaxEvents = 0
CHECK_DEADLOCK FALSE
INVARIANT NoServerOutlivesItsRun
