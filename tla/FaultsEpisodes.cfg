SPECIFICATION Spec
CONSTANTS
  left = left
  right = right
  unknown = unknown
  CameraKeys <- Keys
  Cameras <- TwoCameras
  Durations <- DurationsWithZero
  Horizon = 5
  Episodes = 2
  FirstSchedules <- PairOrProtocol
  LaterSchedules <- ProtocolSchedules
INVARIANTS
  TypeOK
  CorruptionStaysInWindows
  InputsCorruptedAsDeclared
  StaleFramePrecedesFault
  ActionsAlteredAsDeclared
  UnknownCameraFailsClosed
  ExposureMatchesCorruption
  PilotExposureReachesPolicy
