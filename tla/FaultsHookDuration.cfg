SPECIFICATION Spec
CONSTANTS
  left = left
  right = right
  unknown = unknown
  CameraKeys <- Keys
  Cameras <- TwoCameras
  Durations <- DurationsWithZero
  Horizon = 4
  Episodes = 1
  FirstSchedules <- MixedPairs
  LaterSchedules <- MixedPairs
INVARIANT ObservationFaultLastsItsDuration
