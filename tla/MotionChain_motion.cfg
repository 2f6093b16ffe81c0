SPECIFICATION FairChain
CONSTANTS
  SensorTimeout = 1
  FutureTolerance = 0
  CommandTimeout = 0
  HeartbeatLimit = 0
  EnableMotion = TRUE
  RequireStability = TRUE
  ClockSteps = TRUE
  MaxRos = 2
  BridgeTimeout = 0
  Depth = 1
INVARIANTS
  ChainTypeOK
  StopHolds
PROPERTIES
  NewestCloudDecides
  FreshCommandsOnly
  ImplementsGate
  WheelsNeedStreams
