SPECIFICATION Spec
CHECK_DEADLOCK FALSE

CONSTANTS
  MaxRos = 3
  OdomPlaces = {0, 1, 3}
  OdomJump = 1
  OdomMaxDt = 1
  OdomMaxAge = 2
  OdomFuture = 1
  RelaySilence = 1
  RelayFuture = 1
  Sources <- MCSources
  Output <- MCOutput
  Poses <- MCPoses
  MaxPoseAge = 1
  PoseTolerance = 0
  Asked = {n1}
  QueryRetry = 1
  QueryLimit = 1
  ValueAge = 2
  SampleAge = 0
  SettleTime = 2
  CheckTimeout = 6
  CheckMaxRos = 2
  Navigation = TRUE
  MaxInterrupts = 2
  Scans = {s1, s2}
  TfGrace = 1
  Warmup = 1
  Duration = 2
  RestartGap = 1
  RestartStep = 0
  AuditMaxRos = 2

INVARIANTS
  TypeOK
  TwistIsOneStretch
  FreshIsEarned
  PatchShowsPlane
  CheckIsEarned
  RecordedIsComplete
  EveryChildIsTold
  EveryScanIsJudged

PROPERTIES
  StampsIncrease

SYMMETRY MCSymmetry
