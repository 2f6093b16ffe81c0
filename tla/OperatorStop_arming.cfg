SPECIFICATION Spec
CONSTANTS
  Goal = {g1}
  None = None
  JoyLimit = 1
  LinkLimit = 1
  OdomLimit = 0
  ResetHold = 2
  MappingVerified = TRUE
  CancelRetry = 1
  CancelLimit = 1
  BridgeRetry = 0
  BridgeLimit = 0
  BridgeFresh = 0
  FootprintConfirmed = TRUE
  JoyMsgs <- ResetAndStop
  OdomMsgs = {TRUE}
  ProbeResults = {}
  ReadyMsgs = {}
  InitialUp = {}
  Flaky = {"bridge"}
  ClockSteps = FALSE
  MaxRos = 1
  MaxRestarts = 1
CHECK_DEADLOCK FALSE
INVARIANTS
  TypeOK
  RunningGoalsAreNew
PROPERTIES
  ArmingIsDeliberate
  BadBridgeBlocks
