SPECIFICATION FairSpec
CONSTANTS
  Goal = {g1}
  None = None
  JoyLimit = 1
  LinkLimit = 1
  OdomLimit = 1
  ResetHold = 2
  MappingVerified = TRUE
  CancelRetry = 1
  CancelLimit = 1
  BridgeRetry = 1
  BridgeLimit = 1
  BridgeFresh = 1
  FootprintConfirmed = TRUE
  JoyMsgs <- ResetOnly
  OdomMsgs = {TRUE}
  ProbeResults = {}
  ReadyMsgs = {}
  InitialUp = {"cancel"}
  Flaky = {}
  ClockSteps = FALSE
  MaxRos = 0
  MaxRestarts = 0
CHECK_DEADLOCK FALSE
PROPERTIES
  HoldingArms
  StopIsCancelled
