SPECIFICATION Spec
CONSTANTS
  Goal = {g1}
  None = None
  JoyLimit = 1
  LinkLimit = 1
  OdomLimit = 1
  ResetHold = 2
  MappingVerified = TRUE
  CancelRetry = 1
  CancelLimit = 1
  BridgeRetry = 1
  BridgeLimit = 1
  BridgeFresh = 1
  FootprintConfirmed = TRUE
  JoyMsgs <- AllJoy
  OdomMsgs = {TRUE}
  ProbeResults = {TRUE, FALSE}
  ReadyMsgs = {TRUE, FALSE}
  InitialUp = {}
  Flaky = {}
  ClockSteps = TRUE
  MaxRos = 1
  MaxRestarts = 0
CHECK_DEADLOCK FALSE
INVARIANTS
  BlockedUnlessRunning
  BannedGoalsNeverRun
