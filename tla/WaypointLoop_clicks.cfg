SPECIFICATION FairSpec
CONSTANTS
  LoopCount = 2
  Policy = "nav2"
  ResetHold = 2
  OperatorRuns = TRUE
  Outcomes = {"succeeded", "canceled", "aborted", "unknown"}
  Rejects = TRUE
  MaxClicks = 4
  MaxLive = 2
PROPERTIES
  HoldStartsLeg
  LoopCompletes
INVARIANTS
  TypeOK
  ResultFindsTarget
  LapsAreReal
  OneGoalAtATime
