SPECIFICATION Spec
CONSTANTS
  LoopCount = 2
  Policy = "nav2"
  ResetHold = 2
  OperatorRuns = TRUE
  Outcomes = {"succeeded", "canceled", "aborted", "unknown"}
  Rejects = FALSE
  MaxClicks = 2
  MaxLive = 2
INVARIANTS
  NavigatingHasGoal
