SPECIFICATION FairSpec
CONSTANTS
  LoopCount = 2
  Policy = "nav2"
  ResetHold = 2
  OperatorRuns = FALSE
  Outcomes = {"succeeded"}
  Rejects = FALSE
  MaxClicks = 3
  MaxLive = 2
PROPERTIES
  ClickCancels
