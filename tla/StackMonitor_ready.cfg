SPECIFICATION FairStack
CONSTANTS
  Timeout = 2
  Settle = 1
  Gap = 1
  Topic = {t1}
  Node = {n1}
  Required = {n1}
  InputSettle = 1
  MaxAge = 0
  MaxGap = 1
  FutureTolerance = 0
  MinMessages = 2
  GateTimeout = 2
  AskAgain = 0
  QueryLimit = 0
  ActiveLimit = 1
  KnownLimit = 1
  PastLimit = 2
  ClockSteps = TRUE
CHECK_DEADLOCK FALSE
INVARIANTS
  TypeOK
  ReadyIsEarned
  PassIsEarned
PROPERTIES
  ReadyIsLive
  StartIsBounded
