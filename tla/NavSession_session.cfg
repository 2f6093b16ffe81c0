SPECIFICATION FairSpec
CONSTANTS
  NavSessions = {n1, n2}
  PerceptionSessions = {p1}
  None = None
  Followed = {n1}
  Nodes = {c1, c2}
  MaxCrashes = 1
CHECK_DEADLOCK FALSE
INVARIANTS
  TypeOK
  OneStack
  StoppedIsTrue
PROPERTIES
  FirstFailureCounts
  ImplementsOwners
  PerceptionEndsWithNav
