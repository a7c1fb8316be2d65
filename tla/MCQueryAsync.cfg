CONSTANTS
  RingSize = 8
  Node <- MCNode
  NULL = NULL
  JoinPoint <- MCJoinPoint
  FingerSpans <- MCFingers
  JOIN_TRIALS = 2
  MaxLoss = 1
  MaxInFlight = 2
  OneJoinAtATime = FALSE
  FastNetwork = FALSE
  SettledUse = TRUE
  Key = {7}
  Asker = {2}
  MaxTrouble = 1
  LateCalls = TRUE
SPECIFICATION QuerySpec
INVARIANTS TypeOK PredecessorHasJoined QueryTypeOK
PROPERTIES ContactNeverLost SilentOnlyWhenHeard SettledStays SettledOwnerOrAsker
\* A ring whose founder is still alone has nothing to do.
CHECK_DEADLOCK FALSE
