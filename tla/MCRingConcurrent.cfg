CONSTANTS
  RingSize = 8
  Node <- MCNode
  NULL = NULL
  JoinPoint <- MCJoinPoint
  FingerSpans <- MCNoFingers
  JOIN_TRIALS = 2
  MaxLoss = 0
  MaxInFlight = 10
  OneJoinAtATime = FALSE
  FastNetwork = TRUE
  SettledUse = FALSE
  Key = {}
SPECIFICATION FairSpec
PROPERTY RingForms
\* A ring whose founder is still alone has nothing to do.
CHECK_DEADLOCK FALSE
