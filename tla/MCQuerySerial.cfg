CONSTANTS
  RingSize = 8
  Node <- MCNode
  NULL = NULL
  JoinPoint <- MCJoinPoint
  FingerSpans <- MCNoFingers
  JOIN_TRIALS = 3
  MaxLoss = 1
  MaxInFlight = 9
  OneJoinAtATime = TRUE
  FastNetwork = TRUE
  SettledUse = FALSE
  Key = {7}
  Asker = {1}
  MaxTrouble = 1
  LateCalls = FALSE
SPECIFICATION FairQuerySpec
INVARIANT AtMostOneRing
PROPERTIES Converges CallsReturn
