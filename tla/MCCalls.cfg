CONSTANTS
  RingSize = 8
  Node <- MCNode
  Founders <- MCPair
  Key = {1, 6}
  NULL = NULL
  UseFingers = FALSE
  CallsTimeOut = FALSE
  GrowDrained = TRUE
  MaxCalls = 2
  MaxLoss = 1
  MaxParked = 2
  MaxHops = 3
SPECIFICATION FairCallsSpec
\* When the calls are made and the messages handled, nothing is left to do.
CHECK_DEADLOCK FALSE
INVARIANTS TypeOK ResendsWhileWaiting MapTypeOK
PROPERTIES AnswersAreRight EveryCallReturns MapIsRight MapIsWhole MapReturns
