CONSTANTS
  RingSize = 8
  Node <- MCNode
  Founders <- MCPair
  Key <- MCKey
  NULL = NULL
  UseFingers = FALSE
  CallsTimeOut = FALSE
  GrowDrained = FALSE
  MaxCalls = 2
  MaxLoss = 0
  MaxParked = 2
SPECIFICATION Spec
\* When the calls are made and the messages handled, nothing is left to do.
CHECK_DEADLOCK FALSE
PROPERTY AnswersAreRight
