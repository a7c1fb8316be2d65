CONSTANTS
  RingSize = 8
  Node <- MCNode
  Founders <- MCNode
  Key <- MCKey
  NULL = NULL
  UseFingers = TRUE
  CallsTimeOut = FALSE
  GrowDrained = TRUE
  MaxCalls = 1
  MaxLoss = 0
  MaxParked = 1
SPECIFICATION Spec
\* When the calls are made and the messages handled, nothing is left to do.
CHECK_DEADLOCK FALSE
PROPERTY AnswersAreRight
