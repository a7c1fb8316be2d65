CONSTANTS
  RingSize = 8
  Node <- MCNode
  Founders <- MCPair
  Key = {2}
  NULL = NULL
  UseFingers = TRUE
  CallsTimeOut = TRUE
  GrowDrained = TRUE
  MaxCalls = 1
  MaxLoss = 0
  MaxParked = 1
SPECIFICATION Spec
\* When the calls are made and the messages handled, nothing is left to do.
CHECK_DEADLOCK FALSE
INVARIANTS FingersAreRight OwnerOrAsker
