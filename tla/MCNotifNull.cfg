CONSTANT MaxPushed = 2
SPECIFICATION Spec
CHECK_DEADLOCK FALSE
INVARIANT NextIsObtained
