SPECIFICATION DialogSpec
CHECK_DEADLOCK FALSE
PROPERTY CancelIsHeard
CONSTANT MaxConversions = 2
