CONSTANT MaxFlaps = 1
SPECIFICATION Spec
PROPERTY ResetServed
CHECK_DEADLOCK FALSE
