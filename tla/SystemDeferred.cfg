CONSTANT NCores = 2
SPECIFICATION Spec
PROPERTY ExitEnds
CHECK_DEADLOCK FALSE
