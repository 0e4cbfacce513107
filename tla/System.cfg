CONSTANT NCores = 2
SPECIFICATION Spec
INVARIANT StoppedBeforeDestroyed
PROPERTY StopIsKept ExitEndsOrIsDeferred
CHECK_DEADLOCK FALSE
