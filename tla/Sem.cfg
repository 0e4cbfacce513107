SPECIFICATION Spec
CONSTANTS
    Threads = {w1, w2, s1}
    Waiters = {w1, w2}
    Signalers = {s1}
    Counts = {0, 1}
    MaxNodes = 3
    MaxSignals = 1
SYMMETRY Symmetry
CHECK_DEADLOCK FALSE
INVARIANTS NodeIsHeld  NoMorePassesThanPermits
