CONSTANTS
    t1 = t1
    t2 = t2
    t3 = t3
    p1 = p1
    p2 = p2
    Tasks = {t1, t2}
    Owner = Owner
    Posters = {p1, p2}
    Stoppers = {}
    NoTask = NoTask
    ExitCtx = ExitCtx
    MaxPrio = 2
    InitPrio <- TwoPrios
    NewPrios = {1}
    Exiting = {t1}
    Victims = {t2}
    EarlyReady = FALSE
SPECIFICATION Spec
SYMMETRY Symmetry
CONSTRAINT TwoPostersAtFirst
CHECK_DEADLOCK FALSE
INVARIANTS
    IdleHandshake
    NoLostWakeup
    NoLostPreemption
