CONSTANTS
    t1 = t1
    t2 = t2
    t3 = t3
    p1 = p1
    p2 = p2
    Tasks = {t1, t2}
    Owner = Owner
    Posters = {p1}
    Stoppers = {p1, Owner}
    NoTask = NoTask
    ExitCtx = ExitCtx
    MaxPrio = 2
    InitPrio <- TwoPrios
    NewPrios = {}
    Exiting = {}
    Victims = {}
    EarlyReady = FALSE
SPECIFICATION FairSpec
CHECK_DEADLOCK FALSE
INVARIANTS
    SchedInv
PROPERTIES
    PreemptsForUrgency
    ReadyIsServed
    StopEndsThread
