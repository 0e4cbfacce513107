CONSTANTS
    CoopTasks = {t1, t2}
    Threads = {p1, p2}
    Exiting = {t1}
    Victims = {t2}
    NoTask = NoTask
    DlLists = {d1}
    IdlLists = {l1, l2}
    DlNodes = {m1, m2}
    IdlNodes = {n1, n2, n3}
    MpscqNodes = {q1, q2, q3}
    MpsciqNodes = {q1, q2, q3, q4}
    Producers = {p1, p2}
    Null = Null
    NTasks = 2
    StackWords = 64
    RedZone = 8
    CtxWords = 2
    ImagePage = 4
    StackPage = 2
    MaxPages = 14
    ExtraPages = 3
    MaxRanges = 2
    NoProc = 0
SPECIFICATION Spec
CHECK_DEADLOCK FALSE
INVARIANTS
    ImageIsLoaded
    
    
    LinksAreLive
    IntegrityCheck
    ReadyIsNoticed
    LoadedTextIsFound
PROPERTIES
    
    FifoSpec
    NeverPreempted
