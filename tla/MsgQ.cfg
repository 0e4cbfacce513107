SPECIFICATION Spec
CONSTANTS
    a = a
    b = b
    m1 = m1
    m2 = m2
    Senders = {s1, s2}
    Msgs = {m1, m2}
    Kind <- Kinds
    Wants <- Filters2
    MaxFilters = 3
    None = None
CHECK_DEADLOCK FALSE
INVARIANTS FilterRefsAreUsers
PROPERTIES TakesOldestMatch RecvReturns
