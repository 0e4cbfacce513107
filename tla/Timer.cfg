SPECIFICATION Spec
CONSTANTS
    Tasks = {t1}
    Entries = {e1, e2}
    Events = {v1, v2}
    Wheels = 3
    Bits = 1
    Timeouts = {0, 3}
    MaxLag = 1
    None = None
INVARIANTS RefcntIsOwners LateOnlyAtSlotEnd
PROPERTIES NeverEarly TimedWaitEnds CancelledIsReclaimed
