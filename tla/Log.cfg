SPECIFICATION Spec
CONSTANTS
    Threads = {w1, w2, f1, f2}
    Writers = {w1, w2}
    Flushers = {f1,f2}
    Service = f1
    MaxEntries = 4
    MaxPrints = 4
SYMMETRY Symmetry
INVARIANTS EntryIsHeld WrittenInOrder EveryLineIsAccounted
