CONSTANTS
    Threads = {w1, w2, w3}
    Objects = {o1, o2}
    MaxEntries = 4
    IdSpace = 8
    MaxRefcnt = 2
    NoObject = NoObject
SPECIFICATION Spec
SYMMETRY Symmetry
INVARIANTS
    FreedOnce
    GodInv
PROPERTIES
    DirectorySpec
