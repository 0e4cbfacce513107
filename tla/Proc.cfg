CONSTANTS
    Tasks = {1, 2, 3}
    Procs = {Main, p1}
    Main = Main
    Svc = Svc
    NoId = NoId
SPECIFICATION Spec
CHECK_DEADLOCK FALSE
INVARIANTS
    RefsAreOwners
    

    
