SPECIFICATION Spec
CONSTANTS
    c1 = c1
    c2 = c2
    Callers = {c1, c2}
    NoPlan = NoPlan
    Free = Free
    MaxHead = 2
    MaxEvents = 2
SYMMETRY Symmetry
INVARIANTS RemovalsAreSerial ResultsAreTrue
PROPERTY ImplementsCrashLock
CHECK_DEADLOCK FALSE
