SPECIFICATION Spec
CONSTANTS
    c1 = c1
    c2 = c2
    Callers = {c1}
    NoPlan = NoPlan
    Free = Free
    MaxHead = 2
    MaxEvents = 2
INVARIANT DeadlineIsTerminal
CHECK_DEADLOCK FALSE
