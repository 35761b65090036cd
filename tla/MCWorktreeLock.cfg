SPECIFICATION Spec
CONSTANTS
    d1 = d1
    d2 = d2
    c1 = c1
    c2 = c2
    c3 = c3
    p1 = p1
    p2 = p2
    p3 = p3
    NoCaller = NoCaller
    Callers <- MCCallers
    Pids <- MCPids
    PidOf <- MCPidOf
SYMMETRY MCSymmetry
INVARIANTS
    ExclusiveUnlessDisplaced
    OneReclaimer
PROPERTIES
    ImplementsCrashLock
    UnwrittenRecordBlocks
\* Every call is made once: the model stops when all have ended.
CHECK_DEADLOCK FALSE
