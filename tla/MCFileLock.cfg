SPECIFICATION FairSpec
CONSTANTS
    c1 = c1
    c2 = c2
    c3 = c3
    p1 = p1
    p2 = p2
    NoCaller = NoCaller
    Callers <- MCCallers
    Pids <- MCPids
    PidOf <- MCPidOf
    MaxAttempts = 2
INVARIANTS
    TypeOK
    ExclusiveUnlessStolen
PROPERTIES
    ImplementsCrashLock
    AcquireEnds
    StaleLockIsReclaimed
\* The model stops when every process has crashed.
CHECK_DEADLOCK FALSE
