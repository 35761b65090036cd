SPECIFICATION Spec
CONSTANTS
    Callers = {c1}
    Modes = {"direct", "pr"}
    None = None
    Free = Free
    MaxWork = 2
    MaxTip = 2
    MaxFaults = 1
    c1 = c1
INVARIANT PendingStaysActive
CHECK_DEADLOCK FALSE
