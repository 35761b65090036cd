SPECIFICATION FairSpec
CONSTANTS
    Callers = {c1}
    Modes = {"direct", "pr"}
    None = None
    Free = Free
    MaxWork = 2
    MaxTip = 5
    MaxFaults = 2
    c1 = c1
INVARIANTS TerminalIsReleased WorkIsKept
PROPERTY Converges
CHECK_DEADLOCK FALSE
