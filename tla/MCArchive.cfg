SPECIFICATION Spec
CONSTANTS
    Callers = {c1, c2}
    Modes = {"direct", "pr"}
    None = None
    Free = Free
    MaxWork = 2
    MaxTip = 1
    MaxFaults = 1
    c1 = c1
    c2 = c2
SYMMETRY Symmetry
INVARIANTS TerminalIsReleased RecordSurvives WorkIsKept
PROPERTY ArchiveOnlyAdvances
CHECK_DEADLOCK FALSE
