----------------------------- MODULE MCFileLock -----------------------------
\* Three acquireFileLock calls, two of them in one process.
EXTENDS FileLock

CONSTANTS c1, c2, c3, p1, p2

MCCallers == {c1, c2, c3}
MCPids == {p1, p2}
MCPidOf == [c \in MCCallers |-> IF c = c3 THEN p2 ELSE p1]
=============================================================================
