--------------------------- MODULE MCWorktreeLock ---------------------------
\* Five calls: two whose processes may die one after the other, three in a third process.
EXTENDS WorktreeLock, TLC

CONSTANTS d1, d2, c1, c2, c3, p1, p2, p3

MCCallers == {d1, d2, c1, c2, c3}
MCPids == {p1, p2, p3}
MCPidOf == [c \in MCCallers |-> CASE c = d1 -> p1 [] c = d2 -> p2 [] OTHER -> p3]
MCSymmetry == Permutations({c1, c2, c3})
=============================================================================
