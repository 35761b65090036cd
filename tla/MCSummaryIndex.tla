--------------------------- MODULE MCSummaryIndex ---------------------------
\* Two committers, a rebuild, a store save and a reader on one change.
EXTENDS SummaryIndex, TLC

CONSTANTS c1, c2, b1, s1, r1

MCCommitters == {c1, c2}
MCRebuilders == {b1}
MCSavers == {s1}
MCReaders == {r1}

\* Committers are interchangeable.
MCSymmetry == Permutations(MCCommitters)
=============================================================================
