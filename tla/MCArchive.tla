------------------------------ MODULE MCArchive ------------------------------
EXTENDS Archive, TLC

Symmetry == Permutations(Callers)

=============================================================================
