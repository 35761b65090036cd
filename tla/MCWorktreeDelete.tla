-------------------------- MODULE MCWorktreeDelete --------------------------
\* Two sessions that plan and apply the deletion of one worktree.
EXTENDS WorktreeDelete, TLC

Symmetry == Permutations(Callers)

=============================================================================
