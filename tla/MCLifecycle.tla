----------------------------- MODULE MCLifecycle -----------------------------
(***************************************************************************)
(* Three gates, one task and two concurrent callers, one of which may also *)
(* meet a failing git commit.  With a second task or gate the pairs of a   *)
(* record and an old copy of it are too many; LifecycleProofs is for any   *)
(* number of each.                                                         *)
(***************************************************************************)
EXTENDS Lifecycle

CONSTANTS t1, c1, c2

MCTasks == {t1}
MCCallers == {c1, c2}
MCBridgers == {c1}
==============================================================================
