------------------------------ MODULE CrashLock ------------------------------
(***************************************************************************)
(* The lock the parts of Advance take for granted when they put a critical *)
(* section around a file: exclusive, left behind by a user that dies (or   *)
(* cannot finish taking it), and then removed by whoever finds it.         *)
(*                                                                         *)
(* The two lock protocols, FileLock and WorktreeLock, implement it until   *)
(* they break (a reclaimer removes a lock that is not the dead one's);     *)
(* ChangeProjection and WorktreeDelete, whose models take an ideal lock,   *)
(* use it as described here and in no other way.                           *)
(***************************************************************************)
CONSTANT Users

VARIABLES
    state,    \* the lock: free, held, or left behind by its holder
    inside,   \* the users in their critical section
    broken    \* the lock has failed: nothing is promised any more

lockVars == <<state, inside, broken>>

LockInit == state = "free" /\ inside = {} /\ ~broken

\* A user takes a free lock; nobody is inside.
Take(u) ==
    /\ state = "free" /\ inside = {}
    /\ state' = "held" /\ inside' = {u}

\* The holder, which is alone inside, releases its own lock or leaves it behind.
Leave(u) ==
    /\ state = "held" /\ inside = {u}
    /\ state' \in {"free", "orphan"} /\ inside' = {}

\* A lock left behind is removed; a held one never is.
Reclaim ==
    /\ state = "orphan" /\ state' = "free"
    /\ UNCHANGED inside

LockNext == (\E u \in Users : Take(u) \/ Leave(u)) \/ Reclaim

LockStep == broken' \/ (~broken /\ LockNext)

LockSpec == LockInit /\ [][LockStep]_lockVars
=============================================================================
