--------------------------- MODULE FileLockProofs ---------------------------
(***************************************************************************)
(* Proofs about FileLock, for any set of callers, any assignment of them   *)
(* to processes and any budget.                                            *)
(***************************************************************************)
EXTENDS FileLock, TLAPS

(***************************************************************************)
(* The inductive invariant.  Exclusion alone is not inductive: what makes  *)
(* it so is that, until a lock is stolen, whoever owns the lock is the     *)
(* creator of the file at the path, and that a pending unlink presupposes  *)
(* a dead process and a complete lock file that was read.                  *)
(***************************************************************************)
OwnerCreatedFile == ~stolen => \A c \in Callers : Owns(c) => file.by = c

UnlinkNeedsDeath ==
    \A c \in Callers : pc[c] = "unlink" => dead # {} /\ seen[c].st = "full"

StolenNeedsDeath == stolen => dead # {}

AbsentShape == file.st = "absent" => file = Absent

LockInv ==
    /\ TypeOK
    /\ OwnerCreatedFile
    /\ UnlinkNeedsDeath
    /\ StolenNeedsDeath
    /\ AbsentShape

\* The initial state has no owner and no pending unlink.
LEMMA InitLockInv == Init => LockInv
  <1> SUFFICES ASSUME Init PROVE LockInv
    OBVIOUS
  <1>1. TypeOK
    <2>1. 0 \in 0 .. MaxAttempts
      BY MaxAttemptsAssumption
    <2>2. Absent \in LockFile
      BY DEF Absent, LockFile
    <2> QED
      BY <2>1, <2>2 DEF Init, TypeOK, PC
  <1>2. OwnerCreatedFile /\ UnlinkNeedsDeath
    BY DEF Init, OwnerCreatedFile, UnlinkNeedsDeath, Owns
  <1>3. StolenNeedsDeath /\ AbsentShape
    BY DEF Init, StolenNeedsDeath, AbsentShape
  <1> QED
    BY <1>1, <1>2, <1>3 DEF LockInv

\* Every step of a caller, of the clock or of a crash keeps the types.
LEMMA NextTypeOK == TypeOK /\ [Next]_vars => TypeOK'
  <1> SUFFICES ASSUME TypeOK, [Next]_vars PROVE TypeOK'
    OBVIOUS
  <1> USE MaxAttemptsAssumption, PidOfAssumption DEF TypeOK, LockFile, PC, Absent
  <1>1. ASSUME NEW c \in Callers, Begin(c) PROVE TypeOK'
    BY <1>1 DEF Begin
  <1>2. ASSUME NEW c \in Callers, Create(c) PROVE TypeOK'
    BY <1>2 DEF Create
  <1>3. ASSUME NEW c \in Callers, CreateExists(c) PROVE TypeOK'
    BY <1>3 DEF CreateExists
  <1>4. ASSUME NEW c \in Callers, CreateThrows(c) PROVE TypeOK'
    BY <1>4 DEF CreateThrows
  <1>5. ASSUME NEW c \in Callers, WriteContent(c) PROVE TypeOK'
    BY <1>5 DEF WriteContent
  <1>6. ASSUME NEW c \in Callers, WriteThrows(c) PROVE TypeOK'
    BY <1>6 DEF WriteThrows
  <1>7. ASSUME NEW c \in Callers, Inspect(c) \/ InspectFails(c) PROVE TypeOK'
    <2>1. CASE Inspect(c)
      BY <2>1 DEF Inspect
    <2>2. CASE InspectFails(c)
      BY <2>2 DEF InspectFails
    <2> QED
      BY <1>7, <2>1, <2>2
  <1>8. ASSUME NEW c \in Callers, Judge(c) PROVE TypeOK'
    BY <1>8 DEF Judge
  <1>9. ASSUME NEW c \in Callers, Reclaim(c) \/ ReclaimFails(c) PROVE TypeOK'
    <2>1. CASE Reclaim(c)
      <3>1. stolen' \in BOOLEAN
        BY <2>1 DEF Reclaim
      <3> QED
        BY <2>1, <3>1 DEF Reclaim
    <2>2. CASE ReclaimFails(c)
      BY <2>2 DEF ReclaimFails
    <2> QED
      BY <1>9, <2>1, <2>2
  <1>10. ASSUME NEW c \in Callers, Retry(c) PROVE TypeOK'
    BY <1>10 DEF Retry
  <1>11. ASSUME NEW c \in Callers, GiveUp(c) PROVE TypeOK'
    BY <1>11 DEF GiveUp
  <1>12. ASSUME NEW c \in Callers, Release(c) \/ ReleaseFails(c) PROVE TypeOK'
    <2>1. CASE Release(c)
      BY <2>1 DEF Release
    <2>2. CASE ReleaseFails(c)
      BY <2>2 DEF ReleaseFails
    <2> QED
      BY <1>12, <2>1, <2>2
  <1>13. CASE Age
    BY <1>13 DEF Age
  <1>14. ASSUME NEW p \in Pids, Crash(p) PROVE TypeOK'
    BY <1>14 DEF Crash
  <1>15. CASE UNCHANGED vars
    BY <1>15 DEF vars
  <1> QED
    BY <1>1, <1>2, <1>3, <1>4, <1>5, <1>6, <1>7, <1>8, <1>9, <1>10, <1>11,
       <1>12, <1>13, <1>14, <1>15 DEF Next, Advance

\* Every step keeps the inductive invariant.
LEMMA NextLockInv == LockInv /\ [Next]_vars => LockInv'
  <1> SUFFICES ASSUME LockInv, [Next]_vars PROVE LockInv'
    OBVIOUS
  <1>0. TypeOK'
    BY NextTypeOK DEF LockInv
  <1> DEFINE Rest == OwnerCreatedFile /\ UnlinkNeedsDeath /\ StolenNeedsDeath
                     /\ AbsentShape
  <1> USE NoCallerAssumption, PidOfAssumption
      DEF LockInv, TypeOK, OwnerCreatedFile, UnlinkNeedsDeath, StolenNeedsDeath,
          AbsentShape, Owns, LockFile, Absent
  <1>1. ASSUME NEW c \in Callers, Begin(c) PROVE Rest'
    BY <1>1 DEF Begin
  <1>2. ASSUME NEW c \in Callers, Create(c) PROVE Rest'
    <2>1. ~stolen => \A d \in Callers : ~Owns(d)
      BY <1>2 DEF Create
    <2> QED
      BY <1>2, <2>1 DEF Create
  <1>3. ASSUME NEW c \in Callers, CreateExists(c) PROVE Rest'
    BY <1>3 DEF CreateExists
  <1>4. ASSUME NEW c \in Callers, CreateThrows(c) PROVE Rest'
    BY <1>4 DEF CreateThrows
  <1>5. ASSUME NEW c \in Callers, WriteContent(c) PROVE Rest'
    BY <1>5 DEF WriteContent
  <1>6. ASSUME NEW c \in Callers, WriteThrows(c) PROVE Rest'
    BY <1>6 DEF WriteThrows
  <1>7. ASSUME NEW c \in Callers, Inspect(c) \/ InspectFails(c) PROVE Rest'
    BY <1>7 DEF Inspect, InspectFails
  <1>8. ASSUME NEW c \in Callers, Judge(c) PROVE Rest'
    BY <1>8 DEF Judge, Stale
  <1>9. ASSUME NEW c \in Callers, Reclaim(c) PROVE Rest'
    <2>1. ~stolen' => \A d \in Callers : ~Owns(d)
      BY <1>9 DEF Reclaim
    <2> QED
      BY <1>9, <2>1 DEF Reclaim
  <1>10. ASSUME NEW c \in Callers, Retry(c) \/ ReclaimFails(c) PROVE Rest'
    BY <1>10 DEF Retry, ReclaimFails
  <1>11. ASSUME NEW c \in Callers, GiveUp(c) \/ ReleaseFails(c) PROVE Rest'
    BY <1>11 DEF GiveUp, ReleaseFails
  <1>12. ASSUME NEW c \in Callers, Release(c) PROVE Rest'
    <2>1. ~stolen => \A d \in Callers : Owns(d) => d = c
      BY <1>12 DEF Release
    <2> QED
      BY <1>12, <2>1 DEF Release
  <1>13. CASE Age
    BY <1>13 DEF Age
  <1>14. ASSUME NEW p \in Pids, Crash(p) PROVE Rest'
    BY <1>14 DEF Crash
  <1>15. CASE UNCHANGED vars
    BY <1>15 DEF vars
  <1>16. Rest'
    BY <1>1, <1>2, <1>3, <1>4, <1>5, <1>6, <1>7, <1>8, <1>9, <1>10, <1>11,
       <1>12, <1>13, <1>14, <1>15 DEF Next, Advance
  <1> QED
    BY <1>0, <1>16 DEF LockInv

\* The inductive invariant holds in every reachable state of the lock protocol.
THEOREM LockInvariant == Spec => []LockInv
  BY InitLockInv, NextLockInv, PTL DEF Spec

\* The variables of acquireFileLock keep their types.
THEOREM TypeCorrect == Spec => []TypeOK
  <1>1. LockInv => TypeOK
    BY DEF LockInv
  <1> QED
    BY <1>1, LockInvariant, PTL

(***************************************************************************)
(* Two callers own the file lock together only after a reclaimer unlinked  *)
(* a live caller's lock, which takes a crashed process.                    *)
(***************************************************************************)
THEOREM Exclusive == Spec => []ExclusiveUnlessStolen
  <1>1. LockInv => ExclusiveUnlessStolen
    BY DEF LockInv, OwnerCreatedFile, StolenNeedsDeath, ExclusiveUnlessStolen
  <1> QED
    BY <1>1, LockInvariant, PTL

\* In particular fs.ts gives plain mutual exclusion for as long as no process crashes.
THEOREM ExclusiveWithoutCrash == Spec => [](dead = {} => MutualExclusion)
  <1>1. LockInv => (dead = {} => MutualExclusion)
    BY DEF LockInv, OwnerCreatedFile, StolenNeedsDeath, MutualExclusion, Owns
  <1> QED
    BY <1>1, LockInvariant, PTL

\* The release closure removes the file its own caller created, unless that was stolen.
THEOREM ReleaseOwn == Spec => ReleaseRemovesOwnLock
  <1>1. LockInv /\ [Next]_vars
        => [\A c \in Callers : pc[c] = "hold" /\ pc'[c] = "idle" /\ ~stolen
                               => file.by = c]_vars
    BY DEF LockInv, OwnerCreatedFile, Owns
  <1> QED
    BY <1>1, LockInvariant, PTL DEF Spec, ReleaseRemovesOwnLock

(***************************************************************************)
(* The exception to "stale locks are automatically removed": a lock file   *)
(* orphaned between the exclusive create and the write of its content has  *)
(* no timestamp, so no contender finds it stale.  Once no holder and no    *)
(* judgement of a complete lock is in flight, it stays for good, whatever  *)
(* its age.                                                                *)
(***************************************************************************)
Unlinks(c) == pc[c] = "hold" \/ (pc[c] \in {"seen", "unlink"} /\ seen[c].st = "full")

EmptyOrphan ==
    /\ file.st = "empty"
    /\ PidOf[file.by] \in dead
    /\ \A c \in Callers : pc[c] # "created" /\ ~Unlinks(c)

(***************************************************************************)
(* The path of such an orphan stays locked, and nobody comes to hold it or *)
(* to judge a complete lock there, so the orphan remains one.              *)
(***************************************************************************)
THEOREM EmptyOrphanStays == Spec => [][EmptyOrphan => EmptyOrphan']_vars
  <1>1. ASSUME LockInv, [Next]_vars, EmptyOrphan PROVE EmptyOrphan'
    <2> USE <1>1 DEF EmptyOrphan, Unlinks, Absent
    <2>0. /\ \A c \in Callers : pc[c] # "unlink"
          /\ pc \in [Callers -> PC] /\ seen \in [Callers -> LockFile]
      BY DEF LockInv, UnlinkNeedsDeath, TypeOK
    <2>1. ASSUME NEW c \in Callers, Begin(c) \/ Release(c) \/ ReleaseFails(c)
          PROVE EmptyOrphan'
      BY <2>0, <2>1 DEF Begin, Release, ReleaseFails
    <2>2. ASSUME NEW c \in Callers, Create(c) \/ CreateExists(c) \/ CreateThrows(c)
          PROVE EmptyOrphan'
      BY <2>0, <2>2 DEF Create, CreateExists, CreateThrows
    <2>3. ASSUME NEW c \in Callers, Inspect(c) \/ InspectFails(c) \/ Judge(c)
          PROVE EmptyOrphan'
      BY <2>0, <2>3 DEF Inspect, InspectFails, Judge, Stale
    <2>4. ASSUME NEW c \in Callers,
                 \/ WriteContent(c) \/ WriteThrows(c) \/ Reclaim(c)
                 \/ ReclaimFails(c) \/ Retry(c) \/ GiveUp(c)
          PROVE EmptyOrphan'
      BY <2>0, <2>4 DEF WriteContent, WriteThrows, Reclaim, ReclaimFails, Retry, GiveUp
    <2>5. CASE Age
      BY <2>0, <2>5 DEF Age, LockInv, TypeOK, LockFile
    <2>6. ASSUME NEW p \in Pids, Crash(p) PROVE EmptyOrphan'
      BY <2>0, <2>6 DEF Crash
    <2>7. CASE UNCHANGED vars
      BY <2>7 DEF vars
    <2> QED
      BY <2>1, <2>2, <2>3, <2>4, <2>5, <2>6, <2>7 DEF Next, Advance
  <1>2. LockInv /\ [Next]_vars => [EmptyOrphan => EmptyOrphan']_vars
    BY <1>1
  <1> QED
    BY <1>2, LockInvariant, PTL DEF Spec

-----------------------------------------------------------------------------
(***************************************************************************)
(* The refinement.  Until a theft there is at most one owner and the file  *)
(* at the path is its file, so that the lock's state and the owners change *)
(* together or not at all.                                                 *)
(***************************************************************************)
Owners == {c \in Callers : Owns(c)}

\* Without a theft the lock is held exactly when somebody owns it.
HeldIsOwned ==
    LockInv /\ ~stolen =>
        /\ \A c \in Callers : Owns(c) => LockState = "held" /\ Owners = {c}
        /\ Owners = {} => LockState = IF file = Absent THEN "free" ELSE "orphan"

LEMMA HeldMeansOwned == HeldIsOwned
<1> SUFFICES ASSUME LockInv, ~stolen
    PROVE /\ \A c \in Callers : Owns(c) => LockState = "held" /\ Owners = {c}
          /\ Owners = {} => LockState = IF file = Absent THEN "free" ELSE "orphan"
  BY DEF HeldIsOwned
<1>1. ASSUME NEW c \in Callers, Owns(c) PROVE LockState = "held" /\ Owners = {c}
  <2>1. file.by = c /\ \A d \in Callers : Owns(d) => d = c
    BY <1>1 DEF LockInv, OwnerCreatedFile
  <2>2. file # Absent
    BY <2>1, NoCallerAssumption DEF Absent
  <2> QED
    BY <1>1, <2>1, <2>2 DEF LockState, Owners
<1>2. Owners = {} => LockState = IF file = Absent THEN "free" ELSE "orphan"
  BY DEF LockState, Owners
<1> QED
  BY <1>1, <1>2

\* The same in the next state.
LEMMA HeldMeansOwnedNext == HeldIsOwned'
  BY HeldMeansOwned, PTL

\* An owner that stops owning leaves the lock; its file is gone or left behind.
LEMMA OwnerLeaves ==
    ASSUME LockInv, LockInv', ~stolen, ~stolen', NEW c \in Callers, Owns(c),
           \A d \in Callers : Owns(d)' => Owns(d) /\ d # c
    PROVE  Ideal!Leave(c)
<1>1. LockState = "held" /\ Owners = {c}
  BY HeldMeansOwned DEF HeldIsOwned
<1>2. Owners' = {}
  BY <1>1 DEF Owners
<1>3. LockState' \in {"free", "orphan"}
  BY <1>2, HeldMeansOwnedNext DEF HeldIsOwned
<1> QED
  BY <1>1, <1>2, <1>3 DEF Owners, Ideal!Leave

\* Until a theft every step takes, leaves or reclaims the abstract lock, or does nothing to it.
LEMMA LockStepRefined ==
    ASSUME LockInv, LockInv', ~stolen', Next
    PROVE  ~stolen /\ (Ideal!LockNext \/ UNCHANGED <<LockState, Owners>>)
<1> DEFINE Goal == Ideal!LockNext \/ UNCHANGED <<LockState, Owners>>
<1>0. ~stolen
  BY DEF Next, Begin, Advance, Create, CreateExists, CreateThrows, WriteContent,
     WriteThrows, Inspect, InspectFails, Judge, Reclaim, ReclaimFails, Retry, GiveUp,
     Release, ReleaseFails, Age, Crash
<1>t. pc \in [Callers -> PC] /\ pc' \in [Callers -> PC] /\ file \in LockFile
  BY DEF LockInv, TypeOK
<1> USE <1>0, <1>t
\* Steps that leave the presence and the creator of the file and every owner alone.
<1>1. ASSUME (file = Absent)' <=> file = Absent, file'.by = file.by,
             \A c \in Callers : Owns(c)' <=> Owns(c)
      PROVE  Goal
  BY <1>1 DEF LockState, Owners
<1>2. ASSUME UNCHANGED file, \A c \in Callers : Owns(c)' <=> Owns(c) PROVE Goal
  BY <1>1, <1>2
<1>3. ASSUME NEW c \in Callers, Create(c) PROVE Goal
  <2>1. Owns(c)' /\ file = Absent
    BY <1>3 DEF Create, Owns
  <2>2. Owners = {} /\ LockState = "free"
    <3>1. LockState = "free"
      BY <2>1 DEF LockState
    <3> QED
      BY <3>1, HeldMeansOwned DEF HeldIsOwned, Owners
  <2>3. Owners' = {c} /\ LockState' = "held"
    BY <2>1, HeldMeansOwnedNext DEF HeldIsOwned
  <2>4. Ideal!Take(c)
    BY <2>2, <2>3 DEF Owners, Ideal!Take
  <2> QED
    BY <2>4 DEF Ideal!LockNext
<1>4. ASSUME NEW c \in Callers, WriteThrows(c) \/ Release(c) \/ ReleaseFails(c)
      PROVE Goal
  <2>1. Owns(c) /\ \A d \in Callers : Owns(d)' => Owns(d) /\ d # c
    BY <1>4 DEF WriteThrows, Release, ReleaseFails, Owns
  <2> QED
    BY <2>1, OwnerLeaves DEF Ideal!LockNext
<1>5. ASSUME NEW c \in Callers, WriteContent(c) PROVE Goal
  <2>1. \A d \in Callers : Owns(d)' <=> Owns(d)
    BY <1>5 DEF WriteContent, Owns
  <2>2. file.by = c
    BY <1>5 DEF LockInv, OwnerCreatedFile, WriteContent, Owns
  <2>3. file # Absent /\ file' # Absent /\ file'.by = file.by
    BY <1>5, <2>2, NoCallerAssumption DEF WriteContent, Absent, LockFile
  <2> QED
    BY <1>1, <2>1, <2>3
<1>6. ASSUME NEW c \in Callers, Reclaim(c) PROVE Goal
  <2>1. \A d \in Callers : Owns(d)' <=> Owns(d)
    BY <1>6 DEF Reclaim, Owns
  <2>2. CASE file = Absent
    BY <1>2, <1>6, <2>1, <2>2 DEF Reclaim
  <2>3. CASE file # Absent
    <3>1. LockState = "orphan" /\ LockState' = "free"
      BY <1>6, <2>3 DEF Reclaim, LockState
    <3>2. Ideal!Reclaim
      BY <2>1, <3>1 DEF Ideal!Reclaim
    <3> QED
      BY <3>2 DEF Ideal!LockNext
  <2> QED
    BY <2>2, <2>3
<1>7. CASE Age
  <2>1. \A d \in Callers : Owns(d)' <=> Owns(d)
    BY <1>7 DEF Age, Owns
  <2>2. file # Absent /\ file' # Absent /\ file'.by = file.by
    BY <1>7 DEF Age, Absent, LockFile
  <2> QED
    BY <1>1, <2>1, <2>2
<1>8. ASSUME NEW p \in Pids, Crash(p) PROVE Goal
  <2>1. \A d \in Callers : Owns(d)' <=> Owns(d) /\ PidOf[d] # p
    BY <1>8 DEF Crash, Owns
  <2>2. CASE \E c \in Callers : Owns(c) /\ PidOf[c] = p
    <3>1. PICK c \in Callers : Owns(c) /\ PidOf[c] = p
      BY <2>2
    <3>2. Ideal!Leave(c)
      BY <2>1, <3>1, OwnerLeaves
    <3> QED
      BY <3>2 DEF Ideal!LockNext
  <2>3. CASE \A c \in Callers : Owns(c) => PidOf[c] # p
    BY <1>2, <1>8, <2>1, <2>3 DEF Crash
  <2> QED
    BY <2>2, <2>3
<1>9. ASSUME NEW c \in Callers,
             \/ Begin(c) \/ CreateExists(c) \/ CreateThrows(c) \/ Inspect(c)
             \/ InspectFails(c) \/ Judge(c) \/ ReclaimFails(c) \/ Retry(c) \/ GiveUp(c)
      PROVE  Goal
  <2>1. UNCHANGED file /\ \A d \in Callers : Owns(d)' <=> Owns(d)
    BY <1>9 DEF Begin, CreateExists, CreateThrows, Inspect, InspectFails, Judge,
       ReclaimFails, Retry, GiveUp, Owns
  <2> QED
    BY <1>2, <2>1
<1> QED
  BY <1>3, <1>4, <1>5, <1>6, <1>7, <1>8, <1>9 DEF Next, Advance

(***************************************************************************)
(* acquireFileLock implements the lock of CrashLock, up to the first theft *)
(* of a live caller's lock.                                                *)
(***************************************************************************)
THEOREM FileLockIsACrashLock == Spec => ImplementsCrashLock
<1>1. Init => Ideal!LockInit
  BY DEF Init, Ideal!LockInit, LockState, Owns
<1>2. LockInv /\ LockInv' /\ [Next]_vars => [Ideal!LockStep]_(Ideal!lockVars)
  <2> SUFFICES ASSUME LockInv, LockInv', [Next]_vars
               PROVE  [Ideal!LockStep]_(Ideal!lockVars)
    OBVIOUS
  <2>1. CASE stolen'
    BY <2>1 DEF Ideal!LockStep
  <2>2. CASE Next /\ ~stolen'
    <3>1. stolen' = stolen
      BY <2>2, LockStepRefined DEF LockInv, TypeOK
    <3> QED
      BY <2>2, <3>1, LockStepRefined DEF Ideal!LockStep, Ideal!lockVars, Owners
  <2>3. CASE UNCHANGED vars
    BY <2>3 DEF vars, Ideal!lockVars, LockState, Owns
  <2> QED
    BY <2>1, <2>2, <2>3
<1> QED
  BY <1>1, <1>2, LockInvariant, PTL DEF Spec, ImplementsCrashLock, Ideal!LockSpec

-----------------------------------------------------------------------------
(***************************************************************************)
(* The bound on the wait.  What is left of a call is measured by the       *)
(* attempts its budget still allows and by its place in the current one;   *)
(* whatever the other callers, the clock and crashes do, every move of the *)
(* call takes some of it away.  That a call does move is fairness, and     *)
(* checked by TLC only.                                                    *)
(***************************************************************************)
Place(at) ==
    CASE at = "try" -> 6 [] at = "exists" -> 5 [] at = "seen" -> 4
      [] at = "unlink" -> 3 [] at = "miss" -> 2 [] at = "created" -> 1 [] OTHER -> 0

StepsLeft(c) ==
    IF pc[c] \in {"idle", "hold", "dead"} THEN 0
    ELSE 6 * (MaxAttempts - attempts[c]) + Place(pc[c])

InCall(c) == pc[c] \notin {"idle", "hold", "dead"}

\* A call under way has made its first attempt.
AttemptsCounted == \A c \in Callers : InCall(c) => attempts[c] >= 1

MoveIsProgress(c) ==
    InCall(c) => \/ StepsLeft(c)' < StepsLeft(c)
                 \/ UNCHANGED <<pc[c], attempts[c], seen[c]>>

WaitBounded == \A c \in Callers : StepsLeft(c) \in 0 .. 6 * MaxAttempts

\* Every step keeps the count, and moves a call that is under way towards its end.
LEMMA StepIsProgress ==
    ASSUME LockInv, LockInv', AttemptsCounted, Next
    PROVE  AttemptsCounted' /\ \A c \in Callers : MoveIsProgress(c)
<1> SUFFICES ASSUME NEW c \in Callers
             PROVE  (InCall(c)' => attempts'[c] >= 1) /\ MoveIsProgress(c)
  BY DEF AttemptsCounted, InCall
<1> USE DEF MoveIsProgress, InCall, StepsLeft, Place
<1>0. /\ pc \in [Callers -> PC] /\ seen \in [Callers -> LockFile]
      /\ attempts \in [Callers -> 0 .. MaxAttempts]
      /\ attempts[c] \in 0 .. MaxAttempts /\ attempts'[c] \in 0 .. MaxAttempts
      /\ MaxAttempts \in Nat \ {0}
      /\ InCall(c) => attempts[c] >= 1
  BY MaxAttemptsAssumption DEF LockInv, TypeOK, AttemptsCounted
<1> DEFINE Goal == (InCall(c)' => attempts'[c] >= 1) /\ MoveIsProgress(c)
<1>1. ASSUME UNCHANGED <<pc[c], attempts[c], seen[c]>> PROVE Goal
  BY <1>0, <1>1
<1>2. ASSUME NEW d \in Callers, d # c,
             Begin(d) \/ Advance(d) \/ Release(d) \/ ReleaseFails(d)
      PROVE Goal
  <2>1. UNCHANGED <<pc[c], attempts[c], seen[c]>>
    BY <1>0, <1>2 DEF Begin, Advance, Create, CreateExists, CreateThrows, WriteContent,
       WriteThrows, Inspect, InspectFails, Judge, Reclaim, ReclaimFails, Retry, GiveUp,
       Release, ReleaseFails
  <2> QED
    BY <1>1, <2>1
<1>3. CASE Begin(c) \/ Release(c) \/ ReleaseFails(c)
  BY <1>0, <1>3 DEF Begin, Release, ReleaseFails
<1>4. CASE Create(c) \/ CreateExists(c) \/ CreateThrows(c)
  BY <1>0, <1>4 DEF Create, CreateExists, CreateThrows
<1>5. CASE WriteContent(c) \/ WriteThrows(c)
  BY <1>0, <1>5 DEF WriteContent, WriteThrows
<1>6. CASE Inspect(c) \/ InspectFails(c) \/ Judge(c) \/ Reclaim(c) \/ ReclaimFails(c)
  BY <1>0, <1>6 DEF Inspect, InspectFails, Judge, Reclaim, ReclaimFails
<1>7. CASE Retry(c)
  BY <1>0, <1>7 DEF Retry
<1>8. CASE GiveUp(c)
  BY <1>0, <1>8 DEF GiveUp
<1>9. CASE Age
  BY <1>1, <1>9 DEF Age
<1>10. ASSUME NEW p \in Pids, Crash(p) PROVE Goal
  <2>1. CASE PidOf[c] = p
    <3>1. pc'[c] = "dead" /\ StepsLeft(c)' = 0
      BY <1>10, <2>1 DEF Crash
    <3>2. InCall(c) => Place(pc[c]) \in 1 .. 6
      BY <1>0 DEF PC
    <3>3. InCall(c) => StepsLeft(c) > 0
      BY <1>0, <3>2
    <3> QED
      BY <3>1, <3>3
  <2>2. CASE PidOf[c] # p
    <3>1. UNCHANGED <<pc[c], attempts[c], seen[c]>>
      BY <1>0, <1>10, <2>2 DEF Crash
    <3> QED
      BY <1>1, <3>1
  <2> QED
    BY <2>1, <2>2
<1> QED
  BY <1>2, <1>3, <1>4, <1>5, <1>6, <1>7, <1>8, <1>9, <1>10 DEF Next, Advance

(***************************************************************************)
(* "The wait is always bounded", its safety half: acquireFileLock with     *)
(* boundedRetry makes at most 6 * MaxAttempts moves, whoever else contends *)
(* for the lock, and none of them is undone by anybody.                    *)
(***************************************************************************)
THEOREM WaitIsBounded ==
    Spec => []WaitBounded /\ [][\A c \in Callers : MoveIsProgress(c)]_vars
<1>1. Init => AttemptsCounted
  BY DEF Init, AttemptsCounted, InCall
<1>2. LockInv /\ LockInv' /\ AttemptsCounted /\ [Next]_vars
      => AttemptsCounted' /\ [\A c \in Callers : MoveIsProgress(c)]_vars
  <2>1. ASSUME AttemptsCounted, UNCHANGED vars PROVE AttemptsCounted'
    BY <2>1 DEF AttemptsCounted, InCall, vars
  <2> QED
    BY <2>1, StepIsProgress
<1>3. LockInv /\ AttemptsCounted => WaitBounded
  <2> SUFFICES ASSUME LockInv, AttemptsCounted, NEW c \in Callers
               PROVE  StepsLeft(c) \in 0 .. 6 * MaxAttempts
    BY DEF WaitBounded
  <2>1. /\ attempts[c] \in 0 .. MaxAttempts /\ MaxAttempts \in Nat \ {0}
        /\ InCall(c) => attempts[c] >= 1
    BY MaxAttemptsAssumption DEF LockInv, TypeOK, AttemptsCounted
  <2>2. Place(pc[c]) \in 0 .. 6
    BY DEF Place
  <2> QED
    BY <2>1, <2>2 DEF StepsLeft, InCall
<1> QED
  BY <1>1, <1>2, <1>3, LockInvariant, PTL DEF Spec
=============================================================================
