------------------------- MODULE WorktreeLockProofs -------------------------
(***************************************************************************)
(* Proofs about WorktreeLock, for any set of calls and any assignment of   *)
(* them to processes.                                                      *)
(***************************************************************************)
EXTENDS WorktreeLock, TLAPS

(***************************************************************************)
(* The inductive invariant.  A dead process's calls stop, so the record of *)
(* a dead process has no living owner and may be moved aside; until        *)
(* another record is displaced, the record at the path is the owner's, a   *)
(* record moved aside is the judged one and is gone from the path, and a   *)
(* call creates at most one record.                                        *)
(***************************************************************************)
DeadCallsStop == \A c \in Callers : PidOf[c] \in dead => pc[c] = "dead"

DisplacedNeedsDeath == displaced => dead # {}

FullRecordsNameCallers ==
    /\ rec.full => rec.by \in Callers
    /\ \A c \in Callers : aside[c].full => aside[c].by \in Callers

ReclaimsTheDead ==
    \A c \in Callers :
        /\ pc[c] = "judge" => seen[c] \in Callers
        /\ pc[c] \in {"rename", "check", "remove", "recreate", "restore", "discard"} =>
              seen[c] \in Callers /\ PidOf[seen[c]] \in dead

OwnerIsAtThePath == \A c \in Callers : Owns(c) => rec.by = c

MovedTheJudgedRecord ==
    \A c \in Callers :
        /\ pc[c] # "restore"
        /\ pc[c] = "check" => aside[c] = [by |-> seen[c], full |-> TRUE]

JudgedRecordIsGone ==
    \A c \in Callers : pc[c] \in {"check", "remove", "recreate"} => rec.by # seen[c]

OneMover ==
    \A c, e \in Callers :
        /\ pc[c] \in {"check", "remove", "recreate"}
        /\ pc[e] \in {"check", "remove", "recreate"}
        /\ seen[c] = seen[e]
        => c = e

\* The call has created a record that is at the path or was read by someone.
Made(e) == rec.by = e \/ \E c \in Callers : seen[c] = e

MakersKeepTheirRecord ==
    \A e \in Callers :
        Made(e) =>
            \/ pc[e] \in {"contended", "released", "dead"}
            \/ /\ rec.by = e
               /\ Owns(e) \/ pc[e] = "read" \/ (pc[e] = "judge" /\ seen[e] = e)

SeenRecordsAreWritten ==
    \A c \in Callers : pc[c] \in {"judge", "rename"} /\ seen[c] = rec.by => rec.full

Always == DeadCallsStop /\ DisplacedNeedsDeath /\ FullRecordsNameCallers /\ ReclaimsTheDead

Undisplaced ==
    /\ OwnerIsAtThePath
    /\ MovedTheJudgedRecord
    /\ JudgedRecordIsGone
    /\ OneMover
    /\ MakersKeepTheirRecord
    /\ SeenRecordsAreWritten

WorktreeInv ==
    /\ TypeOK
    /\ Always
    /\ ~displaced => Undisplaced

\* Before the first call there is no record and nobody has read one.
LEMMA InitWorktreeInv == Init => WorktreeInv
  <1> SUFFICES ASSUME Init PROVE WorktreeInv
    OBVIOUS
  <1> USE NoCallerAssumption DEF Init, Absent
  <1>1. TypeOK
    BY DEF TypeOK, Record, PC
  <1>2. Always
    BY DEF Always, DeadCallsStop, DisplacedNeedsDeath, FullRecordsNameCallers,
           ReclaimsTheDead
  <1>3. Undisplaced
    BY DEF Undisplaced, OwnerIsAtThePath, MovedTheJudgedRecord, JudgedRecordIsGone,
           OneMover, MakersKeepTheirRecord, SeenRecordsAreWritten, Owns, Made
  <1> QED
    BY <1>1, <1>2, <1>3 DEF WorktreeInv

\* Every step of a call and every crash keeps the types.
LEMMA NextTypeOK == TypeOK /\ [Next]_vars => TypeOK'
  <1> SUFFICES ASSUME TypeOK, [Next]_vars PROVE TypeOK'
    OBVIOUS
  <1> USE PidOfAssumption DEF TypeOK, Record, PC, Absent, Goes
  <1>1. ASSUME NEW c \in Callers, Begin(c) PROVE TypeOK'
    BY <1>1 DEF Begin
  <1>2. ASSUME NEW c \in Callers, Create(c) PROVE TypeOK'
    BY <1>2 DEF Create
  <1>3. ASSUME NEW c \in Callers, CreateFails(c) PROVE TypeOK'
    BY <1>3 DEF CreateFails
  <1>4. ASSUME NEW c \in Callers, WriteRecord(c) PROVE TypeOK'
    BY <1>4 DEF WriteRecord, Filled
  <1>5. ASSUME NEW c \in Callers, WriteFails(c) PROVE TypeOK'
    <2>1. pc' \in [Callers -> PC] /\ UNCHANGED <<seen, dead, displaced>>
      BY <1>5 DEF WriteFails
    <2>2. CASE UNCHANGED <<rec, aside>>
      BY <2>1, <2>2
    <2>3. CASE Filled(c)
      BY <2>1, <2>3 DEF Filled
    <2> QED
      BY <1>5, <2>2, <2>3 DEF WriteFails
  <1>6. ASSUME NEW c \in Callers, ReadRecord(c) PROVE TypeOK'
    BY <1>6 DEF ReadRecord
  <1>7. ASSUME NEW c \in Callers, Judge(c) PROVE TypeOK'
    BY <1>7 DEF Judge
  <1>8. ASSUME NEW c \in Callers, Rename(c) PROVE TypeOK'
    BY <1>8 DEF Rename
  <1>9. ASSUME NEW c \in Callers, RenameFails(c) PROVE TypeOK'
    BY <1>9 DEF RenameFails
  <1>10. ASSUME NEW c \in Callers, Check(c) PROVE TypeOK'
    BY <1>10 DEF Check
  <1>11. ASSUME NEW c \in Callers, Remove(c) PROVE TypeOK'
    BY <1>11 DEF Remove
  <1>12. ASSUME NEW c \in Callers, Recreate(c) PROVE TypeOK'
    <2>1. rec' = rec \/ rec' = [by |-> c, full |-> FALSE]
      BY <1>12 DEF Recreate
    <2>2. pc' \in [Callers -> PC] /\ UNCHANGED <<aside, seen, dead, displaced>>
      BY <1>12 DEF Recreate
    <2>3. rec' \in Record
      <3>1. [by |-> c, full |-> FALSE] \in Record /\ rec \in Record
        OBVIOUS
      <3> QED
        BY ONLY <2>1, <3>1
    <2> QED
      BY <2>2, <2>3
  <1>13. ASSUME NEW c \in Callers, Restore(c) PROVE TypeOK'
    BY <1>13 DEF Restore
  <1>14. ASSUME NEW c \in Callers, Discard(c) \/ Swallow(c) PROVE TypeOK'
    <2>1. CASE Discard(c)
      BY <2>1 DEF Discard
    <2>2. CASE Swallow(c)
      <3>1. PICK to \in {"discard", "contended"} : pc' = [pc EXCEPT ![c] = to]
        BY <2>2 DEF Swallow
      <3> QED
        BY <2>2, <3>1 DEF Swallow
    <2> QED
      BY <1>14, <2>1, <2>2
  <1>15. ASSUME NEW c \in Callers, ReleaseRead(c) PROVE TypeOK'
    BY <1>15 DEF ReleaseRead
  <1>16. ASSUME NEW c \in Callers, ReleaseRemove(c) PROVE TypeOK'
    BY <1>16 DEF ReleaseRemove
  <1>17. ASSUME NEW p \in Pids, Crash(p) PROVE TypeOK'
    BY <1>17 DEF Crash
  <1>18. CASE UNCHANGED vars
    BY <1>18 DEF vars
  <1> QED
    BY <1>1, <1>2, <1>3, <1>4, <1>5, <1>6, <1>7, <1>8, <1>9,
       <1>10, <1>11, <1>12, <1>13, <1>14, <1>15, <1>16, <1>17, <1>18 DEF Next, Acquire

\* What holds displaced or not is kept by every step.
LEMMA NextAlways == TypeOK /\ Always /\ [Next]_vars => Always'
  <1> SUFFICES ASSUME TypeOK, Always, [Next]_vars PROVE Always'
    OBVIOUS
  <1> USE NoCallerAssumption, PidOfAssumption
      DEF TypeOK, Record, PC, Absent, Goes, Always, DeadCallsStop, DisplacedNeedsDeath,
          FullRecordsNameCallers, ReclaimsTheDead
  <1>1. ASSUME NEW c \in Callers, Begin(c) PROVE Always'
    BY <1>1 DEF Begin
  <1>2. ASSUME NEW c \in Callers, Create(c) PROVE Always'
    BY <1>2 DEF Create
  <1>3. ASSUME NEW c \in Callers, CreateFails(c) PROVE Always'
    BY <1>3 DEF CreateFails
  <1>4. ASSUME NEW c \in Callers, WriteRecord(c) PROVE Always'
    BY <1>4 DEF WriteRecord, Filled
  <1>5. ASSUME NEW c \in Callers, WriteFails(c) PROVE Always'
    BY <1>5 DEF WriteFails, Filled
  <1>6. ASSUME NEW c \in Callers, ReadRecord(c) PROVE Always'
    BY <1>6 DEF ReadRecord
  <1>7. ASSUME NEW c \in Callers, Judge(c) PROVE Always'
    BY <1>7 DEF Judge
  <1>8. ASSUME NEW c \in Callers, Rename(c) PROVE Always'
    BY <1>8 DEF Rename
  <1>9. ASSUME NEW c \in Callers, RenameFails(c) PROVE Always'
    BY <1>9 DEF RenameFails
  <1>10. ASSUME NEW c \in Callers, Check(c) PROVE Always'
    BY <1>10 DEF Check
  <1>11. ASSUME NEW c \in Callers, Remove(c) PROVE Always'
    BY <1>11 DEF Remove
  <1>12. ASSUME NEW c \in Callers, Recreate(c) PROVE Always'
    BY <1>12 DEF Recreate
  <1>13. ASSUME NEW c \in Callers, Restore(c) PROVE Always'
    BY <1>13 DEF Restore
  <1>14. ASSUME NEW c \in Callers, Discard(c) \/ Swallow(c) PROVE Always'
    <2>1. CASE Discard(c)
      BY <2>1 DEF Discard
    <2>2. CASE Swallow(c)
      <3>1. PICK to \in {"discard", "contended"} : pc' = [pc EXCEPT ![c] = to]
        BY <2>2 DEF Swallow
      <3> QED
        BY <2>2, <3>1 DEF Swallow
    <2> QED
      BY <1>14, <2>1, <2>2
  <1>15. ASSUME NEW c \in Callers, ReleaseRead(c) PROVE Always'
    BY <1>15 DEF ReleaseRead
  <1>16. ASSUME NEW c \in Callers, ReleaseRemove(c) PROVE Always'
    BY <1>16 DEF ReleaseRemove
  <1>17. ASSUME NEW p \in Pids, Crash(p) PROVE Always'
    BY <1>17 DEF Crash
  <1>18. CASE UNCHANGED vars
    BY <1>18 DEF vars
  <1> QED
    BY <1>1, <1>2, <1>3, <1>4, <1>5, <1>6, <1>7, <1>8, <1>9,
       <1>10, <1>11, <1>12, <1>13, <1>14, <1>15, <1>16, <1>17, <1>18 DEF Next, Acquire

\* Until a record is displaced, every step keeps what holds until then.
LEMMA NextUndisplaced ==
    TypeOK /\ Always /\ Undisplaced /\ ~displaced' /\ [Next]_vars => Undisplaced'
  <1> SUFFICES ASSUME TypeOK, Always, Undisplaced, ~displaced', [Next]_vars
               PROVE Undisplaced'
    OBVIOUS
  <1> USE NoCallerAssumption, PidOfAssumption
      DEF TypeOK, Record, PC, Absent, Goes, Always, DeadCallsStop,
          FullRecordsNameCallers, ReclaimsTheDead, Undisplaced, OwnerIsAtThePath,
          MovedTheJudgedRecord, JudgedRecordIsGone, OneMover, MakersKeepTheirRecord,
          SeenRecordsAreWritten, Owns, Made
  <1>1. ASSUME NEW c \in Callers, Begin(c) PROVE Undisplaced'
    BY <1>1 DEF Begin
  <1>2. ASSUME NEW c \in Callers, Create(c) PROVE Undisplaced'
    BY <1>2 DEF Create
  <1>3. ASSUME NEW c \in Callers, CreateFails(c) PROVE Undisplaced'
    BY <1>3 DEF CreateFails
  <1>4. ASSUME NEW c \in Callers, WriteRecord(c) PROVE Undisplaced'
    <2>1. OwnerIsAtThePath'
      BY <1>4 DEF WriteRecord, Filled
    <2>2. MovedTheJudgedRecord'
      <3> SUFFICES ASSUME NEW e \in Callers
                   PROVE /\ pc'[e] # "restore"
                         /\ pc'[e] = "check" => aside'[e] = [by |-> seen'[e], full |-> TRUE]
        BY DEF MovedTheJudgedRecord
      <3>1. pc'[e] = "check" => pc[e] = "check" /\ aside[e] = [by |-> seen[e], full |-> TRUE]
        BY <1>4 DEF WriteRecord
      <3>2. pc[e] = "check" => aside'[e] = aside[e]
        BY <1>4 DEF WriteRecord, Filled
      <3>3. pc'[e] # "restore" /\ seen' = seen
        BY <1>4 DEF WriteRecord
      <3> QED
        BY ONLY <3>1, <3>2, <3>3
    <2>3. JudgedRecordIsGone'
      BY <1>4 DEF WriteRecord, Filled
    <2>4. OneMover'
      BY <1>4 DEF WriteRecord, Filled
    <2>5. MakersKeepTheirRecord'
      BY <1>4 DEF WriteRecord, Filled
    <2>6. SeenRecordsAreWritten'
      BY <1>4 DEF WriteRecord, Filled
    <2> QED
      BY <2>1, <2>2, <2>3, <2>4, <2>5, <2>6 DEF Undisplaced
  <1>5. ASSUME NEW c \in Callers, WriteFails(c) PROVE Undisplaced'
    <2>1. rec.by = c /\ rec'.by = c /\ (rec.full => rec'.full)
      BY <1>5 DEF WriteFails, Filled
    <2>2. pc[c] \in {"created", "recreated"} /\ pc'[c] \in {"read", "contended"}
      BY <1>5 DEF WriteFails
    <2>3. \A e \in Callers : e # c => pc'[e] = pc[e] /\ ~Owns(e)
      BY <1>5, <2>1 DEF WriteFails
    <2>4. seen' = seen
      BY <1>5 DEF WriteFails
    <2>5. \A e \in Callers : pc'[e] = "check" => aside'[e] = aside[e]
      BY <1>5, <2>2, <2>3 DEF WriteFails, Filled
    <2>6. OwnerIsAtThePath'
      BY <2>1, <2>2, <2>3, <2>4, <2>5
    <2>7. MovedTheJudgedRecord'
      <3> SUFFICES ASSUME NEW e \in Callers
                   PROVE /\ pc'[e] # "restore"
                         /\ pc'[e] = "check" => aside'[e] = [by |-> seen'[e], full |-> TRUE]
        BY DEF MovedTheJudgedRecord
      <3>1. pc'[e] = "check" => pc[e] = "check" /\ aside[e] = [by |-> seen[e], full |-> TRUE]
        BY <2>2, <2>3
      <3>2. pc'[e] # "restore"
        BY <2>2, <2>3
      <3> QED
        BY ONLY <2>4, <2>5, <3>1, <3>2
    <2>8. JudgedRecordIsGone'
      BY <2>1, <2>2, <2>3, <2>4, <2>5
    <2>9. OneMover'
      BY <2>1, <2>2, <2>3, <2>4, <2>5
    <2>10. MakersKeepTheirRecord'
      BY <2>1, <2>2, <2>3, <2>4, <2>5
    <2>11. SeenRecordsAreWritten'
      BY <2>1, <2>2, <2>3, <2>4, <2>5
    <2> QED
      BY <2>6, <2>7, <2>8, <2>9, <2>10, <2>11 DEF Undisplaced
  <1>6. ASSUME NEW c \in Callers, ReadRecord(c) PROVE Undisplaced'
    <2>1. OwnerIsAtThePath'
      BY <1>6 DEF ReadRecord
    <2>2. MovedTheJudgedRecord'
      BY <1>6 DEF ReadRecord
    <2>3. JudgedRecordIsGone'
      BY <1>6 DEF ReadRecord
    <2>4. OneMover'
      BY <1>6 DEF ReadRecord
    <2>5. MakersKeepTheirRecord'
      BY <1>6 DEF ReadRecord
    <2>6. SeenRecordsAreWritten'
      BY <1>6 DEF ReadRecord
    <2> QED
      BY <2>1, <2>2, <2>3, <2>4, <2>5, <2>6 DEF Undisplaced
  <1>7. ASSUME NEW c \in Callers, Judge(c) PROVE Undisplaced'
    BY <1>7 DEF Judge
  <1>8. ASSUME NEW c \in Callers, Rename(c) PROVE Undisplaced'
    <2>1. rec = [by |-> seen[c], full |-> TRUE] /\ rec' = Absent
      BY <1>8 DEF Rename
    <2>2. \A e \in Callers : ~Owns(e)
      BY <1>8, <2>1 DEF Rename
    <2>3. OwnerIsAtThePath'
      BY <1>8, <2>1, <2>2 DEF Rename
    <2>4. MovedTheJudgedRecord'
      BY <1>8, <2>1, <2>2 DEF Rename
    <2>5. JudgedRecordIsGone'
      BY <1>8, <2>1, <2>2 DEF Rename
    <2>6. OneMover'
      BY <1>8, <2>1, <2>2 DEF Rename
    <2>7. MakersKeepTheirRecord'
      BY <1>8, <2>1, <2>2 DEF Rename
    <2>8. SeenRecordsAreWritten'
      BY <1>8, <2>1, <2>2 DEF Rename
    <2> QED
      BY <2>3, <2>4, <2>5, <2>6, <2>7, <2>8 DEF Undisplaced
  <1>9. ASSUME NEW c \in Callers, RenameFails(c) PROVE Undisplaced'
    BY <1>9 DEF RenameFails
  <1>10. ASSUME NEW c \in Callers, Check(c) PROVE Undisplaced'
    BY <1>10 DEF Check
  <1>11. ASSUME NEW c \in Callers, Remove(c) PROVE Undisplaced'
    BY <1>11 DEF Remove
  <1>12. ASSUME NEW c \in Callers, Recreate(c) PROVE Undisplaced'
    <2>1. CASE rec = Absent
      <3>1. rec' = [by |-> c, full |-> FALSE] /\ pc' = [pc EXCEPT ![c] = "recreated"]
        BY <1>12, <2>1 DEF Recreate
      <3>2. pc[c] = "recreate" /\ ~Made(c) /\ UNCHANGED <<aside, seen, dead, displaced>>
        BY <1>12, <2>1 DEF Recreate
      <3>3. \A e \in Callers : ~Owns(e)
        BY <2>1
      <3>4. OwnerIsAtThePath'
        BY <2>1, <3>1, <3>2, <3>3
      <3>5. MovedTheJudgedRecord'
        BY <2>1, <3>1, <3>2, <3>3
      <3>6. JudgedRecordIsGone'
        BY <2>1, <3>1, <3>2, <3>3
      <3>7. OneMover'
        BY <2>1, <3>1, <3>2, <3>3
      <3>8. MakersKeepTheirRecord'
        BY <2>1, <3>1, <3>2, <3>3
      <3>9. SeenRecordsAreWritten'
        BY <2>1, <3>1, <3>2, <3>3
      <3> QED
        BY <3>4, <3>5, <3>6, <3>7, <3>8, <3>9 DEF Undisplaced
    <2>2. CASE rec # Absent
      BY <1>12, <2>2 DEF Recreate
    <2> QED
      BY <2>1, <2>2
  <1>13. ASSUME NEW c \in Callers, Restore(c) PROVE Undisplaced'
    BY <1>13 DEF Restore
  <1>14. ASSUME NEW c \in Callers, Discard(c) \/ Swallow(c) PROVE Undisplaced'
    <2>1. CASE Discard(c)
      BY <2>1 DEF Discard
    <2>2. CASE Swallow(c)
      <3>1. PICK to \in {"discard", "contended"} : pc' = [pc EXCEPT ![c] = to]
        BY <2>2 DEF Swallow
      <3> QED
        BY <2>2, <3>1 DEF Swallow
    <2> QED
      BY <1>14, <2>1, <2>2
  <1>15. ASSUME NEW c \in Callers, ReleaseRead(c) PROVE Undisplaced'
    BY <1>15 DEF ReleaseRead
  <1>16. ASSUME NEW c \in Callers, ReleaseRemove(c) PROVE Undisplaced'
    BY <1>16 DEF ReleaseRemove
  <1>17. ASSUME NEW p \in Pids, Crash(p) PROVE Undisplaced'
    BY <1>17 DEF Crash
  <1>18. CASE UNCHANGED vars
    BY <1>18 DEF vars
  <1> QED
    BY <1>1, <1>2, <1>3, <1>4, <1>5, <1>6, <1>7, <1>8, <1>9,
       <1>10, <1>11, <1>12, <1>13, <1>14, <1>15, <1>16, <1>17, <1>18 DEF Next, Acquire

\* Every step keeps the inductive invariant.
LEMMA NextWorktreeInv == WorktreeInv /\ [Next]_vars => WorktreeInv'
  <1> SUFFICES ASSUME WorktreeInv, [Next]_vars PROVE WorktreeInv'
    OBVIOUS
  <1>1. TypeOK' /\ Always'
    BY NextTypeOK, NextAlways DEF WorktreeInv
  <1>2. displaced => displaced'
    BY DEF WorktreeInv, TypeOK, Next, Acquire, Begin, Create, CreateFails, WriteRecord,
           WriteFails, ReadRecord, Judge, Rename, RenameFails, Check, Remove, Recreate,
           Restore, Discard, Swallow, ReleaseRead, ReleaseRemove, Crash, vars
  <1>3. ASSUME ~displaced' PROVE Undisplaced'
    BY <1>2, <1>3, NextUndisplaced DEF WorktreeInv
  <1> QED
    BY <1>1, <1>3 DEF WorktreeInv

\* The inductive invariant holds in every reachable state of the worktree lock.
THEOREM WorktreeInvariant == Spec => []WorktreeInv
  BY InitWorktreeInv, NextWorktreeInv, PTL DEF Spec

\* The variables of acquireGitWorktreeFlock keep their types.
THEOREM TypeCorrect == Spec => []TypeOK
  <1>1. WorktreeInv => TypeOK
    BY DEF WorktreeInv
  <1> QED
    BY <1>1, WorktreeInvariant, PTL

\* Two callers own the worktree lock together only after a reclaimer displaced a record it
\* had not judged, and that takes a crashed process.
THEOREM Exclusive == Spec => []ExclusiveUnlessDisplaced
  <1>1. WorktreeInv => ExclusiveUnlessDisplaced
    BY DEF WorktreeInv, Always, DisplacedNeedsDeath, Undisplaced, OwnerIsAtThePath,
           ExclusiveUnlessDisplaced
  <1> QED
    BY <1>1, WorktreeInvariant, PTL

\* Of the contenders that read one dead record at most one replaces it.
THEOREM SingleReclaimer == Spec => []OneReclaimer
  <1>1. WorktreeInv => OneReclaimer
    BY DEF WorktreeInv, Undisplaced, OneMover, OneReclaimer
  <1> QED
    BY <1>1, WorktreeInvariant, PTL

\* releaseGitWorktreeFlock, which compares and then removes, removes its own record.
THEOREM ReleaseIsOwn == Spec => ReleaseRemovesOwnRecord
  <1>1. WorktreeInv =>
          \A c \in Callers : pc[c] = "releasing" /\ ~displaced => rec.by = c
    BY DEF WorktreeInv, Undisplaced, OwnerIsAtThePath, Owns
  <1>2. WorktreeInv /\ [Next]_vars =>
          [\A c \in Callers :
             pc[c] = "releasing" /\ pc'[c] = "released" /\ ~displaced => rec.by = c]_vars
    BY <1>1
  <1> QED
    BY <1>2, WorktreeInvariant, PTL DEF Spec, ReleaseRemovesOwnRecord

\* The empty record of a call that died between its create and its write is never replaced.
THEOREM UnwrittenBlocks == Spec => UnwrittenRecordBlocks
  <1> DEFINE Orphan == /\ ~displaced
                       /\ rec # Absent /\ ~rec.full
                       /\ PidOf[rec.by] \in dead
                       /\ \A c \in Callers : pc[c] = "rename" => seen[c] = rec.by
  <1>1. ASSUME WorktreeInv, [Next]_vars, Orphan PROVE rec' = rec
    <2> USE <1>1, NoCallerAssumption, PidOfAssumption
        DEF WorktreeInv, TypeOK, Record, Always, DeadCallsStop, Undisplaced
    <2>1. \A c \in Callers : ~Rename(c)
      BY DEF SeenRecordsAreWritten, Rename
    <2>2. \A c \in Callers : ~Restore(c) /\ ~ReleaseRemove(c)
      BY DEF MovedTheJudgedRecord, OwnerIsAtThePath, Owns, Restore, ReleaseRemove
    <2>3. \A c \in Callers : ~WriteRecord(c) /\ (WriteFails(c) => UNCHANGED rec)
      BY DEF OwnerIsAtThePath, Owns, WriteRecord, WriteFails, Filled
    <2> QED
      BY <2>1, <2>2, <2>3
         DEF Next, Acquire, Begin, Create, CreateFails, ReadRecord, Judge, RenameFails,
             Check, Remove, Recreate, Discard, Swallow, ReleaseRead, Crash, vars
  <1>2. WorktreeInv /\ [Next]_vars => [Orphan => rec' = rec]_vars
    BY <1>1
  <1> QED
    BY <1>2, WorktreeInvariant, PTL DEF Spec, UnwrittenRecordBlocks

-----------------------------------------------------------------------------
(***************************************************************************)
(* The refinement.  Until a displacement there is at most one owner, and   *)
(* the record at the path is the owner's.                                  *)
(***************************************************************************)
Owners == {c \in Callers : Owns(c)}

\* Without a displacement the lock is held exactly when somebody owns it.
HeldIsOwned ==
    WorktreeInv /\ ~displaced =>
        /\ \A c \in Callers : Owns(c) => LockState = "held" /\ Owners = {c}
        /\ Owners = {} => LockState = IF rec = Absent THEN "free" ELSE "orphan"

LEMMA HeldMeansOwned == HeldIsOwned
<1> SUFFICES ASSUME WorktreeInv, ~displaced
    PROVE /\ \A c \in Callers : Owns(c) => LockState = "held" /\ Owners = {c}
          /\ Owners = {} => LockState = IF rec = Absent THEN "free" ELSE "orphan"
  BY DEF HeldIsOwned
<1>1. ASSUME NEW c \in Callers, Owns(c) PROVE LockState = "held" /\ Owners = {c}
  <2>1. rec.by = c /\ \A d \in Callers : Owns(d) => d = c
    BY <1>1 DEF WorktreeInv, Undisplaced, OwnerIsAtThePath
  <2>2. rec # Absent
    BY <2>1, NoCallerAssumption DEF Absent
  <2> QED
    BY <1>1, <2>1, <2>2 DEF LockState, Owners
<1>2. Owners = {} => LockState = IF rec = Absent THEN "free" ELSE "orphan"
  BY DEF LockState, Owners
<1> QED
  BY <1>1, <1>2

\* The same in the next state.
LEMMA HeldMeansOwnedNext == HeldIsOwned'
  BY HeldMeansOwned, PTL

\* An owner that stops owning leaves the lock; its record is gone or left behind.
LEMMA OwnerLeaves ==
    ASSUME WorktreeInv, WorktreeInv', ~displaced, ~displaced', NEW c \in Callers, Owns(c),
           \A d \in Callers : Owns(d)' => Owns(d) /\ d # c
    PROVE  Ideal!Leave(c)
<1>1. LockState = "held" /\ Owners = {c}
  BY HeldMeansOwned DEF HeldIsOwned
<1>2. Owners' = {}
  BY <1>1 DEF Owners
<1>3. LockState' \in {"free", "orphan"}
  BY <1>2, HeldMeansOwnedNext DEF HeldIsOwned
<1> QED
  BY <1>1, <1>2, <1>3 DEF Owners, Ideal!Leave

\* A call that creates the record at an empty path takes the lock.
LEMMA CreatorTakes ==
    ASSUME WorktreeInv, WorktreeInv', ~displaced, ~displaced', NEW c \in Callers,
           rec = Absent, Owns(c)'
    PROVE  Ideal!Take(c)
<1>1. LockState = "free"
  BY DEF LockState
<1>2. Owners = {}
  BY <1>1, HeldMeansOwned DEF HeldIsOwned, Owners
<1>3. Owners' = {c} /\ LockState' = "held"
  BY HeldMeansOwnedNext DEF HeldIsOwned
<1> QED
  BY <1>1, <1>2, <1>3 DEF Owners, Ideal!Take

\* Until a displacement every step takes, leaves or reclaims the lock, or leaves it alone.
LEMMA LockStepRefined ==
    ASSUME WorktreeInv, WorktreeInv', ~displaced', Next
    PROVE  ~displaced /\ (Ideal!LockNext \/ UNCHANGED <<LockState, Owners>>)
<1> DEFINE Goal == Ideal!LockNext \/ UNCHANGED <<LockState, Owners>>
<1>0. ~displaced
  BY DEF WorktreeInv, TypeOK, Next, Acquire, Begin, Create, CreateFails, WriteRecord,
         WriteFails, ReadRecord, Judge, Rename, RenameFails, Check, Remove, Recreate,
         Restore, Discard, Swallow, ReleaseRead, ReleaseRemove, Crash
<1>t. pc \in [Callers -> PC] /\ pc' \in [Callers -> PC] /\ rec \in Record
  BY DEF WorktreeInv, TypeOK
<1>u. Undisplaced
  BY <1>0 DEF WorktreeInv
<1> USE <1>0, <1>t
\* Steps that leave the record, its content apart, and every owner alone.
<1>1. ASSUME (rec = Absent)' <=> rec = Absent, rec'.by = rec.by,
             \A c \in Callers : Owns(c)' <=> Owns(c)
      PROVE  Goal
  BY <1>1 DEF LockState, Owners
<1>2. ASSUME UNCHANGED rec, \A c \in Callers : Owns(c)' <=> Owns(c) PROVE Goal
  BY <1>1, <1>2
<1>3. ASSUME NEW c \in Callers, Create(c) PROVE Goal
  <2>1. Owns(c)' /\ rec = Absent
    BY <1>3 DEF Create, Goes, Owns
  <2> QED
    BY <2>1, CreatorTakes DEF Ideal!LockNext
<1>4. ASSUME NEW c \in Callers, Recreate(c) PROVE Goal
  <2>1. CASE rec = Absent
    <3>1. Owns(c)'
      BY <1>4, <2>1 DEF Recreate, Goes, Owns
    <3> QED
      BY <2>1, <3>1, CreatorTakes DEF Ideal!LockNext
  <2>2. CASE rec # Absent
    <3>1. UNCHANGED rec /\ \A d \in Callers : Owns(d)' <=> Owns(d)
      BY <1>4, <2>2 DEF Recreate, Goes, Owns
    <3> QED
      BY <1>2, <3>1
  <2> QED
    BY <2>1, <2>2
<1>5. ASSUME NEW c \in Callers, WriteFails(c) \/ ReleaseRemove(c) PROVE Goal
  <2>1. Owns(c) /\ \A d \in Callers : Owns(d)' => Owns(d) /\ d # c
    BY <1>5 DEF WriteFails, ReleaseRemove, Goes, Owns
  <2> QED
    BY <2>1, OwnerLeaves DEF Ideal!LockNext
<1>6. ASSUME NEW c \in Callers, WriteRecord(c) PROVE Goal
  <2>1. \A d \in Callers : Owns(d)' <=> Owns(d)
    BY <1>6 DEF WriteRecord, Goes, Owns
  <2>2. rec.by = c
    BY <1>6, <1>u DEF Undisplaced, OwnerIsAtThePath, WriteRecord, Owns
  <2>3. rec # Absent /\ rec' # Absent /\ rec'.by = rec.by
    BY <1>6, <2>2, NoCallerAssumption DEF WriteRecord, Filled, Absent, Record
  <2> QED
    BY <1>1, <2>1, <2>3
<1>7. ASSUME NEW c \in Callers, Rename(c) PROVE Goal
  <2>1. \A d \in Callers : Owns(d)' <=> Owns(d)
    BY <1>7 DEF Rename, Goes, Owns
  <2>2. rec = [by |-> seen[c], full |-> TRUE] /\ rec # Absent /\ rec' = Absent
    BY <1>7 DEF Rename
  \* The record judged is a dead process's, whose call owns nothing any more.
  <2>3. seen[c] \in Callers /\ PidOf[seen[c]] \in dead /\ ~Owns(seen[c])
    BY <1>7 DEF Rename, WorktreeInv, Always, ReclaimsTheDead, DeadCallsStop, Owns
  <2>4. LockState = "orphan" /\ LockState' = "free"
    BY <2>2, <2>3 DEF LockState
  <2>5. Ideal!Reclaim
    BY <2>1, <2>4 DEF Ideal!Reclaim
  <2> QED
    BY <2>5 DEF Ideal!LockNext
<1>8. ASSUME NEW c \in Callers, ReleaseRead(c) PROVE Goal
  <2>1. CASE pc'[c] = "releasing"
    <3>1. UNCHANGED rec /\ \A d \in Callers : Owns(d)' <=> Owns(d)
      BY <1>8, <2>1 DEF ReleaseRead, Goes, Owns
    <3> QED
      BY <1>2, <3>1
  <2>2. CASE pc'[c] = "released"
    <3>1. Owns(c) /\ \A d \in Callers : Owns(d)' => Owns(d) /\ d # c
      BY <1>8, <2>2 DEF ReleaseRead, Goes, Owns
    <3> QED
      BY <3>1, OwnerLeaves DEF Ideal!LockNext
  <2> QED
    BY <1>8, <2>1, <2>2 DEF ReleaseRead, Goes
<1>9. ASSUME NEW p \in Pids, Crash(p) PROVE Goal
  <2>1. \A d \in Callers : Owns(d)' <=> Owns(d) /\ PidOf[d] # p
    BY <1>9 DEF Crash, Owns
  <2>2. CASE \E c \in Callers : Owns(c) /\ PidOf[c] = p
    <3>1. PICK c \in Callers : Owns(c) /\ PidOf[c] = p
      BY <2>2
    <3>2. Ideal!Leave(c)
      BY <2>1, <3>1, OwnerLeaves
    <3> QED
      BY <3>2 DEF Ideal!LockNext
  <2>3. CASE \A c \in Callers : Owns(c) => PidOf[c] # p
    BY <1>2, <1>9, <2>1, <2>3 DEF Crash
  <2> QED
    BY <2>2, <2>3
<1>10. \A c \in Callers : ~Restore(c)
  BY <1>u DEF Undisplaced, MovedTheJudgedRecord, Restore
<1>11. ASSUME NEW c \in Callers,
              \/ Begin(c) \/ CreateFails(c) \/ ReadRecord(c) \/ Judge(c)
              \/ RenameFails(c) \/ Check(c) \/ Remove(c) \/ Discard(c)
              \/ Swallow(c)
       PROVE  Goal
  <2>1. UNCHANGED rec
    BY <1>11 DEF Begin, CreateFails, ReadRecord, Judge, RenameFails, Check, Remove,
       Discard, Swallow
  <2>2. CASE Check(c)
    <3>1. pc'[c] = "remove" /\ pc[c] = "check" /\ \A d \in Callers : d # c => pc'[d] = pc[d]
      BY <1>u, <2>2 DEF Undisplaced, MovedTheJudgedRecord, Check, Goes
    <3> QED
      BY <1>2, <2>1, <3>1 DEF Owns
  <2>3. CASE ~Check(c)
    <3>1. \A d \in Callers : Owns(d)' <=> Owns(d)
      BY <1>11, <2>3 DEF Begin, CreateFails, ReadRecord, Judge, RenameFails,
         Remove, Discard, Swallow, Goes, Owns
    <3> QED
      BY <1>2, <2>1, <3>1
  <2> QED
    BY <2>2, <2>3
<1> QED
  BY <1>3, <1>4, <1>5, <1>6, <1>7, <1>8, <1>9, <1>10, <1>11 DEF Next, Acquire

(***************************************************************************)
(* The worktree flock implements the lock of CrashLock, up to the first    *)
(* displacement of a record that was not judged.                           *)
(***************************************************************************)
THEOREM WorktreeLockIsACrashLock == Spec => ImplementsCrashLock
<1>1. Init => Ideal!LockInit
  BY DEF Init, Ideal!LockInit, LockState, Owns
<1>2. WorktreeInv /\ WorktreeInv' /\ [Next]_vars => [Ideal!LockStep]_(Ideal!lockVars)
  <2> SUFFICES ASSUME WorktreeInv, WorktreeInv', [Next]_vars
               PROVE  [Ideal!LockStep]_(Ideal!lockVars)
    OBVIOUS
  <2>1. CASE displaced'
    BY <2>1 DEF Ideal!LockStep
  <2>2. CASE Next /\ ~displaced'
    <3>1. displaced' = displaced
      BY <2>2, LockStepRefined DEF WorktreeInv, TypeOK
    <3> QED
      BY <2>2, <3>1, LockStepRefined DEF Ideal!LockStep, Ideal!lockVars, Owners
  <2>3. CASE UNCHANGED vars
    BY <2>3 DEF vars, Ideal!lockVars, LockState, Owns
  <2> QED
    BY <2>1, <2>2, <2>3
<1> QED
  BY <1>1, <1>2, WorktreeInvariant, PTL DEF Spec, ImplementsCrashLock, Ideal!LockSpec
=============================================================================
