--------------------------- MODULE LifecycleProofs ---------------------------
(***************************************************************************)
(* Proofs about Lifecycle, for any number of gates, tasks and callers.     *)
(***************************************************************************)
EXTENDS Lifecycle, TLAPS

SoundRecord(r) ==
    SequentialRecord(r) /\ CheckpointedRecord(r) /\ FinishedRecord(r)

(***************************************************************************)
(* What a call that was not overtaken may still rely on when it commits:   *)
(* each of its checks is stable under commits that do not regress.         *)
(***************************************************************************)
CheckHolds(r, o) ==
    /\ o.at \in {"gateTasks", "gateCommit"} => CanComplete(r.gate, o.gate)
    /\ o.at = "gateCommit" /\ o.gate = Execution => AllFinished(r)
    /\ o.at \in {"archiveGates", "archiveRelease", "archiveVerify", "archiveCommit"}
          => AllFinished(r)
    /\ o.at \in {"archiveRelease", "archiveVerify", "archiveCommit"}
          => CanComplete(r.gate, Release)
    /\ o.at \in {"update", "bridgeLoad"} /\ o.status = "done"
          => \A t \in o.tasks : Backed(r, t)

SnapHolds(o) ==
    o.at = "bridgeSave" =>
        /\ SoundRecord(o.snap)
        /\ \A t \in o.tasks :
              o.status = "done" => Backed(o.snap, t) \/ o.overtaken

SoundOp(r, o) == (o.overtaken \/ CheckHolds(r, o)) /\ SnapHolds(o)

(***************************************************************************)
(* The inductive invariant: the record is sound, and so is what every call *)
(* in flight relies on, the old record a store save holds included.        *)
(***************************************************************************)
IInv == TypeOK /\ SoundRecord(rec) /\ \A c \in Callers : SoundOp(rec, op[c])

USE DEF Gates

\* A check that holds survives a commit that takes nothing back.
LEMMA CheckIsStable ==
    ASSUME NEW old \in Records, NEW new \in Records, NEW o \in Ops,
           CheckHolds(old, o), ~Regresses(old, new)
    PROVE  CheckHolds(new, o)
<1>1. \A g \in Gates : old.gate[g] = "done" => new.gate[g] = "done"
    BY DEF Regresses, Records
<1>2. \A t \in Tasks : new.task[t] = "open" => old.task[t] = "open"
    BY DEF Regresses
<1>3. \A t \in Tasks : Backed(old, t) => Backed(new, t)
    BY DEF Regresses
<1>4. AllFinished(old) => AllFinished(new)
    BY <1>2 DEF AllFinished, Finished, Records, Statuses
<1>5. \A g \in Gates : CanComplete(old.gate, g) => CanComplete(new.gate, g)
    BY <1>1 DEF CanComplete
<1>6. Release \in Gates
    BY GatesAssumption
<1>7. o.gate \in Gates /\ o.tasks \subseteq Tasks
    BY DEF Ops
<1> QED
    BY <1>3, <1>4, <1>5, <1>6, <1>7 DEF CheckHolds

\* A step that writes nothing keeps the invariant if the call is sound.
LEMMA GoesIsSound ==
    ASSUME IInv, NEW c \in Callers, NEW next \in Ops, SoundOp(rec, next),
           Goes(c, next)
    PROVE  IInv'
<1>1. rec' = rec /\ op' = [op EXCEPT ![c] = next] /\ op \in [Callers -> Ops]
    BY DEF IInv, TypeOK, Goes
<1>2. TypeOK'
    BY <1>1 DEF IInv, TypeOK
<1>3. SoundRecord(rec)'
    BY <1>1 DEF IInv, SoundRecord, SequentialRecord, CheckpointedRecord,
                FinishedRecord, Backed, AllFinished
<1>4. ASSUME NEW d \in Callers PROVE SoundOp(rec, op[d])'
    <2>1. SoundOp(rec, op'[d])
        BY <1>1 DEF IInv
    <2> QED
        BY <1>1, <2>1 DEF SoundOp, CheckHolds, SnapHolds, AllFinished, Backed,
                          CanComplete
<1> QED
    BY <1>2, <1>3, <1>4 DEF IInv

\* A commit keeps it if the new record and the caller's next step are sound.
LEMMA CommitIsSound ==
    ASSUME IInv, NEW c \in Callers, NEW new \in Records, NEW next \in Ops,
           SoundRecord(new), SoundOp(new, next), Commits(c, new, next)
    PROVE  IInv'
<1>1. /\ rec' = new /\ rec \in Records /\ op \in [Callers -> Ops]
      /\ op' = [d \in Callers |->
                   IF d = c THEN next
                   ELSE [op[d] EXCEPT !.overtaken =
                            @ \/ (op[d].at # "idle" /\ Regresses(rec, new))]]
    BY DEF IInv, TypeOK, Commits
<1>2. ASSUME NEW d \in Callers PROVE op'[d] \in Ops /\ SoundOp(new, op'[d])
    <2>1. CASE d = c
        BY <1>1, <2>1
    <2>2. CASE d # c
        <3> DEFINE v == op[d].overtaken \/ (op[d].at # "idle" /\ Regresses(rec, new))
        <3>1. op[d] \in Ops /\ SoundOp(rec, op[d])
            BY <1>1 DEF IInv
        <3>2. op'[d] = [op[d] EXCEPT !.overtaken = v]
            BY <1>1, <2>2
        <3>3. v \in BOOLEAN
            BY <3>1 DEF Ops
        <3> HIDE DEF v
        <3>4. /\ op'[d] \in Ops /\ op'[d].overtaken = v /\ op'[d].at = op[d].at
              /\ op'[d].gate = op[d].gate /\ op'[d].tasks = op[d].tasks
              /\ op'[d].status = op[d].status /\ op'[d].snap = op[d].snap
            BY <3>1, <3>2, <3>3 DEF Ops
        <3>5. op[d].overtaken => v
            BY DEF v
        <3>6. SnapHolds(op'[d])
            BY <3>1, <3>4, <3>5 DEF SnapHolds, SoundOp
        <3>7. v \/ CheckHolds(new, op[d])
            <4>1. CASE op[d].at = "idle"
                BY <4>1 DEF CheckHolds
            <4>2. CASE op[d].at # "idle" /\ Regresses(rec, new)
                BY <4>2 DEF v
            <4>3. CASE op[d].overtaken
                BY <4>3 DEF v
            <4>4. CASE ~Regresses(rec, new) /\ ~op[d].overtaken
                BY <1>1, <3>1, <4>4, CheckIsStable DEF SoundOp
            <4> QED
                BY <4>1, <4>2, <4>3, <4>4
        <3>8. v \/ CheckHolds(new, op'[d])
            BY <3>4, <3>7 DEF CheckHolds
        <3> QED
            BY <3>4, <3>6, <3>8 DEF SoundOp
    <2> QED
        BY <2>1, <2>2
<1>3. TypeOK'
    <2>1. op' \in [Callers -> Ops]
        BY <1>1, <1>2
    <2> QED
        BY <1>1, <2>1 DEF TypeOK
<1>4. SoundRecord(rec)'
    BY <1>1 DEF SoundRecord, SequentialRecord, CheckpointedRecord,
                FinishedRecord, Backed, AllFinished
<1>5. ASSUME NEW d \in Callers PROVE SoundOp(rec, op[d])'
    BY <1>1, <1>2 DEF SoundOp, CheckHolds, SnapHolds, AllFinished, Backed,
                      CanComplete
<1> QED
    BY <1>3, <1>4, <1>5 DEF IInv

-----------------------------------------------------------------------------
\* The record constructors keep records well typed.
LEMMA IdleTyped == NewRecord \in Records /\ Idle \in Ops /\ Idle.at = "idle"
<1>1. NewRecord \in Records
    BY DEF NewRecord, Records, Statuses
<1>2. 1 \in Gates
    BY GatesAssumption
<1> QED
    BY <1>1, <1>2 DEF Idle, Ops, Stages, Statuses

\* An idle call relies on nothing.
LEMMA IdleIsSound == \A r : SoundOp(r, Idle)
BY IdleTyped DEF SoundOp, CheckHolds, SnapHolds

\* Completing a gate keeps the record sound, if the sequence held or the
\* completion is marked late.
LEMMA GateDoneIsSound ==
    ASSUME NEW r \in Records, SoundRecord(r), NEW g \in Gates,
           NEW late \in BOOLEAN, late \/ CanComplete(r.gate, g)
    PROVE  /\ GateDone(r, g, late) \in Records
           /\ SoundRecord(GateDone(r, g, late))
           /\ AllFinished(r) => AllFinished(GateDone(r, g, late))
           /\ \A h \in Gates : CanComplete(r.gate, h)
                                  => CanComplete(GateDone(r, g, late).gate, h)
           /\ GateDone(r, g, late).gate[g] = "done"
<1> DEFINE n == GateDone(r, g, late)
<1>1. /\ n \in Records /\ n.gate = [r.gate EXCEPT ![g] = "done"]
      /\ n.lateGate = (IF late THEN r.lateGate \union {g} ELSE r.lateGate \ {g})
      /\ n.task = r.task /\ n.ckpt = r.ckpt /\ n.archived = r.archived
      /\ n.lateTask = r.lateTask /\ n.lateArchive = r.lateArchive
    BY DEF GateDone, Records
<1> HIDE DEF n
<1>2. \A h \in Gates : r.gate[h] = "done" => n.gate[h] = "done"
    BY <1>1 DEF Records
<1>3. n.gate[g] = "done"
    BY <1>1 DEF Records
<1>4. SequentialRecord(n)
    <2> SUFFICES ASSUME NEW k \in Gates, NEW h \in Gates, h < k,
                        n.gate[k] = "done", k \notin n.lateGate
                 PROVE  n.gate[h] = "done"
        BY DEF SequentialRecord
    <2>1. CASE k = g
        BY <1>1, <1>2, <2>1 DEF CanComplete
    <2>2. CASE k # g
        <3>1. r.gate[k] = "done" /\ k \notin r.lateGate
            BY <1>1, <2>2 DEF Records
        <3> QED
            BY <1>2, <3>1 DEF SoundRecord, SequentialRecord
    <2> QED
        BY <2>1, <2>2
<1>5. AllFinished(r) => AllFinished(n)
    BY <1>1 DEF AllFinished
<1>6. CheckpointedRecord(n) /\ FinishedRecord(n)
    BY <1>1, <1>2, <1>5
       DEF SoundRecord, CheckpointedRecord, FinishedRecord, Backed
<1>7. \A h \in Gates : CanComplete(r.gate, h) => CanComplete(n.gate, h)
    BY <1>2 DEF CanComplete
<1> QED
    BY <1>1, <1>3, <1>4, <1>5, <1>6, <1>7 DEF n, SoundRecord

\* A status written to a task keeps the record sound if a "done" is backed
\* or marked late, and an "open" in an archived record is marked.
LEMMA TaskWrittenIsSound ==
    ASSUME NEW r \in Records, SoundRecord(r), NEW t \in Tasks,
           NEW s \in Statuses, NEW late \in BOOLEAN,
           s = "done" => Backed(r, t) \/ late
    PROVE  LET n == TaskWritten(r, t, s, late) IN
           /\ n \in Records
           /\ SequentialRecord(n) /\ CheckpointedRecord(n)
           /\ s \in {"done", "cancelled"} => FinishedRecord(n)
           /\ n.archived = r.archived /\ n.lateArchive = r.lateArchive
<1> DEFINE n == TaskWritten(r, t, s, late)
<1>1. CASE r.task[t] = "absent"
    BY <1>1 DEF TaskWritten, SoundRecord
<1>2. CASE r.task[t] # "absent"
    <2>1. /\ n \in Records /\ n.gate = r.gate /\ n.lateGate = r.lateGate
          /\ n.task = [r.task EXCEPT ![t] = s] /\ n.ckpt = r.ckpt
          /\ n.lateTask = (IF late THEN r.lateTask \union {t} ELSE r.lateTask)
          /\ n.archived = r.archived /\ n.lateArchive = r.lateArchive
        BY <1>2 DEF TaskWritten, Records
    <2> HIDE DEF n
    <2>2. SequentialRecord(n)
        BY <2>1 DEF SoundRecord, SequentialRecord
    <2>3. CheckpointedRecord(n)
        BY <2>1 DEF SoundRecord, CheckpointedRecord, Backed, Records
    <2>4. s \in {"done", "cancelled"} => FinishedRecord(n)
        BY <2>1 DEF SoundRecord, FinishedRecord, AllFinished, Finished, Records
    <2> QED
        BY <2>1, <2>2, <2>3, <2>4 DEF n
<1> QED
    BY <1>1, <1>2

\* Marking a regressing write of an archived record restores soundness.
LEMMA StillArchivedIsSound ==
    ASSUME IInv, NEW n \in Records, SequentialRecord(n), CheckpointedRecord(n),
           n.archived = rec.archived, n.lateArchive = rec.lateArchive,
           ~Regresses(rec, n) => FinishedRecord(n)
    PROVE  StillArchived(n) \in Records /\ SoundRecord(StillArchived(n))
<1> DEFINE m == StillArchived(n)
           v == n.lateArchive \/ (n.archived /\ Regresses(rec, n))
<1>1. v \in BOOLEAN
    BY DEF Records
<1>2. m = [n EXCEPT !.lateArchive = v]
    BY DEF StillArchived
<1> HIDE DEF v, m
<1>3. /\ m \in Records /\ m.gate = n.gate /\ m.task = n.task /\ m.ckpt = n.ckpt
      /\ m.lateGate = n.lateGate /\ m.lateTask = n.lateTask
      /\ m.archived = n.archived /\ m.lateArchive = v
    BY <1>1, <1>2 DEF Records
<1>4. FinishedRecord(m)
    BY <1>3 DEF v, FinishedRecord, AllFinished
<1>5. SequentialRecord(m) /\ CheckpointedRecord(m)
    BY <1>3 DEF SequentialRecord, CheckpointedRecord, Backed
<1> QED
    BY <1>3, <1>4, <1>5 DEF m, SoundRecord

-----------------------------------------------------------------------------
\* Init establishes the invariant.
LEMMA InitIsSound == Init => IInv
<1> SUFFICES ASSUME Init PROVE IInv
    OBVIOUS
<1>1. TypeOK
    BY IdleTyped DEF Init, TypeOK
<1>2. SoundRecord(rec)
    BY DEF Init, NewRecord, SoundRecord, SequentialRecord, CheckpointedRecord,
           FinishedRecord
<1>3. \A c \in Callers : SoundOp(rec, op[c])
    BY IdleIsSound DEF Init
<1> QED
    BY <1>1, <1>2, <1>3 DEF IInv

\* The steps that only read: what they have checked is what they rely on.
LEMMA ReadingIsSound ==
    ASSUME IInv, NEW c \in Callers,
           \/ GiveUp(c)
           \/ \E g \in Gates : GateComplete(c, g) \/ Reenter(c, g)
           \/ GateTasks(c)
           \/ \E t \in Tasks : TaskAdd(c, t) \/ Checkpoint(c, t)
           \/ \E t \in Tasks : \E s \in {"open", "done"} : TaskUpdate(c, t, s)
           \/ \E ts \in SUBSET Tasks : ts # {} /\ TaskCancel(c, ts)
           \/ BridgeErrorClass(c) \/ BridgeLoad(c)
           \/ Archive(c) \/ ArchiveGates(c) \/ ArchiveVerify(c)
    PROVE  IInv'
<1> USE IdleTyped
<1>0. /\ op[c] \in Ops /\ rec \in Records /\ SoundRecord(rec)
      /\ SoundOp(rec, op[c])
    BY DEF IInv, TypeOK
<1>1. CASE GiveUp(c)
    BY <1>1, GoesIsSound, IdleIsSound DEF GiveUp
<1>2. ASSUME NEW g \in Gates, GateComplete(c, g) PROVE IInv'
    <2> DEFINE n == [Idle EXCEPT !.gate = g,
                  !.at = IF g = Execution THEN "gateTasks" ELSE "gateCommit"]
    <2>1. /\ n \in Ops /\ n.at \in {"gateTasks", "gateCommit"} /\ n.gate = g
          /\ g = Execution => n.at = "gateTasks"
        BY DEF Ops, Stages
    <2>2. CanComplete(rec.gate, g) /\ Goes(c, n)
        BY <1>2 DEF GateComplete
    <2> HIDE DEF n
    <2>3. SoundOp(rec, n)
        BY <2>1, <2>2 DEF SoundOp, CheckHolds, SnapHolds
    <2> QED
        BY <2>1, <2>2, <2>3, GoesIsSound
<1>3. ASSUME NEW f \in Gates, Reenter(c, f) PROVE IInv'
    <2> DEFINE n == [Idle EXCEPT !.at = "reenter", !.gate = f]
    <2>1. n \in Ops /\ n.at = "reenter" /\ Goes(c, n)
        BY <1>3 DEF Ops, Stages, Reenter
    <2> HIDE DEF n
    <2> QED
        BY <2>1, GoesIsSound DEF SoundOp, CheckHolds, SnapHolds
<1>4. CASE GateTasks(c)
    <2> DEFINE n == [op[c] EXCEPT !.at = "gateCommit"]
    <2>1. /\ n \in Ops /\ n.at = "gateCommit" /\ n.gate = op[c].gate
          /\ n.overtaken = op[c].overtaken /\ op[c].at = "gateTasks"
          /\ Goes(c, n) /\ AllFinished(rec)
        BY <1>0, <1>4 DEF Ops, Stages, GateTasks
    <2> HIDE DEF n
    <2>2. SoundOp(rec, n)
        BY <1>0, <2>1 DEF SoundOp, CheckHolds, SnapHolds
    <2> QED
        BY <2>1, <2>2, GoesIsSound
<1>5. ASSUME NEW t \in Tasks, TaskAdd(c, t) PROVE IInv'
    <2> DEFINE n == [Idle EXCEPT !.at = "add", !.tasks = {t}, !.status = "open"]
    <2>1. n \in Ops /\ n.at = "add" /\ Goes(c, n)
        BY <1>5 DEF Ops, Stages, Statuses, TaskAdd
    <2> HIDE DEF n
    <2> QED
        BY <2>1, GoesIsSound DEF SoundOp, CheckHolds, SnapHolds
<1>6. ASSUME NEW t \in Tasks, Checkpoint(c, t) PROVE IInv'
    <2> DEFINE n == [Idle EXCEPT !.at = "checkpoint", !.tasks = {t}]
    <2>1. n \in Ops /\ n.at = "checkpoint" /\ Goes(c, n)
        BY <1>6 DEF Ops, Stages, Checkpoint
    <2> HIDE DEF n
    <2> QED
        BY <2>1, GoesIsSound DEF SoundOp, CheckHolds, SnapHolds
<1>7. ASSUME NEW t \in Tasks, NEW s \in {"open", "done"}, TaskUpdate(c, t, s)
      PROVE  IInv'
    <2> DEFINE n == [Idle EXCEPT !.at = "update", !.tasks = {t}, !.status = s]
    <2>1. n \in Ops /\ n.at = "update" /\ n.tasks = {t} /\ n.status = s
        BY DEF Ops, Stages, Statuses
    <2>2. (s = "done" => rec.task[t] = "done") /\ Goes(c, n)
        BY <1>7 DEF TaskUpdate, Patchable
    <2> HIDE DEF n
    <2>3. s = "done" => Backed(rec, t)
        BY <1>0, <2>2 DEF SoundRecord, CheckpointedRecord
    <2>4. SoundOp(rec, n)
        BY <2>1, <2>3 DEF SoundOp, CheckHolds, SnapHolds
    <2> QED
        BY <2>1, <2>2, <2>4, GoesIsSound
<1>8. ASSUME NEW ts \in SUBSET Tasks, TaskCancel(c, ts) PROVE IInv'
    <2> DEFINE n == [Idle EXCEPT !.at = "cancel", !.tasks = ts,
                                 !.status = "cancelled"]
    <2>1. n \in Ops /\ n.at = "cancel" /\ Goes(c, n)
        BY <1>8 DEF Ops, Stages, Statuses, TaskCancel
    <2> HIDE DEF n
    <2> QED
        BY <2>1, GoesIsSound DEF SoundOp, CheckHolds, SnapHolds
<1>9. CASE BridgeErrorClass(c)
    <2>1. PICK t \in op[c].tasks :
             Goes(c, [op[c] EXCEPT !.at = "bridgeLoad", !.tasks = {t},
                                   !.status = rec.task[t]])
        BY <1>9 DEF BridgeErrorClass
    <2> DEFINE n == [op[c] EXCEPT !.at = "bridgeLoad", !.tasks = {t},
                                  !.status = rec.task[t]]
    <2>2. t \in Tasks
        BY <1>0 DEF Ops
    <2>3. /\ n \in Ops /\ n.at = "bridgeLoad" /\ n.tasks = {t}
          /\ n.status = rec.task[t]
        BY <1>0, <2>2 DEF Ops, Stages, Records
    <2> HIDE DEF n
    <2>4. n.status = "done" => Backed(rec, t)
        BY <1>0, <2>2, <2>3 DEF SoundRecord, CheckpointedRecord
    <2>5. SoundOp(rec, n)
        BY <2>3, <2>4 DEF SoundOp, CheckHolds, SnapHolds
    <2> QED
        BY <2>1, <2>3, <2>5, GoesIsSound DEF n
<1>10. CASE BridgeLoad(c)
    <2> DEFINE n == [op[c] EXCEPT !.at = "bridgeSave", !.snap = rec]
    <2>1. /\ n \in Ops /\ n.at = "bridgeSave" /\ n.tasks = op[c].tasks
          /\ n.status = op[c].status /\ n.overtaken = op[c].overtaken
          /\ n.snap = rec /\ op[c].at = "bridgeLoad" /\ Goes(c, n)
        BY <1>0, <1>10 DEF Ops, Stages, BridgeLoad
    <2> HIDE DEF n
    <2>2. SoundOp(rec, n)
        BY <1>0, <2>1 DEF SoundOp, CheckHolds, SnapHolds
    <2> QED
        BY <2>1, <2>2, GoesIsSound
<1>11. CASE Archive(c)
    <2> DEFINE n == [Idle EXCEPT !.at = "archiveGates", !.gate = Release]
    <2>1. Release \in Gates
        BY GatesAssumption
    <2>2. n \in Ops /\ n.at = "archiveGates"
        BY <2>1 DEF Ops, Stages
    <2>3. Goes(c, n) /\ AllFinished(rec)
        BY <1>11 DEF Archive
    <2> HIDE DEF n
    <2> QED
        BY <2>2, <2>3, GoesIsSound DEF SoundOp, CheckHolds, SnapHolds
<1>12. CASE ArchiveGates(c)
    <2> DEFINE n == [op[c] EXCEPT !.at = "archiveRelease"]
    <2>1. /\ n \in Ops /\ n.at = "archiveRelease"
          /\ n.overtaken = op[c].overtaken /\ op[c].at = "archiveGates"
          /\ Goes(c, n) /\ CanComplete(rec.gate, Release)
        BY <1>0, <1>12 DEF Ops, Stages, ArchiveGates
    <2> HIDE DEF n
    <2>2. SoundOp(rec, n)
        BY <1>0, <2>1 DEF SoundOp, CheckHolds, SnapHolds
    <2> QED
        BY <2>1, <2>2, GoesIsSound
<1>13. CASE ArchiveVerify(c)
    <2> DEFINE n == [op[c] EXCEPT !.at = "archiveCommit"]
    <2>1. /\ n \in Ops /\ n.at = "archiveCommit"
          /\ n.overtaken = op[c].overtaken /\ op[c].at = "archiveVerify"
          /\ Goes(c, n)
        BY <1>0, <1>13 DEF Ops, Stages, ArchiveVerify
    <2> HIDE DEF n
    <2>2. SoundOp(rec, n)
        BY <1>0, <2>1 DEF SoundOp, CheckHolds, SnapHolds
    <2> QED
        BY <2>1, <2>2, GoesIsSound
<1> QED
    BY <1>1, <1>2, <1>3, <1>4, <1>5, <1>6, <1>7, <1>8, <1>9, <1>10, <1>11,
       <1>12, <1>13

\* The steps that commit.
LEMMA CommittingIsSound ==
    ASSUME IInv, NEW c \in Callers,
           \/ GateCommit(c) \/ ReenterCommit(c)
           \/ TaskAddCommit(c) \/ TaskUpdateCommit(c) \/ TaskCancelCommit(c)
           \/ CheckpointRecord(c) \/ BridgeSave(c)
           \/ ArchiveRelease(c) \/ ArchiveCommit(c)
    PROVE  IInv'
<1> USE IdleTyped
<1>0. /\ op[c] \in Ops /\ rec \in Records /\ SoundRecord(rec)
      /\ SoundOp(rec, op[c]) /\ op[c].overtaken \in BOOLEAN
      /\ op[c].gate \in Gates /\ op[c].tasks \subseteq Tasks
      /\ op[c].status \in Statuses /\ op[c].snap \in Records
    BY DEF IInv, TypeOK, Ops
<1>1. CASE GateCommit(c)
    <2> DEFINE n == GateDone(rec, op[c].gate, op[c].overtaken)
    <2>1. Commits(c, n, Idle)
        BY <1>1 DEF GateCommit
    <2>2. op[c].overtaken \/ CanComplete(rec.gate, op[c].gate)
        BY <1>0, <1>1 DEF GateCommit, SoundOp, CheckHolds
    <2>3. n \in Records /\ SoundRecord(n)
        BY <1>0, <2>2, GateDoneIsSound
    <2> HIDE DEF n
    <2> QED
        BY <2>1, <2>3, CommitIsSound, IdleIsSound
<1>2. CASE ReenterCommit(c)
    <2> DEFINE f == op[c].gate
               n == [rec EXCEPT !.gate = ResetFrom(@, f),
                                !.lateGate = {g \in @ : g < f}]
    <2>1. Commits(c, StillArchived(n), Idle)
        BY <1>2 DEF ReenterCommit
    <2>2. /\ n \in Records /\ n.task = rec.task /\ n.ckpt = rec.ckpt
          /\ n.gate = [g \in Gates |-> IF g >= f THEN "pending" ELSE rec.gate[g]]
          /\ n.lateGate = {g \in rec.lateGate : g < f}
          /\ n.lateTask = rec.lateTask /\ n.archived = rec.archived
          /\ n.lateArchive = rec.lateArchive
        BY <1>0 DEF Records, ResetFrom
    <2> HIDE DEF n
    <2>3. SequentialRecord(n)
        BY <1>0, <2>2, GatesAssumption DEF SoundRecord, SequentialRecord
    <2>4. CheckpointedRecord(n)
        BY <1>0, <2>2 DEF SoundRecord, CheckpointedRecord, Backed
    <2>5. ~Regresses(rec, n) => FinishedRecord(n)
        <3> SUFFICES ASSUME n.archived, ~n.lateArchive PROVE Regresses(rec, n)
            BY DEF FinishedRecord
        <3>1. rec.gate[f] = "done"
            BY <1>0, <2>2 DEF SoundRecord, FinishedRecord
        <3>2. n.gate[f] = "pending"
            BY <1>0, <2>2, GatesAssumption
        <3> QED
            BY <1>0, <3>1, <3>2 DEF Regresses
    <2>6. StillArchived(n) \in Records /\ SoundRecord(StillArchived(n))
        BY <2>2, <2>3, <2>4, <2>5, StillArchivedIsSound
    <2> QED
        BY <2>1, <2>6, CommitIsSound, IdleIsSound
<1>3. CASE TaskAddCommit(c)
    <2>1. PICK t \in op[c].tasks :
             Commits(c, StillArchived([rec EXCEPT !.task[t] = "open"]), Idle)
        BY <1>3 DEF TaskAddCommit
    <2> DEFINE n == [rec EXCEPT !.task[t] = "open"]
    <2>2. /\ n \in Records /\ n.task = [rec.task EXCEPT ![t] = "open"]
          /\ n.gate = rec.gate /\ n.ckpt = rec.ckpt
          /\ n.lateGate = rec.lateGate /\ n.lateTask = rec.lateTask
          /\ n.archived = rec.archived /\ n.lateArchive = rec.lateArchive
        BY <1>0 DEF Records, Statuses
    <2>3. Commits(c, StillArchived(n), Idle) /\ t \in Tasks
        BY <1>0, <2>1
    <2> HIDE DEF n
    <2>4. SequentialRecord(n) /\ CheckpointedRecord(n)
        BY <1>0, <2>2 DEF SoundRecord, SequentialRecord, CheckpointedRecord,
                          Backed, Records
    <2>5. ~Regresses(rec, n) => FinishedRecord(n)
        <3> SUFFICES ASSUME n.archived, ~n.lateArchive PROVE Regresses(rec, n)
            BY DEF FinishedRecord
        <3>1. rec.task[t] # "open"
            BY <1>0, <2>2, <2>3 DEF SoundRecord, FinishedRecord, AllFinished,
                                    Finished
        <3>2. n.task[t] = "open"
            BY <1>0, <2>2, <2>3 DEF Records
        <3> QED
            BY <2>3, <3>1, <3>2 DEF Regresses
    <2>6. StillArchived(n) \in Records /\ SoundRecord(StillArchived(n))
        BY <2>2, <2>4, <2>5, StillArchivedIsSound
    <2> QED
        BY <2>3, <2>6, CommitIsSound, IdleIsSound
<1>4. CASE TaskUpdateCommit(c)
    <2>1. PICK t \in op[c].tasks :
             Commits(c, StillArchived(TaskWritten(rec, t, op[c].status,
                                                  op[c].overtaken)), Idle)
        BY <1>4 DEF TaskUpdateCommit
    <2> DEFINE s == op[c].status
               n == TaskWritten(rec, t, s, op[c].overtaken)
    <2>2. t \in Tasks /\ (s = "done" => Backed(rec, t) \/ op[c].overtaken)
        BY <1>0, <1>4 DEF TaskUpdateCommit, SoundOp, CheckHolds
    <2>3. /\ n \in Records /\ SequentialRecord(n) /\ CheckpointedRecord(n)
          /\ s \in {"done", "cancelled"} => FinishedRecord(n)
          /\ n.archived = rec.archived /\ n.lateArchive = rec.lateArchive
        BY <1>0, <2>2, TaskWrittenIsSound
    <2>4. ~Regresses(rec, n) => FinishedRecord(n)
        <3>1. CASE rec.task[t] = "absent"
            BY <1>0, <3>1 DEF TaskWritten, SoundRecord
        <3>2. CASE rec.task[t] # "absent" /\ s = "open"
            <4>1. n.task[t] = "open"
                BY <1>0, <2>2, <3>2 DEF TaskWritten, Records
            <4>2. rec.task[t] = "open" \/ Regresses(rec, n)
                BY <2>2, <4>1 DEF Regresses
            <4>3. rec.task[t] = "open" => ~rec.archived \/ rec.lateArchive
                BY <1>0, <2>2 DEF SoundRecord, FinishedRecord, AllFinished,
                                  Finished
            <4> QED
                BY <2>3, <4>2, <4>3 DEF FinishedRecord
        <3>3. CASE rec.task[t] # "absent" /\ s = "absent"
            <4>1. \A r \in Tasks : n.task[r] # "absent" => n.task[r] = rec.task[r]
                BY <1>0, <2>2, <3>3 DEF TaskWritten, Records
            <4>2. n.gate = rec.gate
                BY <1>0, <3>3 DEF TaskWritten, Records
            <4> QED
                BY <1>0, <2>3, <4>1, <4>2
                   DEF SoundRecord, FinishedRecord, AllFinished
        <3> QED
            BY <1>0, <2>3, <3>1, <3>2, <3>3 DEF Statuses
    <2> HIDE DEF n
    <2>5. StillArchived(n) \in Records /\ SoundRecord(StillArchived(n))
        BY <2>3, <2>4, StillArchivedIsSound
    <2> QED
        BY <2>1, <2>5, CommitIsSound, IdleIsSound DEF n
<1>5. CASE TaskCancelCommit(c)
    <2>1. PICK t \in op[c].tasks :
             Commits(c, TaskWritten(rec, t, "cancelled", FALSE),
                IF op[c].tasks = {t} THEN Idle
                ELSE [op[c] EXCEPT !.tasks = @ \ {t}])
        BY <1>5 DEF TaskCancelCommit
    <2> DEFINE n == TaskWritten(rec, t, "cancelled", FALSE)
               next == IF op[c].tasks = {t} THEN Idle
                       ELSE [op[c] EXCEPT !.tasks = @ \ {t}]
    <2>2. n \in Records /\ SoundRecord(n)
        BY <1>0, TaskWrittenIsSound DEF SoundRecord, Statuses
    <2>3. next \in Ops /\ next.at \in {"idle", "cancel"}
        BY <1>0, <1>5 DEF Ops, TaskCancelCommit
    <2> HIDE DEF n, next
    <2>4. SoundOp(n, next)
        BY <2>3 DEF SoundOp, CheckHolds, SnapHolds
    <2> QED
        BY <2>1, <2>2, <2>3, <2>4, CommitIsSound DEF n, next
<1>6. CASE CheckpointRecord(c)
    <2>1. PICK t \in op[c].tasks : Commits(c, Checkpointed(rec, t), Idle)
        BY <1>6 DEF CheckpointRecord
    <2> DEFINE n == Checkpointed(rec, t)
    <2>2. n \in Records /\ SoundRecord(n)
        <3>1. CASE rec.task[t] = "absent"
            BY <1>0, <3>1 DEF Checkpointed
        <3>2. CASE rec.task[t] # "absent"
            <4>1. /\ n \in Records /\ n.gate = rec.gate
                  /\ n.task = [rec.task EXCEPT ![t] = "done"]
                  /\ n.ckpt = [rec.ckpt EXCEPT ![t] = TRUE]
                  /\ n.lateGate = rec.lateGate /\ n.lateTask = rec.lateTask \ {t}
                  /\ n.archived = rec.archived /\ n.lateArchive = rec.lateArchive
                BY <1>0, <3>2 DEF Checkpointed, Records, Statuses
            <4> HIDE DEF n
            <4>2. SequentialRecord(n)
                BY <1>0, <4>1 DEF SoundRecord, SequentialRecord
            <4>3. CheckpointedRecord(n)
                BY <1>0, <4>1 DEF SoundRecord, CheckpointedRecord, Backed, Records
            <4>4. FinishedRecord(n)
                BY <1>0, <4>1 DEF SoundRecord, FinishedRecord, AllFinished,
                                  Finished, Records
            <4> QED
                BY <4>1, <4>2, <4>3, <4>4 DEF SoundRecord
        <3> QED
            BY <3>1, <3>2
    <2> HIDE DEF n
    <2> QED
        BY <2>1, <2>2, CommitIsSound, IdleIsSound DEF n
<1>7. CASE BridgeSave(c)
    <2>1. PICK t \in op[c].tasks : Commits(c, Bridged(op[c], t), Idle)
        BY <1>7 DEF BridgeSave
    <2> DEFINE s == op[c].status
               w == TaskWritten(op[c].snap, t, s, op[c].overtaken)
               v == w.lateArchive \/ (op[c].snap.archived /\ s = "open")
               n == Bridged(op[c], t)
    <2>2. /\ SoundRecord(op[c].snap) /\ t \in Tasks
          /\ s = "done" => Backed(op[c].snap, t) \/ op[c].overtaken
        BY <1>0, <1>7 DEF BridgeSave, SoundOp, SnapHolds
    <2>3. /\ w \in Records /\ SequentialRecord(w) /\ CheckpointedRecord(w)
          /\ s \in {"done", "cancelled"} => FinishedRecord(w)
          /\ w.archived = op[c].snap.archived
          /\ w.lateArchive = op[c].snap.lateArchive
        BY <1>0, <2>2, TaskWrittenIsSound
    <2>4. s = "absent" => FinishedRecord(w)
        <3> SUFFICES ASSUME s = "absent" PROVE FinishedRecord(w)
            OBVIOUS
        <3>1. CASE op[c].snap.task[t] = "absent"
            BY <2>2, <3>1 DEF TaskWritten, SoundRecord
        <3>2. CASE op[c].snap.task[t] # "absent"
            <4>1. \A r \in Tasks : w.task[r] # "absent"
                                       => w.task[r] = op[c].snap.task[r]
                BY <1>0, <2>2, <3>2 DEF TaskWritten, Records
            <4>2. w.gate = op[c].snap.gate
                BY <1>0, <3>2 DEF TaskWritten, Records
            <4> QED
                BY <2>2, <2>3, <4>1, <4>2
                   DEF SoundRecord, FinishedRecord, AllFinished
        <3> QED
            BY <3>1, <3>2
    <2>5. s # "open" => FinishedRecord(w)
        BY <1>0, <2>3, <2>4 DEF Statuses
    <2>6. n = [w EXCEPT !.lateArchive = v]
        BY DEF Bridged
    <2>7. v \in BOOLEAN /\ w \in Records
        BY <1>0, <2>3 DEF Records
    <2>8. v = (w.lateArchive \/ (w.archived /\ s = "open"))
        BY <2>3
    <2> HIDE DEF n, v, w
    <2>9. /\ n \in Records /\ n.gate = w.gate /\ n.task = w.task
          /\ n.ckpt = w.ckpt /\ n.lateGate = w.lateGate
          /\ n.lateTask = w.lateTask /\ n.archived = w.archived
          /\ n.lateArchive = v
        BY <2>6, <2>7 DEF Records
    <2>10. FinishedRecord(n)
        BY <2>5, <2>8, <2>9 DEF FinishedRecord, AllFinished
    <2>11. SequentialRecord(n) /\ CheckpointedRecord(n)
        BY <2>3, <2>9 DEF SequentialRecord, CheckpointedRecord, Backed
    <2> QED
        BY <2>1, <2>9, <2>10, <2>11, CommitIsSound, IdleIsSound
           DEF n, SoundRecord
<1>8. CASE ArchiveRelease(c)
    <2> DEFINE next == [op[c] EXCEPT !.at = "archiveVerify"]
               n == GateDone(rec, Release, op[c].overtaken)
    <2>1. /\ next \in Ops /\ next.at = "archiveVerify"
          /\ next.overtaken = op[c].overtaken
        BY <1>0 DEF Ops, Stages
    <2>2. op[c].overtaken \/ (AllFinished(rec) /\ CanComplete(rec.gate, Release))
        BY <1>0, <1>8 DEF ArchiveRelease, SoundOp, CheckHolds
    <2>3. Goes(c, next) \/ Commits(c, n, next)
        BY <1>8 DEF ArchiveRelease
    <2>4. SoundOp(rec, next)
        BY <2>1, <2>2 DEF SoundOp, CheckHolds, SnapHolds
    <2>5. Release \in Gates
        BY GatesAssumption
    <2>6. /\ n \in Records /\ SoundRecord(n)
          /\ op[c].overtaken \/ (AllFinished(n) /\ CanComplete(n.gate, Release))
        BY <1>0, <2>2, <2>5, GateDoneIsSound
    <2> HIDE DEF n, next
    <2>7. SoundOp(n, next)
        BY <2>1, <2>6 DEF SoundOp, CheckHolds, SnapHolds
    <2> QED
        BY <2>1, <2>3, <2>4, <2>6, <2>7, GoesIsSound, CommitIsSound
<1>9. CASE ArchiveCommit(c)
    <2> DEFINE w == GateDone(rec, Release, op[c].overtaken)
               v == (rec.archived /\ w.lateArchive) \/ op[c].overtaken
               n == [w EXCEPT !.archived = TRUE, !.lateArchive = v]
    <2>1. Commits(c, n, Idle)
        BY <1>9 DEF ArchiveCommit
    <2>2. op[c].overtaken \/ (AllFinished(rec) /\ CanComplete(rec.gate, Release))
        BY <1>0, <1>9 DEF ArchiveCommit, SoundOp, CheckHolds
    <2>3. Release \in Gates
        BY GatesAssumption
    <2>4. /\ w \in Records /\ SoundRecord(w) /\ w.gate[Release] = "done"
          /\ op[c].overtaken \/ (AllFinished(w) /\ CanComplete(w.gate, Release))
        BY <1>0, <2>2, <2>3, GateDoneIsSound
    <2>5. v \in BOOLEAN
        BY <1>0, <2>4 DEF Records
    <2>6. op[c].overtaken => v
        OBVIOUS
    <2> HIDE DEF w, v
    <2>7. /\ n \in Records /\ n.gate = w.gate /\ n.task = w.task
          /\ n.ckpt = w.ckpt /\ n.lateGate = w.lateGate
          /\ n.lateTask = w.lateTask /\ n.lateArchive = v
        BY <2>4, <2>5 DEF Records
    <2> HIDE DEF n
    <2>8. SequentialRecord(n) /\ CheckpointedRecord(n)
        BY <2>4, <2>7 DEF SoundRecord, SequentialRecord, CheckpointedRecord,
                          Backed
    <2>9. FinishedRecord(n)
        <3> SUFFICES ASSUME ~v PROVE AllFinished(n) /\ \A g \in Gates : n.gate[g] = "done"
            BY <2>7 DEF FinishedRecord
        <3>1. AllFinished(w) /\ CanComplete(w.gate, Release)
            BY <2>4, <2>6
        <3>2. \A g \in Gates : g < Release \/ g = Release
            BY GatesAssumption
        <3> QED
            BY <2>4, <2>7, <3>1, <3>2 DEF CanComplete, AllFinished
    <2> QED
        BY <2>1, <2>7, <2>8, <2>9, CommitIsSound, IdleIsSound
           DEF SoundRecord
<1> QED
    BY <1>1, <1>2, <1>3, <1>4, <1>5, <1>6, <1>7, <1>8, <1>9

-----------------------------------------------------------------------------
(***************************************************************************)
(* The invariant is inductive: each call's checks hold until it commits,   *)
(* unless a commit of another call takes something back.                   *)
(***************************************************************************)
THEOREM Soundness == Spec => []IInv
<1>1. Init => IInv
    BY InitIsSound
<1>2. IInv /\ [Next]_vars => IInv'
    <2> SUFFICES ASSUME IInv, [Next]_vars PROVE IInv'
        OBVIOUS
    <2>1. CASE UNCHANGED vars
        <3>1. rec' = rec /\ op' = op
            BY <2>1 DEF vars
        <3> QED
            BY <3>1 DEF IInv, TypeOK, SoundRecord, SequentialRecord,
                CheckpointedRecord, FinishedRecord, SoundOp, CheckHolds,
                SnapHolds, AllFinished, Backed, CanComplete
    <2>2. ASSUME NEW c \in Callers, Step(c) PROVE IInv'
        BY <2>2, ReadingIsSound, CommittingIsSound DEF Step
    <2> QED
        BY <2>1, <2>2 DEF Next
<1> QED
    BY <1>1, <1>2, PTL DEF Spec

\* The record and the calls in flight keep their types.
THEOREM TypeCorrect == Spec => []TypeOK
<1>1. IInv => TypeOK
    BY DEF IInv
<1> QED
    BY <1>1, Soundness, PTL

\* Concurrent completions never complete a gate out of order: only a commit
\* that takes something back, inside a completion's window, can.
THEOREM GateSequence == Spec => []SequenceUnlessOvertaken
<1>1. IInv => SequenceUnlessOvertaken
    BY DEF IInv, SoundRecord, SequenceUnlessOvertaken
<1> QED
    BY <1>1, Soundness, PTL

\* No interleaving of patches, checkpoints, cancellations and store saves
\* leaves a done task without checkpoint, the marked ones apart.
THEOREM CheckpointBehindDone == Spec => []DoneIsCheckpointed
<1>1. IInv => DoneIsCheckpointed
    BY DEF IInv, SoundRecord, DoneIsCheckpointed
<1> QED
    BY <1>1, Soundness, PTL

\* An archived record is finished unless something was taken back after the
\* archive's preflight.
THEOREM ArchiveAfterWork == Spec => []ArchivedIsFinished
<1>1. IInv => ArchivedIsFinished
    BY DEF IInv, SoundRecord, ArchivedIsFinished
<1> QED
    BY <1>1, Soundness, PTL

-----------------------------------------------------------------------------
\* A step that completes a gate is the commit of a completion or of an archive, or a store
\* save; the first two write exactly that gate.
LEMMA WhoCompletes ==
    ASSUME IInv, NEW c \in Callers, Step(c), NEW g \in Gates,
           rec.gate[g] # "done", rec'.gate[g] = "done"
    PROVE  \/ /\ op[c].at = "gateCommit" /\ g = op[c].gate
              /\ rec'.lateGate = GateDone(rec, g, op[c].overtaken).lateGate
           \/ /\ op[c].at \in {"archiveRelease", "archiveCommit"} /\ g = Release
              /\ rec'.lateGate = GateDone(rec, g, op[c].overtaken).lateGate
           \/ BridgeSave(c)
<1>0. rec \in Records /\ op[c] \in Ops /\ Release \in Gates
    BY GatesAssumption DEF IInv, TypeOK
<1>1. rec' # rec
    OBVIOUS
<1>2. \/ GateCommit(c) \/ ReenterCommit(c) \/ TaskAddCommit(c) \/ TaskUpdateCommit(c)
      \/ TaskCancelCommit(c) \/ CheckpointRecord(c) \/ BridgeSave(c)
      \/ ArchiveRelease(c) \/ ArchiveCommit(c)
    BY <1>1 DEF Step, Goes, GiveUp, GateComplete, Reenter, GateTasks, TaskAdd, Checkpoint,
       TaskUpdate, TaskCancel, BridgeErrorClass, BridgeLoad, Archive, ArchiveGates,
       ArchiveVerify
<1>3. ASSUME NEW h \in Gates, NEW late
      PROVE  GateDone(rec, h, late).gate = [rec.gate EXCEPT ![h] = "done"]
    BY <1>0 DEF GateDone, Records
<1>4. ASSUME NEW n, rec' = n, n.gate = rec.gate PROVE FALSE
    BY <1>4
<1>5. CASE GateCommit(c)
    <2>1. rec' = GateDone(rec, op[c].gate, op[c].overtaken) /\ op[c].gate \in Gates
        BY <1>0, <1>5 DEF GateCommit, Commits, Ops
    <2>2. rec'.gate = [rec.gate EXCEPT ![op[c].gate] = "done"]
        BY <1>3, <2>1
    <2>3. g = op[c].gate
        BY <1>0, <2>1, <2>2 DEF Records
    <2> QED
        BY <1>5, <2>1, <2>3 DEF GateCommit
<1>6. CASE ArchiveRelease(c)
    <2>1. rec' = GateDone(rec, Release, op[c].overtaken)
        BY <1>1, <1>6 DEF ArchiveRelease, Commits, Goes
    <2>2. rec'.gate = [rec.gate EXCEPT ![Release] = "done"]
        BY <1>0, <1>3, <2>1
    <2>3. g = Release
        BY <1>0, <2>2 DEF Records
    <2> QED
        BY <1>6, <2>1, <2>3 DEF ArchiveRelease
<1>7. CASE ArchiveCommit(c)
    <2> DEFINE w == GateDone(rec, Release, op[c].overtaken)
    <2>1. w.gate = [rec.gate EXCEPT ![Release] = "done"]
        BY <1>0, <1>3
    <2>2. rec' = [w EXCEPT !.archived = TRUE,
                           !.lateArchive = (rec.archived /\ @) \/ op[c].overtaken]
        BY <1>7 DEF ArchiveCommit, Commits
    <2>3. op[c].overtaken \in BOOLEAN
        BY <1>0 DEF Ops
    <2>4. w \in Records
        BY <1>0, <2>3 DEF GateDone, Records
    <2> HIDE DEF w
    <2>5. rec'.gate = w.gate /\ rec'.lateGate = w.lateGate
        BY <2>2, <2>4 DEF Records
    <2>6. g = Release
        BY <1>0, <2>1, <2>5 DEF Records
    <2> QED
        BY <1>7, <2>5, <2>6 DEF ArchiveCommit, w
<1>8. CASE ReenterCommit(c)
    <2>1. rec'.gate = ResetFrom(rec.gate, op[c].gate)
        BY <1>0, <1>8 DEF ReenterCommit, Commits, StillArchived, Records, ResetFrom
    <2> QED
        BY <2>1 DEF ResetFrom
<1>9. CASE TaskAddCommit(c)
    <2>1. rec'.gate = rec.gate
        BY <1>0, <1>9 DEF TaskAddCommit, Commits, StillArchived, Records
    <2> QED
        BY <2>1
<1>10. CASE TaskUpdateCommit(c)
    <2>1. rec'.gate = rec.gate
        BY <1>0, <1>10 DEF TaskUpdateCommit, Commits, StillArchived, TaskWritten, Records
    <2> QED
        BY <2>1
<1>11. CASE TaskCancelCommit(c)
    <2>1. rec'.gate = rec.gate
        BY <1>0, <1>11 DEF TaskCancelCommit, Commits, TaskWritten, Records
    <2> QED
        BY <2>1
<1>12. CASE CheckpointRecord(c)
    <2>1. rec'.gate = rec.gate
        BY <1>0, <1>12 DEF CheckpointRecord, Commits, Checkpointed, Records
    <2> QED
        BY <2>1
<1> QED
    BY <1>2, <1>5, <1>6, <1>7, <1>8, <1>9, <1>10, <1>11, <1>12

(***************************************************************************)
(* adv_gate_complete and the release gate of adv_change_archive: a gate is *)
(* completed only when its checks hold at the commit, because a check that *)
(* held is only ever undone by a commit that overtakes the call.           *)
(***************************************************************************)
THEOREM CheckedCompletions == Spec => CompletionsAreChecked
<1> DEFINE Checked(g) == CanComplete(rec.gate, g) /\ (g = Execution => AllFinished(rec))
<1>1. ASSUME IInv, NEW c \in Callers, Step(c), NEW g \in Gates,
             rec.gate[g] # "done", rec'.gate[g] = "done", g \notin rec'.lateGate
      PROVE  Checked(g) \/ Restores(g)
    <2>0. /\ rec \in Records /\ op \in [Callers -> Ops] /\ op[c] \in Ops
          /\ SoundOp(rec, op[c])
        BY <1>1 DEF IInv, TypeOK
    <2>1. CASE BridgeSave(c)
        <3>1. PICK t \in op[c].tasks : Commits(c, Bridged(op[c], t), Idle)
            BY <2>1 DEF BridgeSave
        <3>2. op'[c].at = "idle"
            BY <3>1, IdleTyped DEF Commits
        <3>3. op[c].snap \in Records
            BY <2>0 DEF Ops
        <3>4. rec'.gate = op[c].snap.gate
            BY <3>1, <3>3 DEF Commits, Bridged, TaskWritten, Records
        <3> QED
            BY <1>1, <2>1, <3>2, <3>4 DEF Restores, BridgeSave
    <2>2. CASE rec'.lateGate = GateDone(rec, g, op[c].overtaken).lateGate
        <3>1. ~op[c].overtaken
            BY <1>1, <2>0, <2>2 DEF GateDone, Records
        <3>2. CheckHolds(rec, op[c])
            BY <2>0, <3>1 DEF SoundOp
        <3>3. op[c].at = "gateCommit" /\ g = op[c].gate => Checked(g)
            BY <3>2 DEF CheckHolds
        <3>4. op[c].at \in {"archiveRelease", "archiveCommit"} /\ g = Release => Checked(g)
            BY <3>2, GatesAssumption DEF CheckHolds
        <3> QED
            BY <1>1, <2>1, <3>3, <3>4, WhoCompletes
    <2> QED
        BY <1>1, <2>1, <2>2, WhoCompletes
<1>2. IInv /\ [Next]_vars =>
          [\A g \in Gates :
              rec.gate[g] # "done" /\ rec'.gate[g] = "done" /\ g \notin rec'.lateGate
              => \/ CanComplete(rec.gate, g) /\ (g = Execution => AllFinished(rec))
                 \/ Restores(g)]_vars
    BY <1>1 DEF Next
<1> QED
    BY <1>2, Soundness, PTL DEF Spec, CompletionsAreChecked
==============================================================================
