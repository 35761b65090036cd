------------------------------ MODULE Lifecycle ------------------------------
(***************************************************************************)
(* The gates and tasks of one change, and the tool calls that move them:   *)
(* adv_gate_complete, adv_change_reenter, adv_task_add, adv_task_update,   *)
(* adv_task_cancel, adv_task_checkpoint and the record side of             *)
(* adv_change_archive.                                                     *)
(*                                                                         *)
(* Every call reads the change, decides, and later commits with            *)
(* coordinateChangeMutation.  The commit is atomic (ChangeProjection) and  *)
(* applies to the latest record, but the decision is not made again: what  *)
(* was read may be stale.  One writer does worse: the failure path of      *)
(* adv_task_checkpoint saves a whole record it loaded earlier              *)
(* (store.tasks.update of the disk store, no lock).                        *)
(*                                                                         *)
(* The statuses pending, in_progress and blocked of a task are one, "open":*)
(* no decision tells them apart.  Worktree isolation, approvals, readiness *)
(* checks and the proof that a release is shipped are decided outside this *)
(* state: they may refuse any call (Give up).                              *)
(***************************************************************************)
EXTENDS Integers

CONSTANTS
    NumGates,       \* GATE_ORDER has NumGates entries, in order 1 .. NumGates
    Planning, Execution, Release,
    Tasks,          \* the task ids a change may come to have
    Callers,        \* concurrent tool calls
    Bridgers        \* bound: the callers whose checkpoint may fail in git

ASSUME GatesAssumption ==
    /\ NumGates \in Nat /\ Release = NumGates
    /\ Planning \in 1 .. NumGates /\ Execution \in 1 .. NumGates
    /\ Planning < Execution /\ Execution < Release
    /\ Bridgers \subseteq Callers

Gates == 1 .. NumGates

VARIABLES
    rec,    \* change.json: gates, task statuses, checkpoints, archived or not
    op      \* each caller's call in flight

vars == <<rec, op>>

Statuses == {"absent", "open", "done", "cancelled"}

(***************************************************************************)
(* The last three fields are history: gates, tasks and the archive         *)
(* transition whose last write was decided on a reading that had been      *)
(* taken back by the time it was committed.                                *)
(***************************************************************************)
Records ==
    [gate : [Gates -> {"pending", "done"}],
     task : [Tasks -> Statuses],
     ckpt : [Tasks -> BOOLEAN],         \* checkpointSha is set
     archived : BOOLEAN,
     lateGate : SUBSET Gates,
     lateTask : SUBSET Tasks,
     lateArchive : BOOLEAN]

\* createDefaultGates: a change as created.
NewRecord ==
    [gate |-> [g \in Gates |-> "pending"],
     task |-> [t \in Tasks |-> "absent"],
     ckpt |-> [t \in Tasks |-> FALSE],
     archived |-> FALSE,
     lateGate |-> {}, lateTask |-> {}, lateArchive |-> FALSE]

Stages ==
    {"idle", "gateTasks", "gateCommit", "reenter", "add", "update", "cancel",
     "checkpoint", "bridgeLoad", "bridgeSave",
     "archiveGates", "archiveRelease", "archiveVerify", "archiveCommit"}

Ops ==
    [at : Stages,
     gate : Gates,              \* the gate to complete or to re-enter from
     tasks : SUBSET Tasks,      \* the tasks still to be written
     status : Statuses,         \* the status to write
     snap : Records,            \* the whole record a store save writes back
     overtaken : BOOLEAN]       \* history: see Regresses

Idle ==
    [at |-> "idle", gate |-> 1, tasks |-> {}, status |-> "absent",
     snap |-> NewRecord, overtaken |-> FALSE]

Init ==
    /\ rec = NewRecord
    /\ op = [c \in Callers |-> Idle]

-----------------------------------------------------------------------------
Finished(status) == status \in {"done", "cancelled"}

\* Mutant: the loop over the earlier gates stops one short.
CanCompleteButOne(gate, g) == \A h \in Gates : h < g - 1 => gate[h] = "done"

\* canCompleteGate: every earlier gate is satisfied.
CanComplete(gate, g) == \A h \in Gates : h < g => gate[h] = "done"

\* The gates after a re-entry from f.
ResetFrom(gate, f) == [g \in Gates |-> IF g >= f THEN "pending" ELSE gate[g]]

\* getArchiveTaskPreflightError, and the same test before the execution gate.
AllFinished(r) == \A t \in Tasks : r.task[t] # "absent" => Finished(r.task[t])

Backed(r, t) == r.ckpt[t] \/ t \in r.lateTask

(***************************************************************************)
(* History only.  A commit regresses when it takes back something a        *)
(* concurrent call may have relied on: a done gate, a finished task, a     *)
(* checkpoint, or (by adding an open task) that all tasks are finished.    *)
(***************************************************************************)
Regresses(old, new) ==
    \/ \E g \in Gates : old.gate[g] = "done" /\ new.gate[g] = "pending"
    \/ \E t \in Tasks :
          \/ new.task[t] = "open" /\ old.task[t] # "open"
          \/ Backed(old, t) /\ ~Backed(new, t)

\* A call begins, or goes on, without writing.
Goes(c, next) == op' = [op EXCEPT ![c] = next] /\ UNCHANGED rec

\* A commit by c of the record new; c goes on as next.
Commits(c, new, next) ==
    /\ rec' = new
    /\ op' = [d \in Callers |->
                 IF d = c THEN next
                 ELSE [op[d] EXCEPT !.overtaken =
                          @ \/ (op[d].at # "idle" /\ Regresses(rec, new))]]

\* After archiving, a regressing write makes the archived record late.
StillArchived(new) ==
    [new EXCEPT !.lateArchive = @ \/ (new.archived /\ Regresses(rec, new))]

\* A call refuses, fails, times out or its process dies before it commits.
GiveUp(c) == op[c].at # "idle" /\ Goes(c, Idle)

-----------------------------------------------------------------------------
(* adv_gate_complete *)

\* Reads the gates and checks the sequence; the execution gate then reads
\* the tasks in a load of its own.
GateComplete(c, g) ==
    /\ op[c].at = "idle"
    /\ CanComplete(rec.gate, g)
    /\ Goes(c, [Idle EXCEPT !.gate = g,
                   !.at = IF g = Execution THEN "gateTasks" ELSE "gateCommit"])

\* Mutant: the execution gate does not look at the tasks.
GateTasksUnread(c) ==
    /\ op[c].at = "gateTasks"
    /\ Goes(c, [op[c] EXCEPT !.at = "gateCommit"])

GateTasks(c) ==
    /\ op[c].at = "gateTasks"
    /\ AllFinished(rec)
    /\ Goes(c, [op[c] EXCEPT !.at = "gateCommit"])

GateDone(r, g, late) ==
    [r EXCEPT !.gate[g] = "done",
              !.lateGate = IF late THEN @ \union {g} ELSE @ \ {g}]

\* commitGateCompletion
GateCommit(c) ==
    /\ op[c].at = "gateCommit"
    /\ Commits(c, GateDone(rec, op[c].gate, op[c].overtaken), Idle)

-----------------------------------------------------------------------------
(* adv_change_reenter *)

\* Refused for an archived change; nothing asks whether gate f is done.
Reenter(c, f) ==
    /\ op[c].at = "idle"
    /\ ~rec.archived
    /\ Goes(c, [Idle EXCEPT !.at = "reenter", !.gate = f])

ReenterCommit(c) ==
    /\ op[c].at = "reenter"
    /\ Commits(c,
          StillArchived([rec EXCEPT !.gate = ResetFrom(@, op[c].gate),
                                    !.lateGate = {g \in @ : g < op[c].gate}]),
          Idle)

-----------------------------------------------------------------------------
(* adv_task_add, adv_task_update, adv_task_cancel *)

\* The planning gate must be pending in the record this call reads.
TaskAdd(c, t) ==
    /\ op[c].at = "idle"
    /\ rec.task[t] = "absent"
    /\ \A d \in Callers : op[d].at = "add" => t \notin op[d].tasks  \* makeTaskId
    /\ rec.gate[Planning] # "done"
    /\ Goes(c, [Idle EXCEPT !.at = "add", !.tasks = {t}, !.status = "open"])

\* The latest record with status s for task t; a task that is gone stays so.
TaskWritten(r, t, s, late) ==
    IF r.task[t] = "absent" THEN r
    ELSE [r EXCEPT !.task[t] = s,
                   !.lateTask = IF late THEN @ \union {t} ELSE @]

TaskAddCommit(c) ==
    /\ op[c].at = "add"
    /\ \E t \in op[c].tasks :
          Commits(c, StillArchived([rec EXCEPT !.task[t] = "open"]), Idle)

\* Mutant: any task may be set to done.
PatchableAlways(read, s) == s # "cancelled"

\* What adv_task_update accepts: never "cancelled", and "done" only as a
\* patch of a task that was read as done (shouldPatchExistingDoneTask).
Patchable(read, s) == s # "cancelled" /\ (s = "done" => read = "done")

TaskUpdate(c, t, s) ==
    /\ op[c].at = "idle"
    /\ rec.task[t] # "absent"
    /\ Patchable(rec.task[t], s)
    /\ Goes(c, [Idle EXCEPT !.at = "update", !.tasks = {t}, !.status = s])

TaskUpdateCommit(c) ==
    /\ op[c].at = "update"
    /\ \E t \in op[c].tasks :
          Commits(c,
             StillArchived(TaskWritten(rec, t, op[c].status, op[c].overtaken)),
             Idle)

\* All ids are looked up first; then each is cancelled in a commit of its
\* own, so that GiveUp between two of them leaves the rest as they were.
TaskCancel(c, ts) ==
    /\ op[c].at = "idle"
    /\ \A t \in ts : rec.task[t] # "absent"
    /\ Goes(c, [Idle EXCEPT !.at = "cancel", !.tasks = ts,
                            !.status = "cancelled"])

TaskCancelCommit(c) ==
    /\ op[c].at = "cancel"
    /\ \E t \in op[c].tasks :
          Commits(c, TaskWritten(rec, t, "cancelled", FALSE),
             IF op[c].tasks = {t} THEN Idle
             ELSE [op[c] EXCEPT !.tasks = @ \ {t}])

-----------------------------------------------------------------------------
(* adv_task_checkpoint *)

\* The git side: repository state, branch and head are checked, the tree is
\* committed.  No status of the task is asked for.
Checkpoint(c, t) ==
    /\ op[c].at = "idle"
    /\ rec.task[t] # "absent"
    /\ Goes(c, [Idle EXCEPT !.at = "checkpoint", !.tasks = {t}])

\* fireTaskCompletedFromCheckpoint
Checkpointed(r, t) ==
    IF r.task[t] = "absent" THEN r
    ELSE [r EXCEPT !.task[t] = "done", !.ckpt[t] = TRUE, !.lateTask = @ \ {t}]

CheckpointRecord(c) ==
    /\ op[c].at = "checkpoint"
    /\ \E t \in op[c].tasks : Commits(c, Checkpointed(rec, t), Idle)

\* git failed: bridgeErrorClass reads the task ...
BridgeErrorClass(c) ==
    /\ c \in Bridgers
    /\ op[c].at = "checkpoint"
    /\ \E t \in op[c].tasks :
          /\ rec.task[t] # "absent"
          /\ Goes(c, [op[c] EXCEPT !.at = "bridgeLoad", !.tasks = {t},
                                   !.status = rec.task[t]])

\* ... store.tasks.update loads the whole record ...
BridgeLoad(c) ==
    /\ op[c].at = "bridgeLoad"
    /\ \A t \in op[c].tasks : rec.task[t] # "absent"
    /\ Goes(c, [op[c] EXCEPT !.at = "bridgeSave", !.snap = rec])

\* ... and saves it with the status read before, over whatever is there.
Bridged(o, t) ==
    [TaskWritten(o.snap, t, o.status, o.overtaken) EXCEPT
        !.lateArchive = @ \/ (o.snap.archived /\ o.status = "open")]

BridgeSave(c) ==
    /\ op[c].at = "bridgeSave"
    /\ \E t \in op[c].tasks : Commits(c, Bridged(op[c], t), Idle)

-----------------------------------------------------------------------------
(* adv_change_archive, as far as it reads and writes this record *)

\* Mutant: the archive does not look at the tasks.
ArchiveAnyTasks(c) ==
    /\ op[c].at = "idle"
    /\ ~rec.archived
    /\ Goes(c, [Idle EXCEPT !.at = "archiveGates", !.gate = Release])

\* The task preflight, on the change as first read ...
Archive(c) ==
    /\ op[c].at = "idle"
    /\ ~rec.archived
    /\ AllFinished(rec)
    /\ Goes(c, [Idle EXCEPT !.at = "archiveGates", !.gate = Release])

\* ... the gate preflight, on a load of its own (the release gate may be
\* pending); then bundle, merge and push, which touch nothing here ...
ArchiveGates(c) ==
    /\ op[c].at = "archiveGates"
    /\ CanComplete(rec.gate, Release)
    /\ Goes(c, [op[c] EXCEPT !.at = "archiveRelease"])

\* ... completeReleaseGateAfterFinalization, which keeps a done gate ...
ArchiveRelease(c) ==
    /\ op[c].at = "archiveRelease"
    /\ LET next == [op[c] EXCEPT !.at = "archiveVerify"] IN
       \/ rec.gate[Release] = "done" /\ Goes(c, next)
       \/ /\ rec.gate[Release] # "done"
          /\ Commits(c, GateDone(rec, Release, op[c].overtaken), next)

\* ... verifyReleaseGateDurableForArchive ...
ArchiveVerify(c) ==
    /\ op[c].at = "archiveVerify"
    /\ rec.gate[Release] = "done"
    /\ Goes(c, [op[c] EXCEPT !.at = "archiveCommit"])

\* ... and the archive transition of completeShippedChange, which writes the
\* release gate again.
ArchiveCommit(c) ==
    /\ op[c].at = "archiveCommit"
    /\ Commits(c,
          [GateDone(rec, Release, op[c].overtaken) EXCEPT
              !.archived = TRUE,
              !.lateArchive = (rec.archived /\ @) \/ op[c].overtaken],
          Idle)

-----------------------------------------------------------------------------
Step(c) ==
    \/ GiveUp(c)
    \/ \E g \in Gates : GateComplete(c, g) \/ Reenter(c, g)
    \/ GateTasks(c) \/ GateCommit(c) \/ ReenterCommit(c)
    \/ \E t \in Tasks :
          \/ TaskAdd(c, t) \/ Checkpoint(c, t)
          \/ \E s \in {"open", "done"} : TaskUpdate(c, t, s)
    \/ \E ts \in SUBSET Tasks : ts # {} /\ TaskCancel(c, ts)
    \/ TaskAddCommit(c) \/ TaskUpdateCommit(c) \/ TaskCancelCommit(c)
    \/ CheckpointRecord(c)
    \/ BridgeErrorClass(c) \/ BridgeLoad(c) \/ BridgeSave(c)
    \/ Archive(c) \/ ArchiveGates(c) \/ ArchiveRelease(c)
    \/ ArchiveVerify(c) \/ ArchiveCommit(c)

Next == \E c \in Callers : Step(c)

Spec == Init /\ [][Next]_vars

-----------------------------------------------------------------------------
\* Type invariant.
TypeOK == rec \in Records /\ op \in [Callers -> Ops]

SequentialRecord(r) ==
    \A g, h \in Gates :
        h < g /\ r.gate[g] = "done" /\ g \notin r.lateGate => r.gate[h] = "done"

CheckpointedRecord(r) == \A t \in Tasks : r.task[t] = "done" => Backed(r, t)

FinishedRecord(r) ==
    r.archived /\ ~r.lateArchive =>
        AllFinished(r) /\ \A g \in Gates : r.gate[g] = "done"

(***************************************************************************)
(* A done gate has only done gates before it, unless the call that         *)
(* completed it was overtaken, between its check and its commit, by a      *)
(* commit that took something back (a re-entry, a reopened task, a save of *)
(* an old record).  Concurrent completions alone never break the sequence. *)
(***************************************************************************)
SequenceUnlessOvertaken == SequentialRecord(rec)

(***************************************************************************)
(* A task that is done has its checkpoint, although adv_task_update may    *)
(* write "done" on a stale reading and a store save may bring back an old  *)
(* record - unless both happen to the same task in one call's window.      *)
(***************************************************************************)
DoneIsCheckpointed == CheckpointedRecord(rec)

(***************************************************************************)
(* An archived record has every gate done and every task finished, unless  *)
(* a commit took one back after the archive's preflight.                   *)
(***************************************************************************)
ArchivedIsFinished == FinishedRecord(rec)

(***************************************************************************)
(* A gate becomes done only on a record that meets its conditions when it  *)
(* is written, not just when it was read: every earlier gate is done and,  *)
(* for the execution gate, every task is finished.  Excepted are a late    *)
(* completion and a store save that brings back the gate of an old record. *)
(***************************************************************************)
Restores(g) ==
    \E c \in Callers :
        op[c].at = "bridgeSave" /\ op[c].snap.gate[g] = "done" /\ op'[c].at = "idle"

CompletionsAreChecked ==
    [][\A g \in Gates :
          rec.gate[g] # "done" /\ rec'.gate[g] = "done" /\ g \notin rec'.lateGate
          => \/ CanComplete(rec.gate, g) /\ (g = Execution => AllFinished(rec))
             \/ Restores(g)]_vars

(***************************************************************************)
(* What adv_gate_complete says of itself: "Enforces sequence - prior gates *)
(* must be complete first", "Prior gates must all be done".                *)
(***************************************************************************)
SequenceIsStrict ==
    \A g, h \in Gates : h < g /\ rec.gate[g] = "done" => rec.gate[h] = "done"
==============================================================================
