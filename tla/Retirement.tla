----------------------------- MODULE Retirement -----------------------------
(***************************************************************************)
(* Closing a change: the close handler of                                  *)
(* plugin/src/tools/change/handlers-lifecycle.ts commits status "closed"   *)
(* through the projection transaction and then calls retireClosedChange    *)
(* (plugin/src/storage/closed-bundle.ts), which copies the committed       *)
(* record to closed/<id>/, reads the copy back and removes changes/<id>/.  *)
(* The removal takes no lock and takes the lock file away with it.         *)
(***************************************************************************)
EXTENDS ChangeProjection

CONSTANTS
    Closing,    \* the requests that set status "closed"
    NoRecord    \* no document

ASSUME ClosingAssumption == Closing \subseteq Requests
ASSUME NoRecordAssumption == NoRecord \notin Doc

VARIABLES
    bundle,    \* closed/<id>/change.json, or NoRecord
    stage,     \* where each caller's retirement stands
    snapshot,  \* the committed record the caller is retiring
    late       \* auxiliary: mutations written on top of an already closed record

retVars == <<disk, lock, pc, req, value, outcome, wrote, acked,
             bundle, stage, snapshot, late>>

Stages == {"none", "copy", "prove", "remove"}

\* The record's status: mutations spread the latest record, so it stays closed.
IsClosed(d) == \E i \in 1 .. Len(d.log) : d.log[i] \in Closing

RetireInit ==
    /\ Init
    /\ bundle = NoRecord
    /\ stage = [c \in Clients |-> "none"]
    /\ snapshot = [c \in Clients |-> NoRecord]
    /\ late = {}

\* Mutant: the directory is removed without a durable copy.
StartRetireAtRemoval(c) ==
    /\ pc[c] = "done"
    /\ req[c] \in Closing
    /\ outcome[c] = "committed"
    /\ stage' = [stage EXCEPT ![c] = "remove"]
    /\ snapshot' = [snapshot EXCEPT ![c] = value[c]]
    /\ EndCall(c)
    /\ UNCHANGED <<disk, lock, acked, bundle, late>>

\* Mutant: the record handed over carries the closure only.
StartRetireClosureOnly(c) ==
    /\ pc[c] = "done"
    /\ req[c] \in Closing
    /\ outcome[c] = "committed"
    /\ stage' = [stage EXCEPT ![c] = "copy"]
    /\ snapshot' = [snapshot EXCEPT ![c] = [Blank EXCEPT !.log = <<req[c]>>]]
    /\ EndCall(c)
    /\ UNCHANGED <<disk, lock, acked, bundle, late>>

\* A verified close: retireClosedChange is called with the committed value.
StartRetire(c) ==
    /\ pc[c] = "done"
    /\ req[c] \in Closing
    /\ outcome[c] = "committed"
    /\ IsClosed(value[c])
    /\ stage' = [stage EXCEPT ![c] = "copy"]
    /\ snapshot' = [snapshot EXCEPT ![c] = value[c]]
    /\ EndCall(c)
    /\ UNCHANGED <<disk, lock, acked, bundle, late>>

\* Any other result is handed back.
Result(c) ==
    /\ ~(req[c] \in Closing /\ outcome[c] = "committed")
    /\ Receive(c)
    /\ UNCHANGED <<bundle, stage, snapshot, late>>

Moves(c, to) == stage' = [stage EXCEPT ![c] = to]

Drops(c) == snapshot' = [snapshot EXCEPT ![c] = NoRecord]

\* atomicWriteFile of the closed bundle.
CopyRecord(c) ==
    /\ stage[c] = "copy"
    /\ bundle' = snapshot[c]
    /\ Moves(c, "prove")
    /\ UNCHANGED <<txVars, snapshot, late>>

\* The bundle cannot be written, or not be read back: refused, nothing is removed.
RetireRefused(c) ==
    /\ stage[c] \in {"copy", "prove"}
    /\ Moves(c, "none")
    /\ Drops(c)
    /\ UNCHANGED <<txVars, bundle, late>>

\* The read-after-write proof: a record is there and it is a closed one.
ProveRecord(c) ==
    /\ stage[c] = "prove"
    /\ bundle # NoRecord
    /\ IsClosed(bundle)
    /\ Moves(c, "remove")
    /\ UNCHANGED <<txVars, bundle, snapshot, late>>

\* removeChangeDir: rm -r of the directory, change.json.lock included.
RemoveDir(c) ==
    /\ stage[c] = "remove"
    /\ disk' = [Blank EXCEPT !.present = FALSE]
    /\ lock' = Free
    /\ Moves(c, "none")
    /\ Drops(c)
    /\ UNCHANGED <<pc, req, value, outcome, wrote, acked, bundle, late>>

\* The removal fails: a cleanup warning, the directory stays.
RemoveDirFails(c) ==
    /\ stage[c] = "remove"
    /\ Moves(c, "none")
    /\ Drops(c)
    /\ UNCHANGED <<txVars, bundle, late>>

\* The process dies during a retirement.
RetireCrash(c) ==
    /\ stage[c] # "none"
    /\ Moves(c, "none")
    /\ Drops(c)
    /\ UNCHANGED <<txVars, bundle, late>>

\* A transaction step, with the mutations that reach an already closed record noted.
Transact(c) ==
    /\ stage[c] = "none"
    /\ \/ \E r \in Requests : Begin(c, r) \/ BeginAbsent(c, r)
       \/ Advance(c)
       \/ Crash(c)
    /\ late' = IF pc[c] = "write" /\ wrote'[c] /\ (bundle # NoRecord \/ IsClosed(disk))
               THEN late \union {Audit(req[c])} ELSE late
    /\ UNCHANGED <<bundle, stage, snapshot>>

RetireNext ==
    \E c \in Clients :
        \/ Transact(c) \/ Result(c) \/ StartRetire(c)
        \/ CopyRecord(c) \/ RetireRefused(c) \/ ProveRecord(c)
        \/ RemoveDir(c) \/ RemoveDirFails(c) \/ RetireCrash(c)

RetireSpec == RetireInit /\ [][RetireNext]_retVars

-----------------------------------------------------------------------------
RetireTypeOK ==
    /\ TypeOK
    /\ bundle \in Doc \union {NoRecord}
    /\ stage \in [Clients -> Stages]
    /\ snapshot \in [Clients -> Doc \union {NoRecord}]
    /\ late \subseteq AuditEntry

(***************************************************************************)
(* "No cleanup may run while it can destroy the only copy of a record": at *)
(* every moment, crashes included, the change is readable in changes/ or   *)
(* as a closed record in closed/.                                          *)
(***************************************************************************)
RecordNeverLost ==
    disk.present \/ (bundle # NoRecord /\ IsClosed(bundle))

Holds(d, a) == \E i \in 1 .. Len(d.log) : Audit(d.log[i]) = a

(***************************************************************************)
(* Everything reported as committed before the close is still there once   *)
(* the directory has been removed.                                         *)
(***************************************************************************)
AckedBeforeCloseSurvives ==
    \A a \in acked :
        \/ disk.present /\ Holds(disk, a)
        \/ bundle # NoRecord /\ Holds(bundle, a)
        \/ a \in late

(***************************************************************************)
(* The same without the exception: a commit reported while a close is      *)
(* retiring the change is not destroyed with the directory.                *)
(***************************************************************************)
AckedSurvivesRetirement ==
    \A a \in acked :
        \/ disk.present /\ Holds(disk, a)
        \/ bundle # NoRecord /\ Holds(bundle, a)

(***************************************************************************)
(* Closing a change disturbs its transactions only once there is a closed  *)
(* copy: as long as closed/<id>/ does not exist, the record is the atomic  *)
(* mutation log ChangeProjection implements, with closes among its         *)
(* mutations and retirements refused, crashed or under way.                *)
(***************************************************************************)
LogUntilCopied ==
    [][bundle' = NoRecord => [Abstract!AbstractNext]_(Abstract!avars)]_retVars
=============================================================================
