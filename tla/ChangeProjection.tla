-------------------------- MODULE ChangeProjection --------------------------
(***************************************************************************)
(* The conditional write transaction on one change.json:                   *)
(* commitChangeProjection of                                               *)
(* plugin/src/storage/change-projection-transaction.ts.                    *)
(*                                                                         *)
(* A call takes the per-change lock, re-reads the projection, passes the   *)
(* fences (replayed operation, expected revision, state revision,          *)
(* collection wipe), writes the mutated projection atomically, reads it    *)
(* back, runs the postcondition and the afterCommit hook and releases the  *)
(* lock.  Every await is a step of its own; between two of them any other  *)
(* caller may run, the file system may fail, or the process may crash.     *)
(*                                                                         *)
(* The lock is taken as an ideal one: exclusive, left behind by a crash    *)
(* and then reclaimed by a contender.  FileLock models what fs.ts really   *)
(* provides and when that is so.                                           *)
(***************************************************************************)
EXTENDS Integers, Sequences

CONSTANTS
    Clients,   \* concurrent callers (tools, in one or several processes)
    Requests,  \* the commits they may ask for
    Fields,    \* PROTECTED_COLLECTION_FIELDS
    NoOp,      \* "the caller gave no operationId"
    OpIds, Payloads,
    NoRequest, \* no call in progress
    Free,      \* the lock file does not exist
    Orphan,    \* the lock file of a crashed holder
    MaxAudit,  \* PROJECTION_COMMIT_MAX_AUDIT_ENTRIES (50)
    MaxWrites  \* bound: projections written in a behaviour

Undefined == -1

Effects == {"keep", "grow", "shrink", "clear"}

Request == [op : OpIds \union {NoOp}, payload : Payloads,
            expected : Nat \union {Undefined}, state : Nat \union {Undefined},
            effect : [Fields -> Effects], allow : SUBSET Fields,
            throws : BOOLEAN, verifies : BOOLEAN, normalizes : BOOLEAN]

ASSUME RequestsAssumption == Requests \subseteq Request
ASSUME LockAssumption == Free \notin Clients /\ Orphan \notin Clients /\ Free # Orphan
ASSUME MaxAuditAssumption == MaxAudit \in Nat \ {0}
ASSUME MaxWritesAssumption == MaxWrites \in Nat
ASSUME NoOpAssumption == NoOp \notin OpIds
ASSUME NoRequestAssumption == NoRequest \notin Requests

VARIABLES
    disk,     \* change.json
    lock,     \* change.json.lock: Free, Orphan or the client that holds it
    pc,       \* where each call stands
    req,      \* the call's request
    value,    \* the projection the call is about to write / has written
    outcome,  \* the kind of the result, once decided
    wrote,    \* auxiliary: this call's projection reached change.json
    acked     \* auxiliary: audit identities reported as committed

txVars == <<disk, lock, pc, req, value, outcome, wrote, acked>>

AuditEntry == [op : OpIds \union {NoOp}, payload : Payloads,
               state : Nat \union {Undefined}]

(***************************************************************************)
(* A projection document.  Of its contents the model keeps what the        *)
(* transaction looks at, the sizes of the protected collections, and log,  *)
(* the mutations it embodies in the order they were applied: mutateLatest  *)
(* derives the new document from the one it is given, so it extends log.   *)
(* A missing projection_revision or state_revision reads as 0.             *)
(***************************************************************************)
Doc == [present : BOOLEAN, schema : {"current", "legacy"}, rev : Nat,
        stateRev : Nat, commits : Seq(AuditEntry), coll : [Fields -> Nat],
        log : Seq(Requests)]

Outcomes == {"none", "committed", "idempotent", "committed_unverified",
             "stale_revision", "state_regression", "state_revision_conflict",
             "operation_conflict", "lock_timeout", "schema_error",
             "write_error", "operator_required", "exception"}

PC == {"idle", "acquire", "load", "write", "readback", "after", "release",
       "done"}

Audit(r) == [op |-> r.op, payload |-> r.payload, state |-> r.state]

-----------------------------------------------------------------------------
\* Mutant: the audit trail is cut one entry too short.
LastEntriesTooFew(s) ==
    IF Len(s) >= MaxAudit THEN SubSeq(s, Len(s) - MaxAudit + 2, Len(s)) ELSE s

\* projection_commits.slice(-PROJECTION_COMMIT_MAX_AUDIT_ENTRIES)
LastEntries(s) ==
    IF Len(s) > MaxAudit THEN SubSeq(s, Len(s) - MaxAudit + 1, Len(s)) ELSE s

\* Entries of the audit trail with the request's operation id; find() takes the first.
OpEntries(d, r) == {i \in 1 .. Len(d.commits) : d.commits[i].op = r.op}

First(T) == CHOOSE i \in T : \A j \in T : i <= j

Replayed(d, r) == r.op # NoOp /\ OpEntries(d, r) # {}

ReplayMatches(d, r) ==
    LET entry == d.commits[First(OpEntries(d, r))]
    IN  entry.payload = r.payload /\ entry.state = r.state

\* Mutant: the expected revision is not compared.
StaleRevisionIgnored(d, r) == FALSE

StaleRevision(d, r) == r.expected # Undefined /\ d.rev # r.expected

StateRegression(d, r) == r.state # Undefined /\ r.state < d.stateRev

\* The equal-state fence: this state revision was projected by another operation.
StateEntries(d, r) == {i \in 1 .. Len(d.commits) : d.commits[i].state = r.state}

StateConflict(d, r) ==
    /\ r.state # Undefined
    /\ r.state = d.stateRev
    /\ r.op # NoOp
    /\ StateEntries(d, r) # {}
    /\ LET entry == d.commits[First(StateEntries(d, r))]
       IN  entry.op # r.op \/ entry.payload # r.payload

\* Mutant: removing from an empty collection.
MutatedUnderflows(d, r) ==
    [f \in Fields |-> IF r.effect[f] = "shrink" THEN d.coll[f] - 1 ELSE d.coll[f]]

\* mutateLatest, by its effect on the sizes of the protected collections.
Mutated(d, r) ==
    [f \in Fields |->
        CASE r.effect[f] = "keep"   -> d.coll[f]
          [] r.effect[f] = "grow"   -> d.coll[f] + 1
          [] r.effect[f] = "shrink" -> IF d.coll[f] = 0 THEN 0 ELSE d.coll[f] - 1
          [] r.effect[f] = "clear"  -> 0]

\* Mutant: an emptied collection that is still there is let through.
WipesIgnoresEmptied(d, r) == FALSE

\* findCollectionWipe: a populated collection collapses to nothing, undeclared.
Wipes(d, r) ==
    \E f \in Fields \ r.allow : d.coll[f] > 0 /\ Mutated(d, r)[f] = 0

\* The early returns of the transaction, in their order; "write" passes them all.
Verdict(d, r) ==
    IF Replayed(d, r)
    THEN IF ReplayMatches(d, r) THEN "idempotent" ELSE "operation_conflict"
    ELSE IF StaleRevision(d, r) THEN "stale_revision"
    ELSE IF StateRegression(d, r) THEN "state_regression"
    ELSE IF StateConflict(d, r) THEN "state_revision_conflict"
    ELSE IF r.throws \/ Wipes(d, r) THEN "operator_required"
    ELSE "write"

\* Mutant: the projected state revision is not stored in the document.
NewValueForgetsState(d, r) ==
    [d EXCEPT !.schema = "current",
              !.rev = @ + 1,
              !.commits = LastEntries(Append(@, Audit(r))),
              !.coll = Mutated(d, r),
              !.log = Append(@, r)]

\* The document the transaction writes: revision, audit trail and state revision updated.
NewValue(d, r) ==
    [d EXCEPT !.schema = "current",
              !.rev = @ + 1,
              !.stateRev = IF r.state # Undefined THEN r.state ELSE @,
              !.commits = LastEntries(Append(@, Audit(r))),
              !.coll = Mutated(d, r),
              !.log = Append(@, r)]

(***************************************************************************)
(* The generic readback proof: the revision is the one written and the     *)
(* last audit entry carries this operation's identity.                     *)
(***************************************************************************)
ReadbackProves(d, v, r) ==
    /\ d.rev = v.rev
    /\ r.op # NoOp =>
          /\ d.commits # <<>>
          /\ LET last == d.commits[Len(d.commits)]
             IN  /\ last.op = r.op
                 /\ last.payload = r.payload
                 /\ r.state # Undefined => last.state = r.state
    /\ r.state # Undefined => d.stateRev = r.state

-----------------------------------------------------------------------------
NewDoc(schema) == [present |-> TRUE, schema |-> schema, rev |-> 0, stateRev |-> 0,
                   commits |-> <<>>, coll |-> [f \in Fields |-> 0], log |-> <<>>]

\* What value holds while no document has been computed.
Blank == NewDoc("current")

Init ==
    /\ \E s \in {"current", "legacy"} : disk = NewDoc(s)
    /\ lock = Free
    /\ pc = [c \in Clients |-> "idle"]
    /\ req = [c \in Clients |-> NoRequest]
    /\ value = [c \in Clients |-> Blank]
    /\ outcome = [c \in Clients |-> "none"]
    /\ wrote = [c \in Clients |-> FALSE]
    /\ acked = {}

\* The call returns without having taken the lock.
Return(c, kind) ==
    /\ pc' = [pc EXCEPT ![c] = "done"]
    /\ outcome' = [outcome EXCEPT ![c] = kind]

\* The result is decided; the finally block releases the lock before it is returned.
Finish(c, kind) ==
    /\ pc' = [pc EXCEPT ![c] = "release"]
    /\ outcome' = [outcome EXCEPT ![c] = kind]

\* A call is made on an existing change: it goes for the lock.
Begin(c, r) ==
    /\ pc[c] = "idle"
    /\ disk.present
    /\ req' = [req EXCEPT ![c] = r]
    /\ pc' = [pc EXCEPT ![c] = "acquire"]
    /\ UNCHANGED <<disk, lock, value, outcome, wrote, acked>>

\* access(changePath) fails: the change is not there.
BeginAbsent(c, r) ==
    /\ pc[c] = "idle"
    /\ ~disk.present
    /\ req' = [req EXCEPT ![c] = r]
    /\ Return(c, "operator_required")
    /\ UNCHANGED <<disk, lock, value, wrote, acked>>

\* Mutant: the call goes on without having obtained the lock.
AcquireRegardless(c) ==
    /\ pc[c] = "acquire"
    /\ lock' = c
    /\ pc' = [pc EXCEPT ![c] = "load"]
    /\ UNCHANGED <<disk, req, value, outcome, wrote, acked>>

\* acquireFileLock succeeds (the lock file lives in the change's directory).
Acquire(c) ==
    /\ pc[c] = "acquire"
    /\ disk.present
    /\ lock = Free
    /\ lock' = c
    /\ pc' = [pc EXCEPT ![c] = "load"]
    /\ UNCHANGED <<disk, req, value, outcome, wrote, acked>>

\* The lock of a crashed holder is stale: a contender removes it, then retries.
ReclaimLock(c) ==
    /\ pc[c] = "acquire"
    /\ lock = Orphan
    /\ lock' = Free
    /\ UNCHANGED <<disk, pc, req, value, outcome, wrote, acked>>

\* Mutant: the wait for the lock has no end.
LockTimeoutNever(c) == FALSE

\* acquireFileLock throws: the budget is spent.
LockTimeout(c) ==
    /\ pc[c] = "acquire"
    /\ Return(c, "lock_timeout")
    /\ UNCHANGED <<disk, lock, req, value, wrote, acked>>

\* loadChange inside the lock does not give a usable projection.
LoadRefused(c) ==
    /\ pc[c] = "load"
    /\ \/ ~disk.present /\ Finish(c, "operator_required")
       \/ disk.schema = "legacy" /\ ~req[c].normalizes /\ Finish(c, "schema_error")
    /\ UNCHANGED <<disk, lock, req, value, wrote, acked>>

\* Reading fails with an I/O error, or the normalized document does not validate.
LoadFails(c) ==
    /\ pc[c] = "load"
    /\ \/ Finish(c, "operator_required")
       \/ disk.schema = "legacy" /\ Finish(c, "schema_error")
    /\ UNCHANGED <<disk, lock, req, value, wrote, acked>>

(***************************************************************************)
(* The projection is read and, with no await in between, judged by every   *)
(* fence and mutated: either the call ends here or value is to be written. *)
(***************************************************************************)
LoadAndDecide(c) ==
    LET r == req[c]
        verdict == Verdict(disk, r)
    IN  /\ pc[c] = "load"
        /\ disk.present
        /\ disk.schema = "current" \/ r.normalizes
        /\ \/ /\ verdict = "write"
              /\ Len(disk.log) < MaxWrites
              /\ value' = [value EXCEPT ![c] = NewValue(disk, r)]
              /\ pc' = [pc EXCEPT ![c] = "write"]
              /\ UNCHANGED <<outcome, acked>>
           \/ /\ verdict # "write"
              /\ Finish(c, verdict)
              /\ acked' = IF verdict = "idempotent" THEN acked \union {Audit(r)} ELSE acked
              /\ UNCHANGED value
        /\ UNCHANGED <<disk, lock, req, wrote>>

\* atomicWriteFile: temp file, fsync, rename (creating the directory if it is gone).
Persist(c) ==
    /\ pc[c] = "write"
    /\ disk' = value[c]
    /\ wrote' = [wrote EXCEPT ![c] = TRUE]
    /\ pc' = [pc EXCEPT ![c] = "readback"]
    /\ UNCHANGED <<lock, req, value, outcome, acked>>

\* Mutant: a failed write is reported as an unverified commit.
PersistFailsAsUnverified(c) ==
    /\ pc[c] = "write"
    /\ Finish(c, "committed_unverified")
    /\ UNCHANGED <<disk, lock, req, value, wrote, acked>>

\* It fails before the rename ...
PersistFails(c) ==
    /\ pc[c] = "write"
    /\ Finish(c, "write_error")
    /\ UNCHANGED <<disk, lock, req, value, wrote, acked>>

\* ... or after it, in the fsync of the directory: the new projection is in place.
PersistFailsLate(c) ==
    /\ pc[c] = "write"
    /\ disk' = value[c]
    /\ wrote' = [wrote EXCEPT ![c] = TRUE]
    /\ Finish(c, "write_error")
    /\ UNCHANGED <<lock, req, value, acked>>

\* The readback does not load: an error result although the write happened.
ReadbackFails(c) ==
    /\ pc[c] = "readback"
    /\ \E kind \in {"operator_required", "schema_error"} : Finish(c, kind)
    /\ UNCHANGED <<disk, lock, req, value, wrote, acked>>

\* The readback proof, then the mutation's own postcondition.
Readback(c) ==
    LET r == req[c]
    IN  /\ pc[c] = "readback"
        /\ disk.present
        /\ IF ReadbackProves(disk, value[c], r) /\ r.verifies
           THEN pc' = [pc EXCEPT ![c] = "after"] /\ UNCHANGED outcome
           ELSE Finish(c, "committed_unverified")
        /\ UNCHANGED <<disk, lock, req, value, wrote, acked>>

\* The afterCommit hook succeeds: the commit is reported.
AfterCommit(c) ==
    /\ pc[c] = "after"
    /\ Finish(c, "committed")
    /\ acked' = acked \union {Audit(req[c])}
    /\ UNCHANGED <<disk, lock, req, value, wrote>>

AfterCommitFails(c) ==
    /\ pc[c] = "after"
    /\ Finish(c, "committed_unverified")
    /\ UNCHANGED <<disk, lock, req, value, wrote, acked>>

\* The postcondition or the hook throws: so does the transaction, after its finally block.
HookThrows(c) ==
    /\ pc[c] \in {"readback", "after"}
    /\ Finish(c, "exception")
    /\ UNCHANGED <<disk, lock, req, value, wrote, acked>>

\* The finally block: the lock file is unlinked.
Release(c) ==
    /\ pc[c] = "release"
    /\ lock' = Free
    /\ pc' = [pc EXCEPT ![c] = "done"]
    /\ UNCHANGED <<disk, req, value, outcome, wrote, acked>>

\* The call's locals go out of scope.
EndCall(c) ==
    /\ pc' = [pc EXCEPT ![c] = "idle"]
    /\ req' = [req EXCEPT ![c] = NoRequest]
    /\ value' = [value EXCEPT ![c] = Blank]
    /\ outcome' = [outcome EXCEPT ![c] = "none"]
    /\ wrote' = [wrote EXCEPT ![c] = FALSE]

\* The caller receives the result.
Receive(c) ==
    /\ pc[c] = "done"
    /\ EndCall(c)
    /\ UNCHANGED <<disk, lock, acked>>

\* The process dies; another takes its place, the lock file stays.
Crash(c) ==
    /\ pc[c] # "idle"
    /\ EndCall(c)
    /\ lock' = IF lock = c THEN Orphan ELSE lock
    /\ UNCHANGED <<disk, acked>>

\* What a call does on its own, from the lock to its result.
Advance(c) ==
    \/ Acquire(c) \/ ReclaimLock(c) \/ LockTimeout(c)
    \/ LoadRefused(c) \/ LoadFails(c) \/ LoadAndDecide(c)
    \/ Persist(c) \/ PersistFails(c) \/ PersistFailsLate(c)
    \/ ReadbackFails(c) \/ Readback(c)
    \/ AfterCommit(c) \/ AfterCommitFails(c) \/ HookThrows(c)
    \/ Release(c)

Next ==
    \E c \in Clients :
        \/ \E r \in Requests : Begin(c, r)
        \/ Advance(c) \/ Receive(c)
        \/ Crash(c)

Spec == Init /\ [][Next]_txVars

(***************************************************************************)
(* Awaits of a live process are resumed, so a call that was made keeps     *)
(* moving, and the lock wait has a time budget, so it cannot be lost to    *)
(* others for ever; nothing forces a call to be made.                      *)
(***************************************************************************)
FairSpec ==
    Spec /\ \A c \in Clients : WF_txVars(Advance(c) \/ Receive(c)) /\ WF_txVars(LockTimeout(c))

-----------------------------------------------------------------------------
TypeOK ==
    /\ disk \in Doc
    /\ lock \in Clients \union {Free, Orphan}
    /\ pc \in [Clients -> PC]
    /\ req \in [Clients -> Requests \union {NoRequest}]
    /\ \A c \in Clients : pc[c] # "idle" => req[c] \in Requests
    /\ value \in [Clients -> Doc]
    /\ outcome \in [Clients -> Outcomes]
    /\ wrote \in [Clients -> BOOLEAN]
    /\ acked \subseteq AuditEntry

(***************************************************************************)
(* "Concurrent disjoint mutations survive": a mutation whose commit was    *)
(* reported is part of the projection from then on, whatever other calls,  *)
(* failures and crashes happen around it.                                  *)
(***************************************************************************)
AckedSurvives ==
    \A a \in acked : \E i \in 1 .. Len(disk.log) : Audit(disk.log[i]) = a

\* projection_revision counts the mutations the document embodies, exactly once each.
RevisionCountsMutations == disk.rev = Len(disk.log)

(***************************************************************************)
(* A retried operation is not applied again: the same operationId can be   *)
(* in the projection twice only if more than MaxAudit mutations lie        *)
(* between, when its audit entry has been cut off.                         *)
(***************************************************************************)
AtMostOnceWhileRemembered ==
    \A i, j \in 1 .. Len(disk.log) :
        i < j /\ disk.log[i].op = disk.log[j].op /\ disk.log[i].op # NoOp
        => j - i > MaxAudit

(***************************************************************************)
(* Projected state revisions never go backwards, and one operation does    *)
(* not project the state revision another one projected while the audit    *)
(* trail remembers it.                                                     *)
(***************************************************************************)
StateRevisionsOrdered ==
    \A i, j \in 1 .. Len(disk.log) :
        i < j /\ disk.log[j].state # Undefined
        => /\ disk.log[i].state <= disk.log[j].state
           /\ disk.log[i].state = disk.log[j].state /\ disk.log[j].op # NoOp
              => j - i > MaxAudit

(***************************************************************************)
(* A result says truly whether this call changed change.json: a conflict,  *)
(* a replay or a lock timeout means it did not, committed and              *)
(* committed_unverified mean it did.  The other kinds promise neither:     *)
(* write_error, schema_error and operator_required are returned before and *)
(* after the write, and a hook throws after it.                            *)
(***************************************************************************)
OutcomesAreTruthful ==
    \A c \in Clients :
        /\ outcome[c] \in {"stale_revision", "state_regression",
                           "state_revision_conflict", "operation_conflict",
                           "lock_timeout", "idempotent"} => ~wrote[c]
        /\ outcome[c] \in {"committed", "committed_unverified"} => wrote[c]

(***************************************************************************)
(* No write empties a populated collection of the projection unless the    *)
(* call that writes it declared so.                                        *)
(***************************************************************************)
NoSilentWipe ==
    [][\A f \in Fields :
          disk.coll[f] > 0 /\ disk'.coll[f] = 0
          => \E c \in Clients : ~wrote[c] /\ wrote'[c] /\ f \in req[c].allow]_txVars

\* Every call of commitChangeProjection ends.
CallEnds == \A c \in Clients : pc[c] # "idle" ~> pc[c] = "idle"

(***************************************************************************)
(* The transaction implements the atomic mutation log: every fence a       *)
(* request passed inside the lock still holds when its write takes effect. *)
(***************************************************************************)
Abstract == INSTANCE MutationLog WITH log <- disk.log

ImplementsMutationLog == Abstract!AbstractSpec

(***************************************************************************)
(* The transaction uses its lock as a lock: it enters only with a free     *)
(* one, is alone between load and release, removes only its own, and on a  *)
(* crash leaves it behind.  With FileLock!ImplementsCrashLock this is what *)
(* joins the two models.                                                   *)
(***************************************************************************)
Inside == {c \in Clients : pc[c] \in {"load", "write", "readback", "after", "release"}}

LockState ==
    CASE lock = Free -> "free" [] lock = Orphan -> "orphan" [] OTHER -> "held"

Lock == INSTANCE CrashLock WITH
    Users <- Clients, state <- LockState, inside <- Inside, broken <- FALSE

ImplementsCrashLock == Lock!LockSpec
=============================================================================
