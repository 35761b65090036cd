---------------------------- MODULE MutationLog ----------------------------
(***************************************************************************)
(* What commitChangeProjection promises about one change, seen as an       *)
(* atomic object: the log of accepted mutations only grows, by one request *)
(* at a time, every fence of the request being judged against the log at   *)
(* the very moment it is appended, and a success is reported only for a    *)
(* mutation the log holds.                                                 *)
(***************************************************************************)
EXTENDS Integers, Sequences

CONSTANTS
    Requests,  \* records with (at least) op, payload, expected and state
    NoOp,      \* "the caller gave no operationId"
    MaxAudit   \* PROJECTION_COMMIT_MAX_AUDIT_ENTRIES

VARIABLES
    log,    \* accepted mutations, oldest first
    acked   \* identities of the mutations reported as committed

avars == <<log, acked>>

\* "the caller passed no revision"
Undefined == -1

\* What the audit trail keeps of a request.
Audit(r) == [op |-> r.op, payload |-> r.payload, state |-> r.state]

\* Positions of the last MaxAudit mutations: those the audit trail remembers.
Remembered == {i \in 1 .. Len(log) : i > Len(log) - MaxAudit}

AbstractInit == log = <<>> /\ acked = {}

(***************************************************************************)
(* A mutation is accepted: its operation id is not one the audit trail     *)
(* remembers, the revision it expects is the current one, its state        *)
(* revision is not behind any projected before, and is not one a           *)
(* remembered operation projected already.                                 *)
(***************************************************************************)
Accept(r) ==
    /\ r.op # NoOp => \A i \in Remembered : log[i].op # r.op
    /\ r.expected # Undefined => r.expected = Len(log)
    /\ r.state # Undefined => \A i \in 1 .. Len(log) : log[i].state <= r.state
    /\ r.state # Undefined /\ r.op # NoOp =>
           \A i \in Remembered : log[i].state # r.state
    /\ log' = Append(log, r)
    /\ UNCHANGED acked

\* A success is reported for a mutation in the log.
Acknowledge(r) ==
    /\ \E i \in 1 .. Len(log) : Audit(log[i]) = Audit(r)
    /\ acked' = acked \union {Audit(r)}
    /\ UNCHANGED log

AbstractNext == \E r \in Requests : Accept(r) \/ Acknowledge(r)

AbstractSpec == AbstractInit /\ [][AbstractNext]_avars
=============================================================================
