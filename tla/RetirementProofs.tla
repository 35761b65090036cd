-------------------------- MODULE RetirementProofs --------------------------
(***************************************************************************)
(* No retirement loses the record of a change, for every number of callers *)
(* and every set of requests.  Once the directory is removed the lock file *)
(* is gone with it, so the invariant of the transaction does not hold any  *)
(* more.  What takes its place is P, the mutations the record embodied up  *)
(* to and with its first close: before the close the lock still protects   *)
(* them, and every document made afterwards - on disk, about to be         *)
(* written, being copied, in the bundle - holds all of P.                  *)
(*                                                                         *)
(* At the end, the other writer without the lock: what the saves of the    *)
(* disk store leave of the transaction's promises.                         *)
(***************************************************************************)
EXTENDS Retirement, DiskStore, ChangeProjectionProofs

\* The mutations a document embodies.
Entries(d) == {d.log[i] : i \in 1 .. Len(d.log)}

\* The change has been closed.
Frozen(P) == P \intersect Closing # {}

\* All of s beyond P was written after the close.
LateBeyond(s, P) == \A r \in s \ P : Audit(r) \in late

DiskFits(P) ==
    /\ TrailMirrorsLog(disk)
    /\ disk.present => P \subseteq Entries(disk) /\ LateBeyond(Entries(disk), P)
    /\ ~Frozen(P) => disk.present /\ P = Entries(disk)

BundleFits(P) ==
    /\ bundle # NoRecord => Frozen(P) /\ P \subseteq Entries(bundle)
    /\ disk.present \/ bundle # NoRecord

AckedFits(P) == \A a \in acked : a \in late \/ \E r \in P : Audit(r) = a

\* A document that is about to be written ...
WriteFits(c, P) ==
    pc[c] = "write" =>
        /\ TrailMirrorsLog(value[c]) /\ value[c].present
        /\ req[c] \in Entries(value[c]) /\ P \subseteq Entries(value[c])
        /\ LateBeyond(Entries(value[c]) \ {req[c]}, P)

\* ... and one that was.
WrittenFits(c, P) ==
    /\ pc[c] \in {"readback", "after"} => req[c] \in P \/ Audit(req[c]) \in late
    /\ pc[c] \in {"idle", "acquire", "load", "write"} => outcome[c] # "committed"
    /\ (pc[c] \in {"readback", "after"} \/ outcome[c] = "committed")
          /\ IsClosed(value[c]) => Frozen(P) /\ P \subseteq Entries(value[c])

RetiringFits(c, P) ==
    /\ stage[c] # "none" =>
          snapshot[c] \in Doc /\ Frozen(P) /\ P \subseteq Entries(snapshot[c])
    /\ stage[c] = "remove" => bundle # NoRecord

\* Until the close the lock is what the transaction takes it for.
LockFits(c, P) == ~Frozen(P) /\ pc[c] \in Locked => lock = c

CallerFits(c, P) ==
    WriteFits(c, P) /\ WrittenFits(c, P) /\ RetiringFits(c, P) /\ LockFits(c, P)

Fits(P) ==
    /\ RetireTypeOK
    /\ DiskFits(P) /\ BundleFits(P) /\ AckedFits(P)
    /\ \A c \in Clients : CallerFits(c, P)

IInv == \E P \in SUBSET Requests : Fits(P)

-----------------------------------------------------------------------------
LEMMA ClosedEntries == ASSUME NEW d PROVE IsClosed(d) <=> Entries(d) \intersect Closing # {}
  BY DEF IsClosed, Entries

LEMMA EntriesType == ASSUME NEW d \in Doc PROVE Entries(d) \subseteq Requests
  <1>1. d.log \in Seq(Requests)
    BY DEF Doc
  <1> QED
    BY <1>1, ElementOfSeq DEF Entries

\* NewValue adds the request to what the document embodies.
LEMMA NewEntries ==
    ASSUME NEW d \in Doc, NEW r \in Requests
    PROVE  Entries(NewValue(d, r)) = Entries(d) \union {r}
  <1> DEFINE n == Len(d.log)
             l == Append(d.log, r)
  <1>1. NewValue(d, r).log = l
    BY NewValueFields
  <1>2. /\ n \in Nat /\ Len(l) = n + 1 /\ l[n + 1] = r
        /\ \A i \in 1 .. n : l[i] = d.log[i]
    BY AppendedLog
  <1>3. Entries(NewValue(d, r)) = {l[i] : i \in 1 .. n + 1}
    BY <1>1, <1>2 DEF Entries
  <1>4. Entries(d) = {d.log[i] : i \in 1 .. n}
    BY DEF Entries
  <1> HIDE DEF n, l
  <1>5. 1 .. n + 1 = 1 .. n \union {n + 1}
    BY <1>2
  <1> QED
    BY <1>2, <1>3, <1>4, <1>5

\* A new document, and the one that stands for the removed directory.
LEMMA EmptyEntries ==
    /\ \A t \in {"current", "legacy"} :
          /\ NewDoc(t) \in Doc /\ TrailMirrorsLog(NewDoc(t)) /\ NewDoc(t).present
          /\ Entries(NewDoc(t)) = {}
    /\ Blank \in Doc /\ Entries(Blank) = {}
    /\ LET gone == [Blank EXCEPT !.present = FALSE] IN
          gone \in Doc /\ TrailMirrorsLog(gone) /\ ~gone.present
  <1>1. ASSUME NEW t \in {"current", "legacy"}
        PROVE  /\ NewDoc(t) \in Doc /\ TrailMirrorsLog(NewDoc(t)) /\ NewDoc(t).present
               /\ Entries(NewDoc(t)) = {}
    BY NewDocGood DEF GoodDoc, Entries
  <1>2. Blank \in Doc /\ Entries(Blank) = {} /\ TrailMirrorsLog(Blank)
    BY <1>1 DEF Blank
  <1>3. LET gone == [Blank EXCEPT !.present = FALSE] IN
          /\ gone \in Doc /\ ~gone.present
          /\ gone.log = Blank.log /\ gone.commits = Blank.commits
    BY <1>2 DEF Doc
  <1> QED
    BY <1>1, <1>2, <1>3 DEF TrailMirrorsLog

LEMMA Initially == RetireInit => IInv
  <1> SUFFICES ASSUME RetireInit PROVE Fits({})
    BY DEF IInv
  <1>1. Init
    BY DEF RetireInit
  <1>2. RetireTypeOK
    BY <1>1, InitTxInv DEF RetireTypeOK, RetireInit, TxInv, Stages
  <1>3. DiskFits({}) /\ BundleFits({})
    BY <1>1, EmptyEntries DEF RetireInit, Init, DiskFits, BundleFits, LateBeyond, Frozen
  <1>4. AckedFits({})
    BY <1>1 DEF AckedFits, Init
  <1>5. ASSUME NEW c \in Clients PROVE CallerFits(c, {})
    <2>1. pc[c] = "idle" /\ outcome[c] = "none" /\ stage[c] = "none"
      BY <1>1 DEF RetireInit, Init
    <2> QED
      BY <2>1 DEF CallerFits, WriteFits, WrittenFits, RetiringFits, LockFits, Locked
  <1> QED
    BY <1>2, <1>3, <1>4, <1>5 DEF Fits

-----------------------------------------------------------------------------
\* A step of c's that leaves disk and bundle, and everything of the others, alone.
Alone(c) ==
    \A e \in Clients \ {c} :
        /\ pc'[e] = pc[e] /\ req'[e] = req[e] /\ value'[e] = value[e]
        /\ outcome'[e] = outcome[e] /\ stage'[e] = stage[e]
        /\ snapshot'[e] = snapshot[e]

\* What the others rely on is still there.
LEMMA OthersFit ==
    ASSUME NEW P, Fits(P), NEW c \in Clients, NEW e \in Clients \ {c}, Alone(c),
           late \subseteq late', bundle' = bundle \/ bundle' # NoRecord,
           Frozen(P) \/ (lock = e => lock' = e)
    PROVE  CallerFits(e, P)'
  <1>1. /\ pc'[e] = pc[e] /\ req'[e] = req[e] /\ value'[e] = value[e]
        /\ outcome'[e] = outcome[e] /\ stage'[e] = stage[e]
        /\ snapshot'[e] = snapshot[e]
    BY DEF Alone
  <1>2. CallerFits(e, P)
    BY DEF Fits
  <1>3. WriteFits(e, P)'
    BY <1>1, <1>2 DEF CallerFits, WriteFits, LateBeyond
  <1>4. WrittenFits(e, P)'
    BY <1>1, <1>2 DEF CallerFits, WrittenFits
  <1>5. RetiringFits(e, P)'
    BY <1>1, <1>2 DEF CallerFits, RetiringFits
  <1>6. LockFits(e, P)'
    BY <1>1, <1>2 DEF CallerFits, LockFits
  <1> QED
    BY <1>3, <1>4, <1>5, <1>6 DEF CallerFits

\* A step that writes neither the record nor the bundle.
LEMMA Quiet ==
    ASSUME NEW P, Fits(P), NEW c \in Clients, Alone(c), RetireTypeOK',
           UNCHANGED <<disk, bundle>>, late \subseteq late',
           Frozen(P) \/ \A e \in Clients \ {c} : lock = e => lock' = e,
           \A a \in acked' \ acked : a \in late \/ \E r \in P : Audit(r) = a,
           CallerFits(c, P)'
    PROVE  Fits(P)'
  <1>1. DiskFits(P)' /\ BundleFits(P)'
    BY DEF Fits, DiskFits, BundleFits, LateBeyond
  <1>2. AckedFits(P)'
    BY DEF Fits, AckedFits
  <1>3. \A e \in Clients : CallerFits(e, P)'
    BY OthersFit
  <1> QED
    BY <1>1, <1>2, <1>3 DEF Fits

-----------------------------------------------------------------------------
(* The steps of the transaction *)

\* What Transact adds to a step of the transaction.
Noted(c) ==
    /\ late' = IF pc[c] = "write" /\ wrote'[c] /\ (bundle # NoRecord \/ IsClosed(disk))
               THEN late \union {Audit(req[c])} ELSE late
    /\ UNCHANGED <<bundle, stage, snapshot>>

\* The types, of the retirement's own variables too.
LEMMA TransactType ==
    ASSUME RetireTypeOK, NEW c \in Clients, Transact(c)
    PROVE  RetireTypeOK' /\ late \subseteq late' /\ Noted(c) /\ stage[c] = "none"
  <1>1. Noted(c) /\ stage[c] = "none"
    BY DEF Transact, Noted
  <1>2. pc[c] = "write" => Audit(req[c]) \in AuditEntry
    <2>1. pc[c] = "write" => req[c] \in Request
      BY RequestsAssumption DEF RetireTypeOK, TypeOK
    <2> QED
      BY <2>1 DEF Audit, AuditEntry, Request
  <1>3. late \subseteq late' /\ late' \subseteq AuditEntry
    BY <1>1, <1>2 DEF Noted, RetireTypeOK
  <1>4. TypeOK'
    <2>1. CASE \E r \in Requests : BeginAbsent(c, r)
      BY <2>1 DEF RetireTypeOK, TypeOK, BeginAbsent, Return, PC, Outcomes
    <2>2. CASE ~\E r \in Requests : BeginAbsent(c, r)
      <3>1. Next
        BY <2>2 DEF Transact, Next
      <3> QED
        BY <3>1, NextType DEF RetireTypeOK
    <2> QED
      BY <2>1, <2>2
  <1> QED
    BY <1>1, <1>3, <1>4 DEF Noted, RetireTypeOK

\* Steps before the lock is taken.
LEMMA Beginning ==
    ASSUME NEW P, Fits(P), NEW c \in Clients, NEW r \in Requests, Transact(c),
           Begin(c, r) \/ BeginAbsent(c, r)
    PROVE  Fits(P)'
  <1>1. /\ RetireTypeOK /\ RetireTypeOK' /\ late \subseteq late' /\ Noted(c)
        /\ stage[c] = "none" /\ CallerFits(c, P)
    BY TransactType DEF Fits
  <1>2. /\ pc[c] = "idle" /\ pc'[c] \in {"acquire", "done"} /\ outcome'[c] # "committed"
        /\ Alone(c) /\ UNCHANGED <<disk, lock, acked, bundle>> /\ stage'[c] = "none"
    BY <1>1 DEF Begin, BeginAbsent, Return, RetireTypeOK, TypeOK, Alone, Noted,
                CallerFits, WrittenFits
  <1>3. CallerFits(c, P)'
    BY <1>2 DEF CallerFits, WriteFits, WrittenFits, RetiringFits, LockFits, Locked
  <1> QED
    BY <1>1, <1>2, <1>3, Quiet

LEMMA Locking ==
    ASSUME NEW P, Fits(P), NEW c \in Clients, Transact(c),
           Acquire(c) \/ ReclaimLock(c) \/ LockTimeout(c)
    PROVE  Fits(P)'
  <1>1. /\ RetireTypeOK /\ RetireTypeOK' /\ late \subseteq late' /\ Noted(c)
        /\ stage[c] = "none" /\ CallerFits(c, P)
    BY TransactType DEF Fits
  <1>2. /\ Alone(c) /\ UNCHANGED <<disk, acked, bundle>> /\ stage'[c] = "none"
        /\ outcome'[c] # "committed"
        /\ \/ pc'[c] = "load" /\ lock' = c
           \/ pc'[c] \in {"acquire", "done"}
        /\ \A e \in Clients \ {c} : lock = e => lock' = e
    BY <1>1, LockAssumption DEF Acquire, ReclaimLock, LockTimeout, Return, RetireTypeOK,
          TypeOK, Alone, Noted, CallerFits, WrittenFits
  <1>3. CallerFits(c, P)'
    BY <1>2 DEF CallerFits, WriteFits, WrittenFits, RetiringFits, LockFits, Locked
  <1> QED
    BY <1>1, <1>2, <1>3, Quiet

\* The steps under the lock that decide a result other than "committed".
LEMMA Refusing ==
    ASSUME NEW P, Fits(P), NEW c \in Clients, NEW kind \in Outcomes \ {"committed"},
           Transact(c), Finish(c, kind), pc[c] \in Locked, UNCHANGED <<disk, lock>>,
           Alone(c),
           \A a \in acked' \ acked : a \in late \/ \E r \in P : Audit(r) = a
    PROVE  Fits(P)'
  <1>1. /\ RetireTypeOK /\ RetireTypeOK' /\ late \subseteq late' /\ Noted(c)
        /\ stage[c] = "none" /\ CallerFits(c, P)
    BY TransactType DEF Fits
  <1>2. /\ UNCHANGED bundle /\ stage'[c] = "none"
        /\ pc'[c] = "release" /\ outcome'[c] # "committed"
    BY <1>1 DEF Finish, RetireTypeOK, TypeOK, Noted
  <1>3. CallerFits(c, P)'
    BY <1>1, <1>2 DEF CallerFits, WriteFits, WrittenFits, RetiringFits, LockFits, Locked
  <1> QED
    BY <1>1, <1>2, <1>3, Quiet

LEMMA Ending ==
    ASSUME NEW P, Fits(P), NEW c \in Clients, Transact(c),
           \/ LoadRefused(c) \/ LoadFails(c) \/ PersistFails(c) \/ ReadbackFails(c)
           \/ AfterCommitFails(c) \/ HookThrows(c)
    PROVE  Fits(P)'
  <1>1. RetireTypeOK /\ Noted(c)
    BY TransactType DEF Fits
  <1>2. /\ UNCHANGED <<disk, lock, req, value, acked>> /\ pc[c] \in Locked
        /\ \E kind \in Outcomes \ {"committed"} : Finish(c, kind)
    BY DEF LoadRefused, LoadFails, PersistFails, ReadbackFails, AfterCommitFails,
           HookThrows, Locked, Outcomes
  <1>3. PICK kind \in Outcomes \ {"committed"} : Finish(c, kind)
    BY <1>2
  <1>4. Alone(c)
    BY <1>1, <1>2, <1>3 DEF Finish, Alone, Noted, RetireTypeOK, TypeOK
  <1> QED
    BY <1>2, <1>3, <1>4, Refusing

\* The record read under the lock is judged; a replay is acknowledged again.
LEMMA Deciding ==
    ASSUME NEW P, Fits(P), NEW c \in Clients, Transact(c), LoadAndDecide(c),
           Verdict(disk, req[c]) # "write"
    PROVE  Fits(P)'
  <1> DEFINE verdict == Verdict(disk, req[c])
  <1>1. /\ RetireTypeOK /\ Noted(c) /\ disk \in Doc /\ req[c] \in Requests
        /\ disk.present /\ pc[c] = "load" /\ TrailMirrorsLog(disk)
    BY TransactType DEF Fits, LoadAndDecide, RetireTypeOK, TypeOK, DiskFits
  <1>2. verdict \in Outcomes \ {"committed"}
    BY DEF Verdict, Outcomes
  <1>3. /\ Finish(c, verdict) /\ UNCHANGED <<disk, lock, req, value>>
        /\ acked' = IF verdict = "idempotent" THEN acked \union {Audit(req[c])} ELSE acked
    BY DEF LoadAndDecide
  <1>4. verdict = "idempotent" => \E r \in Entries(disk) : Audit(r) = Audit(req[c])
    BY <1>1, ReplayIsInLog DEF Verdict, Entries
  <1>5. \A a \in acked' \ acked : a \in late \/ \E r \in P : Audit(r) = a
    BY <1>1, <1>3, <1>4 DEF Fits, DiskFits, LateBeyond
  <1>6. Alone(c)
    BY <1>1, <1>3 DEF Finish, Alone, Noted, RetireTypeOK, TypeOK
  <1> QED
    BY <1>1, <1>2, <1>3, <1>5, <1>6, Refusing DEF Locked

\* ... or mutated: the new document holds what the one read holds.
LEMMA Mutating ==
    ASSUME NEW P, Fits(P), NEW c \in Clients, Transact(c), LoadAndDecide(c),
           Verdict(disk, req[c]) = "write"
    PROVE  Fits(P)'
  <1> DEFINE new == NewValue(disk, req[c])
  <1>1. /\ RetireTypeOK /\ RetireTypeOK' /\ late \subseteq late' /\ Noted(c)
        /\ stage[c] = "none" /\ CallerFits(c, P) /\ disk \in Doc /\ req[c] \in Requests
        /\ disk.present /\ pc[c] = "load" /\ DiskFits(P)
    BY TransactType DEF Fits, LoadAndDecide, RetireTypeOK, TypeOK
  <1>2. /\ value' = [value EXCEPT ![c] = new] /\ pc' = [pc EXCEPT ![c] = "write"]
        /\ UNCHANGED <<disk, lock, req, outcome, acked>>
    BY DEF LoadAndDecide
  <1>3. /\ TrailMirrorsLog(new) /\ new.present
        /\ Entries(new) = Entries(disk) \union {req[c]}
    BY <1>1, NewTrail, NewValueFields, NewEntries DEF DiskFits
  <1> HIDE DEF new
  <1>4. /\ value'[c] = new /\ pc'[c] = "write" /\ stage'[c] = "none" /\ Alone(c)
        /\ UNCHANGED bundle
    BY <1>1, <1>2 DEF Alone, Noted, RetireTypeOK, TypeOK
  <1>5. WriteFits(c, P)'
    BY <1>1, <1>2, <1>3, <1>4 DEF WriteFits, DiskFits, LateBeyond
  <1>6. WrittenFits(c, P)' /\ RetiringFits(c, P)' /\ LockFits(c, P)'
    BY <1>1, <1>2, <1>4 DEF CallerFits, WrittenFits, RetiringFits, LockFits, Locked
  <1> QED
    BY <1>1, <1>2, <1>4, <1>5, <1>6, Quiet DEF CallerFits

LEMMA Reading ==
    ASSUME NEW P, Fits(P), NEW c \in Clients, Transact(c), Readback(c)
    PROVE  Fits(P)'
  <1>1. /\ RetireTypeOK /\ RetireTypeOK' /\ late \subseteq late' /\ Noted(c)
        /\ stage[c] = "none" /\ CallerFits(c, P)
        /\ pc[c] = "readback" /\ UNCHANGED <<disk, lock, req, value, acked>>
    BY TransactType DEF Fits, Readback
  <1>2. CASE pc' = [pc EXCEPT ![c] = "after"] /\ UNCHANGED outcome
    <2>1. /\ pc'[c] = "after" /\ stage'[c] = "none" /\ Alone(c) /\ UNCHANGED bundle
      BY <1>1, <1>2 DEF Alone, Noted, RetireTypeOK, TypeOK
    <2>2. CallerFits(c, P)'
      BY <1>1, <1>2, <2>1
         DEF CallerFits, WriteFits, WrittenFits, RetiringFits, LockFits, Locked
    <2> QED
      BY <1>1, <2>1, <2>2, Quiet
  <1>3. CASE Finish(c, "committed_unverified")
    <2>1. Alone(c)
      BY <1>1, <1>3 DEF Finish, Alone, Noted, RetireTypeOK, TypeOK
    <2> QED
      BY <1>1, <1>3, <2>1, Refusing DEF Locked, Outcomes
  <1> QED
    BY <1>2, <1>3 DEF Readback

\* The commit is reported: its mutation is in P, or late.
LEMMA Reporting ==
    ASSUME NEW P, Fits(P), NEW c \in Clients, Transact(c), AfterCommit(c)
    PROVE  Fits(P)'
  <1>1. /\ RetireTypeOK /\ RetireTypeOK' /\ late \subseteq late' /\ Noted(c)
        /\ stage[c] = "none" /\ CallerFits(c, P)
        /\ pc[c] = "after" /\ UNCHANGED <<disk, lock, req, value>>
        /\ acked' = acked \union {Audit(req[c])}
    BY TransactType DEF Fits, AfterCommit
  <1>2. /\ pc'[c] = "release" /\ stage'[c] = "none" /\ Alone(c) /\ UNCHANGED bundle
    BY <1>1 DEF AfterCommit, Finish, Alone, Noted, RetireTypeOK, TypeOK
  <1>3. CallerFits(c, P)'
    BY <1>1, <1>2 DEF CallerFits, WriteFits, WrittenFits, RetiringFits, LockFits, Locked
  <1>4. \A a \in acked' \ acked : a \in late \/ \E r \in P : Audit(r) = a
    BY <1>1 DEF CallerFits, WrittenFits
  <1> QED
    BY <1>1, <1>2, <1>3, <1>4, Quiet

LEMMA Releasing ==
    ASSUME NEW P, Fits(P), NEW c \in Clients, Transact(c), Release(c)
    PROVE  Fits(P)'
  <1>1. /\ RetireTypeOK /\ RetireTypeOK' /\ late \subseteq late' /\ Noted(c)
        /\ stage[c] = "none" /\ CallerFits(c, P)
        /\ pc[c] = "release" /\ UNCHANGED <<disk, req, value, outcome, acked>>
    BY TransactType DEF Fits, Release
  <1>2. /\ pc'[c] = "done" /\ stage'[c] = "none" /\ Alone(c) /\ UNCHANGED bundle
    BY <1>1 DEF Release, Alone, Noted, RetireTypeOK, TypeOK
  <1>3. Frozen(P) \/ lock = c
    BY <1>1 DEF CallerFits, LockFits, Locked
  <1>4. CallerFits(c, P)'
    BY <1>1, <1>2 DEF CallerFits, WriteFits, WrittenFits, RetiringFits, LockFits, Locked
  <1> QED
    BY <1>1, <1>2, <1>3, <1>4, Quiet

\* A call ends, by its result or by a crash.
LEMMA Returning ==
    ASSUME NEW P, Fits(P), NEW c \in Clients, RetireTypeOK', EndCall(c),
           UNCHANGED <<disk, acked, bundle>>, late \subseteq late', Alone(c),
           lock' = lock \/ lock = c, RetiringFits(c, P)'
    PROVE  Fits(P)'
  <1>1. pc'[c] = "idle" /\ outcome'[c] = "none"
    BY DEF EndCall, Fits, RetireTypeOK, TypeOK
  <1>2. CallerFits(c, P)'
    BY <1>1 DEF CallerFits, WriteFits, WrittenFits, LockFits, Locked
  <1> QED
    BY <1>2, Quiet

LEMMA Crashing ==
    ASSUME NEW P, Fits(P), NEW c \in Clients, Transact(c), Crash(c)
    PROVE  Fits(P)'
  <1>1. /\ RetireTypeOK /\ RetireTypeOK' /\ late \subseteq late' /\ Noted(c)
        /\ stage[c] = "none"
    BY TransactType DEF Fits
  <1>2. /\ EndCall(c) /\ UNCHANGED <<disk, acked, bundle>> /\ stage'[c] = "none"
        /\ lock' = lock \/ lock = c
    BY <1>1 DEF Crash, Noted
  <1>3. Alone(c)
    BY <1>1, <1>2 DEF EndCall, Alone, Noted, RetireTypeOK, TypeOK
  <1> QED
    BY <1>1, <1>2, <1>3, Returning DEF RetiringFits

(***************************************************************************)
(* The record is written.  After the close P stays and the mutation is     *)
(* late; before it P becomes what the new record embodies, and the lock    *)
(* has kept every other caller out.                                        *)
(***************************************************************************)
LEMMA Writing ==
    ASSUME NEW P \in SUBSET Requests, Fits(P), NEW c \in Clients, Transact(c),
           Persist(c) \/ PersistFailsLate(c)
    PROVE  \E Q \in SUBSET Requests : Fits(Q)'
  <1>1. /\ RetireTypeOK /\ RetireTypeOK' /\ late \subseteq late' /\ Noted(c)
        /\ stage[c] = "none" /\ CallerFits(c, P) /\ value[c] \in Doc
        /\ pc[c] = "write" /\ disk' = value[c] /\ UNCHANGED <<lock, req, value, acked>>
    BY TransactType DEF Fits, Persist, PersistFailsLate, RetireTypeOK, TypeOK
  <1>2. /\ pc'[c] \in {"readback", "release"} /\ wrote'[c] /\ outcome'[c] # "committed"
        /\ stage'[c] = "none" /\ Alone(c) /\ UNCHANGED bundle
    BY <1>1 DEF Persist, PersistFailsLate, Finish, Alone, Noted, RetireTypeOK, TypeOK,
                CallerFits, WrittenFits
  <1>3. /\ TrailMirrorsLog(value[c]) /\ value[c].present
        /\ req[c] \in Entries(value[c]) /\ P \subseteq Entries(value[c])
        /\ LateBeyond(Entries(value[c]) \ {req[c]}, P)
    BY <1>1 DEF CallerFits, WriteFits
  <1>4. CASE Frozen(P)
    <2>1. bundle # NoRecord \/ IsClosed(disk)
      BY <1>4, ClosedEntries DEF Fits, DiskFits, BundleFits, Frozen
    <2>2. Audit(req[c]) \in late'
      BY <1>1, <1>2, <2>1 DEF Noted
    <2>3. DiskFits(P)'
      BY <1>1, <1>3, <1>4, <2>2 DEF DiskFits, LateBeyond, Frozen
    <2>4. BundleFits(P)' /\ AckedFits(P)'
      BY <1>1, <1>2, <1>3 DEF Fits, BundleFits, AckedFits, Frozen
    <2>5. CallerFits(c, P)'
      BY <1>1, <1>2, <1>3, <1>4, <2>2
         DEF CallerFits, WriteFits, WrittenFits, RetiringFits, LockFits, Frozen
    <2>6. \A e \in Clients : CallerFits(e, P)'
      BY <1>1, <1>2, <2>5, OthersFit
    <2> QED
      BY <1>1, <2>3, <2>4, <2>6 DEF Fits
  <1>5. CASE ~Frozen(P)
    <2>1. PICK Q \in SUBSET Requests : Q = Entries(value[c])
      BY <1>1, EntriesType
    <2>2. bundle = NoRecord /\ lock = c
      BY <1>1, <1>5 DEF Fits, BundleFits, CallerFits, LockFits, Locked
    <2>3. DiskFits(Q)'
      BY <1>1, <1>3, <2>1 DEF DiskFits, LateBeyond
    <2>4. BundleFits(Q)'
      BY <1>1, <1>2, <1>3, <2>2 DEF BundleFits
    <2>5. AckedFits(Q)'
      BY <1>1, <1>3, <2>1 DEF Fits, AckedFits
    <2>6. CallerFits(c, Q)'
      <3>1. IsClosed(value[c]) <=> Frozen(Q)
        BY <2>1, ClosedEntries DEF Frozen
      <3>2. WriteFits(c, Q)' /\ RetiringFits(c, Q)' /\ LockFits(c, Q)'
        BY <1>1, <1>2, <2>2 DEF WriteFits, RetiringFits, LockFits
      <3>3. WrittenFits(c, Q)'
        BY <1>1, <1>2, <1>3, <2>1, <3>1 DEF WrittenFits, IsClosed, Frozen
      <3> QED
        BY <3>2, <3>3 DEF CallerFits
    <2>7. ASSUME NEW e \in Clients \ {c} PROVE CallerFits(e, Q)'
      <3>1. /\ pc'[e] = pc[e] /\ value'[e] = value[e] /\ outcome'[e] = outcome[e]
            /\ stage'[e] = stage[e] /\ CallerFits(e, P)
        BY <1>2 DEF Alone, Fits
      <3>2. pc[e] \notin Locked
        BY <1>5, <2>2, <3>1 DEF CallerFits, LockFits
      <3>3. /\ stage[e] = "none" /\ ~(outcome[e] = "committed" /\ IsClosed(value[e]))
            /\ pc[e] \in {"idle", "acquire", "load", "write"} => outcome[e] # "committed"
        BY <1>5, <3>1 DEF CallerFits, RetiringFits, WrittenFits
      <3>4. WriteFits(e, Q)' /\ RetiringFits(e, Q)' /\ LockFits(e, Q)'
        BY <3>1, <3>2, <3>3 DEF WriteFits, RetiringFits, LockFits, Locked
      <3>5. WrittenFits(e, Q)'
        BY <3>1, <3>2, <3>3 DEF WrittenFits, Locked, IsClosed
      <3> QED
        BY <3>4, <3>5 DEF CallerFits
    <2>8. Fits(Q)'
      BY <1>1, <2>3, <2>4, <2>5, <2>6, <2>7 DEF Fits
    <2> QED
      BY <2>1, <2>8
  <1> QED
    BY <1>4, <1>5

-----------------------------------------------------------------------------
(* The steps of a retirement *)

\* The result of a close is handed to retireClosedChange, any other one back.
LEMMA Handing ==
    ASSUME NEW P, Fits(P), NEW c \in Clients, StartRetire(c) \/ Result(c)
    PROVE  Fits(P)'
  <1>1. /\ RetireTypeOK /\ CallerFits(c, P) /\ value[c] \in Doc /\ EndCall(c)
        /\ UNCHANGED <<disk, lock, acked, bundle, late>> /\ pc[c] = "done"
    BY DEF Fits, RetireTypeOK, TypeOK, StartRetire, Result, Receive
  <1>2. TypeOK'
    BY <1>1, EmptyEntries DEF RetireTypeOK, TypeOK, EndCall, PC, Outcomes
  <1>3. RetireTypeOK' /\ Alone(c)
    BY <1>1, <1>2 DEF RetireTypeOK, TypeOK, EndCall, Alone, StartRetire, Result, Stages
  <1>4. RetiringFits(c, P)'
    <2>1. CASE StartRetire(c)
      <3>1. /\ stage'[c] = "copy" /\ snapshot'[c] = value[c]
            /\ outcome[c] = "committed" /\ IsClosed(value[c])
        BY <1>1, <2>1 DEF StartRetire, RetireTypeOK
      <3> QED
        BY <1>1, <3>1 DEF CallerFits, WrittenFits, RetiringFits
    <2>2. CASE Result(c)
      BY <1>1, <2>2 DEF Result, CallerFits, RetiringFits
    <2> QED
      BY <2>1, <2>2
  <1> QED
    BY <1>1, <1>3, <1>4, Returning

\* A retirement gives up, fails, crashes or has proved the bundle.
LEMMA Leaving ==
    ASSUME NEW P, Fits(P), NEW c \in Clients,
           RetireRefused(c) \/ ProveRecord(c) \/ RemoveDirFails(c) \/ RetireCrash(c)
    PROVE  Fits(P)'
  <1>1. /\ RetireTypeOK /\ CallerFits(c, P)
        /\ UNCHANGED <<disk, lock, pc, req, value, outcome, wrote, acked, bundle, late>>
    BY DEF Fits, RetireRefused, ProveRecord, RemoveDirFails, RetireCrash, txVars
  <1>2. RetireTypeOK' /\ Alone(c)
    BY <1>1 DEF RetireTypeOK, TypeOK, Alone, RetireRefused, ProveRecord, RemoveDirFails,
                RetireCrash, Moves, Drops, Stages
  <1>3. \/ stage'[c] = "none"
        \/ /\ stage[c] = "prove" /\ stage'[c] = "remove" /\ snapshot' = snapshot
           /\ bundle # NoRecord
    BY <1>1 DEF RetireTypeOK, RetireRefused, ProveRecord, RemoveDirFails, RetireCrash, Moves
  <1>4. RetiringFits(c, P)'
    BY <1>1, <1>3 DEF CallerFits, RetiringFits
  <1>5. WriteFits(c, P)' /\ WrittenFits(c, P)' /\ LockFits(c, P)'
    BY <1>1 DEF CallerFits, WriteFits, WrittenFits, LockFits, LateBeyond
  <1> QED
    BY <1>1, <1>2, <1>4, <1>5, Quiet DEF CallerFits

\* The bundle becomes the record as it was committed by the close, or later.
LEMMA Copying ==
    ASSUME NEW P, Fits(P), NEW c \in Clients, CopyRecord(c)
    PROVE  Fits(P)'
  <1>1. /\ RetireTypeOK /\ CallerFits(c, P) /\ stage[c] = "copy"
        /\ UNCHANGED <<disk, lock, pc, req, value, outcome, wrote, acked, snapshot, late>>
        /\ bundle' = snapshot[c]
    BY DEF Fits, CopyRecord, txVars
  <1>2. /\ snapshot[c] \in Doc /\ Frozen(P) /\ P \subseteq Entries(snapshot[c])
        /\ bundle' # NoRecord
    BY <1>1, NoRecordAssumption DEF CallerFits, RetiringFits
  <1>3. RetireTypeOK' /\ Alone(c) /\ stage'[c] = "prove"
    BY <1>1, <1>2 DEF RetireTypeOK, TypeOK, Alone, CopyRecord, Moves, Stages
  <1>4. DiskFits(P)' /\ BundleFits(P)' /\ AckedFits(P)'
    BY <1>1, <1>2 DEF Fits, DiskFits, BundleFits, AckedFits, LateBeyond, Frozen
  <1>5. CallerFits(c, P)'
    BY <1>1, <1>2, <1>3
       DEF CallerFits, WriteFits, WrittenFits, RetiringFits, LockFits, LateBeyond, Frozen
  <1>6. \A e \in Clients : CallerFits(e, P)'
    BY <1>1, <1>2, <1>3, <1>5, OthersFit
  <1> QED
    BY <1>3, <1>4, <1>6 DEF Fits

\* The directory is removed, the lock file with it: the change is closed by then.
LEMMA Removing ==
    ASSUME NEW P, Fits(P), NEW c \in Clients, RemoveDir(c)
    PROVE  Fits(P)'
  <1>1. /\ RetireTypeOK /\ CallerFits(c, P) /\ stage[c] = "remove"
        /\ UNCHANGED <<pc, req, value, outcome, wrote, acked, bundle, late>>
        /\ disk' \in Doc /\ TrailMirrorsLog(disk') /\ ~disk'.present /\ lock' = Free
    BY EmptyEntries DEF Fits, RemoveDir
  <1>2. Frozen(P) /\ bundle # NoRecord
    BY <1>1 DEF CallerFits, RetiringFits
  <1>3. RetireTypeOK' /\ Alone(c) /\ stage'[c] = "none"
    BY <1>1 DEF RetireTypeOK, TypeOK, Alone, RemoveDir, Moves, Drops, Stages
  <1>4. DiskFits(P)' /\ BundleFits(P)' /\ AckedFits(P)'
    BY <1>1, <1>2 DEF Fits, DiskFits, BundleFits, AckedFits, Frozen
  <1>5. CallerFits(c, P)'
    BY <1>1, <1>2, <1>3
       DEF CallerFits, WriteFits, WrittenFits, RetiringFits, LockFits, LateBeyond, Frozen
  <1>6. \A e \in Clients : CallerFits(e, P)'
    BY <1>1, <1>2, <1>3, <1>5, OthersFit
  <1> QED
    BY <1>3, <1>4, <1>6 DEF Fits

-----------------------------------------------------------------------------
LEMMA Transacting ==
    ASSUME NEW P \in SUBSET Requests, Fits(P), NEW c \in Clients, Transact(c)
    PROVE  IInv'
  <1>1. CASE Persist(c) \/ PersistFailsLate(c)
    BY <1>1, Writing DEF IInv
  <1>2. CASE ~(Persist(c) \/ PersistFailsLate(c))
    <2>1. CASE \E r \in Requests : Begin(c, r) \/ BeginAbsent(c, r)
      BY <2>1, Beginning DEF IInv
    <2>2. CASE Advance(c)
      <3>1. Fits(P)'
        BY <1>2, <2>2, Locking, Ending, Deciding, Mutating, Reading, Reporting, Releasing
           DEF Advance
      <3> QED
        BY <3>1 DEF IInv
    <2>3. CASE Crash(c)
      BY <2>3, Crashing DEF IInv
    <2> QED
      BY <2>1, <2>2, <2>3 DEF Transact
  <1> QED
    BY <1>1, <1>2

LEMMA Retiring == IInv /\ [RetireNext]_retVars => IInv'
  <1> SUFFICES ASSUME NEW P \in SUBSET Requests, Fits(P), [RetireNext]_retVars PROVE IInv'
    BY DEF IInv
  <1>1. CASE UNCHANGED retVars
    <2>1. Fits(P)'
      BY <1>1 DEF retVars, Fits, RetireTypeOK, TypeOK, DiskFits, BundleFits, AckedFits,
             CallerFits, WriteFits, WrittenFits, RetiringFits, LockFits, LateBeyond
    <2> QED
      BY <2>1 DEF IInv
  <1>2. ASSUME NEW c \in Clients, Transact(c) PROVE IInv'
    BY <1>2, Transacting
  <1>3. ASSUME NEW c \in Clients,
               \/ Result(c) \/ StartRetire(c) \/ CopyRecord(c) \/ RetireRefused(c)
               \/ ProveRecord(c) \/ RemoveDir(c) \/ RemoveDirFails(c) \/ RetireCrash(c)
        PROVE  IInv'
    <2>1. Fits(P)'
      BY <1>3, Handing, Leaving, Copying, Removing
    <2> QED
      BY <2>1 DEF IInv
  <1> QED
    BY <1>1, <1>2, <1>3 DEF RetireNext

\* The documents of a closing change all hold what the close committed.
THEOREM RetirementSound == RetireSpec => []IInv
  BY Initially, Retiring, PTL DEF RetireSpec

\* The variables keep their types.
THEOREM RetireTypeCorrect == RetireSpec => []RetireTypeOK
  <1>1. IInv => RetireTypeOK
    BY DEF IInv, Fits
  <1> QED
    BY <1>1, RetirementSound, PTL

(***************************************************************************)
(* retireClosedChange removes the directory only behind a closed record in *)
(* the bundle, whatever other callers write, close or crash meanwhile.     *)
(***************************************************************************)
THEOREM RecordKept == RetireSpec => []RecordNeverLost
  <1>1. IInv => RecordNeverLost
    BY ClosedEntries DEF IInv, Fits, BundleFits, RecordNeverLost, Frozen
  <1> QED
    BY <1>1, RetirementSound, PTL

(***************************************************************************)
(* What was reported as committed before the close outlives the removal of *)
(* the directory, in the record or in the bundle.                          *)
(***************************************************************************)
THEOREM CommittedKept == RetireSpec => []AckedBeforeCloseSurvives
  <1>1. IInv => AckedBeforeCloseSurvives
    <2> SUFFICES ASSUME NEW P \in SUBSET Requests, Fits(P), NEW a \in acked, a \notin late
                 PROVE  \/ disk.present /\ Holds(disk, a)
                        \/ bundle # NoRecord /\ Holds(bundle, a)
      BY DEF IInv, AckedBeforeCloseSurvives
    <2>1. PICK r \in P : Audit(r) = a
      BY DEF Fits, AckedFits
    <2>2. \/ disk.present /\ r \in Entries(disk)
          \/ bundle # NoRecord /\ r \in Entries(bundle)
      BY DEF Fits, DiskFits, BundleFits
    <2> QED
      BY <2>1, <2>2 DEF Entries, Holds
  <1> QED
    BY <1>1, RetirementSound, PTL

-----------------------------------------------------------------------------
\* Closing takes nothing from the transaction while there is no closed copy.
Untouched == bundle = NoRecord => TxInv

\* Until then its steps are those of the transaction, and none brings the time back.
LEMMA StepsUntilCopied ==
    ASSUME IInv, Untouched, [RetireNext]_retVars, bundle' = NoRecord
    PROVE  bundle = NoRecord /\ TxInv /\ [Next]_txVars
  <1>0. PICK P \in SUBSET Requests : Fits(P)
    BY DEF IInv
  <1>1. CASE UNCHANGED retVars
    BY <1>1 DEF retVars, txVars, Untouched
  <1>2. ASSUME NEW c \in Clients, CopyRecord(c) PROVE FALSE
    <2>1. snapshot[c] \in Doc /\ bundle' = snapshot[c]
      BY <1>0, <1>2 DEF CopyRecord, Fits, CallerFits, RetiringFits
    <2> QED
      BY <2>1, NoRecordAssumption
  <1>3. ASSUME NEW c \in Clients, RemoveDir(c) PROVE FALSE
    <2>1. bundle # NoRecord /\ bundle' = bundle
      BY <1>0, <1>3 DEF RemoveDir, Fits, CallerFits, RetiringFits
    <2> QED
      BY <2>1
  <1>4. ASSUME NEW c \in Clients,
               RetireRefused(c) \/ ProveRecord(c) \/ RemoveDirFails(c) \/ RetireCrash(c)
        PROVE  bundle' = bundle /\ UNCHANGED txVars
    BY <1>4 DEF RetireRefused, ProveRecord, RemoveDirFails, RetireCrash
  <1>5. ASSUME NEW c \in Clients, StartRetire(c) \/ Result(c)
        PROVE  bundle' = bundle /\ Receive(c)
    BY <1>5 DEF StartRetire, Result, Receive
  <1>6. ASSUME NEW c \in Clients, Transact(c)
        PROVE  bundle = NoRecord /\ TxInv /\ Next
    <2>1. bundle = NoRecord /\ TxInv
      BY <1>6 DEF Transact, Untouched
    <2>2. disk.present
      BY <2>1 DEF TxInv, GoodDoc
    <2> QED
      BY <1>6, <2>1, <2>2 DEF Transact, BeginAbsent, Next
  <1>7. ASSUME NEW c \in Clients, Receive(c) PROVE Next
    BY <1>7 DEF Next
  <1> QED
    BY <1>1, <1>2, <1>3, <1>4, <1>5, <1>6, <1>7 DEF RetireNext, Untouched

LEMMA StaysUntouched == IInv /\ Untouched /\ [RetireNext]_retVars => Untouched'
  BY StepsUntilCopied, NextTxInv DEF Untouched

(***************************************************************************)
(* Retirement does not disturb the transaction before it has made a closed *)
(* copy: as long as closed/<id>/ does not exist the change is an atomic    *)
(* mutation log, with closes among its mutations and retirements refused,  *)
(* crashed or under way.                                                   *)
(***************************************************************************)
THEOREM TransactionUntilCopied == RetireSpec => LogUntilCopied
  <1>1. RetireInit => Untouched
    BY InitTxInv DEF RetireInit, Untouched
  <1>2. IInv /\ Untouched /\ [RetireNext]_retVars =>
          [bundle' = NoRecord => [Abstract!AbstractNext]_(Abstract!avars)]_retVars
    BY StepsUntilCopied, RefiningStep
  <1> QED
    BY <1>1, <1>2, StaysUntouched, RetirementSound, PTL DEF RetireSpec, LogUntilCopied

-----------------------------------------------------------------------------
(***************************************************************************)
(* The saves of the disk store take no lock, so the document may change    *)
(* under a transaction that holds it and AckedSurvives is lost: that is    *)
(* the finding of the run MCDiskStore.  Every document in play is a good   *)
(* one all the same: a save only brings back a document that was on disk,  *)
(* and a transaction derives its own from the one it has read.             *)
(***************************************************************************)
StoreInv ==
    /\ TypeOK /\ GoodDoc(disk) /\ OutcomesAreTruthful
    /\ copy \in [StoreCallers -> Doc \union {NoCopy}]
    /\ \A w \in StoreCallers : copy[w] # NoCopy => copy[w] \in Doc /\ GoodDoc(copy[w])
    /\ \A c \in Clients : Placed(c) /\ (pc[c] = "write" => GoodDoc(value[c]))

LEMMA StoreInitially == StoreInit => StoreInv
  <1> SUFFICES ASSUME StoreInit PROVE StoreInv
    OBVIOUS
  <1>1. TxInv
    BY InitTxInv DEF StoreInit
  <1>2. ASSUME NEW c \in Clients PROVE Placed(c) /\ pc[c] = "idle"
    BY <1>1 DEF TxInv, Phase, StoreInit, Init
  <1> QED
    BY <1>1, <1>2 DEF TxInv, StoreInit, StoreInv

\* A step of a transaction, whatever has become of the document it has read.
LEMMA StoreTransacting ==
    ASSUME StoreInv, NEW c \in Clients, Step(c), UNCHANGED copy
    PROVE  StoreInv'
  <1>0. /\ TypeOK /\ Placed(c) /\ OutcomesAreTruthful /\ GoodDoc(disk) /\ disk \in Doc
        /\ pc[c] = "write" => GoodDoc(value[c])
    BY DEF StoreInv, TypeOK
  <1>1. TypeOK'
    BY <1>0, NextType DEF Next, Step
  <1>2. OutcomesAreTruthful' /\ Placed(c)'
    BY <1>0, StepTruthful, StepPlaced
  <1>3. /\ \A e \in Clients \ {c} :
              /\ pc'[e] = pc[e] /\ req'[e] = req[e] /\ value'[e] = value[e]
              /\ outcome'[e] = outcome[e] /\ wrote'[e] = wrote[e]
              /\ lock = e => lock' = e
        /\ disk' # disk => pc[c] = "write" /\ disk' = value[c]
    BY <1>0, StepFrame
  <1>4. GoodDoc(disk')
    BY <1>0, <1>3
  <1>5. ASSUME NEW e \in Clients \ {c}
        PROVE  Placed(e)' /\ (pc'[e] = "write" => GoodDoc(value'[e]))
    <2>1. Placed(e) /\ (pc[e] = "write" => GoodDoc(value[e]))
      BY DEF StoreInv
    <2> QED
      BY <1>3, <2>1 DEF Placed
  <1>6. pc'[c] = "write" => GoodDoc(value'[c])
    <2>1. CASE LoadAndDecide(c)
      <3>1. CASE pc'[c] = "write"
        <4>1. /\ Verdict(disk, req[c]) = "write" /\ value'[c] = NewValue(disk, req[c])
              /\ req[c] \in Requests
          BY <1>0, <2>1, <3>1 DEF LoadAndDecide, Finish, TypeOK
        <4> QED
          BY <1>0, <4>1, VerdictWrite, NewValueGood
      <3> QED
        BY <3>1
    <2>2. CASE ~LoadAndDecide(c)
      <3>1. pc'[c] # "write"
        BY <1>0, <2>2
           DEF Step, Advance, Begin, Receive, Crash, EndCall, Acquire, ReclaimLock,
               LockTimeout, LoadRefused, LoadFails, Persist, PersistFails,
               PersistFailsLate, ReadbackFails, Readback, AfterCommit, AfterCommitFails,
               HookThrows, Release, Return, Finish, TypeOK
      <3> QED
        BY <3>1
    <2> QED
      BY <2>1, <2>2
  <1>7. GoodDoc(disk)' /\ \A e \in Clients : Placed(e)' /\ (pc[e] = "write" => GoodDoc(value[e]))'
    BY <1>2, <1>4, <1>5, <1>6
  <1> QED
    BY <1>1, <1>2, <1>7 DEF StoreInv

\* A store call loads the document, or writes back the one it had loaded.
LEMMA StoreSaving ==
    ASSUME NoCopy \notin Doc, StoreInv, NEW w \in StoreCallers, StoreLoad(w) \/ StoreSave(w)
    PROVE  StoreInv'
  <1>1. /\ TypeOK /\ UNCHANGED <<lock, pc, req, value, outcome, wrote, acked>>
        /\ copy \in [StoreCallers -> Doc \union {NoCopy}] /\ disk \in Doc /\ GoodDoc(disk)
    BY DEF StoreInv, TypeOK, StoreLoad, StoreSave, txVars
  <1>2. disk' \in Doc /\ GoodDoc(disk')
    BY <1>1 DEF StoreInv, StoreLoad, StoreSave, txVars
  <1>3. TypeOK' /\ OutcomesAreTruthful'
    BY <1>1, <1>2 DEF StoreInv, TypeOK, OutcomesAreTruthful
  <1>4. /\ copy' \in [StoreCallers -> Doc \union {NoCopy}]
        /\ \A v \in StoreCallers : copy'[v] \in {copy[v], disk, NoCopy}
    BY <1>1 DEF StoreLoad, StoreSave
  <1>5. ASSUME NEW v \in StoreCallers, copy'[v] # NoCopy
        PROVE  copy'[v] \in Doc /\ GoodDoc(copy'[v])
    BY <1>1, <1>4, <1>5 DEF StoreInv
  <1>6. ASSUME NEW c \in Clients
        PROVE  Placed(c)' /\ (pc'[c] = "write" => GoodDoc(value'[c]))
    BY <1>1 DEF StoreInv, Placed
  <1>7. GoodDoc(disk)' /\ \A v \in StoreCallers : (copy[v] # NoCopy => copy[v] \in Doc /\ GoodDoc(copy[v]))'
    BY <1>2, <1>5
  <1>8. \A c \in Clients : Placed(c)' /\ (pc[c] = "write" => GoodDoc(value[c]))'
    BY <1>6
  <1> QED
    BY <1>3, <1>4, <1>7, <1>8 DEF StoreInv

LEMMA StoreStepping ==
    ASSUME NoCopy \notin Doc
    PROVE  StoreInv /\ [StoreNext]_storeVars => StoreInv'
  <1> SUFFICES ASSUME StoreInv, [StoreNext]_storeVars PROVE StoreInv'
    OBVIOUS
  <1>1. CASE UNCHANGED storeVars
    <2>1. UNCHANGED <<disk, lock, pc, req, value, outcome, wrote, acked, copy>>
      BY <1>1 DEF storeVars
    <2>2. TypeOK' /\ OutcomesAreTruthful' /\ \A c \in Clients : Placed(c)'
      BY <2>1 DEF StoreInv, TypeOK, OutcomesAreTruthful, Placed
    <2>3. /\ GoodDoc(disk') /\ \A c \in Clients : pc'[c] = "write" => GoodDoc(value'[c])
          /\ copy' \in [StoreCallers -> Doc \union {NoCopy}]
          /\ \A w \in StoreCallers :
                copy'[w] # NoCopy => copy'[w] \in Doc /\ GoodDoc(copy'[w])
      BY <2>1 DEF StoreInv
    <2> QED
      BY <2>2, <2>3 DEF StoreInv
  <1>2. CASE Next /\ UNCHANGED copy
    BY <1>2, StoreTransacting DEF Next, Step
  <1>3. CASE \E w \in StoreCallers : StoreLoad(w) \/ StoreSave(w)
    BY <1>3, StoreSaving
  <1> QED
    BY <1>1, <1>2, <1>3 DEF StoreNext

(***************************************************************************)
(* persistChangeProjection beside commitChangeProjection: although a save  *)
(* may drop mutations that were reported committed, the revision of the    *)
(* document always counts those it embodies, none of them twice within the *)
(* memory of the audit trail and with their state revisions in order, and  *)
(* a transaction's result never lies about its own write.                  *)
(***************************************************************************)
THEOREM SavesKeepDocumentsSound ==
    ASSUME NoCopy \notin Doc
    PROVE  StoreSpec => [](/\ RevisionCountsMutations /\ AtMostOnceWhileRemembered
                           /\ StateRevisionsOrdered /\ OutcomesAreTruthful)
  <1>1. StoreInv => /\ RevisionCountsMutations /\ AtMostOnceWhileRemembered
                    /\ StateRevisionsOrdered /\ OutcomesAreTruthful
    BY DEF StoreInv, GoodDoc, OncePerOp, OrderedStates, RevisionCountsMutations,
           AtMostOnceWhileRemembered, StateRevisionsOrdered
  <1> QED
    BY <1>1, StoreInitially, StoreStepping, PTL DEF StoreSpec
=============================================================================
