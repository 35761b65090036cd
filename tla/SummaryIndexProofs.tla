------------------------- MODULE SummaryIndexProofs -------------------------
(***************************************************************************)
(* The safety of the summary index for every number of committers,         *)
(* rebuilds, store saves and readers.  The argument rests on one fact the  *)
(* code never states: a projection revision that no store save has touched *)
(* names one content for good.  A history h of the committed snapshots     *)
(* explains everything of such a revision that is anywhere in the system:  *)
(* the shards, what a publisher carries and what a reader has seen.        *)
(* Rebuilds need no lock because what they write is in h already.          *)
(***************************************************************************)
EXTENDS SummaryIndex, TLAPS

Stages == {"idle", "load", "write", "readback", "save", "shard", "pointer",
           "verify", "verifyShard", "proved", "release"}
Working == Stages \ {"idle", "load", "release"}
Carrying == {"shard", "pointer", "verify", "verifyShard", "proved"}
Published == {"pointer", "verify", "verifyShard", "proved"}

(***************************************************************************)
(* s fits the history h: if the snapshot was taken back behind s, all the  *)
(* revisions from there to s were; s is what h has at its revision; and    *)
(* its state revision is not behind any earlier one of h.                  *)
(***************************************************************************)
Fits(h, s) ==
    /\ s.rev > snap.rev => snap.rev .. s.rev \subseteq resaved
    /\ s.rev \notin resaved => s = h[s.rev]
    /\ \A n \in 0 .. s.rev : n \notin resaved => h[n].sr <= s.sr

\* h is the history of the change's snapshots.
Explains(h) ==
    /\ h \in [0 .. MaxRev -> Snapshots]
    /\ Fits(h, snap)
    /\ \A n \in 0 .. MaxRev : shards[n] # None => shards[n].rev = n /\ Fits(h, shards[n])
    /\ \A p \in Publishers : job[p] # None => Fits(h, job[p])
    /\ \A r \in Readers : view[r].snap # None => Fits(h, view[r].snap)

\* What publisher p holds at each of its stages.
HasJob(p) == pc[p] \in Working => job[p] # None

HasShard(p) ==
    pc[p] \in Published =>
        /\ shards[job[p].rev] # None
        /\ shards[job[p].rev] = job[p] \/ job[p].rev \in resaved

\* A committer holds the lock; what it carries is current, what it builds on nearly so.
HasLock(p) == pc[p] # "idle" => lock = p

IsCurrent(p) == pc[p] \in Carrying => snap = job[p] \/ job[p].rev \in resaved

IsBase(p) ==
    pc[p] = "write" /\ job[p].rev < snap.rev => job[p].rev .. snap.rev \subseteq resaved

Holds ==
    /\ \A p \in Publishers : HasJob(p) /\ HasShard(p)
    /\ \A p \in Committers : HasLock(p) /\ IsCurrent(p) /\ IsBase(p)

\* What a reader has seen at each of its stages.
Sees ==
    \A r \in Readers :
        /\ view[r].stage \in {"pointer", "shard"} => view[r].snap # None
        /\ view[r].stage = "shard" =>
              view[r].pointer # None /\ Names(view[r].pointer, view[r].snap)

IInv ==
    /\ TypeOK /\ Holds /\ Sees /\ PointerHasItsShard /\ OkReadIsFaithful
    /\ \E h : Explains(h)

-----------------------------------------------------------------------------
\* The fields of a snapshot.
LEMMA SnapshotFields ==
    ASSUME NEW s \in Snapshots
    PROVE  /\ s.rev \in 0 .. MaxRev /\ s.sr \in 0 .. MaxRev /\ s.sr <= s.rev
           /\ s.op \in 0 .. MaxVer /\ s.ver \in 0 .. MaxVer
           /\ s.rev \in Nat /\ s.sr \in Nat
           /\ s = [rev |-> s.rev, sr |-> s.sr, op |-> s.op, ver |-> s.ver]
           /\ s # None /\ PointerOf(s) \in Pointers
  BY NoneAssumption, BoundsAssumption DEF Snapshots, PointerOf, Pointers

(***************************************************************************)
(* Intervals of revisions.  a is the snapshot's revision, b the one a      *)
(* publisher loaded, c that of anything else; R is resaved.                *)
(***************************************************************************)
LEMMA TakenBack ==
    ASSUME NEW R, NEW a \in Nat, NEW b \in Nat, NEW c \in Nat,
           b > a => a .. b \subseteq R, c > a => a .. c \subseteq R
    PROVE  c > b => b .. c \subseteq R \union {b} \union (b .. a)
  OBVIOUS

LEMMA BaseTakenBack ==
    ASSUME NEW R, NEW a \in Nat, NEW b \in Nat, NEW c \in Nat,
           b > a => a .. b \subseteq R, c < a => c .. a \subseteq R
    PROVE  c < b => c .. b \subseteq R \union {b} \union (b .. a)
  OBVIOUS

LEMMA NewRevision ==
    ASSUME NEW R, NEW a \in Nat, NEW b \in Nat, NEW c \in Nat,
           b < a => b .. a \subseteq R, c > a => a .. c \subseteq R
    PROVE  /\ c > b + 1 => b + 1 .. c \subseteq R
           /\ c = b + 1 => b + 1 \in R
  OBVIOUS

LEMMA Start == Init => IInv
<1> SUFFICES ASSUME Init PROVE IInv
  OBVIOUS
<1> USE BoundsAssumption, NoneAssumption
<1>1. 0 \in 0 .. MaxRev /\ 0 \in 0 .. MaxVer
  OBVIOUS
<1>2. /\ snap \in Snapshots /\ snap = [rev |-> 0, sr |-> 0, op |-> 0, ver |-> 0]
      /\ resaved = {}
  BY <1>1 DEF Init, Snapshots
<1>3. PointerOf(snap) \in Pointers
  BY <1>2, SnapshotFields
<1>4. IdleView \in Views
  BY DEF IdleView, Views
<1>5. TypeOK
  <2>1. shards \in [0 .. MaxRev -> Snapshots \union {None}]
    BY <1>2 DEF Init, ShardOf
  <2>2. pointer \in Pointers \union {None}
    BY <1>3 DEF Init
  <2> QED
    BY <1>2, <1>4, <2>1, <2>2 DEF Init, TypeOK
<1>6. Holds
  BY DEF Init, Holds, HasJob, HasShard, HasLock, IsCurrent, IsBase, Working, Carrying,
         Published, Publishers
<1>7. Sees /\ OkReadIsFaithful
  BY DEF Init, Sees, OkReadIsFaithful, IdleView
<1>8. PointerHasItsShard
  BY <1>1, <1>2 DEF Init, PointerHasItsShard, ShardOf, PointerOf
<1>9. Explains([n \in 0 .. MaxRev |-> snap])
  BY <1>1, <1>2 DEF Init, Explains, Fits, ShardOf, IdleView
<1> QED
  BY <1>5, <1>6, <1>7, <1>8, <1>9 DEF IInv

-----------------------------------------------------------------------------
\* Steps that change no file: the publisher moves, loads the snapshot or drops what it has.
LEMMA Moving ==
    ASSUME IInv, NEW p \in Publishers,
           UNCHANGED <<snap, nextVer, shards, pointer, view, resaved>>,
           pc' \in [Publishers -> Stages],
           lock' \in Committers \union {Free, Orphan},
           job' \in [Publishers -> Snapshots \union {None}],
           \A q \in Publishers : job'[q] \in {job[q], snap, None},
           Holds'
    PROVE  IInv'
<1>1. PICK h : Explains(h)
  BY DEF IInv
<1>2. Explains(h)'
  BY <1>1 DEF Explains, Fits
<1>3. TypeOK'
  BY DEF IInv, TypeOK, Stages
<1>4. Sees' /\ PointerHasItsShard' /\ OkReadIsFaithful'
  BY DEF IInv, Sees, PointerHasItsShard, OkReadIsFaithful
<1> QED
  BY <1>2, <1>3, <1>4 DEF IInv

\* The publisher steps that write no file.
Quiet(p) ==
    \/ p \in Committers /\ (\/ CommitBegin(p) \/ CommitLoad(p) \/ CommitReadback(p)
                            \/ CommitRefused(p) \/ VerifyPointer(p) \/ VerifyShard(p)
                            \/ CommitRelease(p))
    \/ p \in Rebuilders /\ RebuildLoad(p)
    \/ p \in Savers /\ StoreLoad(p)
    \/ PublishFails(p)
    \/ Crash(p)

LEMMA Carry ==
    ASSUME IInv, NEW p \in Publishers, Quiet(p)
    PROVE  IInv'
<1>1. /\ pc \in [Publishers -> Stages] /\ job \in [Publishers -> Snapshots \union {None}]
      /\ lock \in Committers \union {Free, Orphan} /\ snap \in Snapshots /\ snap # None
      /\ Committers \subseteq Publishers
      /\ p \in Rebuilders \union Savers => p \notin Committers
  BY NoneAssumption, RolesAssumption DEF IInv, TypeOK, Publishers, Stages
<1>2. UNCHANGED <<snap, nextVer, shards, pointer, view, resaved>>
  BY DEF Quiet, CommitBegin, CommitLoad, CommitReadback, CommitRefused, VerifyPointer,
         VerifyShard, CommitRelease, RebuildLoad, StoreLoad, PublishFails, Crash
<1>3. /\ pc' \in [Publishers -> Stages]
      /\ \A q \in Publishers : q # p => pc'[q] = pc[q]
  BY <1>1 DEF Quiet, CommitBegin, CommitLoad, CommitReadback, CommitRefused, VerifyPointer,
         VerifyShard, CommitRelease, RebuildLoad, StoreLoad, PublishFails, Crash, Goes, Stages
<1>4. /\ job' \in [Publishers -> Snapshots \union {None}]
      /\ job'[p] \in {job[p], snap, None}
      /\ \A q \in Publishers : q # p => job'[q] = job[q]
  BY <1>1 DEF Quiet, CommitBegin, CommitLoad, CommitReadback, CommitRefused, VerifyPointer,
         VerifyShard, CommitRelease, RebuildLoad, StoreLoad, PublishFails, Crash
<1>5. lock' \in Committers \union {Free, Orphan}
  BY <1>1 DEF Quiet, CommitBegin, CommitLoad, CommitReadback, CommitRefused, VerifyPointer,
         VerifyShard, CommitRelease, RebuildLoad, StoreLoad, PublishFails, Crash
<1>6. /\ HasJob(p) /\ HasShard(p)
      /\ p \in Committers => HasLock(p) /\ IsCurrent(p) /\ IsBase(p)
  BY DEF IInv, Holds
<1>7. /\ (HasJob(p) /\ HasShard(p))'
      /\ p \in Committers => (HasLock(p) /\ IsCurrent(p) /\ IsBase(p))'
  <2> USE <1>1, <1>2, <1>6
      DEF HasJob, HasShard, HasLock, IsCurrent, IsBase, Working, Carrying, Published,
          Stages, Goes
  <2>1. CASE p \in Committers /\ (CommitBegin(p) \/ CommitRefused(p) \/ CommitRelease(p))
    BY <2>1 DEF CommitBegin, CommitRefused, CommitRelease
  <2>2. CASE p \in Committers /\ CommitLoad(p)
    <3>1. job'[p] = snap /\ pc'[p] = "write" /\ lock' = lock /\ pc[p] = "load"
      BY <2>2 DEF CommitLoad
    <3>2. snap.rev \in Nat
      BY SnapshotFields
    <3> QED
      BY <2>2, <3>1, <3>2
  <2>3. CASE p \in Committers /\ CommitReadback(p)
    BY <2>3 DEF CommitReadback
  <2>4. CASE p \in Committers /\ (VerifyPointer(p) \/ VerifyShard(p))
    BY <2>4 DEF VerifyPointer, VerifyShard
  <2>5. CASE p \in Rebuilders /\ RebuildLoad(p)
    BY <2>5 DEF RebuildLoad
  <2>6. CASE p \in Savers /\ StoreLoad(p)
    BY <2>6 DEF StoreLoad
  <2>7. CASE PublishFails(p)
    BY <2>7 DEF PublishFails
  <2>8. CASE Crash(p)
    BY <2>8 DEF Crash
  <2> QED
    BY <2>1, <2>2, <2>3, <2>4, <2>5, <2>6, <2>7, <2>8 DEF Quiet
<1>8. \A q \in Committers : q # p /\ pc[q] # "idle" => lock' = lock
  <2> SUFFICES ASSUME NEW q \in Committers, q # p, pc[q] # "idle", lock' # lock
               PROVE  FALSE
    OBVIOUS
  <2>1. lock = q /\ lock # Free /\ lock # Orphan
    BY LockAssumption DEF IInv, Holds, HasLock
  <2>2. p \in Committers /\ pc[p] # "idle"
    BY <2>1, <1>1 DEF Quiet, CommitBegin, CommitLoad, CommitReadback, CommitRefused,
       VerifyPointer, VerifyShard, CommitRelease, RebuildLoad, StoreLoad, PublishFails, Crash
  <2> QED
    BY <2>1, <2>2 DEF IInv, Holds, HasLock
<1>9. Holds'
  <2>1. ASSUME NEW q \in Publishers, q # p PROVE (HasJob(q) /\ HasShard(q))'
    BY <1>2, <1>3, <1>4, <2>1 DEF IInv, Holds, HasJob, HasShard
  <2>2. ASSUME NEW q \in Committers, q # p PROVE (HasLock(q) /\ IsCurrent(q) /\ IsBase(q))'
    BY <1>1, <1>2, <1>3, <1>4, <1>8, <2>2 DEF IInv, Holds, HasLock, IsCurrent, IsBase
  <2> QED
    BY <1>7, <2>1, <2>2 DEF Holds
<1> QED
  BY <1>2, <1>3, <1>4, <1>5, <1>9, Moving

-----------------------------------------------------------------------------
(***************************************************************************)
(* The commit extends the history at the revision after the one it loaded. *)
(* If that revision is not resaved, nothing anywhere carries it already.   *)
(***************************************************************************)
LEMMA Committing ==
    ASSUME IInv, NEW p \in Committers, CommitWrite(p)
    PROVE  IInv'
<1>1. PICK h : Explains(h)
  BY DEF IInv
<1>2. /\ p \in Publishers /\ pc[p] = "write" /\ pc \in [Publishers -> Stages]
      /\ pc' = [pc EXCEPT ![p] = "readback"]
      /\ job \in [Publishers -> Snapshots \union {None}]
      /\ job' = [job EXCEPT ![p] = snap']
      /\ nextVer \in 1 .. MaxVer /\ nextVer' = nextVer + 1
      /\ UNCHANGED <<shards, pointer, lock, view, resaved>>
      /\ snap \in Snapshots
  BY DEF CommitWrite, Goes, IInv, TypeOK, Publishers, Stages
<1>3. PICK base \in Snapshots : base = job[p]
  BY <1>2 DEF IInv, Holds, HasJob, Working, Stages
<1> DEFINE n == base.rev + 1
<1>4. /\ base.rev \in Nat /\ base.sr \in Nat /\ base.sr <= base.rev
      /\ snap.rev \in Nat /\ n \in 1 .. MaxRev /\ n \in Nat
      /\ MaxRev \in Nat /\ MaxVer \in Nat
  BY <1>2, <1>3, SnapshotFields, BoundsAssumption DEF CommitWrite
<1>5. PICK sr \in {base.sr, base.sr + 1} :
          snap' = [rev |-> n, sr |-> sr, op |-> nextVer, ver |-> nextVer]
  BY <1>3 DEF CommitWrite
<1>6. /\ snap' \in Snapshots /\ snap' # None /\ snap'.rev = n /\ base.sr <= snap'.sr
      /\ snap'.sr \in Nat
  <2>1. sr \in 0 .. MaxRev /\ sr <= n /\ nextVer \in 0 .. MaxVer /\ base.sr <= sr
    BY <1>2, <1>4
  <2>2. snap' \in Snapshots
    BY <1>4, <1>5, <2>1 DEF Snapshots
  <2> QED
    BY <1>5, <2>1, <2>2, SnapshotFields
<1>7. base.rev < snap.rev => base.rev .. snap.rev \subseteq resaved
  BY <1>2, <1>3 DEF IInv, Holds, IsBase
<1>g. PICK g : g = [h EXCEPT ![n] = snap']
  OBVIOUS
<1>8. /\ g \in [0 .. MaxRev -> Snapshots] /\ g[n] = snap'
      /\ \A i \in 0 .. MaxRev : i # n => g[i] = h[i]
  BY <1>1, <1>4, <1>6, <1>g DEF Explains
<1> HIDE DEF n
<1>9. ASSUME NEW s \in Snapshots, Fits(h, s)
      PROVE  Fits(g, s)'
  <2>1. s.rev \in Nat /\ s.rev \in 0 .. MaxRev
    BY SnapshotFields
  <2>2. /\ s.rev > n => n .. s.rev \subseteq resaved
        /\ s.rev = n => n \in resaved
    BY <1>4, <1>7, <1>9, <2>1, NewRevision DEF Fits, n
  <2>3. s.rev \notin resaved => s = g[s.rev]
    BY <1>8, <1>9, <2>1, <2>2 DEF Fits
  <2>4. ASSUME NEW i \in 0 .. s.rev, i \notin resaved PROVE g[i].sr <= s.sr
    <3>1. i # n
      BY <1>4, <2>1, <2>2, <2>4
    <3>2. g[i] = h[i] /\ h[i].sr <= s.sr
      BY <1>4, <1>8, <1>9, <2>1, <2>4, <3>1 DEF Fits
    <3> QED
      BY <3>2
  <2> QED
    BY <1>2, <1>6, <2>2, <2>3, <2>4 DEF Fits
<1>10. Fits(g, snap)'
  <2>1. ASSUME NEW i \in 0 .. n, i \notin resaved PROVE g[i].sr <= snap'.sr
    <3>1. CASE i = n
      BY <1>6, <1>8, <3>1
    <3>2. CASE i # n
      <4>1. i \in 0 .. base.rev /\ i \in 0 .. MaxRev
        BY <1>4, <2>1, <3>2 DEF n
      <4>2. Fits(h, base)
        BY <1>1, <1>2, <1>3, SnapshotFields DEF Explains
      <4>3. g[i] = h[i] /\ h[i] \in Snapshots /\ h[i].sr <= base.sr
        BY <1>1, <1>8, <2>1, <3>2, <4>1, <4>2 DEF Fits, Explains
      <4>4. h[i].sr \in Nat
        BY <4>3, SnapshotFields
      <4> QED
        BY <1>4, <1>6, <4>3, <4>4
    <3> QED
      BY <3>1, <3>2
  <2> QED
    BY <1>2, <1>4, <1>6, <1>8, <2>1 DEF Fits
<1>11. Explains(g)'
  <2>1. ASSUME NEW i \in 0 .. MaxRev, shards[i] # None
        PROVE  shards[i].rev = i /\ Fits(g, shards[i])'
    <3>1. PICK s \in Snapshots : s = shards[i]
      BY <2>1 DEF IInv, TypeOK
    <3>2. s.rev = i /\ Fits(h, s)
      BY <1>1, <2>1, <3>1 DEF Explains
    <3>3. Fits(g, s)'
      BY <1>9, <3>2
    <3> QED
      BY <1>2, <3>1, <3>2, <3>3 DEF Fits
  <2>2. ASSUME NEW q \in Publishers, job'[q] # None
        PROVE  Fits(g, job[q])'
    <3>1. CASE q = p
      BY <1>2, <1>10, <3>1 DEF Fits
    <3>2. CASE q # p
      <4>1. PICK s \in Snapshots : s = job[q]
        BY <1>2, <2>2, <3>2
      <4>2. job'[q] = s /\ Fits(h, s)
        BY <1>1, <1>2, <2>2, <3>2, <4>1 DEF Explains
      <4>3. Fits(g, s)'
        BY <1>9, <4>2
      <4> QED
        BY <4>2, <4>3 DEF Fits
    <3> QED
      BY <3>1, <3>2
  <2>3. ASSUME NEW r \in Readers, view[r].snap # None
        PROVE  Fits(g, view[r].snap)'
    <3>1. PICK s \in Snapshots : s = view[r].snap
      BY <2>3 DEF IInv, TypeOK, Views
    <3>2. Fits(h, s)
      BY <1>1, <2>3, <3>1 DEF Explains
    <3>3. Fits(g, s)'
      BY <1>9, <3>2
    <3> QED
      BY <1>2, <3>1, <3>3 DEF Fits
  <2> QED
    BY <1>2, <1>8, <1>10, <2>1, <2>2, <2>3 DEF Explains
<1>12. TypeOK'
  <2>1. nextVer' \in 1 .. MaxVer + 1
    BY <1>2, <1>4
  <2> QED
    BY <1>2, <1>6, <2>1 DEF IInv, TypeOK, Stages
<1>13. Holds'
  <2>1. ASSUME NEW q \in Publishers PROVE (HasJob(q) /\ HasShard(q))'
    BY <1>2, <1>6 DEF IInv, Holds, HasJob, HasShard, Working, Published, Stages
  <2>2. ASSUME NEW q \in Committers PROVE (HasLock(q) /\ IsCurrent(q) /\ IsBase(q))'
    <3>1. q # p => pc[q] = "idle"
      BY <1>2 DEF IInv, Holds, HasLock
    <3> QED
      BY <1>2, <3>1 DEF IInv, Holds, HasLock, IsCurrent, IsBase, Carrying, Publishers
  <2> QED
    BY <2>1, <2>2 DEF Holds
<1>14. Sees' /\ OkReadIsFaithful' /\ PointerHasItsShard'
  BY <1>2 DEF IInv, Sees, OkReadIsFaithful, PointerHasItsShard
<1> QED
  BY <1>11, <1>12, <1>13, <1>14 DEF IInv

(***************************************************************************)
(* A store save puts its snapshot back; the revisions this touches are     *)
(* resaved from now on, so that the history need not explain them.         *)
(***************************************************************************)
LEMMA Saving ==
    ASSUME IInv, NEW p \in Savers, StoreSave(p)
    PROVE  IInv'
<1>1. PICK h : Explains(h)
  BY DEF IInv
<1>2. /\ p \in Publishers /\ p \notin Committers
      /\ pc[p] = "save" /\ pc \in [Publishers -> Stages]
      /\ pc' = [pc EXCEPT ![p] = "shard"]
      /\ job \in [Publishers -> Snapshots \union {None}]
      /\ job' = [job EXCEPT ![p] = snap']
      /\ nextVer \in 1 .. MaxVer /\ nextVer' = nextVer + 1
      /\ UNCHANGED <<shards, pointer, lock, view>>
      /\ snap \in Snapshots /\ resaved \subseteq 0 .. MaxRev
  BY RolesAssumption DEF StoreSave, Goes, IInv, TypeOK, Publishers, Stages
<1>3. PICK old \in Snapshots : old = job[p]
  BY <1>2 DEF IInv, Holds, HasJob, Working, Stages
<1>4. /\ snap' = [old EXCEPT !.ver = nextVer]
      /\ resaved' = resaved \union {old.rev} \union (old.rev .. snap.rev)
  BY <1>3 DEF StoreSave
<1>5. /\ old.rev \in Nat /\ old.rev \in 0 .. MaxRev /\ snap.rev \in Nat
      /\ snap.rev \in 0 .. MaxRev /\ MaxVer \in Nat /\ MaxRev \in Nat
  BY <1>2, <1>3, SnapshotFields, BoundsAssumption
<1>6. /\ snap' \in Snapshots /\ snap' # None
      /\ snap'.rev = old.rev /\ snap'.sr = old.sr
  <2>1. nextVer \in 0 .. MaxVer
    BY <1>2, <1>5
  <2>2. snap' \in Snapshots
    BY <1>4, <2>1 DEF Snapshots
  <2>3. snap'.rev = old.rev /\ snap'.sr = old.sr
    BY <1>4, SnapshotFields
  <2> QED
    BY <2>2, <2>3, SnapshotFields
<1>7. Fits(h, old)
  BY <1>1, <1>2, <1>3, SnapshotFields DEF Explains
<1>8. ASSUME NEW s \in Snapshots, Fits(h, s)
      PROVE  Fits(h, s)'
  <2>1. s.rev \in Nat
    BY SnapshotFields
  <2>2. s.rev > old.rev => old.rev .. s.rev \subseteq resaved'
    BY <1>4, <1>5, <1>7, <1>8, <2>1, TakenBack DEF Fits
  <2>3. resaved \subseteq resaved'
    BY <1>4
  <2> QED
    BY <1>6, <1>8, <2>2, <2>3 DEF Fits
<1>9. Fits(h, snap)'
  <2>1. old.rev \in resaved' /\ resaved \subseteq resaved'
    BY <1>4
  <2>2. \A i \in 0 .. old.rev : i \notin resaved' => h[i].sr <= old.sr
    BY <1>7, <2>1 DEF Fits
  <2> QED
    BY <1>5, <1>6, <2>1, <2>2 DEF Fits
<1>10. Explains(h)'
  <2>1. ASSUME NEW i \in 0 .. MaxRev, shards[i] # None
        PROVE  shards[i].rev = i /\ Fits(h, shards[i])'
    <3>1. PICK s \in Snapshots : s = shards[i]
      BY <2>1 DEF IInv, TypeOK
    <3>2. s.rev = i /\ Fits(h, s)
      BY <1>1, <2>1, <3>1 DEF Explains
    <3>3. Fits(h, s)'
      BY <1>8, <3>2
    <3> QED
      BY <1>2, <3>1, <3>2, <3>3 DEF Fits
  <2>2. ASSUME NEW q \in Publishers, job'[q] # None
        PROVE  Fits(h, job[q])'
    <3>1. CASE q = p
      BY <1>2, <1>9, <3>1 DEF Fits
    <3>2. CASE q # p
      <4>1. PICK s \in Snapshots : s = job[q]
        BY <1>2, <2>2, <3>2
      <4>2. job'[q] = s /\ Fits(h, s)
        BY <1>1, <1>2, <2>2, <3>2, <4>1 DEF Explains
      <4>3. Fits(h, s)'
        BY <1>8, <4>2
      <4> QED
        BY <4>2, <4>3 DEF Fits
    <3> QED
      BY <3>1, <3>2
  <2>3. ASSUME NEW r \in Readers, view[r].snap # None
        PROVE  Fits(h, view[r].snap)'
    <3>1. PICK s \in Snapshots : s = view[r].snap
      BY <2>3 DEF IInv, TypeOK, Views
    <3>2. Fits(h, s)
      BY <1>1, <2>3, <3>1 DEF Explains
    <3>3. Fits(h, s)'
      BY <1>8, <3>2
    <3> QED
      BY <1>2, <3>1, <3>3 DEF Fits
  <2> QED
    BY <1>1, <1>2, <1>9, <2>1, <2>2, <2>3 DEF Explains
<1>11. TypeOK'
  <2>1. nextVer' \in 1 .. MaxVer + 1
    BY <1>2, <1>5
  <2>2. resaved' \subseteq 0 .. MaxRev
    BY <1>2, <1>4, <1>5
  <2> QED
    BY <1>2, <1>6, <2>1, <2>2 DEF IInv, TypeOK, Stages
<1>12. Holds'
  <2>1. ASSUME NEW q \in Publishers PROVE (HasJob(q) /\ HasShard(q))'
    BY <1>2, <1>4, <1>6 DEF IInv, Holds, HasJob, HasShard, Working, Published, Stages
  <2>2. ASSUME NEW q \in Committers PROVE (HasLock(q) /\ IsCurrent(q) /\ IsBase(q))'
    <3>1. q # p /\ q \in Publishers /\ pc'[q] = pc[q] /\ job'[q] = job[q]
      BY <1>2 DEF Publishers
    <3>2. IsCurrent(q)'
      \* What was current is of the revision taken back, or of one resaved before.
      <4>1. SUFFICES ASSUME pc[q] \in Carrying, job[q] = snap
                     PROVE  snap.rev \in resaved'
        BY <1>2, <1>4, <3>1 DEF IInv, Holds, IsCurrent
      <4>2. old.rev > snap.rev => snap.rev .. old.rev \subseteq resaved
        BY <1>7 DEF Fits
      <4> QED
        BY <1>4, <1>5, <4>2
    <3>3. IsBase(q)'
      <4>1. SUFFICES ASSUME pc[q] = "write", job[q].rev < snap'.rev
                     PROVE  job[q].rev .. snap'.rev \subseteq resaved'
        BY <3>1 DEF IsBase
      <4>2. PICK base \in Snapshots : base = job[q]
        BY <1>2, <3>1, <4>1 DEF IInv, Holds, HasJob, Working, Stages
      <4>3. base.rev \in Nat
        BY SnapshotFields
      <4>4. base.rev < snap.rev => base.rev .. snap.rev \subseteq resaved
        BY <4>1, <4>2 DEF IInv, Holds, IsBase
      <4> QED
        BY <1>4, <1>5, <1>6, <1>7, <4>1, <4>2, <4>3, <4>4, BaseTakenBack DEF Fits
    <3> QED
      BY <1>2, <3>1, <3>2, <3>3 DEF IInv, Holds, HasLock
  <2> QED
    BY <2>1, <2>2 DEF Holds
<1>13. Sees' /\ OkReadIsFaithful' /\ PointerHasItsShard'
  BY <1>2, <1>4 DEF IInv, Sees, OkReadIsFaithful, PointerHasItsShard
<1> QED
  BY <1>10, <1>11, <1>12, <1>13 DEF IInv

-----------------------------------------------------------------------------
\* A shard is overwritten: with what it holds already, or at a resaved revision.
LEMMA Sharding ==
    ASSUME IInv, NEW p \in Publishers, PublishShard(p)
    PROVE  /\ IInv'
           /\ \A n \in 0 .. MaxRev :
                 shards[n] # None => shards'[n] = shards[n] \/ n \in resaved
<1>1. PICK h : Explains(h)
  BY DEF IInv
<1>2. /\ UNCHANGED <<snap, nextVer, pointer, lock, job, view, resaved>>
      /\ pc[p] = "shard"
      /\ pc \in [Publishers -> Stages]
      /\ pc' = [pc EXCEPT ![p] = "pointer"]
      /\ shards \in [0 .. MaxRev -> Snapshots \union {None}]
      /\ shards' = [shards EXCEPT ![job[p].rev] = job[p]]
  BY DEF PublishShard, ShardOf, Goes, IInv, TypeOK, Stages
<1>3. PICK new \in Snapshots : new = job[p]
  BY <1>2 DEF IInv, TypeOK, Holds, HasJob, Working, Stages
<1>4. new # None /\ new.rev \in 0 .. MaxRev /\ Fits(h, new)
  BY <1>1, <1>3, SnapshotFields DEF Explains
<1>5. /\ shards' \in [0 .. MaxRev -> Snapshots \union {None}]
      /\ shards'[new.rev] = new
      /\ \A i \in 0 .. MaxRev : i # new.rev => shards'[i] = shards[i]
  BY <1>2, <1>3, <1>4
<1>6. \A i \in 0 .. MaxRev : shards[i] # None => shards'[i] = shards[i] \/ i \in resaved
  BY <1>1, <1>4, <1>5 DEF Explains, Fits
<1>7. TypeOK'
  BY <1>2, <1>5 DEF IInv, TypeOK, Stages
<1>8. Sees' /\ OkReadIsFaithful'
  BY <1>2 DEF IInv, Sees, OkReadIsFaithful
<1>9. Explains(h)'
  <2>1. \A i \in 0 .. MaxRev :
           shards'[i] # None => shards'[i].rev = i /\ Fits(h, shards'[i])
    BY <1>1, <1>4, <1>5 DEF Explains
  <2> QED
    BY <1>1, <1>2, <2>1 DEF Explains, Fits
<1>10. PointerHasItsShard'
  <2> SUFFICES ASSUME pointer # None
               PROVE  /\ shards'[pointer.rev] # None /\ shards'[pointer.rev].rev = pointer.rev
                      /\ shards'[pointer.rev].sr = pointer.sr \/ pointer.rev \in resaved
    BY <1>2 DEF PointerHasItsShard
  <2>1. pointer.rev \in 0 .. MaxRev
    BY DEF IInv, TypeOK, Pointers
  <2> QED
    BY <1>4, <1>5, <1>6, <2>1 DEF IInv, PointerHasItsShard
<1>11. Holds'
  <2>1. ASSUME NEW q \in Publishers PROVE (HasJob(q) /\ HasShard(q))'
    <3>1. HasJob(q)'
      BY <1>2, <1>3, <1>4 DEF IInv, Holds, HasJob, Working, Stages
    <3>2. CASE q = p
      BY <1>2, <1>3, <1>4, <1>5, <3>1, <3>2 DEF HasShard
    <3>3. CASE q # p /\ pc[q] \in Published
      <4>1. PICK s \in Snapshots : s = job[q]
        BY <3>3 DEF IInv, TypeOK, Holds, HasJob, Working, Published, Stages
      <4>2. s.rev \in 0 .. MaxRev
        BY SnapshotFields
      <4>3. /\ shards[s.rev] # None
            /\ shards[s.rev] = s \/ s.rev \in resaved
        BY <3>3, <4>1 DEF IInv, Holds, HasShard
      <4> QED
        BY <1>2, <1>4, <1>5, <1>6, <3>1, <4>1, <4>2, <4>3 DEF HasShard
    <3>4. CASE q # p /\ pc[q] \notin Published
      BY <1>2, <3>1, <3>4 DEF HasShard
    <3> QED
      BY <3>2, <3>3, <3>4
  <2>2. ASSUME NEW q \in Committers PROVE (HasLock(q) /\ IsCurrent(q) /\ IsBase(q))'
    <3>1. q \in Publishers /\ pc'[q] = IF q = p THEN "pointer" ELSE pc[q]
      BY <1>2 DEF Publishers
    <3> QED
      BY <1>2, <3>1 DEF IInv, Holds, HasLock, IsCurrent, IsBase, Carrying
  <2> QED
    BY <2>1, <2>2 DEF Holds
<1> QED
  BY <1>6, <1>7, <1>8, <1>9, <1>10, <1>11 DEF IInv

\* A pointer names a shard that is there.
LEMMA Pointing ==
    ASSUME IInv, NEW p \in Publishers, PublishPointer(p)
    PROVE  IInv'
<1>1. PICK h : Explains(h)
  BY DEF IInv
<1>2. /\ UNCHANGED <<snap, nextVer, shards, lock, view, resaved>>
      /\ pc[p] = "pointer"
      /\ pc \in [Publishers -> Stages]
      /\ pc' = [pc EXCEPT ![p] = IF p \in Committers THEN "verify" ELSE "idle"]
      /\ job \in [Publishers -> Snapshots \union {None}]
      /\ job' = IF p \in Committers THEN job ELSE [job EXCEPT ![p] = None]
      /\ pointer' = PointerOf(job[p])
  BY DEF PublishPointer, Goes, IInv, TypeOK, Stages
<1>3. PICK new \in Snapshots : new = job[p]
  BY <1>2 DEF IInv, Holds, HasJob, Working, Stages
<1>4. /\ PointerOf(new) \in Pointers /\ PointerOf(new).rev = new.rev
      /\ PointerOf(new).sr = new.sr /\ new.rev \in 0 .. MaxRev
  BY SnapshotFields DEF PointerOf
<1>5. TypeOK'
  BY <1>2, <1>3, <1>4 DEF IInv, TypeOK, Stages
<1>6. Sees' /\ OkReadIsFaithful'
  BY <1>2 DEF IInv, Sees, OkReadIsFaithful
<1>7. PointerHasItsShard'
  <2>1. /\ shards[new.rev] # None
        /\ shards[new.rev] = new \/ new.rev \in resaved
    BY <1>2, <1>3 DEF IInv, Holds, HasShard, Published
  <2>2. shards[new.rev].rev = new.rev
    BY <1>1, <1>4, <2>1 DEF Explains
  <2> QED
    BY <1>2, <1>3, <1>4, <2>1, <2>2 DEF PointerHasItsShard
<1>8. Explains(h)'
  BY <1>1, <1>2 DEF Explains, Fits
<1>9. Holds'
  <2>1. \A q \in Publishers : q # p => pc'[q] = pc[q] /\ job'[q] = job[q]
    BY <1>2
  <2>2. /\ p \in Committers => pc'[p] = "verify" /\ job'[p] = job[p]
        /\ p \notin Committers => pc'[p] = "idle"
    BY <1>2
  <2>3. ASSUME NEW q \in Publishers PROVE (HasJob(q) /\ HasShard(q))'
    BY <1>2, <2>1, <2>2 DEF IInv, Holds, HasJob, HasShard, Working, Published, Stages
  <2>4. ASSUME NEW q \in Committers PROVE (HasLock(q) /\ IsCurrent(q) /\ IsBase(q))'
    BY <1>2, <2>1, <2>2
       DEF IInv, Holds, HasLock, IsCurrent, IsBase, Carrying, Publishers
  <2> QED
    BY <2>3, <2>4 DEF Holds
<1> QED
  BY <1>5, <1>6, <1>7, <1>8, <1>9 DEF IInv

-----------------------------------------------------------------------------
\* What a reader may hold, given the history.
Seen(h, v) ==
    /\ v \in Views
    /\ v.snap # None => Fits(h, v.snap)
    /\ v.stage \in {"pointer", "shard"} => v.snap # None
    /\ v.stage = "shard" => v.pointer # None /\ Names(v.pointer, v.snap)
    /\ v.stage = "ok" => v.shard = ShardOf(v.snap) \/ v.snap.rev \in resaved

\* Every read of a reader leaves it with something it may hold.
LEMMA ReadSees ==
    ASSUME TypeOK, NEW h, Explains(h), NEW r \in Readers, Seen(h, view[r]), Read(r)
    PROVE  view' = [view EXCEPT ![r] = view'[r]] /\ Seen(h, view'[r])
<1>1. /\ view \in [Readers -> Views] /\ view[r] \in Views
      /\ IdleView \in Views /\ Degraded \in Views
      /\ Degraded = [stage |-> "degraded", snap |-> None, pointer |-> None, shard |-> None]
      /\ IdleView = [stage |-> "idle", snap |-> None, pointer |-> None, shard |-> None]
  BY DEF TypeOK, IdleView, Views, Degraded
<1>2. Seen(h, Degraded) /\ Seen(h, IdleView)
  BY <1>1 DEF Seen
<1>3. CASE ReadSnapshot(r)
  <2> DEFINE v == [IdleView EXCEPT !.stage = "pointer", !.snap = snap]
  <2>1. view' = [view EXCEPT ![r] = v]
    BY <1>3 DEF ReadSnapshot
  <2>2. snap \in Snapshots /\ snap # None /\ Fits(h, snap)
    BY SnapshotFields DEF TypeOK, Explains
  <2>3. v \in Views /\ v.stage = "pointer" /\ v.snap = snap
    <3>1. ASSUME NEW w \in Views
          PROVE  LET x == [w EXCEPT !.stage = "pointer", !.snap = snap]
                 IN  x \in Views /\ x.stage = "pointer" /\ x.snap = snap
      BY <2>2 DEF Views
    <3> QED
      BY <1>1, <3>1
  <2>4. Seen(h, v)
    BY <2>2, <2>3 DEF Seen
  <2> HIDE DEF v
  <2> QED
    BY <1>1, <2>1, <2>4
<1>4. CASE ReadPointer(r)
  <2> DEFINE v == [view[r] EXCEPT !.stage = "shard", !.pointer = pointer]
  <2>1. \/ view' = [view EXCEPT ![r] = Degraded]
        \/ /\ pointer # None /\ Names(pointer, view[r].snap)
           /\ view' = [view EXCEPT ![r] = v]
    BY <1>4 DEF ReadPointer
  <2>2. view[r].stage = "pointer" /\ pointer \in Pointers \union {None}
    BY <1>4 DEF ReadPointer, TypeOK
  <2>3. ASSUME pointer # None, Names(pointer, view[r].snap) PROVE Seen(h, v)
    BY <1>1, <2>2, <2>3 DEF Seen, Views
  <2> QED
    BY <1>1, <1>2, <2>1, <2>3
<1>5. CASE ReadShard(r)
  <2> DEFINE shard == shards[view[r].pointer.rev]
             v == [view[r] EXCEPT !.stage = "ok", !.shard = shard]
  <2>1. \/ view' = [view EXCEPT ![r] = Degraded]
        \/ shard # None /\ view' = [view EXCEPT ![r] = v]
    BY <1>5 DEF ReadShard
  <2>2. /\ view[r].stage = "shard" /\ view[r].snap \in Snapshots /\ Fits(h, view[r].snap)
        /\ view[r].pointer.rev = view[r].snap.rev
    BY <1>1, <1>5 DEF ReadShard, Seen, Views, Names
  <2>3. view[r].snap.rev \in 0 .. MaxRev
    BY <2>2, SnapshotFields
  <2>4. ASSUME shard # None PROVE Seen(h, v)
    <3>1. shard \in Snapshots /\ shard.rev = view[r].snap.rev /\ Fits(h, shard)
      BY <2>2, <2>3, <2>4 DEF TypeOK, Explains
    <3>2. shard = view[r].snap \/ view[r].snap.rev \in resaved
      BY <2>2, <3>1 DEF Fits
    <3>3. v.shard = shard /\ v.snap = view[r].snap /\ v.stage = "ok" /\ v \in Views
      BY <1>1, <3>1 DEF Views
    <3> QED
      BY <2>2, <3>2, <3>3 DEF Seen, ShardOf
  <2> QED
    BY <1>1, <1>2, <2>1, <2>4
<1>6. CASE ReadFails(r) \/ ReadEnd(r)
  BY <1>1, <1>2, <1>6 DEF ReadFails, ReadEnd
<1> QED
  BY <1>3, <1>4, <1>5, <1>6 DEF Read

\* Steps of a reader.
LEMMA Reading ==
    ASSUME IInv, NEW r \in Readers, Read(r)
    PROVE  IInv'
<1>1. PICK h : Explains(h)
  BY DEF IInv
<1>2. UNCHANGED <<snap, nextVer, shards, pointer, lock, pc, job, resaved>>
  BY DEF Read, ReadSnapshot, ReadPointer, ReadShard, ReadFails, ReadEnd
<1>3. view \in [Readers -> Views] /\ \A q \in Readers : Seen(h, view[q])
  BY <1>1 DEF IInv, TypeOK, Sees, OkReadIsFaithful, Explains, Seen
<1>4. view' = [view EXCEPT ![r] = view'[r]] /\ Seen(h, view'[r])
  BY <1>1, <1>3, ReadSees DEF IInv
<1>5. \A q \in Readers : Seen(h, view'[q]) /\ view'[q] \in Views
  BY <1>3, <1>4 DEF Seen
<1>6. view' \in [Readers -> Views]
  BY <1>3, <1>4, <1>5
<1>7. TypeOK'
  BY <1>2, <1>6 DEF IInv, TypeOK
<1>8. Holds' /\ PointerHasItsShard'
  BY <1>2 DEF IInv, Holds, HasJob, HasShard, HasLock, IsCurrent, IsBase, PointerHasItsShard
<1>9. Sees' /\ OkReadIsFaithful'
  BY <1>2, <1>5 DEF Sees, OkReadIsFaithful, Seen
<1>10. Explains(h)'
  BY <1>1, <1>2, <1>5 DEF Explains, Fits, Seen
<1> QED
  BY <1>7, <1>8, <1>9, <1>10 DEF IInv

LEMMA Step == IInv /\ [Next]_vars => IInv'
<1> SUFFICES ASSUME IInv, [Next]_vars PROVE IInv'
  OBVIOUS
<1>1. CASE Next
  <2>1. ASSUME NEW p \in Committers, Commit(p) PROVE IInv'
    <3>1. p \in Publishers
      BY DEF Publishers
    <3> QED
      BY <2>1, <3>1, Carry, Committing, Sharding, Pointing DEF Commit, Quiet
  <2>2. ASSUME NEW p \in Rebuilders, Rebuild(p) PROVE IInv'
    <3>1. p \in Publishers
      BY DEF Publishers
    <3> QED
      BY <2>2, <3>1, Carry, Sharding, Pointing DEF Rebuild, Quiet
  <2>3. ASSUME NEW p \in Savers, Save(p) PROVE IInv'
    <3>1. p \in Publishers
      BY DEF Publishers
    <3> QED
      BY <2>3, <3>1, Carry, Saving, Sharding, Pointing DEF Save, Quiet
  <2>4. ASSUME NEW r \in Readers, Read(r) PROVE IInv'
    BY <2>4, Reading
  <2>5. CASE ReclaimLock
    <3>1. /\ UNCHANGED <<snap, nextVer, shards, pointer, pc, job, view, resaved>>
          /\ lock = Orphan /\ lock' = Free
      BY <2>5 DEF ReclaimLock
    <3>2. \A p \in Committers : pc[p] = "idle"
      BY <3>1, LockAssumption DEF IInv, Holds, HasLock
    <3>3. Holds'
      BY <3>1, <3>2 DEF IInv, Holds, HasJob, HasShard, HasLock, IsCurrent, IsBase, Carrying
    <3>4. PICK h : Explains(h)
      BY DEF IInv
    <3>5. Explains(h)'
      BY <3>1, <3>4 DEF Explains, Fits
    <3> QED
      BY <3>1, <3>3, <3>5 DEF IInv, TypeOK, Sees, PointerHasItsShard, OkReadIsFaithful
  <2> QED
    BY <1>1, <2>1, <2>2, <2>3, <2>4, <2>5 DEF Next
<1>2. CASE UNCHANGED vars
  <2>1. PICK h : Explains(h)
    BY DEF IInv
  <2>2. Explains(h)'
    BY <1>2, <2>1 DEF Explains, Fits, vars
  <2> QED
    BY <1>2, <2>2 DEF IInv, TypeOK, Holds, HasJob, HasShard, HasLock, IsCurrent, IsBase,
       Sees, PointerHasItsShard, OkReadIsFaithful, vars
<1> QED
  BY <1>1, <1>2

-----------------------------------------------------------------------------
(***************************************************************************)
(* One history explains the snapshot, the shards and all that publishers   *)
(* and readers of change-summary-shard.ts carry, for every revision that   *)
(* no store save has rewritten or taken back.                              *)
(***************************************************************************)
THEOREM Soundness == Spec => []IInv
  BY Start, Step, PTL DEF Spec

\* The variables keep their types: revisions and contents stay in bounds.
THEOREM TypeCorrect == Spec => []TypeOK
<1>1. IInv => TypeOK
  BY DEF IInv
<1> QED
  BY <1>1, Soundness, PTL

(***************************************************************************)
(* readCurrentSummaryShard: an "ok" read is the summary of its snapshot,   *)
(* unless a store save has rewritten that revision.                        *)
(***************************************************************************)
THEOREM FaithfulReads == Spec => []OkReadIsFaithful
<1>1. IInv => OkReadIsFaithful
  BY DEF IInv
<1> QED
  BY <1>1, Soundness, PTL

\* publishSummaryForChange: the pointer never names a missing shard, whoever publishes.
THEOREM PointerAfterShard == Spec => []PointerHasItsShard
<1>1. IInv => PointerHasItsShard
  BY DEF IInv
<1> QED
  BY <1>1, Soundness, PTL

(***************************************************************************)
(* Crashes leave the index behind the snapshot, never in front of it; only *)
(* a store save that takes the snapshot back does.                         *)
(***************************************************************************)
THEOREM IndexBehind == Spec => []IndexNeverAhead
<1>1. IInv => IndexNeverAhead
  <2> SUFFICES ASSUME IInv PROVE IndexNeverAhead
    OBVIOUS
  <2>1. PICK h : Explains(h)
    BY DEF IInv
  <2>2. snap \in Snapshots /\ snap.rev \in Nat /\ snap.sr \in Nat
    BY SnapshotFields DEF IInv, TypeOK
  <2>3. ASSUME NEW n \in 0 .. MaxRev, shards[n] # None
        PROVE  n <= snap.rev \/ n \in resaved
    BY <2>1, <2>2, <2>3 DEF Explains, Fits
  <2>4. ASSUME pointer # None, pointer.rev \notin resaved
        PROVE  pointer.rev <= snap.rev /\ pointer.sr <= snap.sr
    <3>1. pointer.rev \in 0 .. MaxRev
      BY <2>4 DEF IInv, TypeOK, Pointers
    <3>2. PICK s \in Snapshots : s = shards[pointer.rev]
      BY <2>4, <3>1 DEF IInv, TypeOK, PointerHasItsShard
    <3>3. s.rev = pointer.rev /\ s.sr = pointer.sr /\ s # None
      BY <2>4, <3>2 DEF IInv, PointerHasItsShard
    <3>4. pointer.rev <= snap.rev /\ s = h[pointer.rev]
      BY <2>1, <2>3, <2>4, <3>1, <3>2, <3>3 DEF Explains, Fits
    <3> QED
      BY <2>1, <2>2, <2>4, <3>1, <3>3, <3>4 DEF Explains, Fits
  <2> QED
    BY <2>3, <2>4 DEF IndexNeverAhead
<1> QED
  BY <1>1, Soundness, PTL

(***************************************************************************)
(* commitChangeProjectionWithSummary: a proved publication is indexed,     *)
(* until a store save of the same revision replaces it.                    *)
(***************************************************************************)
THEOREM ProvedIsIndexed == Spec => []ProvedCommitIsIndexed
<1>1. IInv => ProvedCommitIsIndexed
  BY DEF IInv, Holds, HasShard, IsCurrent, Carrying, Published, ProvedCommitIsIndexed,
         ShardOf, Publishers
<1> QED
  BY <1>1, Soundness, PTL

-----------------------------------------------------------------------------
\* Only PublishShard writes a shard.
LEMMA OnlyPublishShard ==
    ASSUME Next, shards' # shards
    PROVE  \E p \in Publishers : PublishShard(p)
<1>1. ~ReclaimLock /\ \A r \in Readers : ~Read(r)
  BY DEF ReclaimLock, Read, ReadSnapshot, ReadPointer, ReadShard, ReadFails, ReadEnd
<1>2. ASSUME NEW p \in Committers, Commit(p) PROVE PublishShard(p)
  BY <1>2 DEF Commit, CommitBegin, CommitLoad, CommitWrite, CommitReadback, CommitRefused,
              PublishPointer, PublishFails, VerifyPointer, VerifyShard, CommitRelease, Crash
<1>3. ASSUME NEW p \in Rebuilders, Rebuild(p) PROVE PublishShard(p)
  BY <1>3 DEF Rebuild, RebuildLoad, PublishPointer, PublishFails, Crash
<1>4. ASSUME NEW p \in Savers, Save(p) PROVE PublishShard(p)
  BY <1>4 DEF Save, StoreLoad, StoreSave, PublishPointer, PublishFails, Crash
<1> QED
  BY <1>1, <1>2, <1>3, <1>4 DEF Next, Publishers

(***************************************************************************)
(* The shard of a revision that no store save has touched never changes    *)
(* once it is there, however often and however late it is written again.   *)
(***************************************************************************)
THEOREM ShardsChangeBySavesOnly == Spec => OnlySavesRewriteShards
<1> DEFINE Kept == \A n \in 0 .. MaxRev :
                      shards[n] # None => shards'[n] = shards[n] \/ n \in resaved
<1>1. IInv /\ [Next]_vars => [Kept]_vars
  <2> SUFFICES ASSUME IInv, Next PROVE Kept
    OBVIOUS
  <2>1. CASE shards' = shards
    BY <2>1
  <2>2. CASE shards' # shards
    BY <2>2, OnlyPublishShard, Sharding
  <2> QED
    BY <2>1, <2>2
<1> QED
  BY <1>1, Soundness, PTL DEF Spec, OnlySavesRewriteShards
=============================================================================
