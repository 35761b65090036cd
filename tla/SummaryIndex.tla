---------------------------- MODULE SummaryIndex ----------------------------
(***************************************************************************)
(* The per-change summary index of                                         *)
(* plugin/src/storage/change-summary-shard.ts: a shard file per projection *)
(* revision and a pointer file to the current one, published after the     *)
(* full snapshot (change.json) by                                          *)
(*   - commitChangeProjectionWithSummary, under the change's lock;         *)
(*   - rebuildSummaryIndex, without a lock;                                *)
(*   - persistChangeProjection, every save of the disk store (store-disk): *)
(*     it loads the snapshot, writes it back whole WITHOUT the lock and    *)
(*     under the revision it had, and publishes it;                        *)
(* and read by readCurrentSummaryShard in three separate reads.            *)
(*                                                                         *)
(* A store save breaks the rule that a revision names one content, and can *)
(* put an older revision over a newer one.  The auxiliary set resaved has  *)
(* the revisions this has happened to: the one saved and, if the snapshot  *)
(* had moved on since the save loaded it, every revision taken back.  What *)
(* the index promises, it promises for the others.                         *)
(*                                                                         *)
(* A snapshot's content is the number ver, new at every write.             *)
(***************************************************************************)
EXTENDS Integers

CONSTANTS
    Committers, Rebuilders, Savers, Readers,
    None,       \* no file / nothing read
    Free, Orphan,
    MaxRev,     \* bound: projection revisions
    MaxVer      \* bound: snapshots written

ASSUME BoundsAssumption == MaxRev \in Nat /\ MaxVer \in Nat
ASSUME LockAssumption == {Free, Orphan} \intersect Committers = {}
ASSUME RolesAssumption ==
    /\ Committers \intersect Rebuilders = {}
    /\ Savers \intersect (Committers \union Rebuilders) = {}

Publishers == Committers \union Rebuilders \union Savers

VARIABLES
    snap,     \* change.json: projection and state revision, last operation, content
    nextVer,  \* auxiliary: the next content number
    shards,   \* revisions/<rev>.json
    pointer,  \* current.json
    lock,     \* change.json.lock
    pc, job,  \* where each publisher stands, and the snapshot it works on
    view,     \* each reader's progress: what it has read, and its result
    resaved   \* auxiliary: revisions rewritten or taken back by store saves

vars == <<snap, nextVer, shards, pointer, lock, pc, job, view, resaved>>

Snapshots ==
    {s \in [rev : 0 .. MaxRev, sr : 0 .. MaxRev, op : 0 .. MaxVer, ver : 0 .. MaxVer] :
        s.sr <= s.rev}

Pointers == [rev : 0 .. MaxRev, sr : 0 .. MaxRev, op : 0 .. MaxVer]

ASSUME NoneAssumption == None \notin Snapshots

Views == [stage : {"idle", "pointer", "shard", "ok", "degraded"},
          snap : Snapshots \union {None},
          pointer : Pointers \union {None},
          shard : Snapshots \union {None}]

IdleView == [stage |-> "idle", snap |-> None, pointer |-> None, shard |-> None]

\* A degraded result carries a reason only.
Degraded == [IdleView EXCEPT !.stage = "degraded"]

(***************************************************************************)
(* deriveSummaryShard keeps revision, state revision and the content it    *)
(* summarises; operation_id is the last audit entry's, which a save keeps. *)
(* At revision 0, where there is no entry, creation and later publishers   *)
(* name it differently, a mismatch that degrades the read (ReadFails).     *)
(***************************************************************************)
ShardOf(s) == s

PointerOf(s) == [rev |-> s.rev, sr |-> s.sr, op |-> s.op]

\* A reader compares the pointer with the snapshot by both revisions only.
Names(ptr, s) == ptr.rev = s.rev /\ ptr.sr = s.sr

\* A change as created: the snapshot, with or (legacy) without its summary.
Init ==
    /\ snap = [rev |-> 0, sr |-> 0, op |-> 0, ver |-> 0]
    /\ nextVer = 1
    /\ lock = Free
    /\ \E indexed \in BOOLEAN :
          /\ shards = [n \in 0 .. MaxRev |->
                          IF indexed /\ n = 0 THEN ShardOf(snap) ELSE None]
          /\ pointer = IF indexed THEN PointerOf(snap) ELSE None
    /\ pc = [p \in Publishers |-> "idle"]
    /\ job = [p \in Publishers |-> None]
    /\ view = [r \in Readers |-> IdleView]
    /\ resaved = {}

Goes(p, to) == pc' = [pc EXCEPT ![p] = to]

-----------------------------------------------------------------------------
\* Mutant: the commit does not wait for the lock.
CommitBeginUnlocked(p) ==
    /\ pc[p] = "idle"
    /\ lock' = p
    /\ Goes(p, "load")
    /\ UNCHANGED <<snap, nextVer, shards, pointer, job, view, resaved>>

\* The transaction takes the change's lock ...
CommitBegin(p) ==
    /\ pc[p] = "idle"
    /\ lock = Free
    /\ lock' = p
    /\ Goes(p, "load")
    /\ UNCHANGED <<snap, nextVer, shards, pointer, job, view, resaved>>

\* ... loads the latest snapshot ...
CommitLoad(p) ==
    /\ pc[p] = "load"
    /\ job' = [job EXCEPT ![p] = snap]
    /\ Goes(p, "write")
    /\ UNCHANGED <<snap, nextVer, shards, pointer, lock, view, resaved>>

\* Mutant: the revision is not incremented.
CommitWriteSameRev(p) ==
    /\ pc[p] = "write"
    /\ nextVer <= MaxVer
    /\ snap' = [job[p] EXCEPT !.op = nextVer, !.ver = nextVer]
    /\ job' = [job EXCEPT ![p] = snap']
    /\ nextVer' = nextVer + 1
    /\ Goes(p, "readback")
    /\ UNCHANGED <<shards, pointer, lock, view, resaved>>

\* Mutant: the summary is published before the snapshot is written.
CommitWriteSkipped(p) ==
    /\ pc[p] = "write"
    /\ job[p].rev < MaxRev
    /\ nextVer <= MaxVer
    /\ job' = [job EXCEPT ![p] = [@ EXCEPT !.rev = @ + 1, !.op = nextVer, !.ver = nextVer]]
    /\ nextVer' = nextVer + 1
    /\ Goes(p, "shard")
    /\ UNCHANGED <<snap, shards, pointer, lock, view, resaved>>

\* ... and writes it under a new revision, the state revision kept or advanced.
CommitWrite(p) ==
    /\ pc[p] = "write"
    /\ job[p].rev < MaxRev
    /\ nextVer <= MaxVer
    /\ \E sr \in {job[p].sr, job[p].sr + 1} :
          snap' = [rev |-> job[p].rev + 1, sr |-> sr, op |-> nextVer, ver |-> nextVer]
    /\ job' = [job EXCEPT ![p] = snap']
    /\ nextVer' = nextVer + 1
    /\ Goes(p, "readback")
    /\ UNCHANGED <<shards, pointer, lock, view, resaved>>

(***************************************************************************)
(* What it reads back is published, if it carries the commit's revision    *)
(* and operation - which a store save that came in between preserves.      *)
(***************************************************************************)
CommitReadback(p) ==
    /\ pc[p] = "readback"
    /\ Goes(p, IF PointerOf(snap) = PointerOf(job[p]) THEN "shard" ELSE "release")
    /\ job' = [job EXCEPT ![p] = IF PointerOf(snap) = PointerOf(@) THEN snap ELSE None]
    /\ UNCHANGED <<snap, nextVer, shards, pointer, lock, view, resaved>>

\* A fence refuses the mutation, or the load, the write or the readback fails.
CommitRefused(p) ==
    /\ pc[p] \in {"load", "write", "readback"}
    /\ Goes(p, "release")
    /\ job' = [job EXCEPT ![p] = None]
    /\ UNCHANGED <<snap, nextVer, shards, pointer, lock, view, resaved>>

\* rebuildSummaryIndex loads the snapshot ...
RebuildLoad(p) ==
    /\ pc[p] = "idle"
    /\ job' = [job EXCEPT ![p] = snap]
    /\ Goes(p, "shard")
    /\ UNCHANGED <<snap, nextVer, shards, pointer, lock, view, resaved>>

\* A store save loads the snapshot and changes it in memory ...
StoreLoad(p) ==
    /\ pc[p] = "idle"
    /\ job' = [job EXCEPT ![p] = snap]
    /\ Goes(p, "save")
    /\ UNCHANGED <<snap, nextVer, shards, pointer, lock, view, resaved>>

(***************************************************************************)
(* ... and saveChange writes it over whatever is there by now: new         *)
(* content, but revision, state revision and audit as loaded.              *)
(***************************************************************************)
StoreSave(p) ==
    /\ pc[p] = "save"
    /\ nextVer <= MaxVer
    /\ snap' = [job[p] EXCEPT !.ver = nextVer]
    /\ job' = [job EXCEPT ![p] = snap']
    /\ nextVer' = nextVer + 1
    /\ resaved' = resaved \union {job[p].rev} \union (job[p].rev .. snap.rev)
    /\ Goes(p, "shard")
    /\ UNCHANGED <<shards, pointer, lock, view>>

\* Mutant: the shard is not written before the pointer.
PublishShardSkipped(p) ==
    /\ pc[p] = "shard"
    /\ Goes(p, "pointer")
    /\ UNCHANGED <<snap, nextVer, shards, pointer, lock, job, view, resaved>>

\* publishSummaryForChange: first the shard of the snapshot's revision ...
PublishShard(p) ==
    /\ pc[p] = "shard"
    /\ shards' = [shards EXCEPT ![job[p].rev] = ShardOf(job[p])]
    /\ Goes(p, "pointer")
    /\ UNCHANGED <<snap, nextVer, pointer, lock, job, view, resaved>>

\* ... then the pointer to it.
PublishPointer(p) ==
    /\ pc[p] = "pointer"
    /\ pointer' = PointerOf(job[p])
    /\ Goes(p, IF p \in Committers THEN "verify" ELSE "idle")
    /\ job' = IF p \in Committers THEN job ELSE [job EXCEPT ![p] = None]
    /\ UNCHANGED <<snap, nextVer, shards, lock, view, resaved>>

\* A write of any of these files fails: the publisher, or the commit's hook, ends there.
PublishFails(p) ==
    /\ pc[p] \in {"save", "shard", "pointer"}
    /\ Goes(p, IF p \in Committers THEN "release" ELSE "idle")
    /\ job' = [job EXCEPT ![p] = None]
    /\ UNCHANGED <<snap, nextVer, shards, pointer, lock, view, resaved>>

(***************************************************************************)
(* The hook reads the pointer back, then the shard.  A mismatch (another   *)
(* publisher came in between) makes the result an error, the files stay.   *)
(***************************************************************************)
VerifyPointer(p) ==
    /\ pc[p] = "verify"
    /\ Goes(p, IF pointer = PointerOf(job[p]) THEN "verifyShard" ELSE "release")
    /\ UNCHANGED <<snap, nextVer, shards, pointer, lock, job, view, resaved>>

VerifyShard(p) ==
    LET shard == shards[job[p].rev]
    IN  /\ pc[p] = "verifyShard"
        /\ Goes(p, IF shard # None /\ PointerOf(shard) = PointerOf(job[p])
                   THEN "proved" ELSE "release")
        /\ UNCHANGED <<snap, nextVer, shards, pointer, lock, job, view, resaved>>

(***************************************************************************)
(* The lock is released.  Pointer and shard are read once more, to be      *)
(* returned with the result; that changes nothing here.                    *)
(***************************************************************************)
CommitRelease(p) ==
    /\ pc[p] \in {"proved", "release"}
    /\ lock' = Free
    /\ Goes(p, "idle")
    /\ job' = [job EXCEPT ![p] = None]
    /\ UNCHANGED <<snap, nextVer, shards, pointer, view, resaved>>

\* The publisher's process dies; a lock it holds is left behind.
Crash(p) ==
    /\ pc[p] # "idle"
    /\ Goes(p, "idle")
    /\ job' = [job EXCEPT ![p] = None]
    /\ lock' = IF lock = p THEN Orphan ELSE lock
    /\ UNCHANGED <<snap, nextVer, shards, pointer, view, resaved>>

\* A contender removes the stale lock of a crashed committer.
ReclaimLock ==
    /\ lock = Orphan
    /\ lock' = Free
    /\ UNCHANGED <<snap, nextVer, shards, pointer, pc, job, view, resaved>>

-----------------------------------------------------------------------------
\* readCurrentSummaryShard, first read: the authoritative snapshot.
ReadSnapshot(r) ==
    /\ view[r].stage = "idle"
    /\ view' = [view EXCEPT ![r] = [IdleView EXCEPT !.stage = "pointer", !.snap = snap]]
    /\ UNCHANGED <<snap, nextVer, shards, pointer, lock, pc, job, resaved>>

\* Mutant: a pointer behind the snapshot is taken as current.
ReadPointerAcceptsStale(r) ==
    /\ view[r].stage = "pointer"
    /\ view' = [view EXCEPT
                   ![r] = IF pointer # None
                          THEN [@ EXCEPT !.stage = "shard", !.pointer = pointer]
                          ELSE Degraded]
    /\ UNCHANGED <<snap, nextVer, shards, pointer, lock, pc, job, resaved>>

\* Second read: the pointer, which must be neither ahead of the snapshot nor behind.
ReadPointer(r) ==
    /\ view[r].stage = "pointer"
    /\ view' = [view EXCEPT
                   ![r] = IF pointer # None /\ Names(pointer, @.snap)
                          THEN [@ EXCEPT !.stage = "shard", !.pointer = pointer]
                          ELSE Degraded]
    /\ UNCHANGED <<snap, nextVer, shards, pointer, lock, pc, job, resaved>>

\* Third read: the shard, which must agree with the pointer.
ReadShard(r) ==
    LET shard == shards[view[r].pointer.rev]
    IN  /\ view[r].stage = "shard"
        /\ view' = [view EXCEPT
                       ![r] = IF shard # None /\ PointerOf(shard) = @.pointer
                              THEN [@ EXCEPT !.stage = "ok", !.shard = shard]
                              ELSE Degraded]
        /\ UNCHANGED <<snap, nextVer, shards, pointer, lock, pc, job, resaved>>

\* Pointer or shard cannot be read or parsed.
ReadFails(r) ==
    /\ view[r].stage \in {"pointer", "shard"}
    /\ view' = [view EXCEPT ![r] = Degraded]
    /\ UNCHANGED <<snap, nextVer, shards, pointer, lock, pc, job, resaved>>

\* The caller has used the result.
ReadEnd(r) ==
    /\ view[r].stage \in {"ok", "degraded"}
    /\ view' = [view EXCEPT ![r] = IdleView]
    /\ UNCHANGED <<snap, nextVer, shards, pointer, lock, pc, job, resaved>>

-----------------------------------------------------------------------------
Commit(p) ==
    \/ CommitBegin(p) \/ CommitLoad(p) \/ CommitWrite(p) \/ CommitReadback(p)
    \/ CommitRefused(p)
    \/ PublishShard(p) \/ PublishPointer(p) \/ PublishFails(p)
    \/ VerifyPointer(p) \/ VerifyShard(p) \/ CommitRelease(p) \/ Crash(p)

Rebuild(p) ==
    \/ RebuildLoad(p) \/ PublishShard(p) \/ PublishPointer(p)
    \/ PublishFails(p) \/ Crash(p)

Save(p) ==
    \/ StoreLoad(p) \/ StoreSave(p) \/ PublishShard(p) \/ PublishPointer(p)
    \/ PublishFails(p) \/ Crash(p)

Read(r) ==
    \/ ReadSnapshot(r) \/ ReadPointer(r) \/ ReadShard(r)
    \/ ReadFails(r) \/ ReadEnd(r)

Next ==
    \/ \E p \in Committers : Commit(p)
    \/ \E p \in Rebuilders : Rebuild(p)
    \/ \E p \in Savers : Save(p)
    \/ \E r \in Readers : Read(r)
    \/ ReclaimLock

Spec == Init /\ [][Next]_vars

-----------------------------------------------------------------------------
TypeOK ==
    /\ snap \in Snapshots
    /\ nextVer \in 1 .. MaxVer + 1
    /\ shards \in [0 .. MaxRev -> Snapshots \union {None}]
    /\ pointer \in Pointers \union {None}
    /\ lock \in Committers \union {Free, Orphan}
    /\ pc \in [Publishers -> {"idle", "load", "write", "readback", "save", "shard",
                              "pointer", "verify", "verifyShard", "proved", "release"}]
    /\ job \in [Publishers -> Snapshots \union {None}]
    /\ view \in [Readers -> Views]
    /\ resaved \subseteq 0 .. MaxRev

(***************************************************************************)
(* A read that reports "ok" returns the summary of the very snapshot it    *)
(* checked it against, although snapshot, pointer and shard are read one   *)
(* after the other while commits and unlocked rebuilds replace them -      *)
(* unless a store save has rewritten the snapshot's revision.              *)
(***************************************************************************)
OkReadIsFaithful ==
    \A r \in Readers :
        view[r].stage = "ok" =>
            view[r].shard = ShardOf(view[r].snap) \/ view[r].snap.rev \in resaved

(***************************************************************************)
(* The pointer never names a shard that is missing or of another revision, *)
(* whoever publishes and wherever a publisher dies; after a store save the *)
(* two can be of different publications of that revision.                  *)
(***************************************************************************)
PointerHasItsShard ==
    pointer # None =>
        LET shard == shards[pointer.rev]
        IN  /\ shard # None /\ shard.rev = pointer.rev
            /\ shard.sr = pointer.sr \/ pointer.rev \in resaved

(***************************************************************************)
(* Pointer and shards are never ahead of the snapshot they summarise: a    *)
(* crash between the writes leaves the index behind, never in front.  Only *)
(* a store save that takes the snapshot back leaves the index ahead of it. *)
(***************************************************************************)
IndexNeverAhead ==
    /\ pointer # None =>
          \/ pointer.rev <= snap.rev /\ pointer.sr <= snap.sr
          \/ pointer.rev \in resaved
    /\ \A n \in 0 .. MaxRev : shards[n] # None => n <= snap.rev \/ n \in resaved

(***************************************************************************)
(* A commit whose hook proved the publication is indexed: the shard of its *)
(* revision summarises exactly the snapshot it published, which is still   *)
(* the current one, and the pointer has named it.  Rebuilds that started   *)
(* before the commit can move the pointer back, never the shard's content; *)
(* a store save of that revision can replace both.                         *)
(***************************************************************************)
ProvedCommitIsIndexed ==
    \A p \in Committers :
        pc[p] = "proved" =>
            \/ snap = job[p] /\ shards[job[p].rev] = ShardOf(job[p])
            \/ job[p].rev \in resaved

(***************************************************************************)
(* Once there is a shard for a revision its content changes only if store  *)
(* saves have rewritten that revision, although every commit and every     *)
(* rebuild, however late, writes the file again.                           *)
(***************************************************************************)
OnlySavesRewriteShards ==
    [][\A n \in 0 .. MaxRev :
          shards[n] # None => shards'[n] = shards[n] \/ n \in resaved]_vars

(***************************************************************************)
(* The file's header promises more: "revisions/<rev>.json  # immutable     *)
(* shard".  It does NOT hold: every store save writes the shard of an      *)
(* unchanged revision again, with other content.                           *)
(***************************************************************************)
ShardsAreImmutable ==
    [][\A n \in 0 .. MaxRev : shards[n] # None => shards'[n] = shards[n]]_vars
=============================================================================
