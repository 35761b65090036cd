# Formal model of Advance's changes, archive and worktrees

Advance is an OpenCode plugin (TypeScript, `src/plugin/src`) that keeps *changes* — proposals with
tasks, gates, wisdom and deltas — as JSON files on disk, and lets several agents and sessions, in
several operating-system processes, work on them at once. There is no server and no database: what
keeps a change intact is a set of protocols over files and git — an advisory lock file, a
conditional write transaction, read-back proofs, copy-before-remove, an index published after the
data it summarises, a gate sequence that calls check before they commit, an archive that has to
survive a crash at any of its steps, and worktree deletions that are planned, checked again and run
under a lease and a deadline. Those protocols are the subject of these TLA+ modules: unit tests
drive them one call at a time, while their failures take two or three processes and a crash between
two system calls.

Paths below are relative to `src/plugin/src` unless they start with `src/`.

## 1. The system's parts

| Part | Source | State it keeps | Operations | Talks to |
|---|---|---|---|---|
| Advisory file lock | `utils/fs.ts` | `<path>.lock` ("pid, timestamp") | `acquireFileLock`, the release closure, `boundedRetry` | the transaction, JSONL stores, epics, archive |
| Change projection transaction | `storage/change-projection-transaction.ts` | `changes/<id>/change.json`: revision, state revision, the last 50 commit audits | `commitChangeProjection` | lock, `loadChange`, `atomicWriteFile`, afterCommit hook |
| Typed mutation coordinator | `tools/change-mutation-coordinator.ts` | none | `executeDiskPath` | transaction; maps results to tool answers |
| Disk store | `storage/store-disk.ts`, `storage/json.ts` | the same `change.json`; id allocation | `changes.*`, `tasks.*`, `gates.*`, `wisdom.*` through `persistChangeProjection` | summary index |
| Closed-change retirement | `storage/closed-bundle.ts`, `tools/change/handlers-lifecycle.ts` | `closed/<id>/change.json` | `retireClosedChange`, the close handler | transaction, `removeChangeDir` |
| Summary index | `storage/change-summary-shard.ts` | `revisions/<rev>.json`, `current.json` | publish, rebuild, three-read lookup | transaction (hook), store |
| Git worktree lock | `utils/git-worktree-flock.ts` | the lock record (pid, owner token), a kernel flock child | `acquireGitWorktreeFlock`, `releaseGitWorktreeFlock`, kernel flock | worktree lease and operation |
| Worktree lease, operation runner | `utils/worktree-lease.ts`, `utils/worktree-operation.ts`, `utils/process-runner.ts` | lease files, child processes, timers | acquire, run with deadline and abort | git |
| Worktree creation, deletion | `tools/worktree/*` | worktree registry | plan, revalidate, execute deletions | git, leases, sessions |
| Gates and tasks | `types/gates.ts`, `tools/gate.ts`, `tools/task.ts`, `tools/checkpoint.ts`, `tools/change/handlers-misc.ts` | gate and task records inside the change | complete a gate, re-enter with cascade, add, update, cancel, checkpoint tasks | coordinator, store, git |
| Epics | `tools/epic*.ts`, `storage/epics-disk.ts` | `epics/<id>`; membership on both sides | link, unlink, converge, retire | change store and epic store |
| Archive | `archive/*`, `tools/change/handlers-archive.ts`, `tools/archive-helpers/*` | archive bundles, git state | bundle, prove, finalise, retry | transaction, git |
| Reconciliation, quarantine, recovery | `storage/reconcile-*.ts`, `tools/change-projection-quarantine.ts`, `tools/_recovery-writers.ts` | plans, quarantine directories | plan, apply, move aside, repair | all of the above |
| Backlog, project wisdom | `storage/jsonl-atomic-writer.ts`, `utils/backlog-store.ts`, `storage/project-wisdom.ts` | JSONL files, in-process queue | append, rewrite | file lock |
| Deadlines and budgets | `utils/tool-deadline.ts`, `utils/tool-budgets.ts`, `utils/safe-execute.ts` | timers | abandon a call that keeps running | every tool |
| Migration, launcher cache, validators, plugin wiring | `migration/*`, `storage/launcher-projection*.ts`, `validator/*`, `index.ts`, `mcp-server/*` | caches, receipts | derived or one-off | — |

What is hard in it:

- **Interleaving.** Every `await` on a file is a point where another session runs. A value read
  before it may be stale after it: a lock judged dead, a copy loaded without a lock, three files
  read one after the other.
- **Crashes between system calls.** Exclusive create and content are two calls, as are write and
  directory fsync, copy and remove, shard and pointer.
- **Retries.** A caller that got an error may have succeeded; operations carry ids so that a replay
  can be recognised, but only the last 50 are remembered.
- **Partial failure after the point of no return.** The hook, the postcondition and the read-back
  run after the projection is durable; a push may have arrived although its answer did not.
- **Decisions that outlive their reading.** A tool call reads the change, decides, and commits on
  the latest record without deciding again.
- **Processes that outlive their call.** A deadline signals `git worktree remove` and the hooks; a
  crash of the plugin orphans them.

What makes each part correct: the lock excludes and does not block for ever; the transaction neither
loses a reported mutation nor applies one twice, and its result is true; a close never destroys the
only copy; the index is never ahead of its data and an "ok" read is faithful, as long as a revision
names one content; one caller at a time owns the worktree lock; gates are completed in order, a done
task has its checkpoint and an archived change is finished; an archive declares nothing released
that is not merged, destroys no unmerged work and gets to an end when it is repeated; deletions of
one worktree do not overlap and say truly what they did. `PROJECT.json` lists the hazards by line.

## 2. Modules

| Module | Models |
|---|---|
| `CrashLock` | abstract specification: the lock every part takes for granted, left behind by a crash and then reclaimed |
| `FileLock` | `acquireFileLock`, every system call a step; instantiates `CrashLock` |
| `MutationLog` | abstract specification: what the transaction promises, as an atomic object |
| `ChangeProjection` | `commitChangeProjection`; instantiates `MutationLog` and `CrashLock` |
| `DiskStore` | `ChangeProjection` composed with the store's unlocked load–mutate–save |
| `Retirement` | `ChangeProjection` composed with the close handler and `retireClosedChange` |
| `SummaryIndex` | the index, its publishers (commit, rebuild, store save) and its reader |
| `WorktreeLock` | the worktree lock record |
| `Lifecycle` | gates and tasks of one change: every call with its reading and its later commit |
| `Archive` | `adv_change_archive` from load to retirement, with retries, git and the pull request |
| `WorktreeDelete` | the deletion plan and its apply, with lease, processes, deadline |
| `*Proofs` | theorems and proofs; those about `DiskStore` are in `RetirementProofs` |
| `MC*` | finite instances for TLC |

### CrashLock

Three variables: the lock (free, held, left behind), the users inside their critical section, and
`broken`, after which nothing is promised. `Take` needs a free lock and nobody inside; `Leave` is
the holder's alone and frees the lock or leaves it behind; `Reclaim` removes only what was left
behind. It is the meeting point of the modules. `FileLock` and `WorktreeLock` implement it up to
the theft or displacement their own exception names (`broken <- stolen`, `broken <- displaced`).
`ChangeProjection` and `WorktreeDelete`, which model their lock or lease as one variable, implement
it with `broken <- FALSE`: their steps ask nothing else of the lock, so what the lock modules show
is what these need. `SummaryIndex` and `Archive` use their locks in the same way and repeat no
refinement.

### FileLock

`file` is the lock file (absent, empty or full; by whom; aged or not), `pc` the await each caller
stands at, `seen` the content a contender read. `Create` and `WriteContent` are the two calls of the
exclusive write, `Inspect`, `Judge` and `Reclaim` the stale check, `Retry` and `GiveUp` the bounded
retry, `Release` the closure. `CreateThrows` and `WriteThrows` are the failures that are rethrown,
`InspectFails`, `ReclaimFails` and `ReleaseFails` those that are swallowed: a read or unlink that
fails makes the attempt a miss, a release that fails leaves the file of a live process behind. A
reclaimer unlinks the *path*; `stolen` notes that the file there was a live caller's. Time is one
bit: `Age` makes a written lock older than `STALE_LOCK_MS` at any moment. Processes have fresh ids
and one user (kill(pid, 0) is exact).

### ChangeProjection and MutationLog

`disk` is `change.json` reduced to what the code looks at — presence, schema, revision, state
revision, audit trail, sizes of the protected collections — plus `log`, the mutations the document
embodies. `mutateLatest` derives the new document from the one it is given, so a mutation appends
to `log`; anything that loses an entry of `log` has lost a user's mutation.

`Begin`, `Acquire`/`ReclaimLock`/`LockTimeout`, `LoadRefused`/`LoadFails`/`LoadAndDecide`,
`Persist` and its two failures (before and after the rename), `Readback`/`ReadbackFails`,
`AfterCommit`/`AfterCommitFails`/`HookThrows`, `Release`, `Receive` follow the function from top
to bottom. `Verdict` is the order of its early returns: replayed operation, stale revision, state
regression, equal-state conflict, mutation error or collection wipe. `Crash` can come at any await.

The lock is an ideal one here — exclusive, orphaned by a crash, then reclaimed: a `CrashLock`.
`FileLock` says when `fs.ts` provides that. An in-flight `Persist` after the directory has vanished
recreates it (`mkdir` in `atomicWriteFile`), which `Retirement` depends on.

`MutationLog` has two variables, the log and the acknowledged identities, and two actions:
`Accept` judges every fence against the log at the moment of the append, `Acknowledge` reports a
mutation the log holds. The transaction implements it with `log <- disk.log`: the fences look only
at the stored numbers and the last `MaxAudit` audits, and they look earlier than they write, so
this is not immediate.

Left out: the refusal of synthetic fixture ids (a test on the name before anything happens), the
wording of results, abort signals (no caller passes one).

### DiskStore

Store methods load the change, mutate the copy and save it through `persistChangeProjection`: no
lock, no new revision, no audit entry. `StoreLoad` and `StoreSave` are that shape; the individual
mutations are abstracted away, since what matters is which document the copy was made from.

### Retirement

A client whose closing request ended `committed` enters the stages copy, prove, remove.
`RemoveDir` removes `changes/<id>/` with the lock file in it, without taking the lock. `late`
collects mutations written on top of an already closed record.

### SummaryIndex

A snapshot is (revision, state revision, last operation, content number). There are three
publishers, and all of them write shard, then pointer (`PublishShard`, `PublishPointer`).
*Committers* hold the lock from `CommitBegin` to `CommitRelease`; they load, write under a new
revision, publish what they read back if it carries their revision and operation, and verify.
*Rebuilders* publish a snapshot loaded earlier, without the lock. *Savers* are the store methods:
`StoreLoad`, then `StoreSave`, which writes the copy back over whatever is there by now — other
content under the revision and operation it had when it was loaded — and publishes it, all without
the lock. The reader's three reads are three actions. The repeated reads after the release return
values and change nothing.

A store save breaks what the index relies on, that a revision names one content, and can take the
snapshot back to an older revision. `resaved` collects the revisions this has happened to: the one
saved, and all from it up to the one overwritten. Each property is stated for the other revisions;
for a resaved one an "ok" read can return the shard of another content, the pointer and the
shard can be of two publications, the index can be ahead of the snapshot, and a commit can prove a
publication that is then replaced.

### WorktreeLock

`rec` is the record at the lock path (whose, written or not), `aside` the record at each caller's
private reclaim path. `Create`/`WriteRecord`, `ReadRecord`, `Judge`, `Rename`, `Check`, `Remove`,
`Recreate`, `Restore`, `Discard` are the awaits of `acquireGitWorktreeFlock`; `CreateFails`,
`WriteFails`, `RenameFails` and `Swallow` (removing, restoring or discarding the record moved aside)
their failures; `ReleaseRead` and `ReleaseRemove` the awaits of the release. A write goes to the
caller's own file wherever that file has been moved (`Filled`). `displaced` notes that a rename
moved a record other than the judged one.

### Lifecycle

`rec` is the part of `change.json` the calls decide by: gate and task statuses, checkpoints,
archived or not. `op[c]` is the call of `c` in flight: what it has read, or will write. Each tool is
two or more actions — the reading with its refusals, then the commit, which `ChangeProjection`
makes atomic — and `GiveUp` ends a call anywhere before. The checks are not repeated at the commit,
as in the code. `BridgeErrorClass`, `BridgeLoad`, `BridgeSave` are the failure path of
`adv_task_checkpoint`, which saves a whole record loaded before. `pending`, `in_progress` and
`blocked` are one status: no decision tells them apart.

History fields say which gates, tasks and archive transitions were written by a call that was
*overtaken*: between its reading and its commit another commit took something back (`Regresses`: a
done gate, a finished task, a checkpoint). The invariants hold without exception for all others;
an overtaken completion does break the sequence (add `INVARIANT SequenceIsStrict` to
`MCLifecycle.cfg` for the trace).

### Archive

One change with its active record, its bundle (change.json, then the terminal summary that holds
the timestamp), branch, worktree, pull request and origin's default branch. Commits are numbered;
`repo.merged` says up to where the default branch has them. `Load` and `Route` are the reading and
the choice of path (new archive, reuse of a bundle, verified merged replay, reconciliation);
`Archive` … `WriteInRepo` run under the projection lock; `Finalize` … `Arm` are `finalizeRelease`
in both modes; `Release` … `DeleteBranch` the terminal transition and the retirement. `Fail` may end
a call between any two of them; `SummaryFails` and `RefreshFails` are writes that fail and are
tolerated or reported; `PushUnseen` a push that arrives without its answer. Work, pull requests
opened, merged and closed by hand are the environment.

The commits of the active record are serialised by its lock, so each is one action. Its removal is
not: `removeChangeDir` takes no lock, and a commit of another call that has loaded the record and
not yet written it makes the directory again. `Remove` may therefore overtake the commit another
call is about to make (`Writing`; one commit at a time, since they hold the record's lock): that
call keeps what it has loaded (`held`), and its commit brings the record back (`Latest`).
`recordPhase9Status` builds the new status from the change as the call had loaded it — its preserved
tips and repository proof are that old reading's — and puts it into the latest record
(`WithStatus`).

`clobbered` notes the one exception to `RecordSurvives` the code admits: a call that had found no
bundle writes its own over the terminal bundle of a faster call.

### WorktreeDelete

`tree` is the worktree (registered in git, directory whole, partial or gone, dirty, in use, head);
a plan holds what the planner saw of it, signed and with an expiry. An apply moves through lease,
census, workspace cleanup, hooks, second census, removal, confirming census, reconciliation; `job`
is the process it waits for, `stray` one that went on without it. A removal is three steps (check
and begin, directory, registration), and may fail or be cut off at each. `Deadline` and `Crash` may
come at any stage; the lease of a crashed plugin is freed when its holder notices (`HolderExits`).
A census whose git call fails shows no worktree (`blind`). People may edit, commit, enter, integrate
and close at any time.

## 3. Runs

| Run | Instance | States | Shows |
|---|---|---|---|
| `filelock` | 3 callers, 2 processes, 2 attempts | 75 thousand | exclusion and the refinement of `CrashLock` until a live lock is stolen, which takes a crash; a wait ends; a stale lock that has its timestamp goes if contenders keep meeting it |
| `change_projection` | 2 callers, 4 requests, audit of 2, 4 writes | | nothing reported is lost, at most once while remembered, ordered states, true results, no silent wipe, the refinements of `MutationLog` and `CrashLock`, calls end |
| `disk_store` | 1 transaction, 1 store call | | violation: a store save overwrites a reported commit |
| `retirement` | 2 callers, 3 requests, 3 writes | 220 thousand | the record is always readable somewhere; what was reported before the close survives; until there is a closed copy every step is one of `MutationLog` |
| `summary_index` | 2 committers, 1 rebuild, 1 store method, 1 reader, revisions 0–2, 4 contents | 3.4 million | for revisions no store save has rewritten: faithful "ok" reads, the pointer has its shard, the index is never ahead, a proved commit is indexed, no shard changes |
| `worktree_lock` | 5 callers, 3 processes | 656 thousand | exclusion, one reclaimer, the refinement of `CrashLock` until a record is displaced; an unwritten record blocks |
| `lifecycle` | 3 gates, 1 task, 2 callers | 1.2 million | gate sequence, checkpoint behind every done task, finished archive, unless overtaken; a gate's checks hold when it is written, not only when it was read |
| `archive` | 2 callers, both modes, 1 fault | 3.9 million | nothing terminal or released before a merge; record kept; work kept; no step takes back a merge, the release gate or the archived state; a removed record returns only from a commit the removal overtook, archived and released |
| `archive_retry` | 1 caller retrying, both modes, 2 faults | 60 thousand | the archive settles for good or is in one of four named wedges; nothing terminal or released before a merge and work kept, over all retries |
| `archive_pending` | 1 caller | | violation: a change waiting for its merge reads as archived |
| `worktree_delete` | 2 callers, 2 heads, 2 events | 2.1 million | processes of two applies never overlap; answers are true; the lease is a `CrashLock` |
| `worktree_delete_deadline` | 1 caller | | violation: a deadline answered while the removal still runs |

**Bounds.** Two callers interleave every pair of steps of the transaction; a third adds nothing the
ideal lock does not serialise, and the theorems hold for any number. `MaxAudit = 2` with `MaxWrites
= 4` lets an audit entry be written, remembered, cut off and its operation repeated. The four
requests of `MCChangeProjection` meet every fence: a repeated id with the same and with another
payload, an expected revision, absent, equal and lower state revisions, an undeclared and a declared
wipe, a failing postcondition. The locks need three callers for the theft (one judged, one robbed,
one that takes the free path); the worktree lock has two processes that may die one after the other
and three callers beside them. In the index two commits may follow each other while a rebuild and a
store save still hold the first snapshot, and a reader's snapshot may be two revisions old; three
writes allow two commits and a save, or a commit and two saves. `Lifecycle` needs planning,
execution and release as distinct gates (the others behave like one of them) and two calls, one
overtaking the other. `Archive` has one commit of work before the first call and one that may come
at any time until the bundle is committed, so that a merge can contain part of the branch. In
`archive` a call that begins before anything is merged begins on the first commit: two calls meet in
every step, while a retry after the bundle was committed begins only once something is merged. In
`archive_retry` calls begin on any of the first five commits, which is what the retries of a pending
or failed archive need. A fault in `archive` may hit either of two concurrent calls, two faults in
`archive_retry` may hit a call and its retry. In `WorktreeDelete` two events suffice for a deadline
or crash in one apply and a change of the tree in another; `MaxHead = 2` allows a commit between
plan and apply. Committers, archive callers, deleters and the calls of one process are
interchangeable; symmetry is used only in runs without liveness properties.

**Deadlock** is checked except in the lock, archive and deletion runs, where the model stops when
every process has died, every call has been made, or a wedged or deleted state is reached.

**Fairness.** `FairSpec` of `FileLock` and `ChangeProjection` assumes that a live process resumes
its awaits: a caller that can move moves. Nothing forces a call to be made, and nothing forces a
crash, an ageing or an I/O error. The read and the unlink of a contender have strong fairness: an
operation that is tried again and again does not fail every time (I/O errors are transient). In
`ChangeProjection` the lock wait has fairness of its own for `LockTimeout`: the code waits against a
time budget, so others cannot starve it for ever. `Archive` assumes that a running call goes on,
that the archive is called again with its worktree (which is what every refusal tells the caller to
do), and that an open pull request is merged in the end.

**Mutants.** Next to the definitions stand small altered versions of them, marked "Mutant": a guard
dropped, a count off by one, an order swapped. Each checked property fails for one of them.

## 4. What the runs found

- **Store methods bypass the transaction** (`disk_store`). They overwrite commits reported since
  their load.
- **A change that waits for its merge reads as archived** (`archive_pending`). The bundle is written
  before the release, and `changes.get` takes any bundle for a shipped change; the workflow
  specification wants it to remain active.
- **A deadline is not terminal** (`worktree_delete_deadline`). The abort signal has already started
  `terminate`, so the barrier's own call of it returns at once and waits for nothing.

The passing runs state their exceptions in the invariant itself; the plain forms are kept as
definitions and fail when they are added to the cfg:

- **The advisory lock can be stolen** (`MutualExclusion` in `MCFileLock.cfg`). A contender judges
  the content it read and unlinks the path. If the judged owner has released and a peer has created
  the file since, the peer's live lock goes. It takes an owner that was slow enough to be judged old
  and died after its release.
- **The worktree lock has the same window** (`OneOwner` in `MCWorktreeLock.cfg`), although its
  comment calls the rename a compare-and-reclaim boundary: rename moves whatever is there. Renaming
  the wrong record back overwrites what a third caller has created meanwhile.
- **A commit after a close can vanish** (`AckedSurvivesRetirement` in `MCRetirement.cfg`). The
  retirement copies the record of the close and removes the directory without the lock; a mutation
  committed in between exists only there.
- **A gate can be completed over a re-entry** (`SequenceIsStrict` in `MCLifecycle.cfg`). The commit
  applies to the latest record, the check does not.
- **A stale lock is not always removed** (`PROPERTY AbandonedLockIsReclaimed` in `MCFileLock.cfg`).
  `utils/fs.ts:181-182` says "Stale locks (>30s) are automatically removed on the next acquire
  attempt". A lock whose creator died, or failed, between the exclusive create and the write of pid
  and timestamp has no timestamp to judge by: every later acquisition times out until someone
  removes the file by hand. `StaleLockIsReclaimed` is the claim for locks that have their content,
  `EmptyOrphanStays` (section 5) proves the exception. The worktree lock has the same gap, by
  intention there: its comment wants an unwritten record to fail closed.
- **A shard is not immutable** (`PROPERTY ShardsAreImmutable` in `MCSummaryIndex.cfg`).
  `storage/change-summary-shard.ts:8` says "immutable shard"; `StoreLoad`, `StoreSave`,
  `PublishShard` write the shard of an indexed revision again with other content, and a reader that
  read the snapshot before and the shard after gets an "ok" with the wrong one.
  `OnlySavesRewriteShards` says that nothing else does it.
- **A removed record can come back** in an archive (the clause of `ArchiveOnlyAdvances` about it): a
  commit of a concurrent call that had loaded the record recreates its directory. It is then
  archived and released already, so readers see the same change, but the directory stays.

Also seen while modelling: `write_error` does not tell whether the projection was replaced; a crash
(or a tolerated write failure) between the bundle's change.json and its summary makes every retry
refuse, and so does a worktree left with an uncommitted bundle; each retry of a pending archive
commits a regenerated bundle; a merged pull request whose head the branch merely contains counts as
shipped although later commits are not merged (the worktree is then retained); in direct mode a
crash after the terminal commit leaves a stale bundle and the active directory, which no retry
removes; a deletion plan binds *that* a worktree is dirty, not what is in it.

## 5. Proofs

All theorems hold for any sets of callers, processes, requests, gates, tasks and for any bounds,
under the named assumptions of the modules: `PidOf` a function into processes, "nobody" not a
caller, a positive audit length and retry budget, requests well-typed, lock markers not callers
(`…Assumption` of each module), markers for "no record", "no plan" and "nothing" not records
(`RecordAssumption`, `PlanAssumption`, `NoneAssumption`, `NoRecordAssumption`), committers, rebuilds and
store methods distinct (`RolesAssumption`), planning before execution before release, which is last
(`GatesAssumption`).

**FileLock** (`FileLockProofs`). The inductive invariant `LockInv` adds to the types: until a theft,
whoever owns the lock created the file at the path; an unlink is pending only after a death and for
a complete file; an absent file has no creator. Exclusion alone is not inductive, because a create
must know that an absent file means no owner. Theorems: `Exclusive`, `ReleaseOwn` (a release unlinks
the releaser's own lock), `TypeCorrect`, `EmptyOrphanStays` (a lock file whose creator died before
writing its content, while no unlink is pending, is there for good: the exception to the comment at
`utils/fs.ts:181-182`), and `ExclusiveWithoutCrash`: as long as no process has crashed, `fs.ts`
gives mutual exclusion. `FileLockIsACrashLock` is the refinement: the lock counts as held when the
creator of the file still owns it, so a create is a `Take`, a release, a failed write or a crash a
`Leave`, and an unlink by a reclaimer a `Reclaim` or the theft that breaks it. `WaitIsBounded` is
the safety half of "the wait is always bounded": a measure of at most `6 * MaxAttempts` falls with
every move of a waiting caller and rises with nobody's, so with fairness `AcquireEnds` follows.

**ChangeProjection** (`ChangeProjectionProofs`). The invariant `TxInv` consists of `GoodDoc(disk)`
— the audit trail mirrors the end of the log, the stored state revision bounds every projected one,
the revision is the log's length, ids and states are ordered — and of `Phase(c)`, what each await
may rely on: between load and write the caller holds the lock, its value extends the document on
disk by its own request, and the fences still pass. The lemmas about `LastEntries` and `First`
connect the bounded trail with the log. From it follow `AckedIsDurable`, `RevisionIsCount`,
`AtMostOnce`, `StatesOrdered`, `Truthful`, `WipesAreDeclared`, `TypeCorrect`,
`TransactionRefinesLog`: every write is an `Accept` of the abstract log, every success an
`Acknowledge`, every other step, crashes included, a stutter; and `TransactionUsesALock`, the
refinement of `CrashLock`. The revision (`RevisionIsCount`) has no run of its own: `MutationLog`
judges an expected revision by the length of the log.

**WorktreeLock** (`WorktreeLockProofs`). `WorktreeInv` says that calls of a dead process have
stopped and that a caller about to rename has judged a dead owner; and, until a displacement, that
the owner's record is at the path, a record moved aside is the judged one and is gone from the
path, and no call makes two records. The last is needed because a call whose write failed goes on
to read the path and might reclaim. Theorems: `Exclusive`, `SingleReclaimer`, `ReleaseIsOwn`,
`UnwrittenBlocks`, `TypeCorrect`, and `WorktreeLockIsACrashLock`: a rename is a `Reclaim` unless it
displaces a record that was not judged, and a rename back is only ever of such a record.

**SummaryIndex** (`SummaryIndexProofs`). No property is inductive alone, because a shard, a
publisher's copy and a reader's view may come from different moments. The invariant says that one
history `h` of committed snapshots explains all of them: every snapshot, copy, shard and view is `h`
of its revision, unless that revision is resaved, and one that is ahead of the snapshot has every
revision in between resaved (`Fits`). Rebuilds need no lock because what they write is in `h`
already; a commit that builds on a snapshot taken back under it meets only resaved revisions.
Theorems: `TypeCorrect`, `FaithfulReads`, `PointerAfterShard`, `IndexBehind`, `ProvedIsIndexed`, and
`ShardsChangeBySavesOnly` — a shard may be written again by a rebuild that is revisions behind, and
what it writes is what is there.

**Retirement** (`RetirementProofs`). Removing the directory removes the lock file, so `TxInv` does
not survive a close. Its place takes `P`, the mutations the record embodied up to and with the
first close: before the close the lock still protects them; afterwards every document on disk,
about to be written, being copied or in the bundle holds all of `P`. Theorems: `RetirementSound`,
`RetireTypeCorrect`, `RecordKept`, `CommittedKept`. `TransactionUntilCopied` says where the
disturbance starts: until a closed copy exists nothing has been removed, `TxInv` still holds, and
every step is one of the abstract log.

**DiskStore** (also in `RetirementProofs`). A store save breaks `AckedSurvives`, so only a part of
`TxInv` can be invariant. `StoreInv` keeps what does not depend on the lock: every document — on
disk, in a store call's hands or about to be written — is a `GoodDoc`, because a save writes back
an earlier document whole. `SavesKeepDocumentsSound`: a save may lose commits, but what is on disk
afterwards is a consistent document (its revision counts its mutations, none is in it twice within
the trail's memory, states are ordered), and a transaction's result is still true of its own
write. It assumes that the marker for "no copy" is not a document.

**Lifecycle** (`LifecycleProofs`). The invariant adds to the three properties what each call in
flight may rely on: its check still holds, unless it was overtaken, and the old record a store save
holds was itself sound. `CheckIsStable` is the heart: commits that take nothing back keep every
check true. Theorems: `GateSequence`, `CheckpointBehindDone`, `ArchiveAfterWork`, `TypeCorrect`, and
`CheckedCompletions`, the step form of the first: whatever a call read and however long ago, its
checks hold in the record its completion is applied to.

**Archive** (`ArchiveProofs`). `Forward` lists what no step takes back (merged commits, the bundle,
its summary, the release gate, terminal facts, a removed worktree), so what a call established at a
stage holds at its later ones whatever others do; `CallFits` says what that is. The removal and the
commits it overtakes need two facts more: whoever gets to the removal has a record that is archived
and released, and the active record is so too if it is there (`Concluded`), so what an overtaken
commit holds (`held`) is; and a commit takes nothing back from the record it is written over, which
may be one brought back meanwhile (`Onward`). Theorems: `ReleaseBeforeTerminal`, `BundleBeforeRemoval`,
`NoWorkDestroyed`, `TypeCorrect`, and `NothingIsUndone`: the archived state passes from the record to
the bundle when the record is removed, no call with an older record brings back an earlier state of
either, and a removed record comes back only from a commit the removal overtook.

**WorktreeDelete** (`WorktreeDeleteProofs`). An apply past the lease stage has the lease; its
process belongs to its stage; the worktree only shrinks, so what a census has shown gone stays gone,
strays or not. Theorems: `SerialRemovals`, `TrueResults`, `TypeCorrect`, and `LeaseIsACrashLock`: a
deadline or the end of the operation frees the lease, a crash leaves it behind until its holder
process exits.

**Proved and not run:** the type invariants of all modules but `FileLock` and `ChangeProjection`,
`ReleaseRemovesOwnLock`, `ReleaseRemovesOwnRecord`, `RevisionCountsMutations` (each is part of a
refinement that is run), the bound on waits and the soundness of saved documents.

**Only model-checked:** liveness (`AcquireEnds`, `StaleLockIsReclaimed`, `CallEnds`, `Converges`),
which is out of the prover's reach, as are ENABLED and induction over data (none is needed here: no
module defines anything recursively).

## 6. Not modelled, and why

The modules cover the protocols by which several processes share a change and its worktrees: a small
share of the repository's lines. The rest is validation, formatting, views, wiring and these parts:

- Epics: membership is written to epic and child change in two saves, and repaired by some ten tools
  over state of their own. The largest part left, and the next to model.
- Reconciliation, quarantine, recovery writers: operator-run repairs of stores that are damaged
  already, that is of states the modelled code does not produce.
- JSONL stores: read-modify-write under the lock of `FileLock`, with nothing else at stake.
- Tool budgets: timers around whole calls; the models let a call stop at any await.
- Creation of changes (its id search looks at directory names) and of worktrees; the drain of
  pending deletes and the discovery of candidates; lease files (`utils/worktree-lease.ts`).
- In the archive: spec deltas and their repair branch, multi-repository scopes, issue closure, epic
  summaries, dry runs, and the checks that only refuse; `auto_push = false`, and the fallback of a
  direct-mode push that the remote refuses to a pull request or merge queue
  (`git-finalize.ts:4132-4169`), which goes on like pull-request mode; the in-repo bundle a call
  without worktree writes to the main checkout (nothing the model looks at is there); saves of store
  methods that recreate a removed record, which `Retirement` and `DiskStore` show for commits and
  saves each. In the lifecycle: approvals, readiness, TDD and evidence rules (a call may be refused
  at any time), readiness over `blocked_by` (a view).
- Validators, conformance, status views, wiring: pure functions or no state of their own.
- The launcher aggregate: a cache rewritten best effort, every failure swallowed.
- `collectObsoleteSummaryShards`, `disk-sweep.ts`: no production caller. Migration: run once.
- In `WorktreeDelete`: result codes that say the same of the worktree are one result; an exception
  while a process is being terminated ("indeterminate") or during a census ("deadline_exceeded"),
  and the refusals busy, unsupported and repair-needed, end a call with one of the results it has.
- Reused process ids and processes of other users.

## 7. What could follow

1. `EpicStore`: one abstract membership relation, the two saves, and convergence after any crash.
2. Composing `Lifecycle` with `Archive`: the record side of the archive is in both.
3. Store creation, with the id search over directory names.
4. The pending-delete registry and its drain on top of `WorktreeDelete`.
