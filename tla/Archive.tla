------------------------------- MODULE Archive -------------------------------
(***************************************************************************)
(* adv_change_archive for one change: the calls, their crashes and their   *)
(* retries, over                                                           *)
(*   - the active record (changes/<id>/change.json);                       *)
(*   - the canonical bundle (archive/<date>-<id>/): change.json, written   *)
(*     first, and the terminal summary, which holds the archive timestamp; *)
(*   - the change branch, its worktree, its pull request and the default   *)
(*     branch of origin.                                                   *)
(*                                                                         *)
(* Commits of the change branch are numbered; origin's default branch      *)
(* holds the commits 1 .. repo.merged of it (squashed or not).  The        *)
(* commits of the active record are serialized by its lock                 *)
(* (ChangeProjection); its removal is not, and one may be in flight then.  *)
(* Left out: dry runs, changes with spec deltas and their repair branch,   *)
(* and the checks that only refuse (readiness, validation, contract        *)
(* proofs).                                                                *)
(***************************************************************************)
EXTENDS Integers

CONSTANTS
    Callers,
    Modes,      \* a subset of {"direct", "pr"}: detectArchiveMode
    None,       \* no record
    Free,       \* the archive projection lock is free
    MaxWork,    \* bound: the commits not made by the archive
    MaxTip,     \* bound: commits before a call made while nothing is merged
    MaxFaults   \* bound: crashes, failed writes, failed pushes, conflicts

ASSUME ArchiveAssumption ==
    /\ Modes \subseteq {"direct", "pr"}
    /\ Free \notin Callers
    /\ MaxWork \in Nat \ {0} /\ MaxTip \in Nat /\ MaxFaults \in Nat

VARIABLES
    mode,
    active,     \* the active record, or None
    bundle,     \* change.json of the bundle, or None
    summary,    \* its terminal summary: never tried, failed or written
    repo,       \* the change branch, the worktree, origin's default branch
    pr,         \* the pull request of the change branch
    lock,       \* withArchiveProjectionLock
    call,       \* each caller's call
    faults,     \* faults so far
    clobbered   \* history: a terminal bundle was overwritten by a creation

vars == <<mode, active, bundle, summary, repo, pr, lock, call, faults,
          clobbered>>

Commits == Nat \ {0}

(***************************************************************************)
(* What the archive reads and writes of a change: lifecycleState, the      *)
(* release gate, phase9_status, whether that names the merged pull request *)
(* with its repository, and the tips it saved (changeTipSha,               *)
(* preArchiveTipSha).  status is not kept: it is "archived" in a record    *)
(* whose lifecycle is, and in every bundle.                                *)
(***************************************************************************)
Records ==
    [lifecycle : {"open", "archived"},
     release : BOOLEAN,
     phase9 : {"none", "failed", "pending_merge", "done"},
     exact : BOOLEAN,
     tips : SUBSET Commits]

ASSUME RecordAssumption == None \notin Records

NewRecord ==
    [lifecycle |-> "open", release |-> FALSE, phase9 |-> "none",
     exact |-> FALSE, tips |-> {}]

Repos ==
    [tip : Commits,                         \* of the change branch
     work : Commits,                        \* its last commit of work
     filed : Nat,                           \* its first commit of the bundle
     committed : Records \union {None},     \* the tracked bundle at the tip
     tracked : Records \union {None},       \* and in the worktree
     merged : Nat,
     worktree : BOOLEAN,
     branch : BOOLEAN]

Summaries == {"none", "failed", "written"}

PullRequests ==
    [state : {"none", "open", "armed", "merged", "closed"}, head : Nat]

Stages ==
    {"idle", "route", "archive", "reuse", "bundle", "summary", "inRepo", "finalize",
     "publish", "arm", "failed", "pending", "release", "recover", "commit",
     "refresh", "cleanup", "remove", "branch", "reconcile"}

(***************************************************************************)
(* A finalization that shipped: whether a pull request carried it, whether *)
(* that is proved exactly (repository, number, head), and the saved tips.  *)
(***************************************************************************)
Finals == [pr : BOOLEAN, exact : BOOLEAN, tips : SUBSET Commits]

NoFinal == [pr |-> FALSE, exact |-> FALSE, tips |-> {}]

Calls ==
    [at : Stages,
     skip : BOOLEAN,            \* phase9 = "skip"
     wt : BOOLEAN,              \* worktreePath is given
     saw : Records,             \* the change as loaded, later as committed
     shadow : BOOLEAN,          \* its status was read as archived
     replay : BOOLEAN,          \* a verified merged replay
     final : Finals,
     held : Records \union {None}]  \* loaded by a commit, then removed

Idle ==
    [at |-> "idle", skip |-> FALSE, wt |-> FALSE, saw |-> NewRecord,
     shadow |-> FALSE, replay |-> FALSE, final |-> NoFinal, held |-> None]

Init ==
    /\ mode \in Modes
    /\ active = NewRecord /\ bundle = None /\ summary = "none"
    /\ repo = [tip |-> 1, work |-> 1, filed |-> 0,
               committed |-> None, tracked |-> None,
               merged |-> 0, worktree |-> TRUE, branch |-> TRUE]
    /\ pr = [state |-> "none", head |-> 0]
    /\ lock = Free
    /\ call = [c \in Callers |-> Idle]
    /\ faults = 0
    /\ clobbered = FALSE

-----------------------------------------------------------------------------
Becomes(c, next) == call' = [call EXCEPT ![c] = next]

Goes(c, stage) == call' = [call EXCEPT ![c].at = stage]

Ends(c) == Becomes(c, Idle)

Clean == repo.tracked = repo.committed

\* The status adv_change_show and the lists report: bundle dominance.
ReadsArchived ==
    bundle # None \/ (active # None /\ active.lifecycle = "archived")

\* The change as changes.get loads it.
Loaded == IF active # None THEN active ELSE bundle

(***************************************************************************)
(* verifyReleaseEvidenceFromMain: a merged pull request, or in direct mode *)
(* also a change branch that origin's default branch contains.             *)
(***************************************************************************)
Proven(saw) ==
    \/ pr.state = "merged"
    \/ /\ mode = "direct" /\ saw.phase9 # "pending_merge"
       /\ repo.tip <= repo.merged

\* The finalization that this evidence stands for.
EvidenceOf(saw) ==
    [pr |-> pr.state = "merged", exact |-> saw.exact, tips |-> saw.tips]

\* verifyDirectMergedPrProof: the merged head is one of the saved tips.
ExactProof(tips) == pr.state = "merged" /\ pr.head \in tips

\* preservePhase9Evidence: what the new status does not name is kept.
Phase9(record, status, final) ==
    [record EXCEPT !.phase9 = status,
                   !.exact = @ \/ final.exact,
                   !.tips = IF final.tips = {} THEN @ ELSE final.tips]

Terminal(record, final) ==
    [Phase9(record, "done", final) EXCEPT !.lifecycle = "archived"]

IsTerminal(record) ==
    record.lifecycle = "archived" /\ record.phase9 = "done" /\ record.release

\* The record that a commit of the call loads: when the removal has overtaken
\* it, it has loaded it before, and atomicWriteFile makes the directory again.
Latest(k) == IF k.held # None THEN k.held ELSE active

-----------------------------------------------------------------------------
(* The call up to its first write *)

Load(c, skip, wt) ==
    /\ call[c].at = "idle"
    /\ repo.merged = 0 => repo.tip <= MaxTip
    /\ active # None \/ bundle # None
    /\ skip => Loaded.release /\ Proven(Loaded)
    /\ Becomes(c, [Idle EXCEPT !.at = "route", !.skip = skip, !.wt = wt,
                      !.saw = Loaded, !.shadow = ReadsArchived,
                      !.final = IF skip THEN EvidenceOf(Loaded) ELSE NoFinal])
    /\ UNCHANGED <<mode, active, bundle, summary, repo, pr, lock, faults, clobbered>>

\* detectMergedArchiveReplay: the bundle is part of the merged content.
Replays(saw) ==
    /\ saw.phase9 # "none" /\ saw.exact
    /\ ExactProof(saw.tips)
    /\ bundle # None
    /\ repo.filed \in 1 .. repo.merged

\* Mutant: a shadowed record is retired by its bundle alone.
RetiredShadow(k) == k.shadow /\ bundle # None

\* The bundle is all there is, or the record is terminal already.
Retired(k) ==
    k.shadow /\ bundle # None /\ (active = None \/ k.saw.lifecycle = "archived")

Route(c) ==
    LET k == call[c] IN
    /\ k.at = "route"
    /\ IF Replays(k.saw)
       THEN Becomes(c, [k EXCEPT !.at = "recover", !.replay = TRUE,
                           !.final = [pr |-> TRUE, exact |-> TRUE,
                                      tips |-> k.saw.tips]])
       ELSE IF \/ ~k.wt /\ ~k.skip /\ bundle = None
               \/ k.wt /\ ~(repo.worktree /\ Clean)
       THEN Ends(c)
       ELSE Goes(c, IF Retired(k) THEN "reconcile"
                    ELSE IF bundle # None THEN "reuse" ELSE "archive")
    /\ UNCHANGED <<mode, active, bundle, summary, repo, pr, lock, faults, clobbered>>

-----------------------------------------------------------------------------
(* archiveChange, under the archive projection lock *)

\* An existing bundle is reused, and must hand down its timestamp.
Archive(c) ==
    /\ call[c].at \in {"archive", "reuse"} /\ lock = Free
    /\ IF call[c].at = "reuse" /\ summary # "written"
       THEN Ends(c) /\ UNCHANGED lock
       ELSE /\ lock' = c
            /\ Goes(c, IF call[c].at = "reuse" THEN "inRepo" ELSE "bundle")
    /\ UNCHANGED <<mode, active, bundle, summary, repo, pr, faults, clobbered>>

\* writeArchiveBundleFiles of a new bundle.  Its path is that of an existing
\* one, if another call has made it meanwhile.
WriteBundle(c) ==
    /\ call[c].at = "bundle"
    /\ bundle' = call[c].saw
    /\ clobbered' = (clobbered \/ (bundle # None /\ IsTerminal(bundle)))
    /\ Goes(c, "summary")
    /\ UNCHANGED <<mode, active, summary, repo, pr, lock, faults>>

WriteSummary(c) ==
    /\ call[c].at = "summary"
    /\ summary' = "written"
    /\ Goes(c, "inRepo")
    /\ UNCHANGED <<mode, active, bundle, repo, pr, lock, faults, clobbered>>

\* terminalSummaryDegradation: the archive goes on without the summary.
SummaryFails(c) ==
    /\ call[c].at = "summary"
    /\ faults < MaxFaults /\ faults' = faults + 1
    /\ summary' = IF summary = "none" THEN "failed" ELSE summary
    /\ Goes(c, "inRepo")
    /\ UNCHANGED <<mode, active, bundle, repo, pr, lock, clobbered>>

\* createInRepoArchive, then the lock is released.
WriteInRepo(c) ==
    LET k == call[c] IN
    /\ k.at = "inRepo"
    /\ repo' = [repo EXCEPT !.tracked = IF k.wt THEN k.saw ELSE @]
    /\ lock' = Free
    /\ Goes(c, IF k.skip THEN "commit" ELSE "finalize")
    /\ UNCHANGED <<mode, active, bundle, summary, pr, faults, clobbered>>

-----------------------------------------------------------------------------
(* finalizeRelease *)

\* Validates the worktree and commits the bundle.  Without a worktree only
\* the evidence counts.
Finalize(c) ==
    LET k == call[c]
        tip == IF Clean THEN repo.tip ELSE repo.tip + 1
    IN
    /\ k.at = "finalize"
    /\ \/ /\ k.wt /\ repo.worktree
          /\ repo' = [repo EXCEPT
                         !.tip = tip, !.committed = repo.tracked,
                         !.filed = IF @ = 0 /\ ~Clean THEN tip ELSE @]
          /\ Becomes(c, [k EXCEPT !.at = "publish",
                            !.final.tips = {repo.tip, tip}])
       \/ /\ ~k.wt /\ Proven(k.saw)
          /\ Becomes(c, [k EXCEPT !.at = "release",
                            !.final = EvidenceOf(k.saw)])
          /\ UNCHANGED repo
       \/ /\ IF k.wt THEN ~repo.worktree ELSE ~Proven(k.saw)
          /\ Ends(c) /\ UNCHANGED repo
    /\ UNCHANGED <<mode, active, bundle, summary, pr, lock, faults, clobbered>>

\* Both modes look for the merged pull request first.
FindMerged(c) ==
    LET k == call[c] IN
    /\ k.at = "publish" /\ ExactProof(k.final.tips)
    /\ Becomes(c, [k EXCEPT !.at = "release",
                      !.final.pr = TRUE, !.final.exact = TRUE])
    /\ UNCHANGED <<mode, active, bundle, summary, repo, pr, lock, faults, clobbered>>

\* Direct mode: merge in an ephemeral worktree, push, verify.  A merged pull
\* request with another head blocks.
Push(c) ==
    LET k == call[c] IN
    /\ k.at = "publish" /\ mode = "direct" /\ ~ExactProof(k.final.tips)
    /\ IF pr.state = "merged"
       THEN Ends(c) /\ UNCHANGED repo
       ELSE repo' = [repo EXCEPT !.merged = repo.tip] /\ Goes(c, "release")
    /\ UNCHANGED <<mode, active, bundle, summary, pr, lock, faults, clobbered>>

\* The push arrives, the answer or the verification does not.
PushUnseen(c) ==
    /\ call[c].at = "publish" /\ mode = "direct" /\ pr.state # "merged"
    /\ faults < MaxFaults /\ faults' = faults + 1
    /\ repo' = [repo EXCEPT !.merged = repo.tip]
    /\ Ends(c)
    /\ UNCHANGED <<mode, active, bundle, summary, pr, lock, clobbered>>

(***************************************************************************)
(* Pull request mode: reconcile with the default branch (perhaps a merge   *)
(* commit), push the change branch, open or reuse the pull request.  A     *)
(* merged one is accepted when its head is contained in the branch.        *)
(***************************************************************************)
Handoff(c) ==
    /\ call[c].at = "publish" /\ mode = "pr" /\ ~ExactProof(call[c].final.tips)
    /\ IF pr.state = "closed"
       THEN Ends(c) /\ UNCHANGED <<repo, pr>>
       ELSE \E tip \in {repo.tip, repo.tip + 1} :
               /\ tip > repo.tip => tip <= MaxWork
               /\ repo' = [repo EXCEPT !.tip = tip]
               /\ pr' = [state |-> IF pr.state = "none" THEN "open"
                                   ELSE pr.state,
                         head |-> IF pr.state = "merged" THEN pr.head
                                  ELSE tip]
               /\ Goes(c, "arm")
    /\ UNCHANGED <<mode, active, bundle, summary, lock, faults, clobbered>>

\* Mutant: an armed pull request counts as merged.
MergeSeenArmed == pr.state \in {"open", "armed", "merged"}

\* resolveReleaseReachability for a pull request known by its number.
MergeSeen == pr.state = "merged"

\* Arms auto-merge and asks for the state of the pull request.
Arm(c) ==
    LET k == call[c] IN
    /\ k.at = "arm"
    /\ IF MergeSeen
       THEN /\ Becomes(c, [k EXCEPT !.at = "release", !.final.pr = TRUE])
            /\ UNCHANGED pr
       ELSE IF pr.state = "closed" THEN Ends(c) /\ UNCHANGED pr
       ELSE pr' = [pr EXCEPT !.state = "armed"] /\ Goes(c, "pending")
    /\ UNCHANGED <<mode, active, bundle, summary, repo, lock, faults, clobbered>>

\* finalizeRelease throws.
FinalizeThrows(c) ==
    /\ call[c].at \in {"finalize", "publish", "arm"}
    /\ faults < MaxFaults /\ faults' = faults + 1
    /\ Goes(c, "failed")
    /\ UNCHANGED <<mode, active, bundle, summary, repo, pr, lock, clobbered>>

\* Mutant: the status is added to the record the call had loaded.
WithStatusStale(k, status, final) == Phase9(k.saw, status, final)

(***************************************************************************)
(* recordPhase9Status: the latest record with the new phase9_status, whose *)
(* preserved evidence is that of the change as the call had loaded it.     *)
(***************************************************************************)
WithStatus(k, status, final) ==
    LET built == Phase9(k.saw, status, final) IN
    [Latest(k) EXCEPT !.phase9 = built.phase9, !.exact = built.exact,
                      !.tips = built.tips]

\* buildPendingMergePhase9Status names no repository.
RecordPending(c) ==
    LET k == call[c] IN
    /\ k.at = "pending"
    /\ active' = IF Latest(k) = None THEN None
                 ELSE WithStatus(k, "pending_merge", k.final)
    /\ Ends(c)
    /\ UNCHANGED <<mode, bundle, summary, repo, pr, lock, faults, clobbered>>

RecordFailed(c) ==
    LET k == call[c] IN
    /\ k.at = "failed"
    /\ active' = IF Latest(k) = None THEN None
                 ELSE WithStatus(k, "failed", NoFinal)
    /\ Ends(c)
    /\ UNCHANGED <<mode, bundle, summary, repo, pr, lock, faults, clobbered>>

-----------------------------------------------------------------------------
(* Shipped: the release gate, the terminal transition, retirement *)

\* completeReleaseGateAfterFinalization and verifyReleaseGateDurableForArchive.
Release(c) ==
    LET k == call[c] IN
    /\ k.at = "release"
    /\ IF Latest(k) = None
       THEN IF bundle = None THEN Ends(c) /\ UNCHANGED active
            ELSE Goes(c, "recover") /\ UNCHANGED active
       ELSE /\ active' = [Latest(k) EXCEPT !.release = TRUE]
            /\ Becomes(c, [k EXCEPT !.at = "commit", !.held = None])
    /\ UNCHANGED <<mode, bundle, summary, repo, pr, lock, faults, clobbered>>

Recovered(k) ==
    IF IsTerminal(bundle) THEN bundle
    ELSE [Terminal(bundle, k.final) EXCEPT !.release = TRUE]

(***************************************************************************)
(* completeArchivedBundleRelease: the terminal facts go into the bundle;   *)
(* the refresh that follows in the same transaction needs the timestamp.   *)
(* Only a merged replay goes on.                                           *)
(***************************************************************************)
Recover(c) ==
    LET k == call[c] IN
    /\ k.at = "recover" /\ lock = Free
    /\ bundle' = Recovered(k)
    /\ IF k.replay /\ (summary = "written" \/ IsTerminal(bundle))
       THEN Goes(c, "commit") ELSE Ends(c)
    /\ UNCHANGED <<mode, active, summary, repo, pr, lock, faults, clobbered>>

(***************************************************************************)
(* completeShippedChange: the archive_transition, on the latest record.    *)
(* It has no record to load when another call has removed it.              *)
(***************************************************************************)
Commit(c) ==
    LET k == call[c]
        set == k.replay \/ ~k.skip      \* a completed release gate is passed
        new == [Terminal(Latest(k), k.final) EXCEPT !.release = @ \/ set]
    IN
    /\ k.at = "commit"
    /\ IF k.shadow /\ IsTerminal(k.saw)
       THEN /\ IF k.replay THEN Ends(c) ELSE Goes(c, "refresh")
            /\ UNCHANGED active
       ELSE IF Latest(k) = None THEN Ends(c) /\ UNCHANGED active
       ELSE /\ active' = new
            /\ Becomes(c, [k EXCEPT !.saw = new, !.held = None,
                              !.at = IF k.replay THEN "cleanup" ELSE "refresh"])
    /\ UNCHANGED <<mode, bundle, summary, repo, pr, lock, faults, clobbered>>

\* Mutant: the refresh writes the record from before the transition.
RefreshedStale(k) == [k.saw EXCEPT !.lifecycle = "open"]

\* The record the refresh writes to the bundle.
Refreshed(k) == k.saw

\* refreshArchiveBundleProjectionUnderLock.
Refresh(c) ==
    /\ call[c].at = "refresh" /\ lock = Free
    /\ bundle' = Refreshed(call[c]) /\ summary' = "written"
    /\ Goes(c, "cleanup")
    /\ UNCHANGED <<mode, active, repo, pr, lock, faults, clobbered>>

\* The terminal facts are in change.json; the refresh of the rest fails.
RefreshFails(c) ==
    LET k == call[c] IN
    /\ k.at \in {"refresh", "recover"} /\ lock = Free
    /\ faults < MaxFaults /\ faults' = faults + 1
    /\ bundle' = IF k.at = "refresh" THEN Refreshed(k) ELSE Recovered(k)
    /\ Ends(c)
    /\ UNCHANGED <<mode, active, summary, repo, pr, lock, clobbered>>

\* Mutant: any merged pull request allows the removal.
RemovableByPr(k) == repo.tip <= repo.merged \/ pr.state = "merged"

(***************************************************************************)
(* The proofs advWorktreeDelete asks for: the branch is integrated, or it  *)
(* is an ancestor of the merged head, or all it has beyond the exactly     *)
(* proved head is the archive's own bundle (buildArchiveOwnedRecovery).    *)
(***************************************************************************)
Removable(k) ==
    \/ repo.tip <= repo.merged
    \/ pr.state = "merged" /\ repo.tip <= pr.head
    \/ k.final.exact /\ pr.state = "merged" /\ repo.work <= pr.head

\* cleanupShippedChangeWorktree: refusals retain the worktree.
Cleanup(c) ==
    LET k == call[c] IN
    /\ k.at = "cleanup"
    /\ repo' = [repo EXCEPT !.worktree = @ /\ ~(k.wt /\ Clean /\ Removable(k))]
    /\ Goes(c, "remove")
    /\ UNCHANGED <<mode, active, bundle, summary, pr, lock, faults, clobbered>>

\* The next step of the call commits the active record.
Writing(k) ==
    \/ k.at \in {"pending", "failed", "release"}
    \/ k.at = "commit" /\ ~(k.shadow /\ IsTerminal(k.saw))
    \/ k.at = "reconcile" /\ ~k.skip /\ Proven(k.saw)

(***************************************************************************)
(* removeChangeDir, without the lock of the record: a commit of another    *)
(* call may have loaded the record and not have written it yet.  Only      *)
(* direct mode goes on to the branch.                                      *)
(***************************************************************************)
Remove(c) ==
    LET k == call[c]
        next == IF mode = "direct" /\ ~k.final.pr /\ k.wt /\ ~repo.worktree
                THEN [k EXCEPT !.at = "branch"] ELSE Idle
    IN
    /\ k.at = "remove"
    /\ active' = None
    /\ \/ Becomes(c, next)
       \/ /\ active # None
          /\ \E d \in Callers \ {c} :
                /\ Writing(call[d]) /\ call[d].held = None
                /\ call' = [call EXCEPT ![c] = next, ![d].held = active]
    /\ UNCHANGED <<mode, bundle, summary, repo, pr, lock, faults, clobbered>>

\* deleteChangeBranch: git branch -d refuses an unmerged branch.
DeleteBranch(c) ==
    /\ call[c].at = "branch"
    /\ repo' = [repo EXCEPT !.branch = @ /\ repo.tip > repo.merged]
    /\ Ends(c)
    /\ UNCHANGED <<mode, active, bundle, summary, pr, lock, faults, clobbered>>

\* reconcileArchivedBundleRetry: no step but the release gate is repeated.
Reconcile(c) ==
    LET k == call[c] IN
    /\ k.at = "reconcile"
    /\ IF k.held = None /\ (k.skip \/ ~Proven(k.saw))
       THEN Ends(c) /\ UNCHANGED active
       ELSE IF Latest(k) = None
       THEN /\ Becomes(c, [k EXCEPT !.at = "recover",
                              !.final = EvidenceOf(k.saw)])
            /\ UNCHANGED active
       ELSE active' = [Latest(k) EXCEPT !.release = TRUE] /\ Ends(c)
    /\ UNCHANGED <<mode, bundle, summary, repo, pr, lock, faults, clobbered>>

-----------------------------------------------------------------------------
(* The environment *)

\* A call fails or its process dies; its lock is reclaimed (FileLock).
Fail(c) ==
    /\ call[c].at # "idle"
    /\ faults < MaxFaults /\ faults' = faults + 1
    /\ lock' = IF lock = c THEN Free ELSE lock
    /\ Ends(c)
    /\ UNCHANGED <<mode, active, bundle, summary, repo, pr, clobbered>>

\* Someone commits work to the change branch.
Work ==
    /\ repo.worktree /\ repo.tip < MaxWork
    /\ repo' = [repo EXCEPT !.tip = @ + 1, !.work = repo.tip + 1]
    /\ UNCHANGED <<mode, active, bundle, summary, pr, lock, call, faults, clobbered>>

\* Someone opens a pull request by hand.
OpenPr ==
    /\ pr.state = "none" /\ repo.branch
    /\ pr' = [state |-> "open", head |-> repo.tip]
    /\ UNCHANGED <<mode, active, bundle, summary, repo, lock, call, faults, clobbered>>

\* By auto-merge, or by hand.
PrMerges ==
    /\ pr.state \in {"open", "armed"}
    /\ pr' = [pr EXCEPT !.state = "merged"]
    /\ repo' = [repo EXCEPT !.merged = IF pr.head > @ THEN pr.head ELSE @]
    /\ UNCHANGED <<mode, active, bundle, summary, lock, call, faults, clobbered>>

PrCloses ==
    /\ pr.state \in {"open", "armed"}
    /\ faults < MaxFaults /\ faults' = faults + 1
    /\ pr' = [pr EXCEPT !.state = "closed"]
    /\ UNCHANGED <<mode, active, bundle, summary, repo, lock, call, clobbered>>

Attempt(c) == \E skip, wt \in BOOLEAN : Load(c, skip, wt)

Finalizing(c) ==
    \/ Finalize(c) \/ FindMerged(c) \/ Push(c) \/ Handoff(c) \/ Arm(c)
    \/ RecordPending(c) \/ RecordFailed(c)

Completing(c) ==
    \/ Release(c) \/ Recover(c) \/ Commit(c) \/ Refresh(c)
    \/ Cleanup(c) \/ Remove(c) \/ DeleteBranch(c) \/ Reconcile(c)

Step(c) ==
    \/ Route(c) \/ Archive(c)
    \/ WriteBundle(c) \/ WriteSummary(c) \/ WriteInRepo(c)
    \/ Finalizing(c) \/ Completing(c)

Faulty(c) ==
    \/ SummaryFails(c) \/ PushUnseen(c) \/ FinalizeThrows(c)
    \/ RefreshFails(c) \/ Fail(c)

Next ==
    \/ \E c \in Callers : Attempt(c) \/ Step(c) \/ Faulty(c)
    \/ Work \/ OpenPr \/ PrMerges \/ PrCloses

Spec == Init /\ [][Next]_vars

(***************************************************************************)
(* A call that runs goes on; the archive is called again, with its         *)
(* worktree, until it succeeds (what every refusal asks for); an open pull *)
(* request is merged.                                                      *)
(***************************************************************************)
Fairness ==
    /\ \A c \in Callers : WF_vars(Step(c)) /\ SF_vars(Load(c, FALSE, TRUE))
    /\ WF_vars(PrMerges)

FairSpec == Spec /\ Fairness

-----------------------------------------------------------------------------
(* Properties *)

\* Every variable holds a value of its kind: the fields of the records, of
\* the call in flight and of the repository.
TypeOK ==
    /\ mode \in Modes
    /\ active \in Records \union {None}
    /\ bundle \in Records \union {None}
    /\ summary \in Summaries
    /\ repo \in Repos
    /\ pr \in PullRequests
    /\ lock \in Callers \union {Free}
    /\ call \in [Callers -> Calls]
    /\ faults \in 0 .. MaxFaults
    /\ clobbered \in BOOLEAN

\* No record, active or archived, is terminal or has its release gate done
\* before some of the change is on origin's default branch, whichever of the
\* calls, retries and recovery paths wrote it.
TerminalIsReleased ==
    \A r \in {active, bundle} \ {None} :
        r.lifecycle = "archived" \/ r.release => repo.merged > 0

\* The active record is removed only once the bundle holds the change and
\* the terminal facts, and its summary is written or has been reported as
\* failed.  The exception: a call that had found no bundle overwrites the
\* terminal bundle of a faster one.
RecordSurvives ==
    active = None =>
        /\ bundle # None /\ summary # "none"
        /\ clobbered \/ IsTerminal(bundle)

\* Retirement removes the worktree only when every commit of work is on
\* origin's default branch, and the branch only after the worktree.
WorkIsKept ==
    /\ ~repo.worktree => repo.work <= repo.merged
    /\ ~repo.branch => ~repo.worktree

\* A change that waits for its pull request remains active for its readers.
PendingStaysActive ==
    active # None /\ active.lifecycle = "open"
        /\ active.phase9 = "pending_merge" => ~ReadsArchived

Settled == IF active # None THEN active.lifecycle = "archived"
           ELSE bundle.lifecycle = "archived"

\* No call undoes what another one has reached, however old the record is
\* that it loaded: origin's default branch loses no commit of the change, a
\* completed release gate stays complete, and an archived change stays
\* archived, through the removal of its record too, unless its terminal bundle
\* was overwritten.  A removed record comes back only through a commit that
\* the removal has overtaken, and then it is archived and released.
ArchiveOnlyAdvances ==
    [][/\ repo'.merged >= repo.merged
       /\ active # None /\ active' # None => (active.release => active'.release)
       /\ active = None /\ active' # None =>
             /\ \E c \in Callers : call[c].held # None
             /\ active'.lifecycle = "archived" /\ active'.release
       /\ Settled /\ ~clobbered' => Settled']_vars

(***************************************************************************)
(* What no later call repairs: a bundle without its timestamp (a crash     *)
(* between its first two files, or a summary that could not be written), a *)
(* worktree left with an uncommitted bundle, a closed pull request, and in *)
(* direct mode a merged one that lacks the tip.                            *)
(***************************************************************************)
Wedged ==
    \/ bundle # None /\ summary # "written"
    \/ ~Clean
    \/ pr.state = "closed"
    \/ mode = "direct" /\ pr.state = "merged" /\ pr.head < repo.tip

\* Retried often enough, the archive settles for good, whatever crashed
\* before and wherever: the four wedges are the only exceptions.
Converges == <>[](Settled \/ Wedged)

=============================================================================
