--------------------------- MODULE ArchiveProofs ---------------------------
(***************************************************************************)
(* The safety of the archive for every number of calls, commits and        *)
(* faults.  The argument: what is on origin's default branch, the bundle,  *)
(* its timestamp and the release gate only ever advance (Forward), so what *)
(* a call has established at a stage still holds at its later ones,        *)
(* whatever other calls, retries and the people at the repository do.  A   *)
(* record that is removed is archived and released, and so is the one that *)
(* an overtaken commit writes back.                                        *)
(***************************************************************************)
EXTENDS Archive, TLAPS

\* A record that is terminal or released needs some of the change merged.
Backed(r) == r.lifecycle = "archived" \/ r.release => repo.merged > 0

\* The terminal summary is written, or has been reported as failed.
Tried == summary # "none"

\* The bundle holds the change for good.
Kept == bundle # None /\ Tried /\ (clobbered \/ IsTerminal(bundle))

\* Archived, its release gate complete: what no record goes back from.
Concluded(r) == r.lifecycle = "archived" /\ r.release

\* The stages at which a call relies on a complete bundle.
Bundled ==
    {"inRepo", "finalize", "publish", "arm", "pending", "release", "recover",
     "commit", "refresh"}

\* How commits, pull request and default branch are related.
RepoFits ==
    /\ repo.merged <= repo.tip /\ repo.work <= repo.tip /\ pr.head <= repo.tip
    /\ pr.state # "none" => pr.head >= 1
    /\ pr.state = "merged" => pr.head <= repo.merged
    /\ repo.filed > 0 => Tried /\ bundle # None

\* What a call has established at its stage.
CallFits(c) ==
    LET k == call[c] IN
    /\ Backed(k.saw)
    /\ Concluded(k.saw) => (active # None => Concluded(active))
    /\ k.held # None => Concluded(k.held) /\ repo.merged > 0
    /\ k.skip => repo.merged > 0 /\ (active # None => active.release)
    /\ k.at \in {"release", "recover", "commit"} => repo.merged > 0
    /\ k.at \in {"reuse", "summary", "reconcile"} => bundle # None
    /\ k.at \in Bundled => bundle # None /\ Tried
    /\ k.at \in {"refresh", "cleanup", "remove"} => IsTerminal(k.saw)
    /\ k.replay => k.at \in {"recover", "commit", "cleanup", "remove", "branch"}
    /\ k.at \in {"cleanup", "remove"} \/ (k.at = "commit" /\ k.replay) => Kept
    /\ k.at = "branch" => ~repo.worktree
    /\ k.at = "arm" => pr.state # "none"

IInv ==
    /\ TypeOK /\ RepoFits
    /\ TerminalIsReleased /\ RecordSurvives /\ WorkIsKept
    /\ \A c \in Callers : CallFits(c)

\* A record that takes nothing back when it is written as the active one.
Onward(r) ==
    IF active = None THEN Concluded(r)
    ELSE /\ active.release => r.release
         /\ active.lifecycle = "archived" => r.lifecycle = "archived"

\* What no step takes back.
Forward ==
    /\ repo'.merged >= repo.merged
    /\ active' # None => Onward(active')
    /\ bundle # None => bundle' # None
    /\ Tried => Tried'
    /\ Kept => Kept'
    /\ ~repo.worktree => ~repo'.worktree
    /\ pr.state # "none" => pr'.state # "none"

USE DEF Tried

-----------------------------------------------------------------------------
LEMMA IdleTyped == NewRecord \in Records /\ NoFinal \in Finals /\ Idle \in Calls
<1>1. NewRecord \in Records
  BY DEF NewRecord, Records
<1>2. NoFinal \in Finals
  BY DEF NoFinal, Finals
<1> QED
  BY <1>1, <1>2 DEF Idle, Calls, Stages

LEMMA Start == Init => IInv
<1> SUFFICES ASSUME Init PROVE IInv
  OBVIOUS
<1>1. 1 \in Commits /\ 0 \in Nat
  BY DEF Commits
<1>2. repo \in Repos
  BY <1>1 DEF Init, Repos
<1>3. pr \in PullRequests
  BY DEF Init, PullRequests
<1>4. TypeOK
  <2>1. summary \in Summaries /\ clobbered \in BOOLEAN
    BY Zenon DEF Init, Summaries
  <2>2. call \in [Callers -> Calls]
    BY IdleTyped DEF Init
  <2>3. faults \in 0 .. MaxFaults
    BY ArchiveAssumption DEF Init
  <2>4. active \in Records \union {None} /\ bundle \in Records \union {None}
    BY IdleTyped DEF Init
  <2>5. mode \in Modes /\ lock \in Callers \union {Free}
    BY DEF Init
  <2> QED
    BY <1>2, <1>3, <2>1, <2>2, <2>3, <2>4, <2>5 DEF TypeOK
<1>5. RepoFits
  BY DEF Init, RepoFits
<1>6. TerminalIsReleased /\ RecordSurvives /\ WorkIsKept
  <2>1. /\ active # None /\ bundle = None
        /\ active.lifecycle = "open" /\ ~active.release
    BY IdleTyped, RecordAssumption DEF Init, NewRecord
  <2>2. repo.worktree /\ repo.branch
    BY DEF Init
  <2> QED
    BY <2>1, <2>2 DEF TerminalIsReleased, RecordSurvives, WorkIsKept
<1>7. \A c \in Callers : CallFits(c)
  BY DEF Init, CallFits, Idle, Backed, Concluded, NewRecord, Bundled
<1> QED
  BY <1>4, <1>5, <1>6, <1>7 DEF IInv

-----------------------------------------------------------------------------
(* How one kind of step after the other keeps the invariant *)

\* A call that has ended relies on nothing.
LEMMA IdleFits ==
    ASSUME NEW c \in Callers, call'[c] = Idle
    PROVE  CallFits(c)'
  BY DEF CallFits, Idle, Backed, Concluded, NewRecord, Bundled

\* Whatever goes forward leaves a call where it is, a commit of its perhaps
\* overtaken.
LEMMA StillFits ==
    ASSUME IInv, TypeOK', Forward, NEW d \in Callers,
           call'[d].at = call[d].at, call'[d].saw = call[d].saw,
           call'[d].skip = call[d].skip, call'[d].replay = call[d].replay,
           call'[d].held # None =>
             call'[d].held = call[d].held
               \/ (Concluded(call'[d].held) /\ repo'.merged > 0)
    PROVE  CallFits(d)'
<1>1. CallFits(d)
  BY DEF IInv
<1>2. repo.merged \in Nat /\ repo'.merged \in Nat
  BY DEF IInv, TypeOK, Repos
<1>3. repo.merged > 0 => repo'.merged > 0
  BY <1>2 DEF Forward
<1>4. Concluded(call[d].saw) => (active' # None => Concluded(active'))
  BY <1>1 DEF CallFits, Forward, Onward, Concluded
<1>5. call[d].skip => (active' # None => active'.release)
  BY <1>1 DEF CallFits, Forward, Onward, Concluded
<1>6. call'[d].held # None => Concluded(call'[d].held) /\ repo'.merged > 0
  BY <1>1, <1>3 DEF CallFits
<1> QED
  BY <1>1, <1>3, <1>4, <1>5, <1>6 DEF CallFits, Backed, Forward, Concluded

\* The calls that do not move.
LEMMA OtherCalls ==
    ASSUME IInv, TypeOK', Forward, RepoFits', TerminalIsReleased', RecordSurvives',
           WorkIsKept',
           \A d \in Callers : CallFits(d)' \/ call'[d] = call[d]
    PROVE  IInv'
  BY StillFits DEF IInv

\* The types of what a step keeps.
LEMMA Quiet ==
    ASSUME IInv,
           UNCHANGED <<mode, active, bundle, summary, repo, pr, clobbered>>,
           lock' \in Callers \union {Free}, faults' \in 0 .. MaxFaults,
           call' \in [Callers -> Calls],
           \A d \in Callers : CallFits(d)' \/ call'[d] = call[d]
    PROVE  IInv'
<1>1. TypeOK'
  BY DEF IInv, TypeOK
<1>2. repo.merged \in Nat
  BY DEF IInv, TypeOK, Repos
<1>3. Forward
  BY <1>2 DEF Forward, Onward, Kept
<1>4. RepoFits' /\ TerminalIsReleased' /\ RecordSurvives' /\ WorkIsKept'
  BY DEF IInv, RepoFits, TerminalIsReleased, RecordSurvives, WorkIsKept
<1> QED
  BY <1>1, <1>3, <1>4, OtherCalls

\* The active record is written: it takes nothing back.
LEMMA ActiveStep ==
    ASSUME IInv, NEW a \in Records, active' = a, Onward(a), Backed(a),
           UNCHANGED <<mode, bundle, summary, repo, pr, lock, clobbered>>,
           faults' \in 0 .. MaxFaults, call' \in [Callers -> Calls],
           \A d \in Callers : CallFits(d)' \/ call'[d] = call[d]
    PROVE  IInv'
<1>1. TypeOK' /\ a # None
  BY RecordAssumption DEF IInv, TypeOK
<1>2. repo.merged \in Nat
  BY DEF IInv, TypeOK, Repos
<1>3. Forward
  BY <1>1, <1>2 DEF Forward, Kept
<1>4. RepoFits' /\ RecordSurvives' /\ WorkIsKept'
  BY <1>1 DEF IInv, RepoFits, RecordSurvives, WorkIsKept
<1>5. TerminalIsReleased'
  BY DEF IInv, TerminalIsReleased, Backed
<1> QED
  BY <1>1, <1>3, <1>4, <1>5, OtherCalls

\* The bundle is written: what it holds for good it goes on holding.
LEMMA BundleStep ==
    ASSUME IInv, NEW b \in Records, bundle' = b, Backed(b),
           summary' \in Summaries, clobbered' \in BOOLEAN,
           Tried => Tried', Kept => Kept',
           UNCHANGED <<mode, active, repo, pr, lock>>, faults' \in 0 .. MaxFaults,
           call' \in [Callers -> Calls],
           \A d \in Callers : CallFits(d)' \/ call'[d] = call[d]
    PROVE  IInv'
<1>1. TypeOK' /\ b # None
  BY RecordAssumption DEF IInv, TypeOK
<1>2. repo.merged \in Nat
  BY DEF IInv, TypeOK, Repos
<1>3. Forward
  BY <1>1, <1>2 DEF Forward, Onward
<1>4. RepoFits' /\ WorkIsKept'
  BY <1>1 DEF IInv, RepoFits, WorkIsKept
<1>5. RecordSurvives'
  BY DEF IInv, RecordSurvives, Kept
<1>6. TerminalIsReleased'
  BY DEF IInv, TerminalIsReleased, Backed
<1> QED
  BY <1>1, <1>3, <1>4, <1>5, <1>6, OtherCalls

\* Branches, worktree and pull request change.
LEMMA RepoStep ==
    ASSUME IInv, repo' \in Repos, pr' \in PullRequests, RepoFits', WorkIsKept',
           repo'.merged >= repo.merged, ~repo.worktree => ~repo'.worktree,
           pr.state # "none" => pr'.state # "none",
           UNCHANGED <<mode, active, bundle, summary, clobbered>>,
           lock' \in Callers \union {Free}, faults' \in 0 .. MaxFaults,
           call' \in [Callers -> Calls],
           \A d \in Callers : CallFits(d)' \/ call'[d] = call[d]
    PROVE  IInv'
<1>1. TypeOK'
  BY DEF IInv, TypeOK
<1>2. repo.merged \in Nat /\ repo'.merged \in Nat
  BY DEF IInv, TypeOK, Repos
<1>3. Forward
  BY DEF Forward, Onward, Kept
<1>4. RecordSurvives'
  BY DEF IInv, RecordSurvives
<1>5. TerminalIsReleased'
  BY <1>2 DEF IInv, TerminalIsReleased
<1> QED
  BY <1>1, <1>3, <1>4, <1>5, OtherCalls

-----------------------------------------------------------------------------
(* How a call moves *)

LEMMA Types ==
    ASSUME IInv, NEW c \in Callers
    PROVE  /\ call \in [Callers -> Calls] /\ call[c] \in Calls /\ CallFits(c)
           /\ call[c].saw \in Records /\ call[c].final \in Finals
           /\ call[c].at \in Stages /\ call[c].held \in Records \union {None}
           /\ active \in Records \union {None} /\ bundle \in Records \union {None}
           /\ repo \in Repos /\ pr \in PullRequests
           /\ lock \in Callers \union {Free} /\ faults \in 0 .. MaxFaults
           /\ summary \in Summaries /\ clobbered \in BOOLEAN /\ MaxFaults \in Nat
           /\ MaxWork \in Nat \ {0}
  BY ArchiveAssumption DEF IInv, TypeOK, Calls

LEMMA Becoming ==
    ASSUME IInv, NEW c \in Callers, NEW k \in Calls, Becomes(c, k)
    PROVE  /\ call' \in [Callers -> Calls] /\ call'[c] = k
           /\ \A d \in Callers : d # c => call'[d] = call[d]
  BY Types DEF Becomes

LEMMA Ending ==
    ASSUME IInv, NEW c \in Callers, Ends(c)
    PROVE  /\ call' \in [Callers -> Calls] /\ call'[c] = Idle
           /\ \A d \in Callers : CallFits(d)' \/ call'[d] = call[d]
<1>1. /\ call' \in [Callers -> Calls] /\ call'[c] = Idle
      /\ \A d \in Callers : d # c => call'[d] = call[d]
  BY IdleTyped, Becoming DEF Ends
<1> QED
  BY <1>1, IdleFits

LEMMA Going ==
    ASSUME IInv, NEW c \in Callers, NEW stage \in Stages, Goes(c, stage)
    PROVE  /\ call' \in [Callers -> Calls] /\ call'[c].at = stage
           /\ call'[c].saw = call[c].saw /\ call'[c].skip = call[c].skip
           /\ call'[c].held = call[c].held /\ call'[c].replay = call[c].replay
           /\ call'[c].final = call[c].final
           /\ \A d \in Callers : d # c => call'[d] = call[d]
<1>1. [call[c] EXCEPT !.at = stage] \in Calls
  BY Types DEF Calls
<1>2. call' = [call EXCEPT ![c] = [call[c] EXCEPT !.at = stage]]
  BY DEF Goes
<1> QED
  BY <1>1, <1>2, Types DEF Calls

\* A merged pull request, or a merged branch, has merged something.
LEMMA ProvenMerged ==
    ASSUME IInv
    PROVE  /\ pr.state = "merged" => repo.merged > 0
           /\ \A saw : Proven(saw) => repo.merged > 0
<1>1. repo.merged \in Nat /\ repo.tip \in Nat \ {0} /\ pr.head \in Nat
  BY DEF IInv, TypeOK, Repos, PullRequests, Commits
<1>2. pr.state = "merged" => repo.merged > 0
  BY <1>1 DEF IInv, RepoFits
<1> QED
  BY <1>1, <1>2 DEF Proven

\* The records the archive writes.
LEMMA Phase9Typed ==
    ASSUME NEW r \in Records, NEW f \in Finals,
           NEW status \in {"none", "failed", "pending_merge", "done"}
    PROVE  /\ Phase9(r, status, f) \in Records
           /\ Phase9(r, status, f).lifecycle = r.lifecycle
           /\ Phase9(r, status, f).release = r.release
           /\ Phase9(r, status, f).phase9 = status
  BY DEF Phase9, Records, Finals

LEMMA TerminalTyped ==
    ASSUME NEW r \in Records, NEW f \in Finals, NEW set \in BOOLEAN
    PROVE  /\ Terminal(r, f) \in Records
           /\ [Terminal(r, f) EXCEPT !.release = @ \/ set] \in Records
           /\ r.release \/ set => IsTerminal([Terminal(r, f) EXCEPT !.release = @ \/ set])
           /\ [Terminal(r, f) EXCEPT !.release = TRUE] \in Records
           /\ IsTerminal([Terminal(r, f) EXCEPT !.release = TRUE])
<1> DEFINE p == Phase9(r, "done", f)
<1>1. p \in Records /\ p.release = r.release /\ p.phase9 = "done"
  BY Phase9Typed
<1>2. Terminal(r, f) = [p EXCEPT !.lifecycle = "archived"]
  BY DEF Terminal
<1> HIDE DEF p
<1>3. /\ Terminal(r, f) \in Records /\ Terminal(r, f).lifecycle = "archived"
      /\ Terminal(r, f).phase9 = "done" /\ Terminal(r, f).release = r.release
  BY <1>1, <1>2 DEF Records
<1> QED
  BY <1>3 DEF Records, IsTerminal

-----------------------------------------------------------------------------
(* The steps *)

LEMMA Loading ==
    ASSUME IInv, NEW c \in Callers, NEW skip \in BOOLEAN, NEW wt \in BOOLEAN,
           Load(c, skip, wt)
    PROVE  IInv'
<1>1. Loaded \in Records /\ Backed(Loaded)
  BY Types DEF Load, Loaded, Backed, IInv, TerminalIsReleased
<1> DEFINE f == IF skip THEN EvidenceOf(Loaded) ELSE NoFinal
           k == [Idle EXCEPT !.at = "route", !.skip = skip, !.wt = wt,
                             !.saw = Loaded, !.shadow = ReadsArchived, !.final = f]
<1>2. f \in Finals
  BY <1>1, IdleTyped DEF EvidenceOf, Finals, Records
<1>3. ReadsArchived \in BOOLEAN
  BY DEF ReadsArchived
<1>5. Becomes(c, k) /\ UNCHANGED <<mode, active, bundle, summary, repo, pr, lock, faults, clobbered>>
  BY DEF Load
<1> HIDE DEF f
<1>4. /\ k.at = "route" /\ k.skip = skip /\ k.saw = Loaded
      /\ k.held = None /\ k.replay = FALSE
  BY DEF Idle
<1>6. k \in Calls
  BY <1>1, <1>2, <1>3, IdleTyped DEF Calls, Stages
<1> HIDE DEF k
<1>7. /\ call' \in [Callers -> Calls] /\ call'[c] = k
      /\ \A d \in Callers : d # c => call'[d] = call[d]
  BY <1>5, <1>6, Becoming
<1>8. skip => repo.merged > 0 /\ (active # None => active.release)
  BY ProvenMerged DEF Load, Loaded
<1>10. Concluded(Loaded) => (active # None => Concluded(active))
  BY DEF Loaded
<1>9. CallFits(c)'
  BY <1>1, <1>4, <1>5, <1>7, <1>8, <1>10 DEF CallFits, Backed, Concluded, Bundled
<1> QED
  BY <1>5, <1>7, <1>9, Types, Quiet

LEMMA Routing ==
    ASSUME IInv, NEW c \in Callers, Route(c)
    PROVE  IInv'
<1> DEFINE k == call[c]
<1>1. /\ k.at = "route"
      /\ UNCHANGED <<mode, active, bundle, summary, repo, pr, lock, faults, clobbered>>
  BY DEF Route
<1>2. CASE Ends(c)
  BY <1>1, <1>2, Types, Ending, Quiet
<1>3. CASE Replays(k.saw)
  <2> DEFINE f == [pr |-> TRUE, exact |-> TRUE, tips |-> k.saw.tips]
             n == [k EXCEPT !.at = "recover", !.replay = TRUE, !.final = f]
  <2>1. Becomes(c, n)
    BY <1>3 DEF Route
  <2>2. f \in Finals
    BY Types DEF Finals, Records
  <2> HIDE DEF f
  <2>3. /\ n \in Calls /\ n.at = "recover" /\ n.saw = k.saw /\ n.skip = k.skip
        /\ n.held = k.held
    BY <2>2, Types DEF Calls, Stages
  <2> HIDE DEF n
  <2>4. /\ call' \in [Callers -> Calls] /\ call'[c] = n
        /\ \A d \in Callers : d # c => call'[d] = call[d]
    BY <2>1, <2>3, Becoming
  <2>5. repo.merged > 0 /\ bundle # None /\ Tried
    <3>1. repo.filed > 0 /\ pr.state = "merged"
      BY <1>3, Types DEF Replays, ExactProof, Repos
    <3> QED
      BY <3>1, ProvenMerged DEF IInv, RepoFits
  <2>6. CallFits(c)'
    BY <1>1, <2>3, <2>4, <2>5, Types DEF CallFits, Backed, Concluded, Bundled
  <2> QED
    BY <1>1, <2>4, <2>6, Types, Quiet
<1>4. CASE Goes(c, IF Retired(k) THEN "reconcile"
                   ELSE IF bundle # None THEN "reuse" ELSE "archive")
  <2>1. PICK stage \in Stages :
          /\ Goes(c, stage) /\ stage \in {"reconcile", "reuse", "archive"}
          /\ stage # "archive" => bundle # None
    BY <1>4 DEF Stages, Retired
  <2>2. CallFits(c)'
    BY <1>1, <2>1, Going, Types DEF CallFits, Backed, Concluded, Bundled
  <2> QED
    BY <1>1, <2>1, <2>2, Going, Types, Quiet
<1> QED
  BY <1>2, <1>3, <1>4 DEF Route

LEMMA Archiving ==
    ASSUME IInv, NEW c \in Callers, Archive(c)
    PROVE  IInv'
<1>1. /\ call[c].at \in {"archive", "reuse"}
      /\ UNCHANGED <<mode, active, bundle, summary, repo, pr, faults, clobbered>>
  BY DEF Archive
<1>2. CASE Ends(c) /\ UNCHANGED lock
  BY <1>1, <1>2, Types, Ending, Quiet
<1>3. CASE /\ ~(call[c].at = "reuse" /\ summary # "written") /\ lock' = c
           /\ Goes(c, IF call[c].at = "reuse" THEN "inRepo" ELSE "bundle")
  <2>1. PICK stage \in Stages :
          /\ Goes(c, stage)
          /\ stage = IF call[c].at = "reuse" THEN "inRepo" ELSE "bundle"
    BY <1>3 DEF Stages
  <2>2. CallFits(c)'
    BY <1>1, <1>3, <2>1, Going, Types DEF CallFits, Backed, Concluded, Bundled
  <2> QED
    BY <1>1, <1>3, <2>1, <2>2, Going, Types, Quiet
<1> QED
  BY <1>2, <1>3 DEF Archive

LEMMA WritingBundle ==
    ASSUME IInv, NEW c \in Callers, WriteBundle(c)
    PROVE  IInv'
<1>1. /\ call[c].at = "bundle" /\ bundle' = call[c].saw
      /\ clobbered' = (clobbered \/ (bundle # None /\ IsTerminal(bundle)))
      /\ Goes(c, "summary")
      /\ UNCHANGED <<mode, active, summary, repo, pr, lock, faults>>
  BY DEF WriteBundle
<1>2. "summary" \in Stages
  BY DEF Stages
<1>3. call[c].saw # None /\ Backed(call[c].saw)
  BY Types, RecordAssumption DEF CallFits
<1>4. CallFits(c)'
  BY <1>1, <1>2, <1>3, Going, Types DEF CallFits, Backed, Concluded, Bundled
<1>5. clobbered' \in BOOLEAN /\ (Kept => Kept')
  BY <1>1, <1>3 DEF Kept
<1> QED
  BY <1>1, <1>2, <1>3, <1>4, <1>5, Going, Types, BundleStep

\* The summary is written, or cannot be: the archive goes on.
LEMMA WritingSummary ==
    ASSUME IInv, NEW c \in Callers, WriteSummary(c) \/ SummaryFails(c)
    PROVE  IInv'
<1>1. /\ call[c].at = "summary" /\ Goes(c, "inRepo")
      /\ UNCHANGED <<mode, active, bundle, repo, pr, lock, clobbered>>
  BY DEF WriteSummary, SummaryFails
<1>2. summary' \in Summaries /\ Tried' /\ faults' \in 0 .. MaxFaults
  BY Types DEF WriteSummary, SummaryFails, Summaries
<1>3. "inRepo" \in Stages
  BY DEF Stages
<1>4. bundle # None /\ bundle \in Records /\ Backed(bundle)
  BY <1>1, Types DEF CallFits, IInv, TerminalIsReleased, Backed
<1>5. CallFits(c)'
  BY <1>1, <1>2, <1>3, <1>4, Going, Types DEF CallFits, Backed, Concluded, Bundled
<1>6. Kept => Kept'
  BY <1>1, <1>2 DEF Kept
<1> QED
  BY <1>1, <1>2, <1>3, <1>4, <1>5, <1>6, Going, Types, BundleStep

LEMMA WritingInRepo ==
    ASSUME IInv, NEW c \in Callers, WriteInRepo(c)
    PROVE  IInv'
<1> DEFINE t == IF call[c].wt THEN call[c].saw ELSE repo.tracked
<1>1. /\ call[c].at = "inRepo" /\ repo' = [repo EXCEPT !.tracked = t]
      /\ lock' = Free /\ Goes(c, IF call[c].skip THEN "commit" ELSE "finalize")
      /\ UNCHANGED <<mode, active, bundle, summary, pr, faults, clobbered>>
  BY DEF WriteInRepo
<1>2. t \in Records \union {None}
  BY Types DEF Repos
<1> HIDE DEF t
<1>3. /\ repo' \in Repos /\ repo'.tip = repo.tip /\ repo'.work = repo.work
      /\ repo'.merged = repo.merged /\ repo'.filed = repo.filed
      /\ repo'.worktree = repo.worktree /\ repo'.branch = repo.branch
      /\ repo.merged \in Nat
  BY <1>1, <1>2, Types DEF Repos
<1>4. RepoFits' /\ WorkIsKept'
  BY <1>1, <1>3 DEF IInv, RepoFits, WorkIsKept
<1>5. PICK stage \in Stages : /\ Goes(c, stage)
                              /\ stage = IF call[c].skip THEN "commit" ELSE "finalize"
  BY <1>1 DEF Stages
<1>6. CallFits(c)'
  BY <1>1, <1>3, <1>5, Going, Types DEF CallFits, Backed, Concluded, Bundled
<1> QED
  BY <1>1, <1>3, <1>4, <1>5, <1>6, Going, Types, RepoStep

\* Finalize commits the bundle to the branch, or finds the release proved.
LEMMA Finalization ==
    ASSUME IInv, NEW c \in Callers, Finalize(c)
    PROVE  IInv'
<1> DEFINE k == call[c]
           tip == IF Clean THEN repo.tip ELSE repo.tip + 1
<1>1. /\ k.at = "finalize"
      /\ UNCHANGED <<mode, active, bundle, summary, pr, lock, faults, clobbered>>
  BY DEF Finalize
<1>2. CASE /\ repo.worktree
           /\ repo' = [repo EXCEPT
                         !.tip = tip, !.committed = repo.tracked,
                         !.filed = IF @ = 0 /\ ~Clean THEN tip ELSE @]
           /\ Becomes(c, [k EXCEPT !.at = "publish", !.final.tips = {repo.tip, tip}])
  <2>1. tip \in Commits /\ repo.tip \in Commits /\ tip >= repo.tip
    BY Types DEF Repos, Commits
  <2> DEFINE n == [k EXCEPT !.at = "publish", !.final.tips = {repo.tip, tip}]
             filed == IF repo.filed = 0 /\ ~Clean THEN tip ELSE repo.filed
  <2>2. filed \in Nat
    BY <2>1, Types DEF Repos, Commits
  <2> HIDE DEF tip
  <2>3. [k.final EXCEPT !.tips = {repo.tip, tip}] \in Finals
    BY <2>1, Types DEF Finals
  <2>4. n = [k EXCEPT !.at = "publish", !.final = [k.final EXCEPT !.tips = {repo.tip, tip}]]
    BY Types DEF Calls
  <2>5. /\ n \in Calls /\ n.at = "publish" /\ n.saw = k.saw /\ n.skip = k.skip
        /\ n.held = k.held /\ n.replay = k.replay
    BY <2>3, <2>4, Types DEF Calls, Stages
  <2>6. repo' = [repo EXCEPT !.tip = tip, !.committed = repo.tracked, !.filed = filed]
    BY <1>2
  <2> HIDE DEF n, filed
  <2>7. /\ repo' \in Repos /\ repo'.tip = tip /\ repo'.work = repo.work
        /\ repo'.merged = repo.merged /\ repo'.worktree = repo.worktree
        /\ repo'.branch = repo.branch
        /\ repo.merged \in Nat /\ repo.work \in Nat /\ repo.tip \in Nat /\ tip \in Nat
        /\ pr.head \in Nat
    BY <2>1, <2>2, <2>6, Types DEF Repos, Commits, PullRequests
  <2>8. bundle # None /\ Tried
    BY <1>1, Types DEF CallFits, Bundled
  <2>9. RepoFits' /\ WorkIsKept'
    BY <1>1, <2>1, <2>7, <2>8 DEF IInv, RepoFits, WorkIsKept
  <2>10. /\ call' \in [Callers -> Calls] /\ call'[c] = n
         /\ \A d \in Callers : d # c => call'[d] = call[d]
    BY <1>2, <2>5, Becoming DEF n
  <2>11. CallFits(c)'
    BY <1>1, <2>5, <2>7, <2>8, <2>10, Types DEF CallFits, Backed, Concluded, Bundled
  <2> QED
    BY <1>1, <2>7, <2>9, <2>10, <2>11, Types, RepoStep
<1>3. CASE /\ Proven(k.saw) /\ UNCHANGED repo
           /\ Becomes(c, [k EXCEPT !.at = "release", !.final = EvidenceOf(k.saw)])
  <2> DEFINE n == [k EXCEPT !.at = "release", !.final = EvidenceOf(k.saw)]
  <2>1. EvidenceOf(k.saw) \in Finals
    BY Types DEF EvidenceOf, Finals, Records
  <2>2. /\ n \in Calls /\ n.at = "release" /\ n.saw = k.saw /\ n.skip = k.skip
        /\ n.held = k.held /\ n.replay = k.replay
    BY <2>1, Types DEF Calls, Stages
  <2> HIDE DEF n
  <2>3. /\ call' \in [Callers -> Calls] /\ call'[c] = n
        /\ \A d \in Callers : d # c => call'[d] = call[d]
    BY <1>3, <2>2, Becoming DEF n
  <2>4. repo.merged > 0
    BY <1>3, ProvenMerged
  <2>5. CallFits(c)'
    BY <1>1, <1>3, <2>2, <2>3, <2>4, Types DEF CallFits, Backed, Concluded, Bundled
  <2> QED
    BY <1>1, <1>3, <2>3, <2>5, Types, Quiet
<1>4. CASE Ends(c) /\ UNCHANGED repo
  BY <1>1, <1>4, Types, Ending, Quiet
<1> QED
  BY <1>2, <1>3, <1>4 DEF Finalize

LEMMA FindingMerged ==
    ASSUME IInv, NEW c \in Callers, FindMerged(c)
    PROVE  IInv'
<1> DEFINE k == call[c]
           f == [k.final EXCEPT !.pr = TRUE, !.exact = TRUE]
           n == [k EXCEPT !.at = "release", !.final = f]
<1>1. /\ k.at = "publish" /\ pr.state = "merged"
      /\ UNCHANGED <<mode, active, bundle, summary, repo, pr, lock, faults, clobbered>>
  BY DEF FindMerged, ExactProof
<1>2. f \in Finals
  BY Types DEF Finals
<1>3. Becomes(c, n)
  BY Types DEF FindMerged, Calls
<1> HIDE DEF f
<1>4. /\ n \in Calls /\ n.at = "release" /\ n.saw = k.saw /\ n.skip = k.skip
      /\ n.held = k.held /\ n.replay = k.replay
  BY <1>2, Types DEF Calls, Stages
<1> HIDE DEF n
<1>5. /\ call' \in [Callers -> Calls] /\ call'[c] = n
      /\ \A d \in Callers : d # c => call'[d] = call[d]
  BY <1>3, <1>4, Becoming
<1>6. CallFits(c)'
  BY <1>1, <1>4, <1>5, ProvenMerged, Types DEF CallFits, Backed, Concluded, Bundled
<1> QED
  BY <1>1, <1>5, <1>6, Types, Quiet

\* A push moves the default branch to the tip.
LEMMA Merging ==
    ASSUME IInv, repo' = [repo EXCEPT !.merged = repo.tip],
           UNCHANGED <<summary, bundle, pr>>
    PROVE  /\ repo' \in Repos /\ RepoFits' /\ WorkIsKept'
           /\ repo'.merged >= repo.merged /\ repo'.merged > 0
           /\ ~repo.worktree => ~repo'.worktree
<1>1. repo \in Repos /\ pr \in PullRequests
  BY DEF IInv, TypeOK
<1>2. /\ repo' \in Repos /\ repo'.tip = repo.tip /\ repo'.work = repo.work
      /\ repo'.merged = repo.tip /\ repo'.worktree = repo.worktree
      /\ repo'.branch = repo.branch /\ repo'.filed = repo.filed
      /\ repo.merged \in Nat /\ repo.work \in Nat /\ repo.tip \in Nat \ {0}
      /\ pr.head \in Nat
  BY <1>1 DEF Repos, Commits, PullRequests
<1> QED
  BY <1>2 DEF IInv, RepoFits, WorkIsKept

LEMMA Pushing ==
    ASSUME IInv, NEW c \in Callers, Push(c)
    PROVE  IInv'
<1>1. /\ call[c].at = "publish"
      /\ UNCHANGED <<mode, active, bundle, summary, pr, lock, faults, clobbered>>
  BY DEF Push
<1>2. CASE Ends(c) /\ UNCHANGED repo
  BY <1>1, <1>2, Types, Ending, Quiet
<1>3. CASE repo' = [repo EXCEPT !.merged = repo.tip] /\ Goes(c, "release")
  <2>1. "release" \in Stages
    BY DEF Stages
  <2>2. /\ repo' \in Repos /\ RepoFits' /\ WorkIsKept'
        /\ repo'.merged >= repo.merged /\ repo'.merged > 0
        /\ ~repo.worktree => ~repo'.worktree
    BY <1>1, <1>3, Merging
  <2>3. CallFits(c)'
    BY <1>1, <1>3, <2>1, <2>2, Going, Types DEF CallFits, Backed, Concluded, Bundled
  <2> QED
    BY <1>1, <1>3, <2>1, <2>2, <2>3, Going, Types, RepoStep
<1> QED
  BY <1>2, <1>3 DEF Push

LEMMA PushingUnseen ==
    ASSUME IInv, NEW c \in Callers, PushUnseen(c)
    PROVE  IInv'
<1>1. /\ UNCHANGED <<mode, active, bundle, summary, pr, lock, clobbered>>
      /\ faults' \in 0 .. MaxFaults
      /\ repo' = [repo EXCEPT !.merged = repo.tip] /\ Ends(c)
  BY Types DEF PushUnseen
<1>2. /\ repo' \in Repos /\ RepoFits' /\ WorkIsKept'
      /\ repo'.merged >= repo.merged
      /\ ~repo.worktree => ~repo'.worktree
  BY <1>1, Merging
<1> QED
  BY <1>1, <1>2, Types, Ending, RepoStep

LEMMA HandingOff ==
    ASSUME IInv, NEW c \in Callers, Handoff(c)
    PROVE  IInv'
<1>1. /\ call[c].at = "publish"
      /\ UNCHANGED <<mode, active, bundle, summary, lock, faults, clobbered>>
  BY DEF Handoff
<1>2. CASE Ends(c) /\ UNCHANGED <<repo, pr>>
  BY <1>1, <1>2, Types, Ending, Quiet
<1>3. ASSUME NEW tip \in {repo.tip, repo.tip + 1},
             repo' = [repo EXCEPT !.tip = tip],
             pr' = [state |-> IF pr.state = "none" THEN "open" ELSE pr.state,
                    head |-> IF pr.state = "merged" THEN pr.head ELSE tip],
             Goes(c, "arm")
      PROVE  IInv'
  <2>1. "arm" \in Stages
    BY DEF Stages
  <2>2. /\ tip \in Nat \ {0} /\ repo.tip \in Nat \ {0} /\ tip >= repo.tip
        /\ pr.head \in Nat
    BY <1>3, Types DEF Repos, PullRequests, Commits
  <2>3. /\ repo' \in Repos /\ repo'.tip = tip /\ repo'.work = repo.work
        /\ repo'.merged = repo.merged /\ repo'.worktree = repo.worktree
        /\ repo'.branch = repo.branch /\ repo'.filed = repo.filed
        /\ repo.merged \in Nat /\ repo.work \in Nat
    BY <1>3, <2>2, Types DEF Repos, Commits
  <2>4. /\ pr' \in PullRequests
        /\ pr'.head = IF pr.state = "merged" THEN pr.head ELSE tip
        /\ pr'.state = IF pr.state = "none" THEN "open" ELSE pr.state
    BY <1>3, <2>2, Types DEF PullRequests
  <2>5. RepoFits' /\ WorkIsKept'
    BY <1>1, <2>2, <2>3, <2>4 DEF IInv, RepoFits, WorkIsKept
  <2>6. CallFits(c)'
    BY <1>1, <1>3, <2>1, <2>3, <2>4, Going, Types DEF CallFits, Backed, Concluded, Bundled
  <2> QED
    BY <1>1, <1>3, <2>1, <2>3, <2>4, <2>5, <2>6, Going, Types, RepoStep
<1> QED
  BY <1>2, <1>3 DEF Handoff

LEMMA Arming ==
    ASSUME IInv, NEW c \in Callers, Arm(c)
    PROVE  IInv'
<1> DEFINE k == call[c]
<1>1. /\ k.at = "arm"
      /\ UNCHANGED <<mode, active, bundle, summary, repo, lock, faults, clobbered>>
  BY DEF Arm
<1>2. CASE Ends(c) /\ UNCHANGED pr
  BY <1>1, <1>2, Types, Ending, Quiet
<1>3. CASE /\ MergeSeen /\ UNCHANGED pr
           /\ Becomes(c, [k EXCEPT !.at = "release", !.final.pr = TRUE])
  <2> DEFINE f == [k.final EXCEPT !.pr = TRUE]
             n == [k EXCEPT !.at = "release", !.final = f]
  <2>1. f \in Finals
    BY Types DEF Finals
  <2>2. Becomes(c, n)
    BY <1>3, Types DEF Calls
  <2> HIDE DEF f
  <2>3. /\ n \in Calls /\ n.at = "release" /\ n.saw = k.saw /\ n.skip = k.skip
        /\ n.held = k.held /\ n.replay = k.replay
    BY <2>1, Types DEF Calls, Stages
  <2> HIDE DEF n
  <2>4. /\ call' \in [Callers -> Calls] /\ call'[c] = n
        /\ \A d \in Callers : d # c => call'[d] = call[d]
    BY <2>2, <2>3, Becoming
  <2>5. CallFits(c)'
    BY <1>1, <1>3, <2>3, <2>4, ProvenMerged, Types DEF CallFits, Backed, Concluded, Bundled, MergeSeen
  <2> QED
    BY <1>1, <1>3, <2>4, <2>5, Types, Quiet
<1>4. CASE ~MergeSeen /\ pr' = [pr EXCEPT !.state = "armed"] /\ Goes(c, "pending")
  <2>1. "pending" \in Stages
    BY DEF Stages
  <2>2. /\ pr' \in PullRequests /\ pr'.head = pr.head /\ pr'.state = "armed"
    BY <1>4, Types DEF PullRequests
  <2>3. RepoFits' /\ WorkIsKept'
    <3>1. pr.head >= 1
      BY <1>1, Types DEF CallFits, IInv, RepoFits
    <3> QED
      BY <1>1, <2>2, <3>1 DEF IInv, RepoFits, WorkIsKept
  <2>4. CallFits(c)'
    BY <1>1, <1>4, <2>1, Going, Types DEF CallFits, Backed, Concluded, Bundled
  <2> QED
    BY <1>1, <1>4, <2>1, <2>2, <2>3, <2>4, Going, Types, RepoStep DEF Repos
<1> QED
  BY <1>2, <1>3, <1>4 DEF Arm

LEMMA Throwing ==
    ASSUME IInv, NEW c \in Callers, FinalizeThrows(c)
    PROVE  IInv'
<1>1. /\ call[c].at \in {"finalize", "publish", "arm"} /\ Goes(c, "failed")
      /\ faults' \in 0 .. MaxFaults
      /\ UNCHANGED <<mode, active, bundle, summary, repo, pr, lock, clobbered>>
  BY Types DEF FinalizeThrows
<1>2. "failed" \in Stages
  BY DEF Stages
<1>3. CallFits(c)'
  BY <1>1, <1>2, Going, Types DEF CallFits, Backed, Concluded, Bundled
<1> QED
  BY <1>1, <1>2, <1>3, Going, Types, Quiet

\* What a commit writes on top of the record it has loaded takes nothing back,
\* even if the removal has overtaken it.
LEMMA OnLatest ==
    ASSUME IInv, NEW c \in Callers, Latest(call[c]) # None
    PROVE  /\ Latest(call[c]) \in Records /\ Backed(Latest(call[c]))
           /\ \A r \in Records :
                (/\ Latest(call[c]).release => r.release
                 /\ Latest(call[c]).lifecycle = "archived"
                      => r.lifecycle = "archived")
                => Onward(r)
<1> DEFINE k == call[c]
<1>1. CASE k.held = None
  <2>1. Latest(k) = active
    BY <1>1 DEF Latest
  <2>2. active # None
    BY <2>1
  <2>3. Latest(k) \in Records /\ Backed(Latest(k))
    BY <2>1, <2>2, Types DEF Backed, IInv, TerminalIsReleased
  <2> QED
    BY <2>1, <2>2, <2>3 DEF Onward
<1>2. CASE k.held # None
  <2>1. Latest(k) = k.held /\ k.held \in Records
    BY <1>2, Types DEF Latest
  <2>2. Concluded(k.held) /\ repo.merged > 0
    BY <1>2, Types DEF CallFits
  <2>3. \A r \in Records : r.lifecycle = "archived" /\ r.release => Onward(r)
    BY DEF Onward, Concluded
  <2> QED
    BY <2>1, <2>2, <2>3 DEF Backed, Concluded
<1> QED
  BY <1>1, <1>2

LEMMA WithStatusTyped ==
    ASSUME IInv, NEW c \in Callers, Latest(call[c]) # None, NEW f \in Finals,
           NEW status \in {"none", "failed", "pending_merge", "done"}
    PROVE  /\ WithStatus(call[c], status, f) \in Records
           /\ Onward(WithStatus(call[c], status, f))
           /\ Backed(WithStatus(call[c], status, f))
<1> DEFINE k == call[c]
           built == Phase9(k.saw, status, f)
           l == Latest(k)
           w == [l EXCEPT !.phase9 = built.phase9, !.exact = built.exact,
                          !.tips = built.tips]
<1>1. built \in Records
  BY Types, Phase9Typed
<1>2. l \in Records /\ Backed(l)
  BY OnLatest
<1>3. WithStatus(k, status, f) = w
  BY DEF WithStatus
<1> HIDE DEF built, l
<1>4. w \in Records /\ w.lifecycle = l.lifecycle /\ w.release = l.release
  BY <1>1, <1>2 DEF Records
<1> HIDE DEF w
<1>5. Onward(w) /\ Backed(w)
  BY <1>2, <1>4, OnLatest DEF Backed, l
<1> QED
  BY <1>3, <1>4, <1>5

\* The two outcomes that write phase9_status without releasing anything.
LEMMA Recording ==
    ASSUME IInv, NEW c \in Callers, RecordPending(c) \/ RecordFailed(c)
    PROVE  IInv'
<1>1. PICK f \in Finals, status \in {"none", "failed", "pending_merge", "done"} :
        active' = IF Latest(call[c]) = None THEN None
                  ELSE WithStatus(call[c], status, f)
  BY Types, IdleTyped DEF RecordPending, RecordFailed
<1>2. /\ Ends(c) /\ faults' \in 0 .. MaxFaults
      /\ UNCHANGED <<mode, bundle, summary, repo, pr, lock, clobbered>>
  BY Types DEF RecordPending, RecordFailed
<1>3. CASE Latest(call[c]) = None
  <2>1. active = None /\ active' = None
    BY <1>1, <1>3 DEF Latest
  <2> QED
    BY <1>2, <2>1, Types, Ending, Quiet
<1>4. CASE Latest(call[c]) # None
  <2>1. PICK a \in Records : a = active' /\ Onward(a) /\ Backed(a)
    BY <1>1, <1>4, WithStatusTyped
  <2> QED
    BY <1>2, <2>1, Ending, ActiveStep
<1> QED
  BY <1>3, <1>4

\* The release gate is completed in the active record.
LEMMA GateTyped ==
    ASSUME IInv, NEW c \in Callers, Latest(call[c]) # None, repo.merged > 0
    PROVE  /\ [Latest(call[c]) EXCEPT !.release = TRUE] \in Records
           /\ [Latest(call[c]) EXCEPT !.release = TRUE].release
           /\ Onward([Latest(call[c]) EXCEPT !.release = TRUE])
           /\ Backed([Latest(call[c]) EXCEPT !.release = TRUE])
<1> DEFINE l == Latest(call[c])
           w == [l EXCEPT !.release = TRUE]
<1>1. l \in Records
  BY OnLatest
<1> HIDE DEF l
<1>2. w \in Records /\ w.release /\ w.lifecycle = l.lifecycle
  BY <1>1 DEF Records
<1> HIDE DEF w
<1>3. Onward(w) /\ Backed(w)
  BY <1>2, OnLatest DEF Backed, l
<1> QED
  BY <1>2, <1>3 DEF w, l

LEMMA Releasing ==
    ASSUME IInv, NEW c \in Callers, Release(c)
    PROVE  IInv'
<1> DEFINE k == call[c]
<1>1. /\ k.at = "release" /\ repo.merged > 0 /\ bundle # None /\ Tried
      /\ UNCHANGED <<mode, bundle, summary, repo, pr, lock, faults, clobbered>>
  BY Types DEF Release, CallFits, Bundled
<1>2. CASE Latest(k) = None /\ Goes(c, "recover") /\ UNCHANGED active
  <2>1. "recover" \in Stages
    BY DEF Stages
  <2>2. CallFits(c)'
    BY <1>1, <1>2, <2>1, Going, Types DEF CallFits, Backed, Concluded, Bundled
  <2> QED
    BY <1>1, <1>2, <2>1, <2>2, Going, Types, Quiet
<1>3. CASE /\ Latest(k) # None /\ active' = [Latest(k) EXCEPT !.release = TRUE]
           /\ Becomes(c, [k EXCEPT !.at = "commit", !.held = None])
  <2> DEFINE n == [k EXCEPT !.at = "commit", !.held = None]
  <2>1. /\ n \in Calls /\ n.at = "commit" /\ n.saw = k.saw /\ n.skip = k.skip
        /\ n.held = None /\ n.replay = k.replay
    BY Types DEF Calls, Stages
  <2> HIDE DEF n
  <2>2. /\ call' \in [Callers -> Calls] /\ call'[c] = n
        /\ \A d \in Callers : d # c => call'[d] = call[d]
    BY <1>3, <2>1, Becoming DEF n
  <2>3. PICK a \in Records : a = active' /\ a.release /\ Onward(a) /\ Backed(a)
    BY <1>1, <1>3, GateTyped
  <2>4. Concluded(k.saw) => Concluded(a)
    BY <2>3, Types DEF CallFits, Onward, Concluded
  <2>5. CallFits(c)'
    BY <1>1, <2>1, <2>2, <2>3, <2>4, Types DEF CallFits, Backed, Bundled
  <2> QED
    BY <1>1, <2>2, <2>3, <2>5, Types, ActiveStep
<1> QED
  BY <1>1, <1>2, <1>3 DEF Release

\* What the recovery writes is terminal.
LEMMA RecoveredTyped ==
    ASSUME IInv, NEW c \in Callers, bundle # None
    PROVE  Recovered(call[c]) \in Records /\ IsTerminal(Recovered(call[c]))
  BY Types, TerminalTyped DEF Recovered

LEMMA Recovering ==
    ASSUME IInv, NEW c \in Callers, Recover(c)
    PROVE  IInv'
<1>1. /\ call[c].at = "recover" /\ repo.merged > 0 /\ bundle # None /\ Tried
      /\ bundle' = Recovered(call[c])
      /\ UNCHANGED <<mode, active, summary, repo, pr, lock, faults, clobbered>>
  BY Types DEF Recover, CallFits, Bundled
<1>2. PICK b \in Records : b = Recovered(call[c]) /\ IsTerminal(b)
  BY <1>1, RecoveredTyped
<1>3. bundle' = b /\ b # None
  BY <1>1, <1>2, RecordAssumption
<1>4. Backed(b) /\ Kept'
  BY <1>1, <1>2, <1>3 DEF Backed, Kept
<1>5. CASE Ends(c)
  BY <1>1, <1>3, <1>4, <1>5, Ending, Types, BundleStep
<1>6. CASE Goes(c, "commit")
  <2>1. "commit" \in Stages
    BY DEF Stages
  <2>2. CallFits(c)'
    BY <1>1, <1>3, <1>4, <1>6, <2>1, Going, Types DEF CallFits, Backed, Concluded, Bundled
  <2> QED
    BY <1>1, <1>3, <1>4, <1>6, <2>1, <2>2, Going, Types, BundleStep
<1> QED
  BY <1>5, <1>6 DEF Recover

\* What the archive_transition writes is terminal.
LEMMA CommitTyped ==
    ASSUME IInv, NEW c \in Callers, Latest(call[c]) # None
    PROVE  LET k == call[c]
               set == k.replay \/ ~k.skip
               new == [Terminal(Latest(k), k.final) EXCEPT !.release = @ \/ set]
           IN  new \in Records /\ IsTerminal(new) /\ Onward(new)
<1> DEFINE k == call[c]
           set == k.replay \/ ~k.skip
           l == Latest(k)
           new == [Terminal(l, k.final) EXCEPT !.release = @ \/ set]
<1>1. l \in Records
  BY OnLatest
<1>2. l.release \/ set
  <2>1. CASE k.held = None
    BY <2>1, Types DEF CallFits, Latest
  <2>2. CASE k.held # None
    BY <2>2, Types DEF CallFits, Latest, Concluded
  <2> QED
    BY <2>1, <2>2
<1>3. set \in BOOLEAN /\ k.final \in Finals
  BY Types DEF Calls
<1> HIDE DEF set, l
<1>4. new \in Records /\ IsTerminal(new)
  BY <1>1, <1>2, <1>3, TerminalTyped
<1> HIDE DEF new
<1>5. Onward(new)
  BY <1>4, OnLatest DEF IsTerminal, l
<1> QED
  BY <1>4, <1>5 DEF new, set, l

LEMMA Committing ==
    ASSUME IInv, NEW c \in Callers, Commit(c)
    PROVE  IInv'
<1> DEFINE k == call[c]
           set == k.replay \/ ~k.skip
           new == [Terminal(Latest(k), k.final) EXCEPT !.release = @ \/ set]
<1>1. /\ k.at = "commit" /\ repo.merged > 0 /\ bundle # None /\ Tried
      /\ UNCHANGED <<mode, bundle, summary, repo, pr, lock, faults, clobbered>>
  BY Types DEF Commit, CallFits, Bundled
<1>2. CASE Ends(c) /\ UNCHANGED active
  BY <1>1, <1>2, Types, Ending, Quiet
<1>3. CASE IsTerminal(k.saw) /\ ~k.replay /\ Goes(c, "refresh") /\ UNCHANGED active
  <2>1. "refresh" \in Stages
    BY DEF Stages
  <2>2. CallFits(c)'
    BY <1>1, <1>3, <2>1, Going, Types DEF CallFits, Backed, Concluded, Bundled
  <2> QED
    BY <1>1, <1>3, <2>1, <2>2, Going, Types, Quiet
<1>4. CASE /\ Latest(k) # None /\ active' = new
           /\ Becomes(c, [k EXCEPT !.saw = new, !.held = None,
                              !.at = IF k.replay THEN "cleanup" ELSE "refresh"])
  <2>1. PICK a \in Records : a = new /\ IsTerminal(a) /\ Onward(a)
    BY <1>4, CommitTyped
  <2> HIDE DEF new
  <2> DEFINE n == [k EXCEPT !.saw = new, !.held = None,
                            !.at = IF k.replay THEN "cleanup" ELSE "refresh"]
  <2>3. /\ n \in Calls /\ n.at = (IF k.replay THEN "cleanup" ELSE "refresh")
        /\ n.saw = new /\ n.skip = k.skip /\ n.held = None /\ n.replay = k.replay
    BY <2>1, Types DEF Calls, Stages
  <2> HIDE DEF n
  <2>4. /\ call' \in [Callers -> Calls] /\ call'[c] = n
        /\ \A d \in Callers : d # c => call'[d] = call[d]
    BY <1>4, <2>3, Becoming DEF n
  <2>5. a = active' /\ a = n.saw
    BY <1>4, <2>1, <2>3
  <2>6. Backed(a) /\ a.release /\ Concluded(a)
    BY <1>1, <2>1 DEF Backed, Concluded, IsTerminal
  <2>7. k.replay => Kept
    BY <1>1, Types DEF CallFits
  <2>8. k.replay => Kept'
    BY <1>1, <2>7 DEF Kept
  <2>9. CallFits(c)'
    BY <1>1, <2>1, <2>3, <2>4, <2>5, <2>6, <2>8, Types
       DEF CallFits, Backed, Concluded, Bundled
  <2> QED
    BY <1>1, <2>1, <2>4, <2>5, <2>6, <2>9, Types, ActiveStep
<1> QED
  BY <1>2, <1>3, <1>4 DEF Commit

LEMMA Refreshing ==
    ASSUME IInv, NEW c \in Callers, Refresh(c)
    PROVE  IInv'
<1>1. /\ call[c].at = "refresh" /\ bundle' = call[c].saw /\ summary' = "written"
      /\ Goes(c, "cleanup") /\ IsTerminal(call[c].saw) /\ Backed(call[c].saw)
      /\ UNCHANGED <<mode, active, repo, pr, lock, faults, clobbered>>
  BY Types DEF Refresh, Refreshed, CallFits
<1>2. call[c].saw # None
  BY Types, RecordAssumption
<1>3. Kept'
  BY <1>1, <1>2 DEF Kept
<1>4. "cleanup" \in Stages
  BY DEF Stages
<1>5. CallFits(c)'
  BY <1>1, <1>2, <1>3, <1>4, Going, Types DEF CallFits, Backed, Concluded, Bundled
<1>6. summary' \in Summaries
  BY <1>1 DEF Summaries
<1> QED
  BY <1>1, <1>3, <1>4, <1>5, <1>6, Going, Types, BundleStep

LEMMA RefreshFailing ==
    ASSUME IInv, NEW c \in Callers, RefreshFails(c)
    PROVE  IInv'
<1>1. /\ call[c].at \in {"refresh", "recover"} /\ Ends(c)
      /\ faults' \in 0 .. MaxFaults /\ bundle # None /\ Tried
      /\ UNCHANGED <<mode, active, summary, repo, pr, lock, clobbered>>
  BY Types DEF RefreshFails, CallFits, Bundled
<1>2. PICK b \in Records : bundle' = b /\ IsTerminal(b) /\ Backed(b)
  <2>1. CASE call[c].at = "refresh"
    BY <2>1, Types DEF RefreshFails, Refreshed, CallFits
  <2>2. CASE call[c].at = "recover"
    BY <1>1, <2>2, RecoveredTyped, Types DEF RefreshFails, CallFits, Backed
  <2> QED
    BY <1>1, <2>1, <2>2
<1>3. Kept'
  BY <1>1, <1>2, RecordAssumption DEF Kept
<1> QED
  BY <1>1, <1>2, <1>3, Ending, Types, BundleStep

LEMMA CleaningUp ==
    ASSUME IInv, NEW c \in Callers, Cleanup(c)
    PROVE  IInv'
<1> DEFINE k == call[c]
           w == repo.worktree /\ ~(k.wt /\ Clean /\ Removable(k))
<1>1. /\ k.at = "cleanup" /\ Kept /\ repo' = [repo EXCEPT !.worktree = w]
      /\ Goes(c, "remove")
      /\ UNCHANGED <<mode, active, bundle, summary, pr, lock, faults, clobbered>>
  BY Types DEF Cleanup, CallFits
<1>2. w \in BOOLEAN /\ (~w => ~repo.worktree \/ Removable(k))
  OBVIOUS
<1> HIDE DEF w
<1>3. /\ repo' \in Repos /\ repo'.tip = repo.tip /\ repo'.work = repo.work
      /\ repo'.merged = repo.merged /\ repo'.worktree = w
      /\ repo'.branch = repo.branch /\ repo'.filed = repo.filed
      /\ repo.merged \in Nat /\ repo.work \in Nat /\ repo.tip \in Nat
      /\ pr.head \in Nat
  BY <1>1, <1>2, Types DEF Repos, Commits, PullRequests
<1>4. ~repo.worktree => ~w
  BY <1>1, Types DEF w
<1>5. ~w => repo.work <= repo.merged
  <2>1. Removable(k) => repo.work <= repo.merged
    BY <1>3 DEF Removable, IInv, RepoFits
  <2> QED
    BY <1>2, <2>1 DEF IInv, WorkIsKept
<1>6. RepoFits' /\ WorkIsKept'
  BY <1>1, <1>3, <1>4, <1>5 DEF IInv, RepoFits, WorkIsKept
<1>7. "remove" \in Stages /\ Kept'
  BY <1>1 DEF Stages, Kept
<1>8. CallFits(c)'
  BY <1>1, <1>3, <1>7, Going, Types DEF CallFits, Backed, Concluded, Bundled
<1> QED
  BY <1>1, <1>3, <1>4, <1>6, <1>7, <1>8, Going, Types, RepoStep

LEMMA Removing ==
    ASSUME IInv, NEW c \in Callers, Remove(c)
    PROVE  IInv'
<1> DEFINE k == call[c]
           next == IF mode = "direct" /\ ~k.final.pr /\ k.wt /\ ~repo.worktree
                   THEN [k EXCEPT !.at = "branch"] ELSE Idle
<1>1. /\ k.at = "remove" /\ Kept /\ active' = None /\ IsTerminal(k.saw)
      /\ UNCHANGED <<mode, bundle, summary, repo, pr, lock, faults, clobbered>>
  BY Types DEF Remove, CallFits
<1>2. repo.merged \in Nat
  BY Types DEF Repos
<1>3. Forward
  BY <1>1, <1>2 DEF Forward, Kept
<1>4. RepoFits' /\ WorkIsKept' /\ RecordSurvives'
  BY <1>1 DEF IInv, RepoFits, WorkIsKept, RecordSurvives, Kept
<1>5. TerminalIsReleased'
  BY <1>1 DEF IInv, TerminalIsReleased
<1>6. repo'.merged > 0 /\ (active # None => Concluded(active))
  BY <1>1, Types DEF CallFits, Backed, IsTerminal, Concluded
<1>7. /\ next \in Calls
      /\ next = Idle \/ (/\ next.at = "branch" /\ next.saw = k.saw
                         /\ next.skip = k.skip /\ next.replay = k.replay
                         /\ next.held = k.held /\ ~repo.worktree)
  BY IdleTyped, Types DEF Calls, Stages
<1> HIDE DEF next
<1>8. ASSUME call'[c] = next PROVE CallFits(c)'
  <2>1. CASE next = Idle
    BY <1>8, <2>1, IdleFits
  <2>2. CASE next # Idle
    BY <1>1, <1>6, <1>7, <1>8, <2>2, Types DEF CallFits, Backed, Concluded, Bundled
  <2> QED
    BY <2>1, <2>2
<1>9. CASE Becomes(c, next)
  <2>1. /\ call' \in [Callers -> Calls] /\ call'[c] = next
        /\ \A d \in Callers : d # c => call'[d] = call[d]
    BY <1>7, <1>9, Becoming
  <2>2. TypeOK'
    BY <1>1, <2>1 DEF IInv, TypeOK
  <2> QED
    BY <1>3, <1>4, <1>5, <1>8, <2>1, <2>2, OtherCalls
<1>10. ASSUME NEW d \in Callers \ {c}, active # None,
              call' = [call EXCEPT ![c] = next, ![d].held = active]
       PROVE  IInv'
  <2> DEFINE n == [call[d] EXCEPT !.held = active]
  <2>1. active \in Records /\ call \in [Callers -> Calls] /\ call[d] \in Calls
    BY <1>10, Types
  <2>2. /\ n \in Calls /\ n.at = call[d].at /\ n.saw = call[d].saw
        /\ n.skip = call[d].skip /\ n.replay = call[d].replay /\ n.held = active
    BY <2>1 DEF Calls
  <2>3. call' = [call EXCEPT ![c] = next, ![d] = n]
    BY <1>10, <2>1
  <2> HIDE DEF n
  <2>4. /\ call' \in [Callers -> Calls] /\ call'[c] = next /\ call'[d] = n
        /\ \A e \in Callers : e # c /\ e # d => call'[e] = call[e]
    BY <1>7, <2>1, <2>2, <2>3
  <2>5. TypeOK'
    BY <1>1, <2>4 DEF IInv, TypeOK
  <2>6. CallFits(d)'
    BY <1>3, <1>6, <1>10, <2>2, <2>4, <2>5, StillFits
  <2>7. CallFits(c)'
    BY <1>8, <2>4
  <2>8. \A e \in Callers : CallFits(e)' \/ call'[e] = call[e]
    BY <2>4, <2>6, <2>7
  <2> QED
    BY <1>3, <1>4, <1>5, <2>5, <2>8, OtherCalls
<1> QED
  BY <1>9, <1>10 DEF Remove, next

LEMMA DeletingBranch ==
    ASSUME IInv, NEW c \in Callers, DeleteBranch(c)
    PROVE  IInv'
<1> DEFINE b == repo.branch /\ repo.tip > repo.merged
<1>1. /\ call[c].at = "branch" /\ ~repo.worktree /\ repo' = [repo EXCEPT !.branch = b]
      /\ Ends(c)
      /\ UNCHANGED <<mode, active, bundle, summary, pr, lock, faults, clobbered>>
  BY Types DEF DeleteBranch, CallFits
<1>2. b \in BOOLEAN
  OBVIOUS
<1> HIDE DEF b
<1>3. /\ repo' \in Repos /\ repo'.tip = repo.tip /\ repo'.work = repo.work
      /\ repo'.merged = repo.merged /\ repo'.worktree = repo.worktree
      /\ repo'.filed = repo.filed /\ repo.merged \in Nat
  BY <1>1, <1>2, Types DEF Repos
<1>4. RepoFits' /\ WorkIsKept'
  BY <1>1, <1>3 DEF IInv, RepoFits, WorkIsKept
<1> QED
  BY <1>1, <1>3, <1>4, Ending, Types, RepoStep

LEMMA Reconciling ==
    ASSUME IInv, NEW c \in Callers, Reconcile(c)
    PROVE  IInv'
<1> DEFINE k == call[c]
<1>1. /\ k.at = "reconcile" /\ bundle # None
      /\ UNCHANGED <<mode, bundle, summary, repo, pr, lock, faults, clobbered>>
  BY Types DEF Reconcile, CallFits
<1>2. CASE Ends(c) /\ UNCHANGED active
  BY <1>1, <1>2, Types, Ending, Quiet
<1>3. CASE /\ Proven(k.saw) /\ Latest(k) = None /\ UNCHANGED active
           /\ Becomes(c, [k EXCEPT !.at = "recover", !.final = EvidenceOf(k.saw)])
  <2> DEFINE n == [k EXCEPT !.at = "recover", !.final = EvidenceOf(k.saw)]
  <2>1. EvidenceOf(k.saw) \in Finals
    BY Types DEF EvidenceOf, Finals, Records
  <2>2. /\ n \in Calls /\ n.at = "recover" /\ n.saw = k.saw /\ n.skip = k.skip
        /\ n.held = k.held /\ n.replay = k.replay
    BY <2>1, Types DEF Calls, Stages
  <2> HIDE DEF n
  <2>3. /\ call' \in [Callers -> Calls] /\ call'[c] = n
        /\ \A d \in Callers : d # c => call'[d] = call[d]
    BY <1>3, <2>2, Becoming DEF n
  <2>4. repo.merged > 0 /\ Tried
    BY <1>3, ProvenMerged DEF IInv, RecordSurvives, Latest
  <2>5. CallFits(c)'
    BY <1>1, <1>3, <2>2, <2>3, <2>4, Types DEF CallFits, Backed, Concluded, Bundled
  <2> QED
    BY <1>1, <1>3, <2>3, <2>5, Types, Quiet
<1>4. CASE /\ k.held # None \/ Proven(k.saw)
           /\ Latest(k) # None /\ Ends(c)
           /\ active' = [Latest(k) EXCEPT !.release = TRUE]
  <2>1. repo.merged > 0
    BY <1>4, ProvenMerged, Types DEF CallFits
  <2>2. PICK a \in Records : a = active' /\ Onward(a) /\ Backed(a)
    BY <1>4, <2>1, GateTyped
  <2> QED
    BY <1>1, <1>4, <2>2, Types, Ending, ActiveStep
<1> QED
  BY <1>2, <1>3, <1>4 DEF Reconcile, Latest

LEMMA Failing ==
    ASSUME IInv, NEW c \in Callers, Fail(c)
    PROVE  IInv'
<1>1. /\ Ends(c) /\ faults' \in 0 .. MaxFaults /\ lock' \in Callers \union {Free}
      /\ UNCHANGED <<mode, active, bundle, summary, repo, pr, clobbered>>
  BY Types DEF Fail
<1> QED
  BY <1>1, Ending, Quiet

\* The people at the repository, and GitHub.
LEMMA Environment ==
    ASSUME IInv, Work \/ OpenPr \/ PrMerges \/ PrCloses
    PROVE  IInv'
<1>1. /\ UNCHANGED <<mode, active, bundle, summary, lock, call, clobbered>>
      /\ faults' \in 0 .. MaxFaults
  BY ArchiveAssumption DEF Work, OpenPr, PrMerges, PrCloses, IInv, TypeOK
<1>2. /\ repo \in Repos /\ pr \in PullRequests /\ call \in [Callers -> Calls]
      /\ lock \in Callers \union {Free}
  BY DEF IInv, TypeOK
<1>3. /\ repo.tip \in Nat \ {0} /\ repo.merged \in Nat /\ repo.work \in Nat
      /\ pr.head \in Nat
  BY <1>2 DEF Repos, PullRequests, Commits
<1>4. /\ repo' \in Repos /\ pr' \in PullRequests /\ RepoFits' /\ WorkIsKept'
      /\ repo'.merged >= repo.merged
      /\ ~repo.worktree => ~repo'.worktree
      /\ pr.state # "none" => pr'.state # "none"
  <2>1. CASE Work
    <3>0. PICK t \in Commits : t = repo.tip + 1
      BY <1>3 DEF Commits
    <3>1. /\ repo.worktree /\ UNCHANGED pr
          /\ repo' = [repo EXCEPT !.tip = t, !.work = t]
      BY <2>1, <3>0 DEF Work
    <3>2. /\ repo' \in Repos /\ repo'.tip = repo.tip + 1 /\ repo'.work = repo.tip + 1
          /\ repo'.merged = repo.merged /\ repo'.worktree = repo.worktree
          /\ repo'.branch = repo.branch /\ repo'.filed = repo.filed
      BY <1>2, <3>0, <3>1 DEF Repos
    <3> QED
      BY <1>1, <1>2, <1>3, <3>1, <3>2 DEF IInv, RepoFits, WorkIsKept
  <2>2. CASE OpenPr
    <3>1. UNCHANGED repo /\ pr' = [state |-> "open", head |-> repo.tip]
      BY <2>2 DEF OpenPr
    <3>2. pr' \in PullRequests /\ pr'.state = "open" /\ pr'.head = repo.tip
      BY <1>3, <3>1 DEF PullRequests
    <3> QED
      BY <1>1, <1>2, <1>3, <3>1, <3>2 DEF IInv, RepoFits, WorkIsKept
  <2>3. CASE PrMerges
    <3> DEFINE m == IF pr.head > repo.merged THEN pr.head ELSE repo.merged
    <3>1. /\ pr.state \in {"open", "armed"} /\ pr' = [pr EXCEPT !.state = "merged"]
          /\ repo' = [repo EXCEPT !.merged = m]
      BY <2>3 DEF PrMerges
    <3>2. m \in Nat /\ m >= pr.head /\ m >= repo.merged /\ m <= repo.tip
      BY <1>3 DEF IInv, RepoFits
    <3> HIDE DEF m
    <3>3. pr' \in PullRequests /\ pr'.state = "merged" /\ pr'.head = pr.head
      BY <1>2, <3>1 DEF PullRequests
    <3>4. /\ repo' \in Repos /\ repo'.tip = repo.tip /\ repo'.work = repo.work
          /\ repo'.merged = m /\ repo'.worktree = repo.worktree
          /\ repo'.branch = repo.branch /\ repo'.filed = repo.filed
      BY <1>2, <3>1, <3>2 DEF Repos
    <3> QED
      BY <1>1, <1>3, <3>1, <3>2, <3>3, <3>4 DEF IInv, RepoFits, WorkIsKept
  <2>4. CASE PrCloses
    <3>1. /\ pr.state \in {"open", "armed"} /\ pr' = [pr EXCEPT !.state = "closed"]
          /\ UNCHANGED repo
      BY <2>4 DEF PrCloses
    <3>2. pr' \in PullRequests /\ pr'.state = "closed" /\ pr'.head = pr.head
      BY <1>2, <3>1 DEF PullRequests
    <3> QED
      BY <1>1, <1>2, <1>3, <3>1, <3>2 DEF IInv, RepoFits, WorkIsKept
  <2> QED
    BY <2>1, <2>2, <2>3, <2>4
<1> QED
  BY <1>1, <1>2, <1>4, RepoStep

LEMMA Stepping == IInv /\ [Next]_vars => IInv'
<1> SUFFICES ASSUME IInv, [Next]_vars PROVE IInv'
  OBVIOUS
<1>1. ASSUME NEW c \in Callers, Attempt(c) PROVE IInv'
  BY <1>1, Loading DEF Attempt
<1>2. ASSUME NEW c \in Callers, Finalizing(c) PROVE IInv'
  BY <1>2, Finalization, FindingMerged, Pushing, HandingOff, Arming, Recording DEF Finalizing
<1>3. ASSUME NEW c \in Callers, Completing(c) PROVE IInv'
  BY <1>3, Releasing, Recovering, Committing, Refreshing, CleaningUp, Removing,
     DeletingBranch, Reconciling DEF Completing
<1>4. ASSUME NEW c \in Callers, Step(c) PROVE IInv'
  BY <1>2, <1>3, <1>4, Routing, Archiving, WritingBundle, WritingSummary, WritingInRepo
     DEF Step
<1>5. ASSUME NEW c \in Callers, Faulty(c) PROVE IInv'
  BY <1>5, WritingSummary, PushingUnseen, Throwing, RefreshFailing, Failing
     DEF Faulty
<1>6. CASE UNCHANGED vars
  <2>1. /\ lock \in Callers \union {Free} /\ faults \in 0 .. MaxFaults
        /\ call \in [Callers -> Calls]
    BY DEF IInv, TypeOK
  <2> QED
    BY <1>6, <2>1, Quiet DEF vars
<1> QED
  BY <1>1, <1>4, <1>5, <1>6, Environment DEF Next

-----------------------------------------------------------------------------
\* What calls have established at their stages holds in every reachable state.
THEOREM Soundness == Spec => []IInv
  BY Start, Stepping, PTL DEF Spec

\* The records, the calls and the repository keep their types.
THEOREM TypeCorrect == Spec => []TypeOK
<1>1. IInv => TypeOK
  BY DEF IInv
<1> QED
  BY <1>1, Soundness, PTL

(***************************************************************************)
(* finalizeRelease, completeShippedChange and the recovery paths: nothing  *)
(* is terminal or released before some of the change has been merged.      *)
(***************************************************************************)
THEOREM ReleaseBeforeTerminal == Spec => []TerminalIsReleased
<1>1. IInv => TerminalIsReleased
  BY DEF IInv
<1> QED
  BY <1>1, Soundness, PTL

(***************************************************************************)
(* removeChangeDir: the record is removed only when the bundle holds it    *)
(* for good, a creation that overwrote a terminal bundle excepted.         *)
(***************************************************************************)
THEOREM BundleBeforeRemoval == Spec => []RecordSurvives
<1>1. IInv => RecordSurvives
  BY DEF IInv
<1> QED
  BY <1>1, Soundness, PTL

(***************************************************************************)
(* cleanupShippedChangeWorktree and deleteChangeBranch destroy no commit   *)
(* of work that origin's default branch does not have.                     *)
(***************************************************************************)
THEOREM NoWorkDestroyed == Spec => []WorkIsKept
<1>1. IInv => WorkIsKept
  BY DEF IInv
<1> QED
  BY <1>1, Soundness, PTL

-----------------------------------------------------------------------------
(* What no call undoes *)

Advances ==
    /\ repo'.merged >= repo.merged
    /\ active' # None => Onward(active')
    /\ active = None /\ active' # None => \E c \in Callers : call[c].held # None
    /\ Settled /\ ~clobbered' => Settled'

\* The records are not written.
LEMMA RecordsKept ==
    ASSUME IInv, UNCHANGED <<active, bundle>>, repo'.merged >= repo.merged
    PROVE  Advances
  BY DEF Advances, Settled, Onward

\* No commit of the change leaves the default branch.
LEMMA MergedGrows ==
    ASSUME IInv, [Next]_vars
    PROVE  repo'.merged >= repo.merged
<1>0. repo \in Repos /\ repo.merged \in Nat /\ repo.tip \in Nat /\ pr.head \in Nat
  BY DEF IInv, TypeOK, Repos, Commits, PullRequests
<1>1. CASE repo' = [repo EXCEPT !.merged = repo.tip]
  BY <1>0, <1>1 DEF IInv, RepoFits, Repos
<1>2. CASE PrMerges
  BY <1>0, <1>2 DEF PrMerges, Repos
<1>3. CASE repo'.merged = repo.merged
  BY <1>0, <1>3
<1>4. ASSUME NEW c \in Callers, Finalizing(c)
      PROVE  repo'.merged = repo.merged \/ repo' = [repo EXCEPT !.merged = repo.tip]
  <2>1. CASE Finalize(c)
    BY <1>0, <2>1 DEF Finalize, Repos
  <2>2. CASE Handoff(c)
    BY <1>0, <2>2 DEF Handoff, Repos
  <2>3. CASE Push(c)
    BY <2>3 DEF Push
  <2> QED
    BY <1>4, <2>1, <2>2, <2>3 DEF Finalizing, FindMerged, Arm, RecordPending,
        RecordFailed
<1>5. ASSUME NEW c \in Callers, Completing(c) PROVE repo'.merged = repo.merged
  <2>1. CASE Cleanup(c)
    BY <1>0, <2>1 DEF Cleanup, Repos
  <2>2. CASE DeleteBranch(c)
    BY <1>0, <2>2 DEF DeleteBranch, Repos
  <2> QED
    BY <1>5, <2>1, <2>2
       DEF Completing, Release, Recover, Commit, Refresh, Remove, Reconcile
<1>6. ASSUME NEW c \in Callers, Step(c)
      PROVE  repo'.merged = repo.merged \/ repo' = [repo EXCEPT !.merged = repo.tip]
  <2>1. CASE WriteInRepo(c)
    BY <1>0, <2>1 DEF WriteInRepo, Repos
  <2> QED
    BY <1>4, <1>5, <1>6, <2>1 DEF Step, Route, Archive, WriteBundle, WriteSummary
<1>7. ASSUME NEW c \in Callers, Attempt(c) \/ Faulty(c)
      PROVE  repo'.merged = repo.merged \/ repo' = [repo EXCEPT !.merged = repo.tip]
  BY <1>7 DEF Attempt, Load, Faulty, SummaryFails, PushUnseen, FinalizeThrows,
              RefreshFails, Fail
<1>8. CASE Work
  BY <1>0, <1>3, <1>8 DEF Work, Repos
<1>9. CASE OpenPr \/ PrCloses \/ UNCHANGED vars
  BY <1>3, <1>9 DEF OpenPr, PrCloses, vars
<1> QED
  BY <1>1, <1>2, <1>3, <1>6, <1>7, <1>8, <1>9 DEF Next

\* The active record is written on top of the one the commit has loaded.
LEMMA ActiveAdvances ==
    ASSUME IInv, [Next]_vars, NEW c \in Callers,
           \/ RecordPending(c) \/ RecordFailed(c) \/ Release(c) \/ Commit(c)
           \/ Reconcile(c)
    PROVE  Advances
<1> DEFINE k == call[c]
<1>0. repo'.merged >= repo.merged
  BY MergedGrows
<1>1. CASE UNCHANGED <<active, bundle>>
  BY <1>0, <1>1, RecordsKept
<1>2. ASSUME NEW a \in Records, Latest(k) # None, active' = a, Onward(a)
      PROVE  Advances
  <2>1. active = None => k.held # None
    BY <1>2 DEF Latest
  <2>2. active' # None
    BY <1>2, RecordAssumption
  <2>3. Settled /\ ~clobbered' => Settled'
    BY <1>2, <2>2 DEF Settled, Onward, Concluded
  <2> QED
    BY <1>0, <1>2, <2>1, <2>3 DEF Advances
<1>3. CASE RecordPending(c) \/ RecordFailed(c)
  <2>1. CASE Latest(k) = None
    <3>1. active = None
      BY <2>1 DEF Latest
    <3> QED
      BY <1>1, <1>3, <2>1, <3>1 DEF RecordPending, RecordFailed
  <2>2. CASE Latest(k) # None
    <3>1. PICK f \in Finals, status \in {"none", "failed", "pending_merge", "done"} :
            active' = WithStatus(k, status, f)
      BY <1>3, <2>2, Types, IdleTyped DEF RecordPending, RecordFailed
    <3> QED
      BY <1>2, <2>2, <3>1, WithStatusTyped
  <2> QED
    BY <2>1, <2>2
<1>4. CASE Release(c) \/ Reconcile(c)
  <2>1. \/ UNCHANGED <<active, bundle>>
        \/ /\ Latest(k) # None /\ active' = [Latest(k) EXCEPT !.release = TRUE]
           /\ k.at = "release" \/ k.held # None \/ Proven(k.saw)
    BY <1>4 DEF Release, Reconcile
  <2>2. k.at = "release" \/ k.held # None \/ Proven(k.saw) => repo.merged > 0
    BY ProvenMerged, Types DEF CallFits
  <2> QED
    BY <1>1, <1>2, <2>1, <2>2, GateTyped
<1>5. CASE Commit(c)
  <2>1. \/ UNCHANGED <<active, bundle>>
        \/ /\ Latest(k) # None
           /\ active' = LET set == k.replay \/ ~k.skip
                        IN  [Terminal(Latest(k), k.final) EXCEPT !.release = @ \/ set]
    BY <1>5 DEF Commit
  <2> QED
    BY <1>1, <1>2, <2>1, CommitTyped
<1> QED
  BY <1>3, <1>4, <1>5

\* The bundle, once the record is removed, is replaced by a terminal one only,
\* unless a terminal one is overwritten.
LEMMA BundleAdvances ==
    ASSUME IInv, [Next]_vars, NEW c \in Callers,
           WriteBundle(c) \/ Recover(c) \/ Refresh(c) \/ RefreshFails(c)
    PROVE  Advances
<1>0. repo'.merged >= repo.merged /\ UNCHANGED active
  BY MergedGrows DEF WriteBundle, Recover, Refresh, RefreshFails
<1>1. active = None => bundle # None /\ (clobbered \/ IsTerminal(bundle))
  BY DEF IInv, RecordSurvives
<1>2. CASE WriteBundle(c)
  BY <1>0, <1>1, <1>2 DEF WriteBundle, Advances, Onward, Settled
<1>3. CASE IsTerminal(bundle')
  BY <1>0, <1>3 DEF Advances, Onward, Settled, IsTerminal
<1>4. CASE Recover(c)
  BY <1>3, <1>4, RecoveredTyped, Types DEF Recover, CallFits, Bundled
<1>5. CASE Refresh(c)
  BY <1>3, <1>5, Types DEF Refresh, Refreshed, CallFits
<1>6. CASE RefreshFails(c)
  BY <1>3, <1>6, RecoveredTyped, Types DEF RefreshFails, Refreshed, CallFits, Bundled
<1> QED
  BY <1>2, <1>4, <1>5, <1>6

\* The record is removed when the bundle is terminal.
LEMMA RemovalAdvances ==
    ASSUME IInv, [Next]_vars, NEW c \in Callers, Remove(c)
    PROVE  Advances
<1>1. Kept /\ active' = None /\ UNCHANGED <<bundle, clobbered>>
  BY Types DEF Remove, CallFits
<1>2. ~clobbered' => Settled'
  BY <1>1 DEF Kept, IsTerminal, Settled
<1> QED
  BY <1>1, <1>2, MergedGrows DEF Advances

(***************************************************************************)
(* The archive only advances: calls that overlap, whose records are out of *)
(* date or that crash undo neither the merge, nor the release gate, nor    *)
(* the archived state another call has reached.  removeChangeDir takes no  *)
(* lock: a commit it has overtaken makes the directory again, with an      *)
(* archived and released record.                                           *)
(***************************************************************************)
THEOREM NothingIsUndone == Spec => ArchiveOnlyAdvances
<1>1. ASSUME IInv, [Next]_vars PROVE Advances
  <2>0. repo'.merged >= repo.merged
    BY <1>1, MergedGrows
  <2>1. CASE UNCHANGED <<active, bundle>>
    BY <1>1, <2>0, <2>1, RecordsKept
  <2>2. ASSUME NEW c \in Callers, Finalizing(c) PROVE Advances
    <3>1. CASE RecordPending(c)
      BY <1>1, <3>1, ActiveAdvances
    <3>2. CASE RecordFailed(c)
      BY <1>1, <3>2, ActiveAdvances
    <3> QED
      BY <2>1, <2>2, <3>1, <3>2
         DEF Finalizing, Finalize, FindMerged, Push, Handoff, Arm
  <2>3. ASSUME NEW c \in Callers, Completing(c) PROVE Advances
    <3>1. CASE Release(c) \/ Commit(c) \/ Reconcile(c)
      BY <1>1, <3>1, ActiveAdvances
    <3>2. CASE Recover(c) \/ Refresh(c)
      BY <1>1, <3>2, BundleAdvances
    <3>3. CASE Remove(c)
      BY <1>1, <3>3, RemovalAdvances
    <3> QED
      BY <2>1, <2>3, <3>1, <3>2, <3>3 DEF Completing, Cleanup, DeleteBranch
  <2>4. ASSUME NEW c \in Callers, Step(c) PROVE Advances
    <3>1. CASE WriteBundle(c)
      BY <1>1, <3>1, BundleAdvances
    <3> QED
      BY <2>1, <2>2, <2>3, <2>4, <3>1 DEF Step, Route, Archive, WriteSummary, WriteInRepo
  <2>5. ASSUME NEW c \in Callers, Faulty(c) PROVE Advances
    <3>1. CASE RefreshFails(c)
      BY <1>1, <3>1, BundleAdvances
    <3> QED
      BY <2>1, <2>5, <3>1 DEF Faulty, SummaryFails, PushUnseen, FinalizeThrows, Fail
  <2>6. ASSUME NEW c \in Callers, Attempt(c) PROVE Advances
    BY <2>1, <2>6 DEF Attempt, Load
  <2>7. CASE Work \/ OpenPr \/ PrMerges \/ PrCloses \/ UNCHANGED vars
    BY <2>1, <2>7 DEF Work, OpenPr, PrMerges, PrCloses, vars
  <2> QED
    BY <1>1, <2>4, <2>5, <2>6, <2>7 DEF Next
<1>2. IInv /\ [Next]_vars =>
        [/\ repo'.merged >= repo.merged
         /\ active # None /\ active' # None => (active.release => active'.release)
         /\ active = None /\ active' # None =>
               /\ \E c \in Callers : call[c].held # None
               /\ active'.lifecycle = "archived" /\ active'.release
         /\ Settled /\ ~clobbered' => Settled']_vars
  BY <1>1 DEF Advances, Onward, Concluded
<1> QED
  BY <1>2, Soundness, PTL DEF Spec, ArchiveOnlyAdvances

=============================================================================
