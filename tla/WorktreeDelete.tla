---------------------------- MODULE WorktreeDelete ----------------------------
(***************************************************************************)
(* Deleting the worktree of one branch: a plan (deletion-planner.ts) binds *)
(* what Git and the change say of it; an apply (deletion-executor.ts)      *)
(* takes the repository's kernel lease, validates the plan, cleans up the  *)
(* OpenCode workspace, runs the preDelete hooks, validates again and runs  *)
(* git worktree remove, all under one deadline (worktree-operation.ts).    *)
(*                                                                         *)
(* The processes an apply starts run beside it (process-runner.ts): a      *)
(* deadline signals them, and a crash of the plugin leaves them behind.    *)
(* The reads of one validation are one step; what changes between them     *)
(* may as well change after it.  The OpenCode workspace and the list of    *)
(* pending deletes, which the apply updates but never decides by, are left *)
(* out; the stages that update them are not.                               *)
(***************************************************************************)
EXTENDS Integers

CONSTANTS
    Callers,
    NoPlan,
    Free,       \* nobody has the lease
    MaxHead,    \* bound: commits of the branch
    MaxEvents   \* bound: steps of others, expiries, errors, deadlines, crashes

ASSUME WorktreeAssumption ==
    /\ Free \notin Callers
    /\ MaxHead \in Nat \ {0} /\ MaxEvents \in Nat

VARIABLES
    tree,       \* the worktree: its registration in Git, its directory
    proof,      \* how the branch is integrated, if it is
    closed,     \* its change is terminal
    events,     \* how many of these there were
    lease,      \* the kernel flock of the repository
    plan,       \* the plan token each caller holds
    at,         \* the stage of each caller's apply
    job,        \* the process (or request) its apply is waiting for
    stray,      \* one that an earlier apply of the caller did not wait for
    tried,      \* this apply has started git worktree remove
    result      \* what the last apply answered ("none": a plan, or nothing)

vars == <<tree, proof, closed, events, lease, plan, at, job,
          stray, tried, result>>

Trees ==
    [git : BOOLEAN, dir : {"whole", "partial", "gone"}, dirty : BOOLEAN,
     busy : BOOLEAN,            \* locked, or some process works in it
     head : 1 .. MaxHead]

Proofs == {"none", "patch", "merged"}

Plans ==
    [facts : [dirty : BOOLEAN, busy : BOOLEAN, head : 1 .. MaxHead],
     proof : Proofs, force : BOOLEAN, fresh : BOOLEAN]

ASSUME PlanAssumption == NoPlan \notin Plans

Stages == {"idle", "lease", "census", "before", "hook", "recensus", "remove",
           "confirm", "reconcile"}

Running == {"before", "hook", "remove", "removing", "unregister"}

Jobs == [kind : Running \union {"none", "ok", "failed"}, force : BOOLEAN]

NoJob == [kind |-> "none", force |-> FALSE]

Results == {"none", "refused", "busy", "drifted", "repair", "absent",
            "deadline", "indeterminate", "deleted"}

Init ==
    /\ tree = [git |-> TRUE, dir |-> "whole", dirty |-> FALSE, busy |-> FALSE,
               head |-> 1]
    /\ proof \in Proofs /\ closed \in BOOLEAN /\ events = 0
    /\ lease = Free
    /\ plan = [c \in Callers |-> NoPlan]
    /\ at = [c \in Callers |-> "idle"]
    /\ job = [c \in Callers |-> NoJob]
    /\ stray = [c \in Callers |-> NoJob]
    /\ tried = [c \in Callers |-> FALSE]
    /\ result = [c \in Callers |-> "none"]

\* Something happens that no apply asked for.
Event == events < MaxEvents /\ events' = events + 1

-----------------------------------------------------------------------------
(* What a census shows *)

\* A status that cannot be read counts as dirty.
Facts ==
    [dirty |-> tree.dirty \/ tree.dir # "whole",
     busy |-> tree.busy, head |-> tree.head]

OnDisk == tree.dir # "gone"

\* safeToRemove, and the refusals of the planner.
Safe(facts, force) == ~facts.busy /\ (facts.dirty => force)

\* The planner reads only.  A directory that is gone makes it prunable.
Plan(c, force) ==
    /\ at[c] = "idle"
    /\ tree.git /\ OnDisk /\ Safe(Facts, force)
    /\ proof # "none" /\ closed
    /\ plan' = [plan EXCEPT ![c] = [facts |-> Facts, proof |-> proof,
                                    force |-> force, fresh |-> TRUE]]
    /\ result' = [result EXCEPT ![c] = "none"]
    /\ tried' = [tried EXCEPT ![c] = FALSE]
    /\ UNCHANGED <<tree, proof, closed, events, lease, at, job, stray>>

\* WORKTREE_DELETION_PLAN_TTL_MS have passed.
Expire(c) ==
    /\ Event
    /\ plan[c] # NoPlan /\ plan[c].fresh
    /\ plan' = [plan EXCEPT ![c].fresh = FALSE]
    /\ UNCHANGED <<tree, proof, closed, lease, at, job,
                   stray, tried, result>>

-----------------------------------------------------------------------------
(* The apply *)

Goes(c, stage) == at' = [at EXCEPT ![c] = stage]

\* Past the lease stage the lease is the apply's own: a holder that a crash
\* left behind is not.
Owns(c) == lease = c /\ at[c] \notin {"idle", "lease"}

\* The answer; the finally block settles the lease.
Answers(c, answer) ==
    /\ Goes(c, "idle")
    /\ result' = [result EXCEPT ![c] = answer]
    /\ lease' = IF Owns(c) THEN Free ELSE lease

Apply(c) ==
    /\ at[c] = "idle" /\ plan[c] # NoPlan
    /\ IF plan[c].fresh
       THEN /\ Goes(c, "lease")
            /\ result' = [result EXCEPT ![c] = "none"]
            /\ UNCHANGED lease
       ELSE Answers(c, "refused")
    /\ tried' = [tried EXCEPT ![c] = FALSE]
    /\ UNCHANGED <<tree, proof, closed, events, plan, job, stray>>

\* Mutant: a held lease is taken over.
AcquireHeld(c) ==
    /\ at[c] = "lease"
    /\ lease' = c /\ Goes(c, "census") /\ UNCHANGED result
    /\ UNCHANGED <<tree, proof, closed, events, plan, job, stray,
                   tried>>

\* acquireGitWorktreeProcessLease: flock -n.
Acquire(c) ==
    /\ at[c] = "lease"
    /\ IF lease = Free
       THEN lease' = c /\ Goes(c, "census") /\ UNCHANGED result
       ELSE Answers(c, "busy")
    /\ UNCHANGED <<tree, proof, closed, events, plan, job, stray,
                   tried>>

(***************************************************************************)
(* evaluate, before the first effect and again after the hooks.  A census  *)
(* whose git call fails shows no worktree at all.                          *)
(***************************************************************************)
Check(c, blind) ==
    LET registered == tree.git /\ ~blind
        p == plan[c]
    IN
    /\ at[c] \in {"census", "recensus"}
    /\ IF ~registered /\ ~OnDisk THEN Answers(c, "absent")
       ELSE IF ~(registered /\ OnDisk) THEN Answers(c, "repair")
       ELSE IF p.facts # Facts THEN Answers(c, "drifted")
       ELSE IF ~Safe(Facts, p.force) THEN Answers(c, "refused")
       ELSE IF proof # p.proof \/ ~closed \/ ~p.fresh THEN Answers(c, "drifted")
       ELSE /\ Goes(c, IF at[c] = "census" THEN "before" ELSE "remove")
            /\ UNCHANGED <<lease, result>>
    /\ UNCHANGED <<tree, proof, closed, events, plan, job, stray,
                   tried>>

\* An expired plan starts neither a hook nor the removal.
Start(c) ==
    /\ at[c] \in {"before", "hook", "remove"} /\ job[c] = NoJob
    /\ IF at[c] # "before" /\ ~plan[c].fresh
       THEN Answers(c, "drifted") /\ UNCHANGED <<job, tried>>
       ELSE /\ job' = [job EXCEPT ![c] = [kind |-> at[c],
                                          force |-> plan[c].force]]
            /\ tried' = [tried EXCEPT ![c] = at[c] = "remove"]
            /\ UNCHANGED <<at, result, lease>>
    /\ UNCHANGED <<tree, proof, closed, events, plan, stray>>

\* Mutant: a removal that failed half way is answered like a refusal.
FailedRefused(stage) == IF stage = "before" THEN "repair" ELSE "refused"

\* The answer to a process that failed.
Failed(stage) ==
    CASE stage = "before" -> "repair"
      [] stage = "hook" -> "refused"
      [] stage = "remove" -> "indeterminate"

\* The process has ended.  A repository may have no hooks.
Await(c) ==
    /\ job[c].kind \in {"ok", "failed"}
    /\ job' = [job EXCEPT ![c] = NoJob]
    /\ IF job[c].kind = "failed" THEN Answers(c, Failed(at[c]))
       ELSE /\ \E next \in {"hook", "recensus", "confirm"} :
                  /\ CASE at[c] = "before" -> next # "confirm"
                       [] at[c] = "hook" -> next = "recensus"
                       [] at[c] = "remove" -> next = "confirm"
                  /\ Goes(c, next)
            /\ UNCHANGED <<lease, result>>
    /\ UNCHANGED <<tree, proof, closed, events, plan, stray, tried>>

\* The census after the removal.
Confirm(c, blind) ==
    /\ at[c] = "confirm"
    /\ IF (tree.git /\ ~blind) \/ OnDisk THEN Answers(c, "indeterminate")
       ELSE Goes(c, "reconcile") /\ UNCHANGED <<lease, result>>
    /\ UNCHANGED <<tree, proof, closed, events, plan, job, stray,
                   tried>>

\* Empty parents, the pending delete: a failure is a warning.
Reconcile(c) ==
    /\ at[c] = "reconcile"
    /\ Answers(c, "deleted")
    /\ UNCHANGED <<tree, proof, closed, events, plan, job, stray, tried>>

\* A read or a stage throws; the lease that cannot be taken at all is a repair.
Throws(c) ==
    /\ Event /\ at[c] \notin {"idle", "reconcile"} /\ job[c] = NoJob
    /\ Answers(c, IF at[c] = "lease" THEN "repair" ELSE "indeterminate")
    /\ UNCHANGED <<tree, proof, closed, plan, job, stray, tried>>

-----------------------------------------------------------------------------
(* Deadline and crash *)

Waiting(c) == job[c].kind \in Running

\* What runs goes on without its apply; one stray per caller is kept.
Abandons(c) ==
    /\ Waiting(c) => stray[c] = NoJob
    /\ stray' = [stray EXCEPT ![c] = IF Waiting(c) THEN job[c] ELSE @]
    /\ job' = [job EXCEPT ![c] = NoJob]

(***************************************************************************)
(* operation.abort: the abort signal makes runAbortableProcess terminate   *)
(* its process; the barrier then calls the same terminate again, which     *)
(* returns at once (terminateStarted) and waits for nothing.  The flock    *)
(* holder is waited for.                                                   *)
(***************************************************************************)
Deadline(c) ==
    /\ Event /\ at[c] # "idle"
    /\ Abandons(c)
    /\ Answers(c, CASE at[c] = "confirm" -> "indeterminate"
                    [] at[c] = "reconcile" -> "deleted"
                    [] OTHER -> "deadline")
    /\ UNCHANGED <<tree, proof, closed, plan, tried>>

\* The plugin dies: nobody is answered, the holder has still to notice.
Crash(c) ==
    /\ Event /\ at[c] # "idle"
    /\ Abandons(c)
    /\ Goes(c, "idle")
    /\ UNCHANGED <<tree, proof, closed, lease, plan,
                   tried, result>>

\* The pipe of the holder's output is broken: it exits.
HolderExits(c) ==
    /\ lease = c /\ ~Owns(c)
    /\ lease' = Free
    /\ UNCHANGED <<tree, proof, closed, events, plan, at, job,
                   stray, tried, result>>

-----------------------------------------------------------------------------
(* The processes.  jobs is job or stray: their steps are the same.         *)

(***************************************************************************)
(* git worktree remove checks the worktree, deletes the directory and then *)
(* its own registration of it.  A hook may leave files.                    *)
(***************************************************************************)
Works(before, after) ==
    \/ /\ before.kind = "before"
       /\ after.kind = "ok"
       /\ UNCHANGED tree
    \/ /\ before.kind = "hook"
       /\ after.kind = "ok"
       /\ \E dirty \in {tree.dirty, TRUE} : tree' = [tree EXCEPT !.dirty = dirty]
    \/ /\ before.kind = "remove"
       /\ tree.git /\ OnDisk /\ ~tree.busy
       /\ Facts.dirty => before.force
       /\ after.kind = "removing"
       /\ tree' = [tree EXCEPT !.dir = "partial"]
    \/ /\ before.kind = "removing"
       /\ after.kind = "unregister"
       /\ tree' = [tree EXCEPT !.dir = "gone"]
    \/ /\ before.kind = "unregister"
       /\ after.kind = "ok"
       /\ tree' = [tree EXCEPT !.git = FALSE]

Moves(before, kind) == [before EXCEPT !.kind = kind]

\* A process of an apply takes a step, or fails where it stands.
JobStep(c) ==
    /\ Waiting(c)
    /\ \E kind \in {"ok", "removing", "unregister", "failed"} :
          LET next == Moves(job[c], kind) IN
          /\ job' = [job EXCEPT ![c] = next]
          /\ \/ Works(job[c], next)
             \/ kind = "failed" /\ UNCHANGED tree
    /\ UNCHANGED <<proof, closed, events, lease, plan, at, stray, tried,
                   result>>

\* A signalled or orphaned one takes a step or dies.
StrayStep(c) ==
    /\ stray[c] # NoJob
    /\ \/ \E kind \in {"ok", "removing", "unregister"} :
             /\ Works(stray[c], Moves(stray[c], kind))
             /\ stray' = [stray EXCEPT ![c] = IF kind = "ok" THEN NoJob
                                              ELSE Moves(stray[c], kind)]
       \/ /\ stray' = [stray EXCEPT ![c] = NoJob]
          /\ UNCHANGED tree
    /\ UNCHANGED <<proof, closed, events, lease, plan, at, job, tried, result>>

-----------------------------------------------------------------------------
(* The people and sessions that share the worktree *)

Edit ==
    /\ OnDisk /\ \E dirty \in BOOLEAN : tree' = [tree EXCEPT !.dirty = dirty]
    /\ UNCHANGED <<proof, closed>>

Commit ==
    /\ tree.dir = "whole" /\ tree.head < MaxHead
    /\ tree' = [tree EXCEPT !.head = @ + 1, !.dirty = FALSE]
    /\ proof' = "none"
    /\ UNCHANGED closed

Enter ==
    /\ OnDisk /\ \E busy \in BOOLEAN : tree' = [tree EXCEPT !.busy = busy]
    /\ UNCHANGED <<proof, closed>>

Integrate ==
    /\ proof # "merged" /\ proof' \in {"patch", "merged"}
    /\ UNCHANGED <<tree, closed>>

Close ==
    /\ closed' = TRUE
    /\ UNCHANGED <<tree, proof>>

Act(c) ==
    \/ \E force \in BOOLEAN : Plan(c, force)
    \/ Expire(c) \/ Apply(c) \/ Acquire(c)
    \/ \E blind \in BOOLEAN : Check(c, blind) \/ Confirm(c, blind)
    \/ Start(c) \/ Await(c) \/ Reconcile(c) \/ Throws(c)

Happens(c) ==
    \/ Deadline(c) \/ Crash(c) \/ HolderExits(c) \/ JobStep(c) \/ StrayStep(c)

Others ==
    /\ Event
    /\ Edit \/ Commit \/ Enter \/ Integrate \/ Close
    /\ UNCHANGED <<lease, plan, at, job, stray, tried, result>>

Next == (\E c \in Callers : Act(c) \/ Happens(c)) \/ Others

Spec == Init /\ [][Next]_vars

-----------------------------------------------------------------------------
(* Properties *)

\* Every variable holds a value of its kind; what an apply left running is
\* never a process that has ended.
TypeOK ==
    /\ tree \in Trees /\ proof \in Proofs
    /\ closed \in BOOLEAN /\ events \in 0 .. MaxEvents
    /\ lease \in Callers \union {Free}
    /\ plan \in [Callers -> Plans \union {NoPlan}]
    /\ at \in [Callers -> Stages]
    /\ job \in [Callers -> Jobs]
    /\ stray \in [Callers -> {s \in Jobs : s.kind \in Running \union {"none"}}]
    /\ tried \in [Callers -> BOOLEAN]
    /\ result \in [Callers -> Results]

\* Two applies never have a process of theirs (workspace cleanup, hook, git
\* worktree remove) running at the same time, whatever deadlines and crashes
\* came before: what may run beside one is only what an apply left behind.
RemovalsAreSerial ==
    \A c, d \in Callers : Waiting(c) /\ Waiting(d) => c = d

\* An answer can be relied on, with other applies, strays and failing git
\* calls around: "deleted" means that directory and registration are gone,
\* "absent" that the directory is, and a refusal, a drift, a busy lease or a
\* repair that this apply has not run git worktree remove.
ResultsAreTrue ==
    \A c \in Callers :
        /\ result[c] = "deleted" => tree.dir = "gone" /\ ~tree.git
        /\ result[c] = "absent" => tree.dir = "gone"
        /\ result[c] \in {"refused", "busy", "drifted", "repair", "absent"}
              => ~tried[c]

\* "Timeout responses MUST be terminal: no child process, Git removal, hook,
\* or registry mutation may continue after response."
DeadlineIsTerminal ==
    \A c \in Callers :
        result[c] = "deadline" => stray[c].kind \in {"none", "before"}

(***************************************************************************)
(* The kernel lease is a lock without exception: an apply is past the      *)
(* lease stage only alone, an answer frees its own lease and no other, and *)
(* the lease of a crashed plugin goes when its holder notices.             *)
(***************************************************************************)
LeaseState ==
    IF lease = Free THEN "free"
    ELSE IF \E c \in Callers : Owns(c) THEN "held" ELSE "orphan"

Lease == INSTANCE CrashLock WITH
    Users <- Callers, state <- LeaseState,
    inside <- {c \in Callers : at[c] \notin {"idle", "lease"}}, broken <- FALSE

ImplementsCrashLock == Lease!LockSpec

=============================================================================
