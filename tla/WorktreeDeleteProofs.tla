----------------------- MODULE WorktreeDeleteProofs -----------------------
(***************************************************************************)
(* The safety of worktree deletion for every number of callers and every   *)
(* bound.  Three facts carry the argument: an apply past the lease stage   *)
(* has the kernel lease; what it waits for belongs to its stage; and the   *)
(* worktree only ever shrinks, so that what one census has shown to be     *)
(* gone stays gone whatever strays and other applies do afterwards.        *)
(***************************************************************************)
EXTENDS WorktreeDelete, TLAPS

\* What the apply of c waits for belongs to its stage.
JobFits(c) ==
    /\ job[c].kind # "none" => at[c] \in {"before", "hook", "remove"}
    /\ job[c].kind \in {"before", "hook"} => at[c] = job[c].kind
    /\ job[c].kind \in {"remove", "removing", "unregister"} => at[c] = "remove"
    /\ job[c].kind = "ok" /\ at[c] = "remove" => ~tree.git

\* What an apply has and has done at its stage.
StageFits(c) ==
    /\ at[c] \notin {"idle", "lease"} => lease = c
    /\ at[c] # "idle" => plan[c] # NoPlan /\ result[c] = "none"
    /\ tried[c] /\ at[c] # "idle" =>
          \/ at[c] \in {"confirm", "reconcile"}
          \/ at[c] = "remove" /\ job[c].kind # "none"
    /\ at[c] \in {"confirm", "reconcile"} => ~tree.git
    /\ at[c] = "reconcile" => tree.dir = "gone"

\* What the last answer says is so.
AnswerFits(c) ==
    /\ result[c] = "deleted" => tree.dir = "gone" /\ ~tree.git
    /\ result[c] = "absent" => tree.dir = "gone"
    /\ result[c] \in {"refused", "busy", "drifted", "repair", "absent"} => ~tried[c]

CallerOK(c) == JobFits(c) /\ StageFits(c) /\ AnswerFits(c)

IInv == TypeOK /\ \A c \in Callers : CallerOK(c)

\* What is gone stays gone.
Shrinks ==
    /\ tree'.git => tree.git
    /\ tree.dir = "gone" => tree'.dir = "gone"

-----------------------------------------------------------------------------
LEMMA Initially == Init => IInv
<1> SUFFICES ASSUME Init PROVE IInv
  OBVIOUS
<1>1. TypeOK
  <2>1. tree \in Trees
    BY WorktreeAssumption DEF Init, Trees
  <2>2. NoJob \in Jobs /\ NoJob.kind = "none"
    BY DEF NoJob, Jobs
  <2> QED
    BY <2>1, <2>2, WorktreeAssumption DEF Init, TypeOK, Stages, Results
<1>2. \A c \in Callers : CallerOK(c)
  BY DEF Init, CallerOK, JobFits, StageFits, AnswerFits, NoJob
<1> QED
  BY <1>1, <1>2 DEF IInv

\* A step of c's leaves the other callers as they are.
LEMMA OneCaller ==
    ASSUME IInv, NEW c \in Callers, TypeOK', CallerOK(c)', Shrinks,
           lease' = lease \/ lease \in {c, Free},
           \A d \in Callers : d # c =>
              /\ plan'[d] # NoPlan <=> plan[d] # NoPlan
              /\ at'[d] = at[d] /\ job'[d] = job[d]
              /\ tried'[d] = tried[d] /\ result'[d] = result[d]
    PROVE  IInv'
<1> SUFFICES ASSUME NEW d \in Callers, d # c PROVE CallerOK(d)'
  BY DEF IInv
<1>1. CallerOK(d)
  BY DEF IInv
<1>2. at'[d] \notin {"idle", "lease"} => lease' = d
  BY <1>1, WorktreeAssumption DEF CallerOK, StageFits
<1>3. JobFits(d)'
  BY <1>1 DEF CallerOK, JobFits, Shrinks
<1>4. StageFits(d)'
  BY <1>1, <1>2 DEF CallerOK, StageFits, Shrinks
<1>5. AnswerFits(d)'
  BY <1>1 DEF CallerOK, AnswerFits, Shrinks
<1> QED
  BY <1>3, <1>4, <1>5 DEF CallerOK

\* A step of others, or one of a process: no caller moves.
LEMMA TreeOnly ==
    ASSUME IInv, TypeOK', Shrinks,
           UNCHANGED <<lease, plan, at, job, tried, result>>
    PROVE  IInv'
<1> SUFFICES ASSUME NEW d \in Callers PROVE CallerOK(d)'
  BY DEF IInv
<1>1. CallerOK(d)
  BY DEF IInv
<1> QED
  BY <1>1 DEF CallerOK, JobFits, StageFits, AnswerFits, Shrinks

\* The answers of an apply, whatever it answers.
LEMMA Answering ==
    ASSUME IInv, NEW c \in Callers, NEW a \in Results, Answers(c, a),
           UNCHANGED <<tree, plan, proof, closed>>, events' \in 0 .. MaxEvents,
           job' \in [Callers -> Jobs],
           stray' \in [Callers -> {s \in Jobs : s.kind \in Running \union {"none"}}],
           tried' \in [Callers -> BOOLEAN],
           job'[c].kind = "none",
           \A d \in Callers : d # c => job'[d] = job[d] /\ tried'[d] = tried[d],
           a = "deleted" => tree.dir = "gone" /\ ~tree.git,
           a = "absent" => tree.dir = "gone",
           a \in {"refused", "busy", "drifted", "repair", "absent"} => ~tried'[c]
    PROVE  IInv'
<1>1. /\ at' = [at EXCEPT ![c] = "idle"]
      /\ result' = [result EXCEPT ![c] = a]
      /\ lease' = lease \/ (lease = c /\ lease' = Free)
  BY DEF Answers, Goes, Owns
<1>2. /\ at \in [Callers -> Stages] /\ result \in [Callers -> Results]
      /\ lease \in Callers \union {Free}
  BY DEF IInv, TypeOK
<1>3. at' \in [Callers -> Stages] /\ result' \in [Callers -> Results]
      /\ lease' \in Callers \union {Free} /\ at'[c] = "idle" /\ result'[c] = a
      /\ \A d \in Callers : d # c => at'[d] = at[d] /\ result'[d] = result[d]
  BY <1>1, <1>2 DEF Stages
<1>4. TypeOK'
  BY <1>3 DEF IInv, TypeOK
<1>5. CallerOK(c)'
  BY <1>3 DEF CallerOK, JobFits, StageFits, AnswerFits
<1>6. Shrinks
  BY DEF Shrinks
<1> QED
  BY <1>1, <1>3, <1>4, <1>5, <1>6, OneCaller

\* The steps of an apply that moves on to another stage.
LEMMA Going ==
    ASSUME IInv, NEW c \in Callers, NEW stage \in Stages, Goes(c, stage),
           UNCHANGED <<tree, proof, closed, events, plan, stray>>,
           lease' \in Callers \union {Free}, lease' = lease \/ lease \in {c, Free},
           job' \in [Callers -> Jobs], tried' \in [Callers -> BOOLEAN],
           result' \in [Callers -> Results],
           \A d \in Callers : d # c => /\ job'[d] = job[d] /\ tried'[d] = tried[d]
                                       /\ result'[d] = result[d],
           job'[c].kind = "none", stage \notin {"idle", "reconcile"},
           ~tried'[c] \/ stage = "confirm", stage = "confirm" => ~tree.git,
           stage = "lease" \/ lease' = c, plan[c] # NoPlan, result'[c] = "none"
    PROVE  IInv'
<1>1. at \in [Callers -> Stages] /\ at' = [at EXCEPT ![c] = stage]
  BY DEF IInv, TypeOK, Goes
<1>2. at' \in [Callers -> Stages] /\ at'[c] = stage
      /\ \A d \in Callers : d # c => at'[d] = at[d]
  BY <1>1
<1>3. TypeOK'
  BY <1>2 DEF IInv, TypeOK
<1>4. CallerOK(c)'
  BY <1>2 DEF CallerOK, JobFits, StageFits, AnswerFits
<1>5. Shrinks
  BY DEF Shrinks
<1> QED
  BY <1>2, <1>3, <1>4, <1>5, OneCaller

-----------------------------------------------------------------------------
(* The steps *)

\* The types of what the steps of a caller change.
LEMMA Types ==
    ASSUME IInv, NEW c \in Callers
    PROVE  /\ CallerOK(c) /\ at[c] \in Stages /\ at \in [Callers -> Stages]
           /\ job \in [Callers -> Jobs] /\ tried \in [Callers -> BOOLEAN]
           /\ result \in [Callers -> Results] /\ events \in 0 .. MaxEvents
           /\ stray \in [Callers -> {s \in Jobs : s.kind \in Running \union {"none"}}]
           /\ plan \in [Callers -> Plans \union {NoPlan}]
           /\ lease \in Callers \union {Free}
           /\ NoJob \in Jobs /\ NoJob.kind = "none"
  BY DEF IInv, TypeOK, NoJob, Jobs

LEMMA Planning ==
    ASSUME IInv, NEW c \in Callers, NEW force \in BOOLEAN, Plan(c, force)
    PROVE  IInv'
<1>1. Facts \in [dirty : BOOLEAN, busy : BOOLEAN, head : 1 .. MaxHead]
  BY DEF IInv, TypeOK, Trees, Facts
<1>2. [facts |-> Facts, proof |-> proof, force |-> force, fresh |-> TRUE] \in Plans
  BY <1>1 DEF IInv, TypeOK, Plans
<1>3. /\ plan' \in [Callers -> Plans \union {NoPlan}]
      /\ tried' = [tried EXCEPT ![c] = FALSE] /\ result' = [result EXCEPT ![c] = "none"]
      /\ UNCHANGED <<tree, proof, closed, events, lease, at, job, stray>>
      /\ at[c] = "idle" /\ \A d \in Callers : d # c => plan'[d] = plan[d]
  BY <1>2, Types DEF Plan
<1>4. TypeOK'
  BY <1>3, Types DEF IInv, TypeOK, Results
<1>5. CallerOK(c)'
  BY <1>3, Types DEF CallerOK, JobFits, StageFits, AnswerFits
<1>6. Shrinks
  BY <1>3 DEF Shrinks
<1> QED
  BY <1>3, <1>4, <1>5, <1>6, Types, OneCaller

LEMMA Expiring ==
    ASSUME IInv, NEW c \in Callers, Expire(c)
    PROVE  IInv'
<1>1. /\ plan[c] \in Plans /\ plan' = [plan EXCEPT ![c].fresh = FALSE]
      /\ UNCHANGED <<tree, proof, closed, lease, at, job, stray, tried, result>>
      /\ events' \in 0 .. MaxEvents
  BY Types, WorktreeAssumption DEF Expire, Event
<1>2. [plan[c] EXCEPT !.fresh = FALSE] \in Plans
  BY <1>1 DEF Plans
<1>3. plan' \in [Callers -> Plans \union {NoPlan}]
      /\ \A d \in Callers : d # c => plan'[d] = plan[d]
  BY <1>1, <1>2, Types
<1>4. TypeOK'
  BY <1>1, <1>3 DEF IInv, TypeOK
<1>5. plan'[c] # NoPlan
  BY <1>1, <1>2, Types, PlanAssumption
<1>6. CallerOK(c)'
  BY <1>1, <1>5, Types DEF CallerOK, JobFits, StageFits, AnswerFits
<1>7. Shrinks
  BY <1>1 DEF Shrinks
<1> QED
  BY <1>1, <1>3, <1>4, <1>6, <1>7, OneCaller

LEMMA Applying ==
    ASSUME IInv, NEW c \in Callers, Apply(c)
    PROVE  IInv'
<1>1. /\ at[c] = "idle" /\ plan[c] # NoPlan /\ job[c].kind = "none"
      /\ tried' = [tried EXCEPT ![c] = FALSE]
      /\ UNCHANGED <<tree, proof, closed, events, plan, job, stray>>
  BY Types DEF Apply, CallerOK, JobFits
<1>2. CASE plan[c].fresh
  <2>1. /\ Goes(c, "lease") /\ result' = [result EXCEPT ![c] = "none"]
        /\ UNCHANGED lease
    BY <1>2 DEF Apply
  <2> QED
    BY <1>1, <2>1, Types, Going DEF Stages, Results
<1>3. CASE ~plan[c].fresh
  <2>1. Answers(c, "refused")
    BY <1>3 DEF Apply
  <2> QED
    BY <1>1, <2>1, Types, Answering DEF Results
<1> QED
  BY <1>2, <1>3

LEMMA Acquiring ==
    ASSUME IInv, NEW c \in Callers, Acquire(c)
    PROVE  IInv'
<1>1. /\ at[c] = "lease" /\ job[c].kind = "none" /\ ~tried[c]
      /\ plan[c] # NoPlan /\ result[c] = "none"
      /\ UNCHANGED <<tree, proof, closed, events, plan, job, stray, tried>>
  BY Types DEF Acquire, CallerOK, JobFits, StageFits
<1>2. CASE lease = Free
  <2>1. lease' = c /\ Goes(c, "census") /\ UNCHANGED result
    BY <1>2 DEF Acquire
  <2> QED
    BY <1>1, <1>2, <2>1, Types, Going DEF Stages
<1>3. CASE lease # Free
  <2>1. Answers(c, "busy")
    BY <1>3 DEF Acquire
  <2> QED
    BY <1>1, <2>1, Types, Answering DEF Results
<1> QED
  BY <1>2, <1>3

LEMMA Checking ==
    ASSUME IInv, NEW c \in Callers, NEW blind \in BOOLEAN, Check(c, blind)
    PROVE  IInv'
<1>1. /\ at[c] \in {"census", "recensus"} /\ job[c].kind = "none" /\ ~tried[c]
      /\ plan[c] # NoPlan /\ result[c] = "none" /\ lease = c
      /\ UNCHANGED <<tree, proof, closed, events, plan, job, stray, tried>>
  BY Types DEF Check, CallerOK, JobFits, StageFits
<1>2. CASE \E a \in {"repair", "drifted", "refused"} : Answers(c, a)
  BY <1>1, <1>2, Types, Answering DEF Results
<1>3. CASE ~OnDisk /\ Answers(c, "absent")
  BY <1>1, <1>3, Types, Answering DEF Results, OnDisk
<1>4. CASE /\ Goes(c, IF at[c] = "census" THEN "before" ELSE "remove")
           /\ UNCHANGED <<lease, result>>
  <2>1. PICK stage \in {"before", "remove"} : Goes(c, stage)
    BY <1>4
  <2> QED
    BY <1>1, <1>4, <2>1, Types, Going DEF Stages
<1> QED
  BY <1>2, <1>3, <1>4 DEF Check

LEMMA Starting ==
    ASSUME IInv, NEW c \in Callers, Start(c)
    PROVE  IInv'
<1>1. /\ at[c] \in {"before", "hook", "remove"} /\ job[c] = NoJob /\ ~tried[c]
      /\ plan[c] \in Plans /\ plan[c] # NoPlan /\ result[c] = "none" /\ lease = c
      /\ UNCHANGED <<tree, proof, closed, events, plan, stray>>
  BY Types DEF Start, CallerOK, StageFits
<1>2. CASE at[c] # "before" /\ ~plan[c].fresh
  <2>1. Answers(c, "drifted") /\ UNCHANGED <<job, tried>>
    BY <1>2 DEF Start
  <2> QED
    BY <1>1, <2>1, Types, Answering DEF Results
<1>3. CASE ~(at[c] # "before" /\ ~plan[c].fresh)
  <2> DEFINE new == [kind |-> at[c], force |-> plan[c].force]
  <2>1. /\ job' = [job EXCEPT ![c] = new]
        /\ tried' = [tried EXCEPT ![c] = at[c] = "remove"]
        /\ UNCHANGED <<at, result, lease>>
    BY <1>3 DEF Start
  <2>2. new \in Jobs /\ new.kind = at[c]
    BY <1>1 DEF Jobs, Running, Plans
  <2> HIDE DEF new
  <2>3. /\ job' \in [Callers -> Jobs] /\ job'[c].kind = at[c]
        /\ tried' \in [Callers -> BOOLEAN] /\ tried'[c] = (at[c] = "remove")
        /\ \A d \in Callers : d # c => job'[d] = job[d] /\ tried'[d] = tried[d]
    BY <2>1, <2>2, Types
  <2>4. TypeOK'
    BY <1>1, <2>1, <2>3 DEF IInv, TypeOK
  <2>5. JobFits(c)'
    BY <1>1, <2>1, <2>3 DEF JobFits
  <2>6. StageFits(c)' /\ AnswerFits(c)'
    BY <1>1, <2>1, <2>3, Types DEF CallerOK, StageFits, AnswerFits
  <2>7. Shrinks
    BY <1>1 DEF Shrinks
  <2> QED
    BY <1>1, <2>1, <2>3, <2>4, <2>5, <2>6, <2>7, OneCaller DEF CallerOK
<1> QED
  BY <1>2, <1>3

LEMMA Awaiting ==
    ASSUME IInv, NEW c \in Callers, Await(c)
    PROVE  IInv'
<1>1. /\ job[c].kind \in {"ok", "failed"} /\ at[c] \in {"before", "hook", "remove"}
      /\ plan[c] # NoPlan /\ result[c] = "none" /\ lease = c
      /\ tried[c] => at[c] = "remove"
      /\ job' = [job EXCEPT ![c] = NoJob]
      /\ UNCHANGED <<tree, proof, closed, events, plan, stray, tried>>
  BY Types DEF Await, CallerOK, JobFits, StageFits
<1>2. /\ job' \in [Callers -> Jobs] /\ job'[c].kind = "none"
      /\ \A d \in Callers : d # c => job'[d] = job[d]
  BY <1>1, Types
<1>3. CASE job[c].kind = "failed"
  <2>1. Answers(c, Failed(at[c]))
    BY <1>3 DEF Await
  <2>2. PICK a \in Results : a = Failed(at[c])
    BY <1>1 DEF Failed, Results
  <2>3. /\ a \in {"repair", "refused", "indeterminate"}
        /\ a # "indeterminate" => ~tried'[c]
    BY <1>1, <2>2 DEF Failed
  <2>4. Answers(c, a)
    BY <2>1, <2>2
  <2> QED
    BY <1>1, <1>2, <2>3, <2>4, Types, Answering
<1>4. CASE job[c].kind = "ok"
  <2>1. /\ \E next \in {"hook", "recensus", "confirm"} :
              /\ CASE at[c] = "before" -> next # "confirm"
                   [] at[c] = "hook" -> next = "recensus"
                   [] at[c] = "remove" -> next = "confirm"
              /\ Goes(c, next)
        /\ UNCHANGED <<lease, result>>
    BY <1>4 DEF Await
  <2>2. PICK next \in {"hook", "recensus", "confirm"} :
              /\ CASE at[c] = "before" -> next # "confirm"
                   [] at[c] = "hook" -> next = "recensus"
                   [] at[c] = "remove" -> next = "confirm"
              /\ Goes(c, next)
    BY <2>1
  <2>3. /\ next = "confirm" => at[c] = "remove"
        /\ at[c] = "remove" => next = "confirm"
    BY <1>1, <2>2
  <2>4. next = "confirm" => ~tree.git
    BY <1>4, <2>3, Types DEF CallerOK, JobFits
  <2>5. ~tried'[c] \/ next = "confirm"
    BY <1>1, <2>3
  <2> QED
    BY <1>1, <1>2, <2>1, <2>2, <2>4, <2>5, Types, Going DEF Stages
<1> QED
  BY <1>1, <1>3, <1>4

LEMMA Confirming ==
    ASSUME IInv, NEW c \in Callers, NEW blind \in BOOLEAN, Confirm(c, blind)
    PROVE  IInv'
<1>1. /\ at[c] = "confirm" /\ job[c].kind = "none" /\ ~tree.git
      /\ plan[c] # NoPlan /\ result[c] = "none" /\ lease = c
      /\ UNCHANGED <<tree, proof, closed, events, plan, job, stray, tried>>
  BY Types DEF Confirm, CallerOK, JobFits, StageFits
<1>2. CASE Answers(c, "indeterminate")
  BY <1>1, <1>2, Types, Answering DEF Results
<1>3. CASE ~OnDisk /\ Goes(c, "reconcile") /\ UNCHANGED <<lease, result>>
  <2>1. at' = [at EXCEPT ![c] = "reconcile"]
    BY <1>3 DEF Goes
  <2>2. at' \in [Callers -> Stages] /\ at'[c] = "reconcile"
        /\ \A d \in Callers : d # c => at'[d] = at[d]
    BY <2>1, Types DEF Stages
  <2>3. TypeOK'
    BY <1>1, <1>3, <2>2 DEF IInv, TypeOK
  <2>4. CallerOK(c)'
    BY <1>1, <1>3, <2>2 DEF CallerOK, JobFits, StageFits, AnswerFits, OnDisk
  <2>5. Shrinks
    BY <1>1 DEF Shrinks
  <2> QED
    BY <1>1, <1>3, <2>2, <2>3, <2>4, <2>5, OneCaller
<1> QED
  BY <1>2, <1>3 DEF Confirm

LEMMA Reconciling ==
    ASSUME IInv, NEW c \in Callers, Reconcile(c)
    PROVE  IInv'
<1>1. /\ job[c].kind = "none" /\ ~tree.git /\ tree.dir = "gone"
      /\ Answers(c, "deleted")
      /\ UNCHANGED <<tree, proof, closed, events, plan, job, stray, tried>>
  BY Types DEF Reconcile, CallerOK, JobFits, StageFits
<1> QED
  BY <1>1, Types, Answering DEF Results

LEMMA Throwing ==
    ASSUME IInv, NEW c \in Callers, Throws(c)
    PROVE  IInv'
<1>1. /\ job[c] = NoJob /\ events' \in 0 .. MaxEvents
      /\ UNCHANGED <<tree, proof, closed, plan, job, stray, tried>>
  BY Types, WorktreeAssumption DEF Throws, Event
<1>2. CASE at[c] = "lease"
  <2>1. Answers(c, "repair") /\ ~tried[c]
    BY <1>2, Types DEF Throws, CallerOK, StageFits
  <2> QED
    BY <1>1, <2>1, Types, Answering DEF Results
<1>3. CASE at[c] # "lease"
  <2>1. Answers(c, "indeterminate")
    BY <1>3 DEF Throws
  <2> QED
    BY <1>1, <2>1, Types, Answering DEF Results
<1> QED
  BY <1>2, <1>3

\* What runs goes on as a stray; the apply waits for nothing any more.
LEMMA Abandoning ==
    ASSUME IInv, NEW c \in Callers, Abandons(c)
    PROVE  /\ stray' \in [Callers -> {s \in Jobs : s.kind \in Running \union {"none"}}]
           /\ job' \in [Callers -> Jobs] /\ job'[c].kind = "none"
           /\ \A d \in Callers : d # c => job'[d] = job[d]
  BY Types DEF Abandons, Waiting

LEMMA Expiry ==
    ASSUME IInv, NEW c \in Callers, Deadline(c)
    PROVE  IInv'
<1>1. /\ at[c] # "idle" /\ at[c] \in Stages /\ Abandons(c) /\ events' \in 0 .. MaxEvents
      /\ UNCHANGED <<tree, proof, closed, plan, tried>>
  BY Types, WorktreeAssumption DEF Deadline, Event
<1>2. PICK a : /\ a = (CASE at[c] = "confirm" -> "indeterminate"
                         [] at[c] = "reconcile" -> "deleted"
                         [] OTHER -> "deadline")
               /\ Answers(c, a)
  BY DEF Deadline
<1>3. /\ a \in {"indeterminate", "deleted", "deadline"}
      /\ a = "deleted" => at[c] = "reconcile"
  BY <1>2
<1>4. a = "deleted" => tree.dir = "gone" /\ ~tree.git
  BY <1>3, Types DEF CallerOK, StageFits
<1> QED
  BY <1>1, <1>2, <1>3, <1>4, Types, Abandoning, Answering DEF Results

LEMMA Crashing ==
    ASSUME IInv, NEW c \in Callers, Crash(c)
    PROVE  IInv'
<1>1. /\ at[c] # "idle" /\ Abandons(c) /\ events' \in 0 .. MaxEvents
      /\ at' = [at EXCEPT ![c] = "idle"]
      /\ UNCHANGED <<tree, proof, closed, lease, plan, tried, result>>
  BY Types, WorktreeAssumption DEF Crash, Event, Goes
<1>2. /\ at' \in [Callers -> Stages] /\ at'[c] = "idle"
      /\ \A d \in Callers : d # c => at'[d] = at[d]
  BY <1>1, Types DEF Stages
<1>3. TypeOK'
  BY <1>1, <1>2, Abandoning DEF IInv, TypeOK
<1>4. result[c] = "none"
  BY <1>1, Types DEF CallerOK, StageFits
<1>5. CallerOK(c)'
  BY <1>1, <1>2, <1>4, Abandoning DEF CallerOK, JobFits, StageFits, AnswerFits
<1>6. Shrinks
  BY <1>1 DEF Shrinks
<1> QED
  BY <1>1, <1>2, <1>3, <1>5, <1>6, Abandoning, OneCaller

LEMMA Exiting ==
    ASSUME IInv, NEW c \in Callers, HolderExits(c)
    PROVE  IInv'
<1>1. /\ lease = c /\ at[c] \in {"idle", "lease"} /\ lease' = Free
      /\ UNCHANGED <<tree, proof, closed, events, plan, at, job, stray, tried, result>>
  BY DEF HolderExits, Owns
<1>2. TypeOK'
  BY <1>1 DEF IInv, TypeOK
<1>3. CallerOK(c)'
  BY <1>1, Types DEF CallerOK, JobFits, StageFits, AnswerFits
<1>4. Shrinks
  BY <1>1 DEF Shrinks
<1> QED
  BY <1>1, <1>2, <1>3, <1>4, OneCaller

\* A process never brings back what is gone, and keeps the worktree's type.
LEMMA Working ==
    ASSUME IInv, NEW before, NEW after, Works(before, after)
    PROVE  Shrinks /\ tree' \in Trees
<1>1. tree \in Trees
  BY DEF IInv, TypeOK
<1>2. CASE UNCHANGED tree
  BY <1>1, <1>2 DEF Shrinks
<1>3. CASE \E dirty \in BOOLEAN : tree' = [tree EXCEPT !.dirty = dirty]
  BY <1>1, <1>3 DEF Shrinks, Trees
<1>4. CASE OnDisk /\ tree' = [tree EXCEPT !.dir = "partial"]
  BY <1>1, <1>4 DEF Shrinks, Trees, OnDisk
<1>5. CASE tree' = [tree EXCEPT !.dir = "gone"]
  BY <1>1, <1>5 DEF Shrinks, Trees
<1>6. CASE tree' = [tree EXCEPT !.git = FALSE]
  BY <1>1, <1>6 DEF Shrinks, Trees
<1>7. tree.dirty \in BOOLEAN
  BY <1>1 DEF Trees
<1> QED
  BY <1>2, <1>3, <1>4, <1>5, <1>6, <1>7 DEF Works

LEMMA JobStepping ==
    ASSUME IInv, NEW c \in Callers, JobStep(c)
    PROVE  IInv'
<1>1. /\ job[c].kind \in Running /\ job[c] \in Jobs
      /\ UNCHANGED <<proof, closed, events, lease, plan, at, stray, tried, result>>
  BY Types DEF JobStep, Waiting
<1>2. PICK kind \in {"ok", "removing", "unregister", "failed"} :
        /\ job' = [job EXCEPT ![c] = Moves(job[c], kind)]
        /\ \/ Works(job[c], Moves(job[c], kind))
           \/ kind = "failed" /\ UNCHANGED tree
  BY DEF JobStep
<1> DEFINE new == Moves(job[c], kind)
<1>3. new \in Jobs /\ new.kind = kind
  BY <1>1 DEF Moves, Jobs, Running
<1> HIDE DEF new
<1>4. /\ job' \in [Callers -> Jobs] /\ job'[c].kind = kind
      /\ \A d \in Callers : d # c => job'[d] = job[d]
  BY <1>2, <1>3, Types DEF new
<1>5. Shrinks /\ tree' \in Trees
  <2>1. CASE Works(job[c], Moves(job[c], kind))
    BY <2>1, Working
  <2>2. CASE UNCHANGED tree
    BY <2>2 DEF Shrinks, IInv, TypeOK
  <2> QED
    BY <1>2, <2>1, <2>2
<1>6. TypeOK'
  BY <1>1, <1>4, <1>5 DEF IInv, TypeOK
<1>7. at[c] \in {"before", "hook", "remove"}
  BY <1>1, Types DEF CallerOK, JobFits, Running
<1>8. /\ kind \in {"removing", "unregister"} => at[c] = "remove"
      /\ kind = "ok" /\ at[c] = "remove" => ~tree'.git
  <2>1. CASE Works(job[c], new)
    <3>1. CASE job[c].kind \in {"before", "hook"}
      BY <1>3, <2>1, <3>1, Types DEF Works, CallerOK, JobFits
    <3>2. CASE job[c].kind \in {"remove", "removing"}
      BY <1>3, <2>1, <3>2, Types DEF Works, CallerOK, JobFits
    <3>3. CASE job[c].kind = "unregister"
      <4>1. tree' = [tree EXCEPT !.git = FALSE] /\ kind = "ok"
        BY <1>3, <2>1, <3>3 DEF Works
      <4>2. tree \in Trees
        BY DEF IInv, TypeOK
      <4> QED
        BY <4>1, <4>2 DEF Trees
    <3> QED
      BY <1>1, <3>1, <3>2, <3>3 DEF Running
  <2> QED
    BY <1>2, <2>1 DEF new
<1>9. JobFits(c)'
  BY <1>1, <1>4, <1>7, <1>8 DEF JobFits
<1>10. StageFits(c)' /\ AnswerFits(c)'
  BY <1>1, <1>4, <1>5, <1>7, Types DEF CallerOK, StageFits, AnswerFits, Shrinks
<1> QED
  BY <1>1, <1>4, <1>5, <1>6, <1>9, <1>10, OneCaller DEF CallerOK

LEMMA StrayStepping ==
    ASSUME IInv, NEW c \in Callers, StrayStep(c)
    PROVE  IInv'
<1>1. /\ UNCHANGED <<proof, closed, events, lease, plan, at, job, tried, result>>
      /\ stray[c] \in Jobs
  BY Types DEF StrayStep
<1>2. CASE \E kind \in {"ok", "removing", "unregister"} :
             /\ Works(stray[c], Moves(stray[c], kind))
             /\ stray' = [stray EXCEPT ![c] = IF kind = "ok" THEN NoJob
                                              ELSE Moves(stray[c], kind)]
  <2>1. PICK kind \in {"ok", "removing", "unregister"} :
             /\ Works(stray[c], Moves(stray[c], kind))
             /\ stray' = [stray EXCEPT ![c] = IF kind = "ok" THEN NoJob
                                              ELSE Moves(stray[c], kind)]
    BY <1>2
  <2>2. Moves(stray[c], kind) \in Jobs /\ Moves(stray[c], kind).kind = kind
    BY <1>1 DEF Moves, Jobs, Running
  <2>3. stray' \in [Callers -> {s \in Jobs : s.kind \in Running \union {"none"}}]
    BY <2>1, <2>2, Types DEF Running
  <2>4. Shrinks /\ tree' \in Trees
    BY <2>1, Working
  <2>5. TypeOK'
    BY <1>1, <2>3, <2>4 DEF IInv, TypeOK
  <2> QED
    BY <1>1, <2>4, <2>5, TreeOnly
<1>3. CASE stray' = [stray EXCEPT ![c] = NoJob] /\ UNCHANGED tree
  <2>1. stray' \in [Callers -> {s \in Jobs : s.kind \in Running \union {"none"}}]
    BY <1>3, Types
  <2>2. TypeOK' /\ Shrinks
    BY <1>1, <1>3, <2>1 DEF IInv, TypeOK, Shrinks
  <2> QED
    BY <1>1, <2>2, TreeOnly
<1> QED
  BY <1>2, <1>3 DEF StrayStep

LEMMA OthersStepping ==
    ASSUME IInv, Others
    PROVE  IInv'
<1>1. /\ events' \in 0 .. MaxEvents
      /\ UNCHANGED <<lease, plan, at, job, stray, tried, result>>
  BY WorktreeAssumption DEF Others, Event, IInv, TypeOK
<1>2. tree \in Trees /\ proof \in Proofs /\ closed \in BOOLEAN
  BY DEF IInv, TypeOK
<1>3. tree' \in Trees /\ Shrinks /\ proof' \in Proofs /\ closed' \in BOOLEAN
  <2>1. CASE Edit
    BY <1>2, <2>1 DEF Edit, Trees, Shrinks
  <2>2. CASE Commit
    <3>1. tree' = [tree EXCEPT !.head = @ + 1, !.dirty = FALSE]
          /\ tree.dir = "whole" /\ tree.head < MaxHead
      BY <2>2 DEF Commit
    <3>2. tree.head + 1 \in 1 .. MaxHead
      BY <1>2, <3>1, WorktreeAssumption DEF Trees
    <3>3. tree' \in Trees /\ Shrinks
      BY <1>2, <3>1, <3>2 DEF Trees, Shrinks
    <3> QED
      BY <1>2, <2>2, <3>3 DEF Commit, Proofs
  <2>3. CASE Enter
    BY <1>2, <2>3 DEF Enter, Trees, Shrinks
  <2>4. CASE Integrate
    BY <1>2, <2>4 DEF Integrate, Proofs, Shrinks
  <2>5. CASE Close
    BY <1>2, <2>5 DEF Close, Shrinks
  <2> QED
    BY <2>1, <2>2, <2>3, <2>4, <2>5 DEF Others
<1>4. TypeOK'
  BY <1>1, <1>3 DEF IInv, TypeOK
<1> QED
  BY <1>1, <1>3, <1>4, TreeOnly

LEMMA Step == IInv /\ [Next]_vars => IInv'
<1> SUFFICES ASSUME IInv, [Next]_vars PROVE IInv'
  OBVIOUS
<1>1. ASSUME NEW c \in Callers, Act(c) PROVE IInv'
  BY <1>1, Planning, Expiring, Applying, Acquiring, Checking, Confirming, Starting,
     Awaiting, Reconciling, Throwing DEF Act
<1>2. ASSUME NEW c \in Callers, Happens(c) PROVE IInv'
  BY <1>2, Expiry, Crashing, Exiting, JobStepping, StrayStepping DEF Happens
<1>3. CASE Others
  BY <1>3, OthersStepping
<1>4. CASE UNCHANGED vars
  <2>1. TypeOK' /\ Shrinks /\ UNCHANGED <<lease, plan, at, job, tried, result>>
    BY <1>4 DEF vars, IInv, TypeOK, Shrinks
  <2> QED
    BY <2>1, TreeOnly
<1> QED
  BY <1>1, <1>2, <1>3, <1>4 DEF Next

-----------------------------------------------------------------------------
\* The lease, what an apply waits for and its stage always fit together.
THEOREM Soundness == Spec => []IInv
  BY Initially, Step, PTL DEF Spec

\* The variables keep their types; a stray is never a process that has ended.
THEOREM TypeCorrect == Spec => []TypeOK
<1>1. IInv => TypeOK
  BY DEF IInv
<1> QED
  BY <1>1, Soundness, PTL

(***************************************************************************)
(* acquireGitWorktreeProcessLease: two applies never run a cleanup, a hook *)
(* or git worktree remove at the same time.                                *)
(***************************************************************************)
THEOREM SerialRemovals == Spec => []RemovalsAreSerial
<1>1. IInv => RemovalsAreSerial
  <2> SUFFICES ASSUME IInv, NEW c \in Callers, NEW d \in Callers, Waiting(c), Waiting(d)
               PROVE  c = d
    BY DEF RemovalsAreSerial
  <2>1. job[c].kind # "none" /\ job[d].kind # "none"
    BY DEF Waiting, Running
  <2>2. lease = c /\ lease = d
    BY <2>1 DEF IInv, CallerOK, JobFits, StageFits
  <2> QED
    BY <2>2
<1> QED
  BY <1>1, Soundness, PTL

(***************************************************************************)
(* deletion-executor.ts: "deleted" and "absent" are true of the worktree,  *)
(* and every answer that denies a removal comes from an apply that has not *)
(* run git worktree remove.                                                *)
(***************************************************************************)
THEOREM TrueResults == Spec => []ResultsAreTrue
<1>1. IInv => ResultsAreTrue
  BY DEF IInv, CallerOK, AnswerFits, ResultsAreTrue
<1> QED
  BY <1>1, Soundness, PTL

-----------------------------------------------------------------------------
(* The lease is a lock *)

\* The apply of c is past the lease stage: by the invariant it then owns the lease.
Past(c) == at[c] \notin {"idle", "lease"}

Inside == {c \in Callers : Past(c)}

\* What a step of c may do to the lease and to its own being inside.
LeaseMove(c) ==
    \/ lease' = lease /\ (Past(c)' <=> Past(c))
    \/ lease = Free /\ lease' = c /\ Past(c)'
    \/ Past(c) /\ ~Past(c)' /\ lease' \in {lease, Free}
    \/ lease = c /\ ~Past(c) /\ ~Past(c)' /\ lease' = Free

\* An answer ends the apply and frees the lease it owns, or none.
LEMMA AnswerMoves ==
    ASSUME IInv, NEW c \in Callers, NEW a, Answers(c, a)
    PROVE  LeaseMove(c) /\ \A d \in Callers : d # c => at'[d] = at[d]
<1>1. at \in [Callers -> Stages] /\ (Past(c) => lease = c)
  BY DEF IInv, TypeOK, CallerOK, StageFits, Past
<1>2. at' = [at EXCEPT ![c] = "idle"] /\ lease' = IF Owns(c) THEN Free ELSE lease
  BY DEF Answers, Goes
<1>3. at'[c] = "idle" /\ \A d \in Callers : d # c => at'[d] = at[d]
  BY <1>1, <1>2
<1> QED
  BY <1>1, <1>2, <1>3 DEF LeaseMove, Past, Owns

\* An apply that is past the lease stage and goes on keeps the lease.
LEMMA GoingMoves ==
    ASSUME IInv, NEW c \in Callers, NEW stage \in Stages, Goes(c, stage),
           UNCHANGED lease, Past(c) <=> stage \notin {"idle", "lease"}
    PROVE  LeaseMove(c) /\ \A d \in Callers : d # c => at'[d] = at[d]
<1>1. at \in [Callers -> Stages]
  BY DEF IInv, TypeOK
<1>2. at'[c] = stage /\ \A d \in Callers : d # c => at'[d] = at[d]
  BY <1>1 DEF Goes
<1> QED
  BY <1>2 DEF LeaseMove, Past

\* No step does anything else to the lease.
LEMMA StepMoves ==
    ASSUME IInv, NEW c \in Callers, Act(c) \/ Happens(c)
    PROVE  LeaseMove(c) /\ \A d \in Callers : d # c => at'[d] = at[d]
<1> DEFINE Goal == LeaseMove(c) /\ \A d \in Callers : d # c => at'[d] = at[d]
<1>0. at \in [Callers -> Stages] /\ (Past(c) => lease = c)
  BY DEF IInv, TypeOK, CallerOK, StageFits, Past
<1>1. ASSUME UNCHANGED <<lease, at>> PROVE Goal
  BY <1>1 DEF LeaseMove, Past
<1>2. ASSUME NEW a, Answers(c, a) PROVE Goal
  BY <1>2, AnswerMoves
<1>3. CASE (\E force \in BOOLEAN : Plan(c, force)) \/ Expire(c) \/ JobStep(c) \/ StrayStep(c)
  BY <1>1, <1>3 DEF Plan, Expire, JobStep, StrayStep
<1>4. CASE Apply(c)
  <2>1. CASE Goes(c, "lease") /\ UNCHANGED lease
    <3>1. ~Past(c) /\ "lease" \in Stages
      BY <1>4 DEF Apply, Past, Stages
    <3> QED
      BY <2>1, <3>1, GoingMoves
  <2> QED
    BY <1>2, <1>4, <2>1 DEF Apply
<1>5. CASE Acquire(c)
  <2>1. CASE lease = Free
    <3>1. lease' = c /\ at' = [at EXCEPT ![c] = "census"]
      BY <1>5, <2>1 DEF Acquire, Goes
    <3>2. at'[c] = "census" /\ \A d \in Callers : d # c => at'[d] = at[d]
      BY <1>0, <3>1
    <3> QED
      BY <2>1, <3>1, <3>2 DEF LeaseMove, Past
  <2> QED
    BY <1>2, <1>5, <2>1 DEF Acquire
<1>6. ASSUME NEW blind \in BOOLEAN, Check(c, blind) PROVE Goal
  <2>1. at[c] \in {"census", "recensus"} /\ Past(c)
    BY <1>6 DEF Check, Past
  <2>2. CASE Goes(c, IF at[c] = "census" THEN "before" ELSE "remove") /\ UNCHANGED lease
    <3>1. CASE Goes(c, "before")
      BY <2>1, <2>2, <3>1, GoingMoves DEF Stages
    <3>2. CASE Goes(c, "remove")
      BY <2>1, <2>2, <3>2, GoingMoves DEF Stages
    <3> QED
      BY <2>2, <3>1, <3>2
  <2> QED
    BY <1>2, <1>6, <2>2 DEF Check
<1>7. ASSUME NEW blind \in BOOLEAN, Confirm(c, blind) PROVE Goal
  <2>1. CASE Goes(c, "reconcile") /\ UNCHANGED lease
    <3>1. Past(c) /\ "reconcile" \in Stages
      BY <1>7 DEF Confirm, Past, Stages
    <3> QED
      BY <2>1, <3>1, GoingMoves
  <2> QED
    BY <1>2, <1>7, <2>1 DEF Confirm
<1>8. CASE Start(c)
  BY <1>1, <1>2, <1>8 DEF Start
<1>9. CASE Await(c)
  <2>1. Past(c)
    BY <1>9 DEF Await, IInv, CallerOK, JobFits, Past
  <2>2. ASSUME NEW next \in {"hook", "recensus", "confirm"}, Goes(c, next), UNCHANGED lease
        PROVE  Goal
    BY <2>1, <2>2, GoingMoves DEF Stages
  <2> QED
    BY <1>2, <1>9, <2>2 DEF Await
<1>10. CASE Reconcile(c) \/ Throws(c) \/ Deadline(c)
  BY <1>2, <1>10 DEF Reconcile, Throws, Deadline
<1>11. CASE Crash(c)
  <2>1. at' = [at EXCEPT ![c] = "idle"] /\ UNCHANGED lease
    BY <1>11 DEF Crash, Goes
  <2>2. at'[c] = "idle" /\ \A d \in Callers : d # c => at'[d] = at[d]
    BY <1>0, <2>1
  <2> QED
    BY <2>1, <2>2 DEF LeaseMove, Past
<1>12. CASE HolderExits(c)
  <2>1. lease = c /\ ~Past(c) /\ lease' = Free /\ UNCHANGED at
    BY <1>12 DEF HolderExits, Owns, Past
  <2> QED
    BY <2>1 DEF LeaseMove, Past
<1> QED
  BY <1>3, <1>4, <1>5, <1>6, <1>7, <1>8, <1>9, <1>10, <1>11, <1>12 DEF Act, Happens

\* Who is past the lease stage owns the lease, so that at most one is.
LeaseFits ==
    IInv => /\ \A c \in Callers : Past(c) => lease = c /\ Inside = {c} /\ LeaseState = "held"
            /\ Inside = {} => LeaseState = IF lease = Free THEN "free" ELSE "orphan"

LEMMA LeaseFitsNow == LeaseFits
<1> SUFFICES ASSUME IInv
    PROVE  /\ \A c \in Callers : Past(c) => lease = c /\ Inside = {c} /\ LeaseState = "held"
           /\ Inside = {} => LeaseState = IF lease = Free THEN "free" ELSE "orphan"
  BY DEF LeaseFits
<1>1. \A c \in Callers : Past(c) => lease = c
  BY DEF IInv, CallerOK, StageFits, Past
<1>2. ASSUME NEW c \in Callers, Past(c) PROVE Inside = {c} /\ LeaseState = "held"
  <2>1. Owns(c) /\ lease # Free
    BY <1>1, <1>2, WorktreeAssumption DEF Owns, Past
  <2> QED
    BY <1>1, <1>2, <2>1 DEF Inside, LeaseState
<1>3. Inside = {} => \A c \in Callers : ~Owns(c)
  BY DEF Inside, Owns, Past
<1> QED
  BY <1>1, <1>2, <1>3 DEF LeaseState

LEMMA LeaseFitsNext == LeaseFits'
  BY LeaseFitsNow, PTL

\* A step of one caller takes, leaves or reclaims the lease, or leaves it as it is.
LEMMA LeaseStepRefined ==
    ASSUME IInv, IInv', NEW c \in Callers, LeaseMove(c),
           \A d \in Callers : d # c => at'[d] = at[d]
    PROVE  Lease!LockNext \/ UNCHANGED <<LeaseState, Inside>>
<1>0. \A d \in Callers : d # c => (Past(d)' <=> Past(d))
  BY DEF Past
<1>1. CASE lease' = lease /\ (Past(c)' <=> Past(c))
  BY <1>0, <1>1 DEF LeaseState, Inside, Owns, Past
<1>2. CASE lease = Free /\ lease' = c /\ Past(c)'
  <2>1. \A d \in Callers : ~Past(d)
    BY <1>2, LeaseFitsNow, WorktreeAssumption DEF LeaseFits
  <2>2. Inside = {} /\ LeaseState = "free"
    BY <1>2, <2>1 DEF Inside, LeaseState
  <2>3. Inside' = {c} /\ LeaseState' = "held"
    BY <1>2, LeaseFitsNext DEF LeaseFits
  <2>4. Lease!Take(c)
    BY <2>2, <2>3 DEF Lease!Take, Inside, Past
  <2> QED
    BY <2>4 DEF Lease!LockNext
<1>3. CASE Past(c) /\ ~Past(c)' /\ lease' \in {lease, Free}
  <2>1. Inside = {c} /\ LeaseState = "held"
    BY <1>3, LeaseFitsNow DEF LeaseFits
  <2>2. Inside' = {}
    BY <1>0, <1>3, <2>1 DEF Inside
  <2>3. LeaseState' \in {"free", "orphan"}
    BY <2>2, LeaseFitsNext DEF LeaseFits
  <2>4. Lease!Leave(c)
    BY <2>1, <2>2, <2>3 DEF Lease!Leave, Inside, Past
  <2> QED
    BY <2>4 DEF Lease!LockNext
<1>4. CASE lease = c /\ ~Past(c) /\ ~Past(c)' /\ lease' = Free
  <2>1. \A d \in Callers : ~Past(d)
    BY <1>4, LeaseFitsNow DEF LeaseFits
  <2>2. Inside = {} /\ Inside' = {}
    BY <1>0, <1>4, <2>1 DEF Inside
  <2>3. LeaseState = "orphan" /\ LeaseState' = "free"
    BY <1>4, <2>2, LeaseFitsNow, LeaseFitsNext, WorktreeAssumption DEF LeaseFits
  <2>4. Lease!Reclaim
    BY <2>2, <2>3 DEF Lease!Reclaim, Inside, Past
  <2> QED
    BY <2>4 DEF Lease!LockNext
<1> QED
  BY <1>1, <1>2, <1>3, <1>4 DEF LeaseMove

(***************************************************************************)
(* acquireGitWorktreeProcessLease and the settling of the lease in the     *)
(* apply's finally block implement CrashLock, and never break: a deadline  *)
(* or a crash leaves the lease to its holder process, not to two applies.  *)
(***************************************************************************)
THEOREM LeaseIsACrashLock == Spec => ImplementsCrashLock
<1>1. Init => Lease!LockInit
  BY DEF Init, Lease!LockInit, LeaseState
<1>2. IInv /\ IInv' /\ [Next]_vars => [Lease!LockStep]_(Lease!lockVars)
  <2> SUFFICES ASSUME IInv, IInv', [Next]_vars
               PROVE  Lease!LockNext \/ UNCHANGED <<LeaseState, Inside>>
    BY DEF Lease!LockStep, Lease!lockVars, Inside, Past
  <2>1. ASSUME NEW c \in Callers, Act(c) \/ Happens(c)
        PROVE  Lease!LockNext \/ UNCHANGED <<LeaseState, Inside>>
    BY <2>1, StepMoves, LeaseStepRefined
  <2>2. CASE Others \/ UNCHANGED vars
    <3>1. UNCHANGED <<lease, at>>
      BY <2>2 DEF Others, vars
    <3> QED
      BY <3>1 DEF LeaseState, Inside, Owns, Past
  <2> QED
    BY <2>1, <2>2 DEF Next
<1> QED
  BY <1>1, <1>2, Soundness, PTL DEF Spec, ImplementsCrashLock, Lease!LockSpec
=============================================================================
