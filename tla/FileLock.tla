------------------------------ MODULE FileLock ------------------------------
(***************************************************************************)
(* The advisory file lock of plugin/src/utils/fs.ts: acquireFileLock, the  *)
(* bounded retry that drives it and the release closure it returns.        *)
(*                                                                         *)
(* A lock is the file "<path>.lock".  It is created exclusively (flag wx)  *)
(* and filled with "pid\ntimestamp" by a second system call; a contender   *)
(* that finds it reads it, judges it stale when the timestamp is older     *)
(* than STALE_LOCK_MS and the process is gone, and unlinks the PATH - not  *)
(* the file it read.  Release also unlinks the path.  Every await of the   *)
(* code is a separate action, so callers interleave between them.          *)
(*                                                                         *)
(* Wall-clock time is abstracted to one bit: Age lets a lock become older  *)
(* than STALE_LOCK_MS at any moment, also before its content is written,   *)
(* because the timestamp is taken before the file is created.              *)
(***************************************************************************)
EXTENDS Integers

CONSTANTS
    Callers,      \* concurrent acquireFileLock calls, of any process
    Pids,         \* operating-system processes
    PidOf,        \* the process each caller runs in
    NoCaller,     \* "nobody": the lock file does not exist
    MaxAttempts   \* attempts that fit in the caller's time budget

ASSUME PidOfAssumption == PidOf \in [Callers -> Pids]
ASSUME NoCallerAssumption == NoCaller \notin Callers
ASSUME MaxAttemptsAssumption == MaxAttempts \in Nat \ {0}

VARIABLES
    file,      \* the lock file: who created it, its content, its age
    pc,        \* where each caller stands
    seen,      \* the lock file as a contender read it
    attempts,  \* attempts made in the current call
    dead,      \* processes that have crashed
    stolen     \* auxiliary: a live caller's lock was removed by a reclaimer

vars == <<file, pc, seen, attempts, dead, stolen>>

Absent == [st |-> "absent", by |-> NoCaller, old |-> FALSE]

LockFile == [st : {"absent", "empty", "full"},
             by : Callers \union {NoCaller},
             old : BOOLEAN]

PC == {"idle", "try", "created", "exists", "seen", "unlink", "miss", "hold",
       "dead"}

(***************************************************************************)
(* The staleness test: a parsable timestamp older than STALE_LOCK_MS and a *)
(* process that kill(pid, 0) no longer finds.  An empty file parses to NaN *)
(* and is never stale.                                                     *)
(***************************************************************************)
Stale(f) == f.st = "full" /\ f.old /\ PidOf[f.by] \in dead

\* Between its exclusive create and its release: the caller owns a lock.
Owns(c) == pc[c] \in {"created", "hold"}

Init ==
    /\ file = Absent
    /\ pc = [c \in Callers |-> "idle"]
    /\ seen = [c \in Callers |-> Absent]
    /\ attempts = [c \in Callers |-> 0]
    /\ dead = {}
    /\ stolen = FALSE

\* acquireFileLock is called; boundedRetry makes its first attempt at once.
Begin(c) ==
    /\ pc[c] = "idle"
    /\ pc' = [pc EXCEPT ![c] = "try"]
    /\ attempts' = [attempts EXCEPT ![c] = 1]
    /\ UNCHANGED <<file, seen, dead, stolen>>

\* Mutant: the file is created without the exclusive flag.
CreateWithoutExcl(c) ==
    /\ pc[c] = "try"
    /\ file' = [st |-> "empty", by |-> c, old |-> FALSE]
    /\ pc' = [pc EXCEPT ![c] = "created"]
    /\ UNCHANGED <<seen, attempts, dead, stolen>>

\* writeFile(.., {flag: "wx"}) opens the path exclusively: the file is there, still empty.
Create(c) ==
    /\ pc[c] = "try"
    /\ file = Absent
    /\ file' = [st |-> "empty", by |-> c, old |-> FALSE]
    /\ pc' = [pc EXCEPT ![c] = "created"]
    /\ UNCHANGED <<seen, attempts, dead, stolen>>

\* The same call fails with EEXIST.
CreateExists(c) ==
    /\ pc[c] = "try"
    /\ file # Absent
    /\ pc' = [pc EXCEPT ![c] = "exists"]
    /\ UNCHANGED <<file, seen, attempts, dead, stolen>>

\* It fails with anything else: the error is rethrown, nothing was created.
CreateThrows(c) ==
    /\ pc[c] = "try"
    /\ pc' = [pc EXCEPT ![c] = "idle"]
    /\ attempts' = [attempts EXCEPT ![c] = 0]
    /\ UNCHANGED <<file, seen, dead, stolen>>

(***************************************************************************)
(* The second half of writeFile puts pid and timestamp into the file that  *)
(* was opened: if the path was unlinked in between, the bytes go to a file *)
(* nobody can see.                                                         *)
(***************************************************************************)
WriteContent(c) ==
    /\ pc[c] = "created"
    /\ pc' = [pc EXCEPT ![c] = "hold"]
    /\ file' = IF file.by = c THEN [file EXCEPT !.st = "full"] ELSE file
    /\ attempts' = [attempts EXCEPT ![c] = 0]
    /\ UNCHANGED <<seen, dead, stolen>>

\* The write fails (a full disk): rethrown, and the empty file stays behind.
WriteThrows(c) ==
    /\ pc[c] = "created"
    /\ pc' = [pc EXCEPT ![c] = "idle"]
    /\ attempts' = [attempts EXCEPT ![c] = 0]
    /\ UNCHANGED <<file, seen, dead, stolen>>

\* readFile(lockPath); a file that has gone meanwhile makes the attempt a miss.
Inspect(c) ==
    /\ pc[c] = "exists"
    /\ seen' = [seen EXCEPT ![c] = file]
    /\ pc' = [pc EXCEPT ![c] = IF file = Absent THEN "miss" ELSE "seen"]
    /\ UNCHANGED <<file, attempts, dead, stolen>>

\* readFile fails although the file is there: "Can't read lock, try again".
InspectFails(c) ==
    /\ pc[c] = "exists"
    /\ pc' = [pc EXCEPT ![c] = "miss"]
    /\ UNCHANGED <<file, seen, attempts, dead, stolen>>

\* Mutant: the branch that removes a stale lock is missing.
JudgeNeverReclaims(c) ==
    /\ pc[c] = "seen"
    /\ pc' = [pc EXCEPT ![c] = "miss"]
    /\ seen' = [seen EXCEPT ![c] = Absent]
    /\ UNCHANGED <<file, attempts, dead, stolen>>

\* The content read is judged; process.kill(pid, 0) looks at the processes now.
Judge(c) ==
    /\ pc[c] = "seen"
    /\ pc' = [pc EXCEPT ![c] = IF Stale(seen[c]) THEN "unlink" ELSE "miss"]
    /\ seen' = [seen EXCEPT ![c] = IF Stale(seen[c]) THEN @ ELSE Absent]
    /\ UNCHANGED <<file, attempts, dead, stolen>>

\* unlink(lockPath) removes whatever is at the path by now.
Reclaim(c) ==
    /\ pc[c] = "unlink"
    /\ file' = Absent
    /\ pc' = [pc EXCEPT ![c] = "miss"]
    /\ seen' = [seen EXCEPT ![c] = Absent]
    /\ stolen' = (stolen \/ \E d \in Callers : file.by = d /\ Owns(d))
    /\ UNCHANGED <<attempts, dead>>

\* The unlink fails and is swallowed: the attempt is a miss, the file stays.
ReclaimFails(c) ==
    /\ pc[c] = "unlink"
    /\ pc' = [pc EXCEPT ![c] = "miss"]
    /\ seen' = [seen EXCEPT ![c] = Absent]
    /\ UNCHANGED <<file, attempts, dead, stolen>>

\* Mutant: the spent budget is not checked.
RetryPastBudget(c) ==
    /\ pc[c] = "miss"
    /\ attempts' = [attempts EXCEPT ![c] = @ + 1]
    /\ pc' = [pc EXCEPT ![c] = "try"]
    /\ UNCHANGED <<file, seen, dead, stolen>>

\* Mutant: attempts are not counted against the budget.
RetryUncounted(c) ==
    /\ pc[c] = "miss"
    /\ pc' = [pc EXCEPT ![c] = "try"]
    /\ UNCHANGED <<file, seen, attempts, dead, stolen>>

\* boundedRetry backs off and attempts again while the budget lasts ...
Retry(c) ==
    /\ pc[c] = "miss"
    /\ attempts[c] < MaxAttempts
    /\ attempts' = [attempts EXCEPT ![c] = @ + 1]
    /\ pc' = [pc EXCEPT ![c] = "try"]
    /\ UNCHANGED <<file, seen, dead, stolen>>

\* Mutant: the failing call cleans up "its" lock file.
GiveUpUnlinks(c) ==
    /\ pc[c] = "miss"
    /\ file' = Absent
    /\ pc' = [pc EXCEPT ![c] = "idle"]
    /\ attempts' = [attempts EXCEPT ![c] = 0]
    /\ UNCHANGED <<seen, dead, stolen>>

\* ... and gives up when it is spent: acquireFileLock throws.
GiveUp(c) ==
    /\ pc[c] = "miss"
    /\ pc' = [pc EXCEPT ![c] = "idle"]
    /\ attempts' = [attempts EXCEPT ![c] = 0]
    /\ UNCHANGED <<file, seen, dead, stolen>>

\* The closure returned on success: unlink(lockPath), errors ignored.
Release(c) ==
    /\ pc[c] = "hold"
    /\ file' = Absent
    /\ pc' = [pc EXCEPT ![c] = "idle"]
    /\ UNCHANGED <<seen, attempts, dead, stolen>>

\* The closure's unlink fails: "Ignore unlock errors", the file outlives its holder.
ReleaseFails(c) ==
    /\ pc[c] = "hold"
    /\ pc' = [pc EXCEPT ![c] = "idle"]
    /\ UNCHANGED <<file, seen, attempts, dead, stolen>>

\* Time passes: the timestamp of the lock is now more than STALE_LOCK_MS old.
Age ==
    /\ file # Absent
    /\ ~file.old
    /\ file' = [file EXCEPT !.old = TRUE]
    /\ UNCHANGED <<pc, seen, attempts, dead, stolen>>

\* A process dies with every call in it; its lock files stay on disk.
Crash(p) ==
    /\ p \notin dead
    /\ dead' = dead \union {p}
    /\ pc' = [c \in Callers |-> IF PidOf[c] = p THEN "dead" ELSE pc[c]]
    /\ seen' = [c \in Callers |-> IF PidOf[c] = p THEN Absent ELSE seen[c]]
    /\ attempts' = [c \in Callers |-> IF PidOf[c] = p THEN 0 ELSE attempts[c]]
    /\ UNCHANGED <<file, stolen>>

\* What a caller does on its own once it has been called, up to holding or failing.
Advance(c) ==
    \/ Create(c) \/ CreateExists(c) \/ CreateThrows(c)
    \/ WriteContent(c) \/ WriteThrows(c)
    \/ Inspect(c) \/ InspectFails(c) \/ Judge(c)
    \/ Reclaim(c) \/ ReclaimFails(c)
    \/ Retry(c) \/ GiveUp(c)

Next ==
    \/ \E c \in Callers : Begin(c) \/ Advance(c) \/ Release(c) \/ ReleaseFails(c)
    \/ Age
    \/ \E p \in Pids : Crash(p)

Spec == Init /\ [][Next]_vars

(***************************************************************************)
(* Every await of a live process is resumed by its event loop, so a call   *)
(* that was made keeps moving; nothing forces a call to be made.  A read   *)
(* or an unlink that is tried again and again does not fail every time.    *)
(***************************************************************************)
FairSpec ==
    /\ Spec
    /\ \A c \in Callers : /\ WF_vars(Advance(c))
                          /\ SF_vars(Inspect(c))
                          /\ SF_vars(Reclaim(c))

-----------------------------------------------------------------------------
TypeOK ==
    /\ file \in LockFile
    /\ pc \in [Callers -> PC]
    /\ seen \in [Callers -> LockFile]
    /\ attempts \in [Callers -> 0 .. MaxAttempts]
    /\ dead \subseteq Pids
    /\ stolen \in BOOLEAN

\* Mutual exclusion: no two callers hold the lock at the same time.
MutualExclusion ==
    \A c, d \in Callers : pc[c] = "hold" /\ pc[d] = "hold" => c = d

(***************************************************************************)
(* Two callers own the lock together only after a reclaimer has unlinked   *)
(* the lock of a live caller, and that takes a crashed process: without a  *)
(* crash the lock of fs.ts is a mutual-exclusion lock, however long it is  *)
(* held and however many callers, of however many processes, contend.      *)
(***************************************************************************)
ExclusiveUnlessStolen ==
    /\ ~stolen => \A c, d \in Callers : Owns(c) /\ Owns(d) => c = d
    /\ stolen => dead # {}

(***************************************************************************)
(* The release closure unlinks by path.  As long as nothing was stolen it  *)
(* removes the very file its own caller created.                           *)
(***************************************************************************)
ReleaseRemovesOwnLock ==
    [][\A c \in Callers :
          pc[c] = "hold" /\ pc'[c] = "idle" /\ ~stolen => file.by = c]_vars

(***************************************************************************)
(* acquireFileLock is the lock its callers take it for: only a free path   *)
(* is taken, a release frees the releaser's own lock, and what a reclaimer *)
(* unlinks is a lock left behind - until a live caller's lock is stolen.   *)
(***************************************************************************)
LockState ==
    IF file = Absent THEN "free"
    ELSE IF \E c \in Callers : file.by = c /\ Owns(c) THEN "held" ELSE "orphan"

Ideal == INSTANCE CrashLock WITH
    Users <- Callers, state <- LockState, inside <- {c \in Callers : Owns(c)},
    broken <- stolen

ImplementsCrashLock == Ideal!LockSpec

(***************************************************************************)
(* "The wait is always bounded": a call that was made ends, holding the    *)
(* lock or failing, unless its process dies; wherever it stands it comes   *)
(* out again.                                                              *)
(***************************************************************************)
AcquireEnds ==
    \A c \in Callers : []<>(pc[c] \in {"hold", "idle", "dead"})

(***************************************************************************)
(* Contenders that keep running into the path do not find the same         *)
(* complete, aged lock of a dead process there forever, although any one   *)
(* read or unlink may fail and every failure is swallowed.                 *)
(*                                                                         *)
(* This is "Stale locks (>30s) are automatically removed on the next       *)
(* acquire attempt" with its exception: Stale asks for a timestamp, so a   *)
(* lock whose creator died (or failed) before writing the content is not   *)
(* covered - see AbandonedLockIsReclaimed.                                 *)
(***************************************************************************)
StaleLockIsReclaimed ==
    []<>(\E c \in Callers : pc[c] = "exists") => []<>~Stale(file)

(***************************************************************************)
(* The comment taken at its word: any lock of a dead process that is older *)
(* than 30 s goes if contenders keep meeting it.  It does NOT hold:        *)
(* for a lock orphaned between its exclusive create and the write of its   *)
(* content every later acquisition times out (FileLockProofs proves that   *)
(* such a lock stays).                                                     *)
(***************************************************************************)
Abandoned(f) == f # Absent /\ f.old /\ PidOf[f.by] \in dead

AbandonedLockIsReclaimed ==
    []<>(\E c \in Callers : pc[c] = "exists") => []<>~Abandoned(file)
=============================================================================
