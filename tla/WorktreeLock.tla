---------------------------- MODULE WorktreeLock ----------------------------
(***************************************************************************)
(* The per-repository lock around git worktree add/remove:                 *)
(* acquireGitWorktreeFlock and releaseGitWorktreeFlock of                  *)
(* plugin/src/utils/git-worktree-flock.ts.                                 *)
(*                                                                         *)
(* The lock is a JSON record with pid and owner token, created exclusively *)
(* and filled by a second system call.  A contender that reads the record  *)
(* of a dead process renames the path aside, checks that it moved the      *)
(* record it read and creates its own; if it moved another one it renames  *)
(* that back.  An attempt is made once: there is no waiting.               *)
(*                                                                         *)
(* A caller is one call with its own owner token.  The callers in the      *)
(* repository pass no abort signal, so its branches are left out.          *)
(***************************************************************************)

CONSTANTS
    Callers,   \* calls of acquireGitWorktreeFlock, each with its token
    Pids,      \* operating-system processes
    PidOf,     \* the process each caller runs in
    NoCaller   \* "nobody": no record

ASSUME PidOfAssumption == PidOf \in [Callers -> Pids]
ASSUME NoCallerAssumption == NoCaller \notin Callers

VARIABLES
    rec,       \* the record at the lock path
    aside,     \* the record at each caller's reclaim path
    seen,      \* the owner token of the record each caller read
    pc,        \* where each caller stands
    dead,      \* processes that have crashed
    displaced  \* auxiliary: a record other than the one judged was moved aside

vars == <<rec, aside, seen, pc, dead, displaced>>

Absent == [by |-> NoCaller, full |-> FALSE]

Record == [by : Callers \union {NoCaller}, full : BOOLEAN]

PC == {"idle", "try", "created", "read", "judge", "rename", "check", "remove",
       "recreate", "recreated", "restore", "discard", "hold", "releasing",
       "contended", "released", "dead"}

\* Between its exclusive create and its release the caller owns the lock.
Owns(c) == pc[c] \in {"created", "recreated", "hold", "releasing"}

Goes(c, to) == pc' = [pc EXCEPT ![c] = to]

Init ==
    /\ rec = Absent
    /\ aside = [c \in Callers |-> Absent]
    /\ seen = [c \in Callers |-> NoCaller]
    /\ pc = [c \in Callers |-> "idle"]
    /\ dead = {}
    /\ displaced = FALSE

Begin(c) ==
    /\ pc[c] = "idle"
    /\ Goes(c, "try")
    /\ UNCHANGED <<rec, aside, seen, dead, displaced>>

\* Mutant: the record is created although there is one.
CreateAnyway(c) ==
    /\ pc[c] = "try"
    /\ rec' = [by |-> c, full |-> FALSE]
    /\ Goes(c, "created")
    /\ UNCHANGED <<aside, seen, dead, displaced>>

\* open(lockPath, "wx") succeeds: the file is there, still empty.
Create(c) ==
    /\ pc[c] = "try"
    /\ rec = Absent
    /\ rec' = [by |-> c, full |-> FALSE]
    /\ Goes(c, "created")
    /\ UNCHANGED <<aside, seen, dead, displaced>>

\* It fails: any error leads to reading what is there.
CreateFails(c) ==
    /\ pc[c] = "try"
    /\ Goes(c, "read")
    /\ UNCHANGED <<rec, aside, seen, dead, displaced>>

\* The record is written into the caller's own file, wherever that file is by now.
Filled(c) ==
    /\ rec' = IF rec.by = c THEN [rec EXCEPT !.full = TRUE] ELSE rec
    /\ aside' = [e \in Callers |->
                    IF aside[e].by = c THEN [aside[e] EXCEPT !.full = TRUE] ELSE aside[e]]

WriteRecord(c) ==
    /\ pc[c] \in {"created", "recreated"}
    /\ Filled(c)
    /\ Goes(c, "hold")
    /\ UNCHANGED <<seen, dead, displaced>>

\* The write fails, or the close after it (then the record is complete); the file stays.
\* The first attempt goes on to read the path.
WriteFails(c) ==
    /\ \/ pc[c] = "created" /\ Goes(c, "read")
       \/ pc[c] = "recreated" /\ Goes(c, "contended")
    /\ \/ UNCHANGED <<rec, aside>>
       \/ Filled(c)
    /\ UNCHANGED <<seen, dead, displaced>>

\* Mutant: a missing or an empty record counts as a dead one's.
ReadRecordUnparsed(c) ==
    /\ pc[c] = "read"
    /\ Goes(c, IF rec.full THEN "judge" ELSE "rename")
    /\ seen' = [seen EXCEPT ![c] = rec.by]
    /\ UNCHANGED <<rec, aside, dead, displaced>>

\* readFile and JSON.parse: no file or an empty one is reported as contention.
ReadRecord(c) ==
    /\ pc[c] = "read"
    /\ IF rec.full
       THEN Goes(c, "judge") /\ seen' = [seen EXCEPT ![c] = rec.by]
       ELSE Goes(c, "contended") /\ UNCHANGED seen
    /\ UNCHANGED <<rec, aside, dead, displaced>>

\* Mutant: whether the owner still runs is not asked.
JudgeAllDead(c) ==
    /\ pc[c] = "judge"
    /\ Goes(c, "rename")
    /\ UNCHANGED <<rec, aside, seen, dead, displaced>>

\* isProcessAlive of the pid that was read.
Judge(c) ==
    /\ pc[c] = "judge"
    /\ Goes(c, IF PidOf[seen[c]] \in dead THEN "rename" ELSE "contended")
    /\ UNCHANGED <<rec, aside, seen, dead, displaced>>

\* Mutant: the record is copied aside and stays at the path.
RenameCopies(c) ==
    /\ pc[c] = "rename"
    /\ rec # Absent
    /\ aside' = [aside EXCEPT ![c] = rec]
    /\ Goes(c, "check")
    /\ displaced' = (displaced \/ rec # [by |-> seen[c], full |-> TRUE])
    /\ UNCHANGED <<rec, seen, dead>>

\* rename(lockPath, reclaimPath) moves whatever is at the path by now.
Rename(c) ==
    /\ pc[c] = "rename"
    /\ rec # Absent
    /\ aside' = [aside EXCEPT ![c] = rec]
    /\ rec' = Absent
    /\ Goes(c, "check")
    /\ displaced' = (displaced \/ rec # [by |-> seen[c], full |-> TRUE])
    /\ UNCHANGED <<seen, dead>>

\* There is nothing to move: a peer was faster.
RenameFails(c) ==
    /\ pc[c] = "rename"
    /\ rec = Absent
    /\ Goes(c, "contended")
    /\ UNCHANGED <<rec, aside, seen, dead, displaced>>

\* The record moved aside is read: the one judged, another one, or not yet written.
Check(c) ==
    /\ pc[c] = "check"
    /\ Goes(c, CASE aside[c] = [by |-> seen[c], full |-> TRUE] -> "remove"
                 [] aside[c].full /\ aside[c].by # seen[c] -> "restore"
                 [] ~aside[c].full -> "discard")
    /\ UNCHANGED <<rec, aside, seen, dead, displaced>>

\* The reclaimed record is deleted ...
Remove(c) ==
    /\ pc[c] = "remove"
    /\ aside' = [aside EXCEPT ![c] = Absent]
    /\ Goes(c, "recreate")
    /\ UNCHANGED <<rec, seen, dead, displaced>>

\* ... and the own one created exclusively, unless a peer was faster.
Recreate(c) ==
    /\ pc[c] = "recreate"
    /\ IF rec = Absent
       THEN rec' = [by |-> c, full |-> FALSE] /\ Goes(c, "recreated")
       ELSE UNCHANGED rec /\ Goes(c, "contended")
    /\ UNCHANGED <<aside, seen, dead, displaced>>

\* rename(reclaimPath, lockPath) puts another's record back, over whatever is there.
Restore(c) ==
    /\ pc[c] = "restore"
    /\ rec' = aside[c]
    /\ aside' = [aside EXCEPT ![c] = Absent]
    /\ Goes(c, "contended")
    /\ UNCHANGED <<seen, dead, displaced>>

\* A record that does not parse is deleted with the reclaim path.
Discard(c) ==
    /\ pc[c] = "discard"
    /\ aside' = [aside EXCEPT ![c] = Absent]
    /\ Goes(c, "contended")
    /\ UNCHANGED <<rec, seen, dead, displaced>>

\* The file operation fails: what was moved aside stays there.
Swallow(c) ==
    /\ pc[c] \in {"remove", "restore", "discard"}
    /\ Goes(c, IF pc[c] = "remove" THEN "discard" ELSE "contended")
    /\ UNCHANGED <<rec, aside, seen, dead, displaced>>

\* releaseGitWorktreeFlock: the record is read and its token compared ...
ReleaseRead(c) ==
    /\ pc[c] = "hold"
    /\ Goes(c, IF rec = [by |-> c, full |-> TRUE] THEN "releasing" ELSE "released")
    /\ UNCHANGED <<rec, aside, seen, dead, displaced>>

\* ... then the path is removed.
ReleaseRemove(c) ==
    /\ pc[c] = "releasing"
    /\ rec' = Absent
    /\ Goes(c, "released")
    /\ UNCHANGED <<aside, seen, dead, displaced>>

\* A process dies with its calls; their files stay.
Crash(p) ==
    /\ p \notin dead
    /\ dead' = dead \union {p}
    /\ pc' = [c \in Callers |-> IF PidOf[c] = p THEN "dead" ELSE pc[c]]
    /\ UNCHANGED <<rec, aside, seen, displaced>>

Acquire(c) ==
    \/ Begin(c) \/ Create(c) \/ CreateFails(c) \/ WriteRecord(c) \/ WriteFails(c)
    \/ ReadRecord(c) \/ Judge(c) \/ Rename(c) \/ RenameFails(c) \/ Check(c)
    \/ Remove(c) \/ Recreate(c) \/ Restore(c) \/ Discard(c) \/ Swallow(c)

Next ==
    \/ \E c \in Callers : Acquire(c) \/ ReleaseRead(c) \/ ReleaseRemove(c)
    \/ \E p \in Pids : Crash(p)

Spec == Init /\ [][Next]_vars

-----------------------------------------------------------------------------
TypeOK ==
    /\ rec \in Record
    /\ aside \in [Callers -> Record]
    /\ seen \in [Callers -> Callers \union {NoCaller}]
    /\ pc \in [Callers -> PC]
    /\ dead \subseteq Pids
    /\ displaced \in BOOLEAN

(***************************************************************************)
(* "owned: true - proceed with git worktree add/remove": no two callers    *)
(* proceed together.                                                       *)
(***************************************************************************)
OneOwner == \A c, e \in Callers : pc[c] = "hold" /\ pc[e] = "hold" => c = e

(***************************************************************************)
(* Two callers own the lock together only after a reclaimer moved aside a  *)
(* record it had not judged, which takes a crashed process.                *)
(***************************************************************************)
ExclusiveUnlessDisplaced ==
    /\ ~displaced => \A c, e \in Callers : Owns(c) /\ Owns(e) => c = e
    /\ displaced => dead # {}

(***************************************************************************)
(* The release compares the token and then removes the path: without a     *)
(* displacement in between, what it removes is its own record.             *)
(***************************************************************************)
ReleaseRemovesOwnRecord ==
    [][\A c \in Callers :
          pc[c] = "releasing" /\ pc'[c] = "released" /\ ~displaced => rec.by = c]_vars

(***************************************************************************)
(* "Rename is the compare-and-reclaim boundary": of the contenders that    *)
(* read one dead record only one gets to replace it.                       *)
(***************************************************************************)
OneReclaimer ==
    ~displaced =>
        \A c, e \in Callers :
            /\ pc[c] \in {"remove", "recreate"}
            /\ pc[e] \in {"remove", "recreate"}
            /\ seen[c] = seen[e]
            => c = e

(***************************************************************************)
(* A record whose creator died before writing it names no process, so no   *)
(* later call replaces it, except one that is about to reclaim an earlier  *)
(* record: the repository stays locked.                                    *)
(***************************************************************************)
UnwrittenRecordBlocks ==
    [][/\ ~displaced
       /\ rec # Absent /\ ~rec.full
       /\ PidOf[rec.by] \in dead
       /\ \A c \in Callers : pc[c] = "rename" => seen[c] = rec.by
       => rec' = rec]_vars

(***************************************************************************)
(* acquireGitWorktreeFlock and releaseGitWorktreeFlock are the lock their  *)
(* callers take them for, rename or not: only a free path is taken, a      *)
(* release frees the releaser's own lock, and what is moved aside is a     *)
(* record left behind - until a record that was not judged is displaced.   *)
(***************************************************************************)
LockState ==
    IF rec = Absent THEN "free"
    ELSE IF \E c \in Callers : rec.by = c /\ Owns(c) THEN "held" ELSE "orphan"

Ideal == INSTANCE CrashLock WITH
    Users <- Callers, state <- LockState, inside <- {c \in Callers : Owns(c)},
    broken <- displaced

ImplementsCrashLock == Ideal!LockSpec
=============================================================================
