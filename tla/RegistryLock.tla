---------------------------- MODULE RegistryLock ----------------------------
(***************************************************************************)
(* The lock of the managed-instance registry: withLock of                  *)
(* src/packages/core/src/managed-instance-registry.ts.  Servers on one     *)
(* host share a directory of records, and each operation on it holds       *)
(* .lock, a directory with its owner's name in owner.json.                 *)
(*                                                                         *)
(* An operation calls withLock once.  Every file system call it awaits is  *)
(* a step of its own, and so is the time between two of them.  A process   *)
(* may crash and leave its lock behind; a waiter that finds the owner dead *)
(* reclaims the lock.  A call may fail, and most failures are swallowed:   *)
(* rm, half-way or at once, the write of owner.json, a stat, and the read  *)
(* of a release.  That a waiter cannot read an owner.json that is there is *)
(* left out; so a lock that is named is judged by its owner, and its age   *)
(* does not matter.                                                        *)
(*                                                                         *)
(* Of the stat of .lock, instance stands for the inode and touched for the *)
(* mtime, which changes when owner.json is made and when it is unlinked;   *)
(* stale says it is more than LOCK_STALE_MS ago.                           *)
(***************************************************************************)
EXTENDS Integers, FiniteSets

CONSTANTS
  Operations,       \* calls of withLock; each has a token of its own
  Processes,        \* servers, and their pids
  ProcessOf,        \* the process an operation runs in
  NoOwner,          \* owner.json is missing or cannot be read
  MaxInstances,     \* bound: how often .lock is made
  MayCrash,         \* processes that may crash
  MaySuspend,       \* a process may stop for longer than LOCK_STALE_MS
  MayFail           \* operations whose file-system calls may fail

ASSUME LockAssumption ==
  /\ ProcessOf \in [Operations -> Processes]
  /\ NoOwner \notin Operations
  /\ MayCrash \subseteq Processes /\ MayFail \subseteq Operations
  /\ MaxInstances \in Nat /\ MaySuspend \in BOOLEAN

VARIABLES
  pc,               \* where each operation is in withLock
  lock,             \* .lock
  seen,             \* stat and currentOwner of each operation
  active,           \* activeLockPaths of each process
  made,             \* instances of .lock so far
  dead,             \* processes that crashed
  failures          \* operations that failed to remove .lock; no state of the code

vars == <<pc, lock, seen, active, made, dead, failures>>

Steps == {"try", "name", "undo", "undoing", "stat", "read", "inspect", "confirm",
          "reread", "reclaim", "reclaiming", "critical", "check", "release", "releasing",
          "failed", "done"}

Touches == {"never", "named", "unnamed"}

Lock == [there : BOOLEAN, instance : 0 .. MaxInstances, touched : Touches,
         owner : Operations \cup {NoOwner}, stale : BOOLEAN]

NoLock ==
  [there |-> FALSE, instance |-> 0, touched |-> "never", owner |-> NoOwner, stale |-> FALSE]

\* same: the directory entry is still the one inspected (isInspectedLock).
Seen == [instance : 0 .. MaxInstances, touched : Touches,
         owner : Operations \cup {NoOwner}, stale : BOOLEAN, same : BOOLEAN]

NothingSeen ==
  [instance |-> 0, touched |-> "never", owner |-> NoOwner, stale |-> FALSE, same |-> FALSE]

Init ==
  /\ pc = [o \in Operations |-> "try"]
  /\ lock = NoLock
  /\ seen = [o \in Operations |-> NothingSeen]
  /\ active = [p \in Processes |-> FALSE]
  /\ made = 0
  /\ dead = {}
  /\ failures = {}

-----------------------------------------------------------------------------
At(o, step) == pc[o] = step /\ ProcessOf[o] \notin dead
Goto(o, step) == pc' = [pc EXCEPT ![o] = step]

\* activeLockTokens: the operations that made .lock and are not through with it.
Tokens ==
  {o \in Operations :
     pc[o] \in {"name", "critical", "check", "release", "releasing"}}

\* rm unlinks owner.json, then the directory, unless it has been named again.
Unlinks(o, from, to) ==
  /\ At(o, from)
  /\ lock' = IF lock.owner = NoOwner THEN lock
             ELSE [lock EXCEPT !.owner = NoOwner, !.touched = "unnamed", !.stale = FALSE]
  /\ Goto(o, to)
  /\ UNCHANGED <<seen, active, made, dead, failures>>

RemovesDirectory(o, from, to) ==
  /\ At(o, from)
  /\ lock' = IF lock.owner = NoOwner THEN NoLock ELSE lock
  /\ Goto(o, to)
  /\ UNCHANGED <<seen, made, dead, failures>>

\* A call of o fails at step from, and all it changes is where o goes on.
CallFails(o, from, to) ==
  /\ o \in MayFail /\ At(o, from)
  /\ Goto(o, to)
  /\ UNCHANGED <<lock, seen, made, dead>>

\* An operation that tries again forgets what it saw.
Forgets(o) == seen' = [seen EXCEPT ![o] = NothingSeen]

-----------------------------------------------------------------------------
(***************************************************************************)
(* Taking the lock.                                                        *)
(***************************************************************************)
MakesDirectory(o) ==
  /\ At(o, "try")
  /\ Forgets(o)
  /\ UNCHANGED <<dead, failures>>
  /\ \/ /\ ~lock.there /\ made < MaxInstances
        /\ made' = made + 1
        /\ lock' = [there |-> TRUE, instance |-> made', touched |-> "never",
                     owner |-> NoOwner, stale |-> FALSE]
        /\ active' = [active EXCEPT ![ProcessOf[o]] = TRUE]
        /\ Goto(o, "name")
     \/ /\ lock.there
        /\ Goto(o, "stat")
        /\ UNCHANGED <<lock, active, made>>

\* owner.json is written only where there is none (flag 'wx').
WritesOwner(o) ==
  /\ At(o, "name")
  /\ UNCHANGED <<seen, made, dead, failures>>
  /\ \/ /\ lock.there /\ lock.owner = NoOwner
        /\ lock' = [lock EXCEPT !.owner = o, !.touched = "named", !.stale = FALSE]
        /\ Goto(o, "critical")
        /\ UNCHANGED active
     \/ /\ ~lock.there \/ lock.owner # NoOwner
        /\ active' = [active EXCEPT ![ProcessOf[o]] = FALSE]
        /\ Goto(o, "undo")
        /\ UNCHANGED lock

\* owner.json could not be written, and there is none that can be read.
FailsToWriteOwner(o) ==
  /\ CallFails(o, "name", "undo")
  /\ active' = [active EXCEPT ![ProcessOf[o]] = FALSE]
  /\ UNCHANGED failures

\* A write that failed removes .lock, whose ever it is, and tries again until
\* the time is up.
Undoes(o) ==
  \/ Unlinks(o, "undo", "undoing")
  \/ /\ \E to \in {"try", "failed"} : RemovesDirectory(o, "undoing", to)
     /\ UNCHANGED active

\* The rm that undoes a write fails.
FailsToUndo(o) ==
  /\ \E from \in {"undo", "undoing"}, to \in {"try", "failed"} : CallFails(o, from, to)
  /\ failures' = failures \cup {o}
  /\ UNCHANGED active

-----------------------------------------------------------------------------
(***************************************************************************)
(* A lock that is there is inspected, and reclaimed if it is abandoned.    *)
(***************************************************************************)
Stats(o) ==
  /\ At(o, "stat")
  /\ IF lock.there
       THEN /\ seen' = [seen EXCEPT ![o] =
                 [instance |-> lock.instance, touched |-> lock.touched, owner |-> NoOwner,
                  stale |-> lock.stale, same |-> FALSE]]
            /\ Goto(o, "read")
       ELSE Goto(o, "try") /\ UNCHANGED seen
  /\ UNCHANGED <<lock, active, made, dead, failures>>

\* The owner's pid is kept for its token.
ReadsPid(o) ==
  /\ At(o, "read")
  /\ seen' = [seen EXCEPT ![o].owner =
                 IF lock.owner = NoOwner THEN NoOwner ELSE ProcessOf[lock.owner]]
  /\ Goto(o, "inspect")
  /\ UNCHANGED <<lock, active, made, dead, failures>>

ReadsOwner(o) ==
  /\ At(o, "read")
  /\ seen' = [seen EXCEPT ![o].owner = lock.owner]
  /\ Goto(o, "inspect")
  /\ UNCHANGED <<lock, active, made, dead, failures>>

\* An owner with the waiter's own pid is taken for one of an earlier process.
AbandonedByPid(o) ==
  LET p == ProcessOf[o]
      owner == seen[o].owner
  IN  IF owner # NoOwner THEN ProcessOf[owner] \in dead \cup {p}
                         ELSE ~active[p] /\ seen[o].stale

\* Its owner is gone, or it has none, and has had none for long.
Abandoned(o) ==
  LET p == ProcessOf[o]
      owner == seen[o].owner
  IN  IF owner # NoOwner
        THEN IF ProcessOf[owner] = p THEN owner \notin Tokens ELSE ProcessOf[owner] \in dead
        ELSE ~active[p] /\ seen[o].stale

\* A waiter that finds the lock held tries again, until its time is up.
Inspects(o) ==
  /\ At(o, "inspect")
  /\ \/ Abandoned(o) /\ Goto(o, "confirm")
     \/ ~Abandoned(o) /\ Goto(o, "try")
     \/ ~Abandoned(o) /\ Goto(o, "failed")
  /\ UNCHANGED <<lock, seen, active, made, dead, failures>>

\* isInspectedLock: the lock is still the one that was judged, first by its
\* directory entry, then by its owner.
Restats(o) ==
  /\ At(o, "confirm")
  /\ IF lock.there
       THEN /\ seen' = [seen EXCEPT ![o].same = /\ lock.instance = seen[o].instance
                                             /\ lock.touched = seen[o].touched]
            /\ Goto(o, "reread")
       ELSE Goto(o, "try") /\ UNCHANGED seen
  /\ UNCHANGED <<lock, active, made, dead, failures>>

Rereads(o) ==
  /\ At(o, "reread")
  /\ IF lock.owner = seen[o].owner /\ (lock.owner = NoOwner => seen[o].same)
       THEN Goto(o, "reclaim") ELSE Goto(o, "try")
  /\ UNCHANGED <<lock, seen, active, made, dead, failures>>

Reclaims(o) ==
  \/ Unlinks(o, "reclaim", "reclaiming")
  \/ RemovesDirectory(o, "reclaiming", "try") /\ UNCHANGED active

\* A waiter that cannot inspect or reclaim starts again, whatever the time.
FailsToInspect(o) ==
  /\ \E from \in {"stat", "confirm"} : CallFails(o, from, "try")
  /\ UNCHANGED <<active, failures>>

FailsToReclaim(o) ==
  /\ \E from \in {"reclaim", "reclaiming"} : CallFails(o, from, "try")
  /\ failures' = failures \cup {o}
  /\ UNCHANGED active

-----------------------------------------------------------------------------
(***************************************************************************)
(* The operation, and the end of it.                                       *)
(***************************************************************************)
Finishes(o) ==
  /\ At(o, "critical")
  /\ Goto(o, "check")
  /\ UNCHANGED <<lock, seen, active, made, dead, failures>>

\* Only a lock that still names the operation is removed.
ChecksOwner(o) ==
  /\ At(o, "check")
  /\ IF lock.there /\ lock.owner = o
       THEN Goto(o, "release") /\ UNCHANGED active
       ELSE Goto(o, "done") /\ active' = [active EXCEPT ![ProcessOf[o]] = FALSE]
  /\ UNCHANGED <<lock, seen, made, dead, failures>>

\* A release that leaves the directory.
ReleasesNameOnly(o) ==
  /\ At(o, "release")
  /\ lock' = [lock EXCEPT !.owner = NoOwner, !.touched = "unnamed"]
  /\ active' = [active EXCEPT ![ProcessOf[o]] = FALSE]
  /\ Goto(o, "done")
  /\ UNCHANGED <<seen, made, dead, failures>>

Releases(o) ==
  \/ Unlinks(o, "release", "releasing")
  \/ /\ RemovesDirectory(o, "releasing", "done")
     /\ active' = [active EXCEPT ![ProcessOf[o]] = FALSE]

\* A failure that keeps the path active.
FailsKeepingPath(o) ==
  /\ \E from \in {"check", "release", "releasing"} : CallFails(o, from, "done")
  /\ failures' = failures \cup {o}
  /\ UNCHANGED active

\* The failure is swallowed, and the token is dropped; .lock is there as it was,
\* or without its name.
FailsToRelease(o) ==
  /\ \E from \in {"check", "release", "releasing"} : CallFails(o, from, "done")
  /\ failures' = failures \cup {o}
  /\ active' = [active EXCEPT ![ProcessOf[o]] = FALSE]

-----------------------------------------------------------------------------
Crash(p) ==
  /\ p \in MayCrash \ dead
  /\ dead' = dead \cup {p}
  /\ UNCHANGED <<pc, lock, seen, active, made, failures>>

\* An unnamed lock is left for longer than LOCK_STALE_MS: its maker crashed,
\* or is suspended.
Ages ==
  /\ lock.there /\ lock.owner = NoOwner /\ ~lock.stale
  /\ MaySuspend \/ \A o \in Operations :
       pc[o] \in {"name", "undo", "undoing", "reclaiming", "releasing"} => ProcessOf[o] \in dead
  /\ lock' = [lock EXCEPT !.stale = TRUE]
  /\ UNCHANGED <<pc, seen, active, made, dead, failures>>

Next ==
  \/ \E o \in Operations :
       \/ MakesDirectory(o) \/ WritesOwner(o) \/ FailsToWriteOwner(o)
       \/ Undoes(o) \/ FailsToUndo(o)
       \/ Stats(o) \/ ReadsOwner(o) \/ Inspects(o) \/ Restats(o) \/ Rereads(o)
       \/ FailsToInspect(o)
       \/ Reclaims(o) \/ FailsToReclaim(o)
       \/ Finishes(o) \/ ChecksOwner(o) \/ Releases(o) \/ FailsToRelease(o)
  \/ \E p \in Processes : Crash(p)
  \/ Ages

Spec == Init /\ [][Next]_vars

-----------------------------------------------------------------------------
(***************************************************************************)
(* Properties.                                                             *)
(***************************************************************************)

\* The variables have the form the code gives them (withLock).
TypeOK ==
  /\ pc \in [Operations -> Steps]
  /\ lock \in Lock
  /\ seen \in [Operations -> Seen]
  /\ active \in [Processes -> BOOLEAN]
  /\ made \in 0 .. MaxInstances
  /\ dead \subseteq Processes
  /\ failures \subseteq Operations

\* No waiter ever judges the lock of a live operation abandoned, whatever crashed
\* or stood still (withLock: ownerIsActive).
LiveOwnerNotCondemned ==
  \A q \in Operations :
    pc[q] \in {"confirm", "reread", "reclaim", "reclaiming"} /\ seen[q].owner # NoOwner
      => ~At(seen[q].owner, "critical")

\* While an operation runs, .lock is there and names it: nobody reclaims the
\* lock of a live owner, and no release or failed attempt removes another's
\* (withLock, isInspectedLock).
HolderKeepsLock ==
  \A o \in Operations : At(o, "critical") => lock.there /\ lock.owner = o

\* Operations that ended leave no lock behind, unless a process crashed or a call
\* of one of them failed; a lock that is left names nobody but an operation of
\* such a process or with such a failure, and no live process still protects it
\* as its own, so that its waiters can reclaim it (the finally of withLock, and
\* the catch of its write).
NothingLeftBehind ==
  (\A o \in Operations : pc[o] \in {"done", "failed"} \/ ProcessOf[o] \in dead)
    => /\ lock.there => dead # {} \/ failures # {}
       /\ lock.owner # NoOwner =>
            ProcessOf[lock.owner] \in dead \/ lock.owner \in failures
       /\ \A p \in Processes \ dead : ~active[p]

\* Two operations never run at a time, whatever locks crashed servers left
\* (isInspectedLock: "Reclaim only the instance that was judged abandoned").
MutualExclusion ==
  \A o, q \in Operations : At(o, "critical") /\ At(q, "critical") => o = q
=============================================================================
