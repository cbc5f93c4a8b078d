------------------------- MODULE Registry_proofs --------------------------
(***************************************************************************)
(* The managed-instance registry: its lock, what the sweep of its records  *)
(* may conclude, and that they are right about the launches of two         *)
(* servers.  The three are proved one after the other and share nothing.   *)
(***************************************************************************)
EXTENDS RegistryLock, RegistrySweep, ManagedLaunch, FiniteSetTheorems, TLAPS

-----------------------------------------------------------------------------
(***************************************************************************)
(* The lock of the registry excludes as long as no process crashes, none   *)
(* stops for longer than LOCK_STALE_MS and no file-system call fails:      *)
(* whoever runs holds it.  The assumptions are needed: the run             *)
(* registry_reclaim shows two operations at a time after one crash, and a  *)
(* release that fails leaves a lock just as a crash does.                  *)
(*                                                                         *)
(* The argument is that no attempt ever reclaims.  A lock that names an    *)
(* operation is that operation's, and it is through with it before its     *)
(* token is; so a waiter that judges an owner gone has judged one that is  *)
(* done, which the second reading can never find again.  A lock without a  *)
(* name has a maker or a releaser at work on it, and so never goes stale.  *)
(*                                                                         *)
(* Two things hold whatever crashes, fails or stands still.  Nobody judges *)
(* the lock of a live operation abandoned: a lock names operations that    *)
(* run or ran, and one that has dropped its token, or is in a process that *)
(* died, never runs again.  And a lock that is left when all have ended is *)
(* there because of a crash or a failure: until then the operation it      *)
(* names holds it, or some operation is about to name it or to remove it.  *)
(***************************************************************************)
Naming == {"name", "releasing"}
Holding == {"critical", "check", "release"}

\* Nobody undoes or reclaims.
NoRemoval ==
  \A o \in Operations : pc[o] \notin {"undo", "undoing", "reclaim", "reclaiming"}

\* An operation that holds the lock is named by it, one that makes or releases
\* it has it unnamed, and there is only one of them.
Placed ==
  /\ \A o \in Operations : pc[o] \in Holding => lock.there /\ lock.owner = o
  /\ \A o \in Operations : pc[o] \in Naming => lock.there /\ lock.owner = NoOwner
  /\ \A o, q \in Operations :
       pc[o] \in Naming \cup Holding /\ pc[q] \in Naming \cup Holding => o = q

\* A lock is somebody's.
Owned ==
  /\ lock.owner # NoOwner => lock.owner \in Operations /\ pc[lock.owner] \in Holding
  /\ lock.there /\ lock.owner = NoOwner => \E o \in Operations : pc[o] \in Naming

\* What a waiter saw: an owner that holds the lock or did, and never a stale lock;
\* an owner judged gone is done.
Honest ==
  \A o \in Operations :
    /\ ~seen[o].stale
    /\ seen[o].owner # NoOwner =>
         /\ seen[o].owner \in Operations
         /\ pc[seen[o].owner] \in Holding \cup {"releasing", "done"}
    /\ pc[o] \in {"confirm", "reread"} =>
         seen[o].owner # NoOwner /\ pc[seen[o].owner] = "done"

NoFaults == MayCrash = {} /\ ~MaySuspend /\ MayFail = {}

Inv == TypeOK /\ dead = {} /\ ~lock.stale /\ NoRemoval /\ Placed /\ Owned /\ Honest

-----------------------------------------------------------------------------
\* The state keeps its form whatever crashes, fails or is suspended: the steps of
\* withLock, one by one.
THEOREM TypeStep == TypeOK /\ [Next]_vars => TypeOK'
<1> SUFFICES ASSUME TypeOK, [Next]_vars PROVE TypeOK'
  OBVIOUS
<1> USE LockAssumption DEF TypeOK
<1>1. ASSUME NEW o \in Operations, MakesDirectory(o) PROVE TypeOK'
  <2>1. pc' \in [Operations -> Steps]
    BY <1>1 DEF MakesDirectory, Goto, Steps
  <2>4. seen' \in [Operations -> Seen]
    <3>1. NothingSeen \in Seen
      BY DEF NothingSeen, Seen, Touches
    <3> QED
      BY <1>1, <3>1 DEF MakesDirectory, Forgets
  <2>2. CASE lock.there
    BY <1>1, <2>1, <2>2, <2>4 DEF MakesDirectory
  <2>3. CASE ~lock.there
    <3>1. made < MaxInstances /\ made' = made + 1
      BY <1>1, <2>3 DEF MakesDirectory
    <3>2. made' \in 0 .. MaxInstances
      BY <3>1
    <3>3. lock' \in Lock
      <4>1. lock' = [there |-> TRUE, instance |-> made', touched |-> "never",
                     owner |-> NoOwner, stale |-> FALSE]
        BY <1>1, <2>3 DEF MakesDirectory
      <4> QED
        BY <3>2, <4>1 DEF Lock, Touches
    <3>4. active' = [active EXCEPT ![ProcessOf[o]] = TRUE]
      BY <1>1, <2>3 DEF MakesDirectory
    <3> QED
      BY <1>1, <2>1, <2>4, <3>2, <3>3, <3>4 DEF MakesDirectory
  <2> QED
    BY <2>2, <2>3
<1>2. ASSUME NEW o \in Operations, WritesOwner(o) PROVE TypeOK'
  <2>1. pc' \in [Operations -> Steps]
    BY <1>2 DEF WritesOwner, Goto, Steps
  <2>2. CASE lock.there /\ lock.owner = NoOwner
    <3>1. lock' \in Lock
      BY <1>2, <2>2 DEF WritesOwner, Lock, Touches
    <3> QED
      BY <1>2, <2>1, <2>2, <3>1 DEF WritesOwner
  <2>3. CASE ~(lock.there /\ lock.owner = NoOwner)
    <3>1. active' = [active EXCEPT ![ProcessOf[o]] = FALSE] /\ lock' = lock
      BY <1>2, <2>3 DEF WritesOwner
    <3> QED
      BY <1>2, <2>1, <3>1 DEF WritesOwner
  <2> QED
    BY <2>2, <2>3
<1>3. ASSUME NEW o \in Operations, NEW from, NEW to \in Steps, Unlinks(o, from, to)
      PROVE TypeOK'
  <2>1. lock' \in Lock
    BY <1>3 DEF Unlinks, Lock, Touches
  <2> QED
    BY <1>3, <2>1 DEF Unlinks, Goto
<1>4. ASSUME NEW o \in Operations, NEW from, NEW to \in Steps, RemovesDirectory(o, from, to),
             active' \in [Processes -> BOOLEAN]
      PROVE TypeOK'
  <2>1. lock' \in Lock
    BY <1>4 DEF RemovesDirectory, Lock, NoLock, Touches
  <2>2. pc' \in [Operations -> Steps]
    BY <1>4 DEF RemovesDirectory, Goto
  <2> QED
    BY <1>4, <2>1, <2>2 DEF RemovesDirectory
<1>5. ASSUME NEW o \in Operations, Stats(o) PROVE TypeOK'
  <2>1. pc' \in [Operations -> Steps]
    BY <1>5 DEF Stats, Goto, Steps
  <2>2. [instance |-> lock.instance, touched |-> lock.touched, owner |-> NoOwner,
         stale |-> lock.stale, same |-> FALSE] \in Seen
    BY DEF Seen, Lock, Touches
  <2>3. seen' \in [Operations -> Seen]
    BY <1>5, <2>2 DEF Stats
  <2> QED
    BY <1>5, <2>1, <2>3 DEF Stats
<1>6. ASSUME NEW o \in Operations, ReadsOwner(o) PROVE TypeOK'
  <2>1. [seen[o] EXCEPT !.owner = lock.owner] \in Seen
    BY DEF Seen, Lock, Touches
  <2>2. seen' \in [Operations -> Seen]
    BY <1>6, <2>1 DEF ReadsOwner
  <2> QED
    BY <1>6, <2>2 DEF ReadsOwner, Goto, Steps
<1>7. ASSUME NEW o \in Operations, Inspects(o) PROVE TypeOK'
  BY <1>7 DEF Inspects, Goto, Steps
<1>8. ASSUME NEW o \in Operations, Restats(o) PROVE TypeOK'
  <2>1. \A v \in BOOLEAN : [seen[o] EXCEPT !.same = v] \in Seen
    BY DEF Seen
  <2>2. seen' \in [Operations -> Seen]
    BY <1>8, <2>1 DEF Restats
  <2>3. pc' \in [Operations -> Steps]
    BY <1>8 DEF Restats, Goto, Steps
  <2> QED
    BY <1>8, <2>2, <2>3 DEF Restats
<1>9. ASSUME NEW o \in Operations, Rereads(o) PROVE TypeOK'
  BY <1>9 DEF Rereads, Goto, Steps
<1>10. ASSUME NEW o \in Operations, Undoes(o) \/ Reclaims(o) \/ Releases(o) PROVE TypeOK'
  <2>1. active' \in [Processes -> BOOLEAN]
    BY <1>10 DEF Undoes, Reclaims, Releases, Unlinks, RemovesDirectory
  <2> QED
    BY <1>3, <1>4, <1>10, <2>1 DEF Undoes, Reclaims, Releases, Steps
<1>11. ASSUME NEW o \in Operations, Finishes(o) \/ ChecksOwner(o) PROVE TypeOK'
  BY <1>11 DEF Finishes, ChecksOwner, Goto, Steps
<1>15. ASSUME NEW o \in Operations, NEW from, NEW to \in Steps, CallFails(o, from, to),
              active' \in [Processes -> BOOLEAN], failures' \subseteq Operations
       PROVE TypeOK'
  BY <1>15 DEF CallFails, Goto
<1>16. ASSUME NEW o \in Operations,
              \/ FailsToWriteOwner(o) \/ FailsToUndo(o) \/ FailsToInspect(o)
              \/ FailsToReclaim(o) \/ FailsToRelease(o)
       PROVE TypeOK'
  <2>1. /\ active' \in [Processes -> BOOLEAN]
        /\ failures' \subseteq Operations
    BY <1>16 DEF FailsToWriteOwner, FailsToUndo, FailsToInspect, FailsToReclaim, FailsToRelease
  <2> QED
    BY <1>15, <1>16, <2>1 DEF FailsToWriteOwner, FailsToUndo, FailsToInspect, FailsToReclaim,
       FailsToRelease, Steps
<1>12. ASSUME NEW p \in Processes, Crash(p) PROVE TypeOK'
  BY <1>12 DEF Crash
<1>13. CASE Ages
  BY <1>13 DEF Ages, Lock, Touches
<1>14. CASE UNCHANGED vars
  BY <1>14 DEF vars
<1> QED
  BY <1>1, <1>2, <1>5, <1>6, <1>7, <1>8, <1>9, <1>10, <1>11, <1>12, <1>13, <1>14, <1>16
     DEF Next

\* The state keeps the form the code gives it (withLock).
THEOREM LockTypeCorrect == Spec => []TypeOK
<1>1. Init => TypeOK
  BY LockAssumption DEF Init, TypeOK, Steps, Lock, NoLock, Touches, Seen, NothingSeen
<1> QED
  BY <1>1, TypeStep, PTL DEF Spec

-----------------------------------------------------------------------------
\* Without faults, every step of withLock keeps the invariant.
THEOREM InvStep == NoFaults /\ Inv /\ [Next]_vars => Inv'
<1> SUFFICES ASSUME NoFaults, Inv, [Next]_vars PROVE Inv'
  OBVIOUS
<1> USE LockAssumption
<1>0. TypeOK /\ TypeOK'
  BY TypeStep DEF Inv
<1>a. pc \in [Operations -> Steps] /\ seen \in [Operations -> Seen] /\ dead = {} /\ ~lock.stale
  BY DEF Inv, TypeOK
<1>b. NoRemoval /\ Placed /\ Owned /\ Honest
  BY DEF Inv
<1>1. ASSUME NEW o \in Operations, MakesDirectory(o) PROVE Inv'
  <2>1. CASE lock.there
    <3>1. /\ pc[o] = "try" /\ pc' = [pc EXCEPT ![o] = "stat"]
          /\ lock' = lock /\ seen' = [seen EXCEPT ![o] = NothingSeen] /\ dead' = dead
      BY <1>1, <2>1 DEF MakesDirectory, At, Goto, Forgets
    <3>2. NoRemoval' /\ Placed' /\ Owned'
      BY <1>a, <1>b, <3>1 DEF NoRemoval, Placed, Owned, Naming, Holding
    <3>3. Honest'
      BY <1>a, <1>b, <3>1 DEF Honest, Holding, NothingSeen
    <3> QED
      BY <1>0, <1>a, <3>1, <3>2, <3>3 DEF Inv
  <2>2. CASE ~lock.there
    <3>1. /\ pc[o] = "try" /\ pc' = [pc EXCEPT ![o] = "name"]
          /\ lock'.there /\ lock'.owner = NoOwner /\ ~lock'.stale
          /\ seen' = [seen EXCEPT ![o] = NothingSeen] /\ dead' = dead
      BY <1>1, <2>2 DEF MakesDirectory, At, Goto, Forgets
    <3>2. \A q \in Operations : pc[q] \notin Naming \cup Holding
      BY <1>b, <2>2 DEF Placed
    <3>3. NoRemoval' /\ Placed' /\ Owned'
      BY <1>a, <1>b, <3>1, <3>2 DEF NoRemoval, Placed, Owned, Naming, Holding
    <3>4. Honest'
      BY <1>a, <1>b, <3>1 DEF Honest, Holding, NothingSeen
    <3> QED
      BY <1>0, <1>a, <3>1, <3>3, <3>4 DEF Inv
  <2> QED
    BY <2>1, <2>2
<1>2. ASSUME NEW o \in Operations, WritesOwner(o) PROVE Inv'
  <2>1. lock.there /\ lock.owner = NoOwner /\ pc[o] = "name"
    BY <1>2, <1>b DEF WritesOwner, At, Placed, Naming
  <2>2. /\ pc' = [pc EXCEPT ![o] = "critical"]
        /\ lock' = [lock EXCEPT !.owner = o, !.touched = "named", !.stale = FALSE]
        /\ seen' = seen /\ dead' = dead
    BY <1>2, <2>1 DEF WritesOwner, Goto
  <2>3. lock'.there /\ lock'.owner = o /\ ~lock'.stale
    BY <1>0, <2>1, <2>2 DEF TypeOK, Lock
  <2>4. \A q \in Operations : pc[q] \in Naming \cup Holding => q = o
    BY <1>b, <2>1 DEF Placed, Naming
  <2>5. NoRemoval' /\ Placed' /\ Owned'
    BY <1>a, <1>b, <2>2, <2>3, <2>4 DEF NoRemoval, Placed, Owned, Naming, Holding
  <2>6. Honest'
    BY <1>a, <1>b, <2>1, <2>2 DEF Honest, Holding
  <2> QED
    BY <1>0, <1>a, <2>2, <2>3, <2>5, <2>6 DEF Inv
<1>3. ASSUME NEW o \in Operations, Undoes(o) \/ Reclaims(o) PROVE Inv'
  BY <1>3, <1>b DEF Undoes, Reclaims, Unlinks, RemovesDirectory, At, NoRemoval
<1>4. ASSUME NEW o \in Operations, Stats(o) PROVE Inv'
  <2>1. pc[o] = "stat" /\ lock' = lock /\ dead' = dead
    BY <1>4 DEF Stats, At
  <2>2. pc' = [pc EXCEPT ![o] = "read"] \/ pc' = [pc EXCEPT ![o] = "try"]
    BY <1>4 DEF Stats, Goto
  <2>3. NoRemoval' /\ Placed' /\ Owned'
    BY <1>a, <1>b, <2>1, <2>2 DEF NoRemoval, Placed, Owned, Naming, Holding
  <2>4. \A q \in Operations : q # o => seen'[q] = seen[q]
    BY <1>a, <1>4 DEF Stats
  <2>5. seen'[o] = seen[o] \/ (seen'[o].owner = NoOwner /\ ~seen'[o].stale)
    <3>1. CASE lock.there
      <4> DEFINE found == [instance |-> lock.instance, touched |-> lock.touched,
                         owner |-> NoOwner, stale |-> lock.stale, same |-> FALSE]
      <4>1. seen'[o] = found
        BY <1>a, <1>4, <3>1 DEF Stats
      <4>2. found.owner = NoOwner /\ found.stale = lock.stale
        OBVIOUS
      <4> HIDE DEF found
      <4> QED
        BY <1>a, <4>1, <4>2
    <3>2. CASE ~lock.there
      BY <1>4, <3>2 DEF Stats
    <3> QED
      BY <3>1, <3>2
  <2>6. Honest'
    <3> SUFFICES ASSUME NEW q \in Operations
                 PROVE /\ ~seen'[q].stale
                       /\ seen'[q].owner # NoOwner =>
                            /\ seen'[q].owner \in Operations
                            /\ pc'[seen'[q].owner] \in Holding \cup {"releasing", "done"}
                       /\ pc'[q] \in {"confirm", "reread"} =>
                            seen'[q].owner # NoOwner /\ pc'[seen'[q].owner] = "done"
      BY DEF Honest
    <3> QED
      BY <1>a, <1>b, <2>1, <2>2, <2>4, <2>5 DEF Honest, Holding
  <2> QED
    BY <1>0, <1>a, <2>1, <2>3, <2>6 DEF Inv
<1>5. ASSUME NEW o \in Operations, ReadsOwner(o) PROVE Inv'
  <2>1. /\ pc[o] = "read" /\ pc' = [pc EXCEPT ![o] = "inspect"]
        /\ lock' = lock /\ dead' = dead
        /\ seen' = [seen EXCEPT ![o].owner = lock.owner]
    BY <1>5 DEF ReadsOwner, At, Goto
  <2>2. NoRemoval' /\ Placed' /\ Owned'
    BY <1>a, <1>b, <2>1 DEF NoRemoval, Placed, Owned, Naming, Holding
  <2>3. \A q \in Operations : q # o => seen'[q] = seen[q]
    BY <1>a, <2>1
  <2>4. seen'[o].owner = lock.owner /\ seen'[o].stale = seen[o].stale
    BY <1>a, <2>1 DEF Seen
  <2>5. Honest'
    <3> SUFFICES ASSUME NEW q \in Operations
                 PROVE /\ ~seen'[q].stale
                       /\ seen'[q].owner # NoOwner =>
                            /\ seen'[q].owner \in Operations
                            /\ pc'[seen'[q].owner] \in Holding \cup {"releasing", "done"}
                       /\ pc'[q] \in {"confirm", "reread"} =>
                            seen'[q].owner # NoOwner /\ pc'[seen'[q].owner] = "done"
      BY DEF Honest
    <3>1. CASE q = o
      BY <1>a, <1>b, <2>1, <2>4, <3>1 DEF Honest, Owned, Holding
    <3>2. CASE q # o
      BY <1>a, <1>b, <2>1, <2>3, <3>2 DEF Honest, Holding
    <3> QED
      BY <3>1, <3>2
  <2> QED
    BY <1>0, <1>a, <2>1, <2>2, <2>5 DEF Inv
<1>6. ASSUME NEW o \in Operations, Inspects(o) PROVE Inv'
  <2>1. pc[o] = "inspect" /\ lock' = lock /\ dead' = dead /\ seen' = seen
    BY <1>6 DEF Inspects, At
  <2>2. \/ Abandoned(o) /\ pc' = [pc EXCEPT ![o] = "confirm"]
        \/ pc' = [pc EXCEPT ![o] = "try"]
        \/ pc' = [pc EXCEPT ![o] = "failed"]
    BY <1>6 DEF Inspects, Goto
  <2>3. NoRemoval' /\ Placed' /\ Owned'
    BY <1>a, <1>b, <2>1, <2>2 DEF NoRemoval, Placed, Owned, Naming, Holding
  <2>4. Abandoned(o) => seen[o].owner # NoOwner /\ pc[seen[o].owner] = "done"
    <3>1. ~seen[o].stale
      BY <1>b DEF Honest
    <3>2. seen[o].owner # NoOwner =>
            /\ seen[o].owner \in Operations
            /\ pc[seen[o].owner] \in Holding \cup {"releasing", "done"}
      BY <1>b DEF Honest
    <3> QED
      BY <1>a, <3>1, <3>2 DEF Abandoned, Tokens, Holding
  <2>5. Honest'
    BY <1>a, <1>b, <2>1, <2>2, <2>4 DEF Honest, Holding
  <2> QED
    BY <1>0, <1>a, <2>1, <2>3, <2>5 DEF Inv
<1>7. ASSUME NEW o \in Operations, Restats(o) PROVE Inv'
  <2>1. pc[o] = "confirm" /\ lock' = lock /\ dead' = dead
    BY <1>7 DEF Restats, At
  <2>2. pc' = [pc EXCEPT ![o] = "reread"] \/ pc' = [pc EXCEPT ![o] = "try"]
    BY <1>7 DEF Restats, Goto
  <2>3. NoRemoval' /\ Placed' /\ Owned'
    BY <1>a, <1>b, <2>1, <2>2 DEF NoRemoval, Placed, Owned, Naming, Holding
  <2>4. \A q \in Operations : seen'[q].owner = seen[q].owner /\ seen'[q].stale = seen[q].stale
    BY <1>a, <1>7 DEF Restats, Seen
  <2>5. Honest'
    BY <1>a, <1>b, <2>1, <2>2, <2>4 DEF Honest, Holding
  <2> QED
    BY <1>0, <1>a, <2>1, <2>3, <2>5 DEF Inv
\* The owner judged gone is done; whoever names the lock now is not.
<1>8. ASSUME NEW o \in Operations, Rereads(o) PROVE Inv'
  <2>1. pc[o] = "reread" /\ lock' = lock /\ dead' = dead /\ seen' = seen
    BY <1>8 DEF Rereads, At
  <2>2. lock.owner # seen[o].owner
    BY <1>b, <2>1 DEF Honest, Owned, Holding
  <2>3. pc' = [pc EXCEPT ![o] = "try"]
    BY <1>8, <2>2 DEF Rereads, Goto
  <2>4. NoRemoval' /\ Placed' /\ Owned'
    BY <1>a, <1>b, <2>1, <2>3 DEF NoRemoval, Placed, Owned, Naming, Holding
  <2>5. Honest'
    BY <1>a, <1>b, <2>1, <2>3 DEF Honest, Holding
  <2> QED
    BY <1>0, <1>a, <2>1, <2>4, <2>5 DEF Inv
<1>9. ASSUME NEW o \in Operations, Finishes(o) \/ ChecksOwner(o) PROVE Inv'
  <2>1. /\ lock' = lock /\ dead' = dead /\ seen' = seen
        /\ \/ pc[o] = "critical" /\ pc' = [pc EXCEPT ![o] = "check"]
           \/ pc[o] = "check" /\ pc' = [pc EXCEPT ![o] = "release"]
    <3>1. pc[o] = "check" => lock.there /\ lock.owner = o
      BY <1>b DEF Placed, Holding
    <3> QED
      BY <1>9, <3>1 DEF Finishes, ChecksOwner, At, Goto
  <2>2. NoRemoval' /\ Placed' /\ Owned'
    BY <1>a, <1>b, <2>1 DEF NoRemoval, Placed, Owned, Naming, Holding
  <2>3. Honest'
    BY <1>a, <1>b, <2>1 DEF Honest, Holding
  <2> QED
    BY <1>0, <1>a, <2>1, <2>2, <2>3 DEF Inv
<1>10. ASSUME NEW o \in Operations, Unlinks(o, "release", "releasing") PROVE Inv'
  <2>1. pc[o] = "release" /\ lock.there /\ lock.owner = o /\ o # NoOwner
    BY <1>10, <1>b DEF Unlinks, At, Placed, Holding
  <2>2. /\ pc' = [pc EXCEPT ![o] = "releasing"] /\ seen' = seen /\ dead' = dead
        /\ lock' = [lock EXCEPT !.owner = NoOwner, !.touched = "unnamed", !.stale = FALSE]
    BY <1>10, <2>1 DEF Unlinks, Goto
  <2>3. lock'.there /\ lock'.owner = NoOwner /\ ~lock'.stale
    BY <1>0, <2>1, <2>2 DEF TypeOK, Lock
  <2>4. \A q \in Operations : pc[q] \in Naming \cup Holding => q = o
    BY <1>b, <2>1 DEF Placed, Holding
  <2>5. NoRemoval' /\ Placed' /\ Owned'
    BY <1>a, <1>b, <2>1, <2>2, <2>3, <2>4 DEF NoRemoval, Placed, Owned, Naming, Holding
  <2>6. Honest'
    BY <1>a, <1>b, <2>1, <2>2 DEF Honest, Holding
  <2> QED
    BY <1>0, <1>a, <2>2, <2>3, <2>5, <2>6 DEF Inv
<1>11. ASSUME NEW o \in Operations, RemovesDirectory(o, "releasing", "done") PROVE Inv'
  <2>1. pc[o] = "releasing" /\ lock.there /\ lock.owner = NoOwner
    BY <1>11, <1>b DEF RemovesDirectory, At, Placed, Naming
  <2>2. /\ pc' = [pc EXCEPT ![o] = "done"] /\ seen' = seen /\ dead' = dead
        /\ ~lock'.there /\ lock'.owner = NoOwner /\ ~lock'.stale
    BY <1>11, <2>1 DEF RemovesDirectory, Goto, NoLock
  <2>3. \A q \in Operations : pc[q] \in Naming \cup Holding => q = o
    BY <1>b, <2>1 DEF Placed, Naming
  <2>4. NoRemoval' /\ Placed' /\ Owned'
    BY <1>a, <1>b, <2>1, <2>2, <2>3 DEF NoRemoval, Placed, Owned, Naming, Holding
  <2>5. Honest'
    BY <1>a, <1>b, <2>1, <2>2 DEF Honest, Holding
  <2> QED
    BY <1>0, <1>a, <2>2, <2>4, <2>5 DEF Inv
<1>12. ASSUME NEW p \in Processes, Crash(p) PROVE Inv'
  BY <1>12 DEF Crash, NoFaults
<1>15. ASSUME NEW o \in Operations,
              \/ FailsToWriteOwner(o) \/ FailsToUndo(o) \/ FailsToInspect(o)
              \/ FailsToReclaim(o) \/ FailsToRelease(o)
       PROVE Inv'
  BY <1>15 DEF FailsToWriteOwner, FailsToUndo, FailsToInspect, FailsToReclaim, FailsToRelease,
     CallFails, NoFaults
\* A lock without a name has somebody at work on it.
<1>13. CASE Ages
  <2>1. \E o \in Operations : pc[o] \in Naming
    BY <1>13, <1>b DEF Ages, Owned
  <2> QED
    BY <1>13, <1>a, <2>1 DEF Ages, NoFaults, Naming
<1>14. CASE UNCHANGED vars
  BY <1>14, <1>0 DEF vars, Inv, NoRemoval, Placed, Owned, Honest
<1> QED
  BY <1>1, <1>2, <1>3, <1>4, <1>5, <1>6, <1>7, <1>8, <1>9, <1>10, <1>11, <1>12, <1>13, <1>14,
     <1>15 DEF Next, Releases

THEOREM InvHolds == NoFaults => (Spec => []Inv)
<1> SUFFICES ASSUME NoFaults PROVE Spec => []Inv
  OBVIOUS
<1>1. Init => Inv
  <2> SUFFICES ASSUME Init PROVE Inv
    OBVIOUS
  <2>1. TypeOK
    BY LockAssumption DEF Init, TypeOK, Steps, Lock, NoLock, Touches, Seen, NothingSeen
  <2> QED
    BY <2>1 DEF Init, NoLock, NothingSeen, Inv, NoRemoval, Placed, Owned, Honest, Naming, Holding
<1>2. Inv /\ [Next]_vars => Inv'
  BY InvStep
<1> QED
  BY <1>1, <1>2, PTL DEF Spec

\* Without faults nobody loses the lock it runs under (withLock, isInspectedLock).
THEOREM HolderIsSafe == NoFaults => (Spec => []HolderKeepsLock)
<1>1. Inv => HolderKeepsLock
  BY DEF Inv, Placed, Holding, HolderKeepsLock, At
<1> QED
  BY <1>1, InvHolds, PTL

\* Without faults two operations never run at a time (withLock).
THEOREM LockExcludes == NoFaults => (Spec => []MutualExclusion)
<1>1. Inv => MutualExclusion
  BY DEF Inv, Placed, Holding, MutualExclusion, At
<1> QED
  BY <1>1, InvHolds, PTL

-----------------------------------------------------------------------------
Ran == {"critical", "check", "release", "releasing", "done"}

\* A lock names an operation that has taken it, and so does what a waiter read.
Named ==
  /\ lock.owner # NoOwner => pc[lock.owner] \in Ran
  /\ \A q \in Operations : seen[q].owner # NoOwner => pc[seen[q].owner] \in Ran

\* An owner judged gone is done, or its process is dead.
Condemned ==
  \A q \in Operations :
    pc[q] \in {"confirm", "reread", "reclaim", "reclaiming"} /\ seen[q].owner # NoOwner
      => pc[seen[q].owner] = "done" \/ ProcessOf[seen[q].owner] \in dead

NobodyCondemned == TypeOK /\ Named /\ Condemned

\* Every step of withLock, crash and suspension keeps owners named and judged so.
THEOREM NobodyCondemnedStep == NobodyCondemned /\ [Next]_vars => NobodyCondemned'
<1> SUFFICES ASSUME NobodyCondemned, [Next]_vars PROVE NobodyCondemned'
  OBVIOUS
<1> USE LockAssumption
<1>0. TypeOK /\ TypeOK'
  BY TypeStep DEF NobodyCondemned
<1>a. /\ pc \in [Operations -> Steps] /\ seen \in [Operations -> Seen] /\ lock \in Lock
      /\ \A q \in Operations : seen[q].owner \in Operations \cup {NoOwner}
      /\ lock.owner \in Operations \cup {NoOwner}
  BY <1>0 DEF TypeOK, Seen, Lock
<1>b. Named /\ Condemned
  BY DEF NobodyCondemned
<1>1. ASSUME NEW o \in Operations, MakesDirectory(o) PROVE NobodyCondemned'
  <2>1. /\ pc[o] = "try" /\ dead' = dead
        /\ pc' = [pc EXCEPT ![o] = "name"] \/ pc' = [pc EXCEPT ![o] = "stat"]
        /\ lock'.owner \in {lock.owner, NoOwner}
    BY <1>1 DEF MakesDirectory, At, Goto
  <2>3. \A q \in Operations : seen'[q].owner \in {seen[q].owner, NoOwner}
    BY <1>a, <1>1 DEF MakesDirectory, Forgets, NothingSeen
  <2>2. Named' /\ Condemned'
    BY <1>a, <1>b, <2>1, <2>3 DEF Named, Condemned, Ran
  <2> QED
    BY <1>0, <2>2 DEF NobodyCondemned
<1>2. ASSUME NEW o \in Operations, WritesOwner(o) PROVE NobodyCondemned'
  <2>1. /\ pc[o] = "name" /\ seen' = seen /\ dead' = dead
        /\ \/ pc' = [pc EXCEPT ![o] = "critical"] /\ lock'.owner = o
           \/ pc' = [pc EXCEPT ![o] = "undo"] /\ lock'.owner = lock.owner
    BY <1>2, <1>a DEF WritesOwner, At, Goto, Lock
  <2>2. Named' /\ Condemned'
    BY <1>a, <1>b, <2>1 DEF Named, Condemned, Ran
  <2> QED
    BY <1>0, <2>2 DEF NobodyCondemned
<1>3. ASSUME NEW o \in Operations, NEW from, NEW to,
             <<from, to>> \in {<<"undo", "undoing">>, <<"reclaim", "reclaiming">>,
                               <<"release", "releasing">>},
             Unlinks(o, from, to)
      PROVE NobodyCondemned'
  <2>1. /\ \/ pc[o] = "undo" /\ pc' = [pc EXCEPT ![o] = "undoing"]
           \/ pc[o] = "reclaim" /\ pc' = [pc EXCEPT ![o] = "reclaiming"]
           \/ pc[o] = "release" /\ pc' = [pc EXCEPT ![o] = "releasing"]
        /\ seen' = seen /\ dead' = dead
        /\ lock'.owner = NoOwner
    BY <1>3, <1>a DEF Unlinks, At, Goto, Lock
  <2>2. Named' /\ Condemned'
    BY <1>a, <1>b, <2>1 DEF Named, Condemned, Ran
  <2> QED
    BY <1>0, <2>2 DEF NobodyCondemned
<1>4. ASSUME NEW o \in Operations, NEW from, NEW to,
             <<from, to>> \in {<<"undoing", "try">>, <<"undoing", "failed">>,
                               <<"reclaiming", "try">>, <<"releasing", "done">>},
             RemovesDirectory(o, from, to)
      PROVE NobodyCondemned'
  <2>1. /\ \/ /\ pc[o] \in {"undoing", "reclaiming"}
              /\ pc' = [pc EXCEPT ![o] = "try"] \/ pc' = [pc EXCEPT ![o] = "failed"]
           \/ pc[o] = "releasing" /\ pc' = [pc EXCEPT ![o] = "done"]
        /\ seen' = seen /\ dead' = dead
        /\ lock'.owner \in {lock.owner, NoOwner}
    BY <1>4 DEF RemovesDirectory, At, Goto, NoLock
  <2>2. Named' /\ Condemned'
    BY <1>a, <1>b, <2>1 DEF Named, Condemned, Ran
  <2> QED
    BY <1>0, <2>2 DEF NobodyCondemned
<1>5. ASSUME NEW o \in Operations, Stats(o) PROVE NobodyCondemned'
  <2>1. /\ pc[o] = "stat" /\ lock' = lock /\ dead' = dead
        /\ pc' = [pc EXCEPT ![o] = "read"] \/ pc' = [pc EXCEPT ![o] = "try"]
    BY <1>5 DEF Stats, At, Goto
  <2>2. \A q \in Operations : seen'[q].owner \in {seen[q].owner, NoOwner}
    BY <1>a, <1>5 DEF Stats, Seen
  <2>3. Named' /\ Condemned'
    BY <1>a, <1>b, <2>1, <2>2 DEF Named, Condemned, Ran
  <2> QED
    BY <1>0, <2>3 DEF NobodyCondemned
<1>6. ASSUME NEW o \in Operations, ReadsOwner(o) PROVE NobodyCondemned'
  <2>1. pc[o] = "read" /\ lock' = lock /\ dead' = dead /\ pc' = [pc EXCEPT ![o] = "inspect"]
    BY <1>6 DEF ReadsOwner, At, Goto
  <2>2. /\ seen'[o].owner = lock.owner
        /\ \A q \in Operations : q # o => seen'[q] = seen[q]
    BY <1>a, <1>6 DEF ReadsOwner, Seen
  <2>3. Named' /\ Condemned'
    BY <1>a, <1>b, <2>1, <2>2 DEF Named, Condemned, Ran
  <2> QED
    BY <1>0, <2>3 DEF NobodyCondemned
\* The owner judged gone has dropped its token, or its process died.
<1>7. ASSUME NEW o \in Operations, Inspects(o) PROVE NobodyCondemned'
  <2>1. pc[o] = "inspect" /\ lock' = lock /\ dead' = dead /\ seen' = seen
    BY <1>7 DEF Inspects, At
  <2>2. \/ Abandoned(o) /\ pc' = [pc EXCEPT ![o] = "confirm"]
        \/ pc' = [pc EXCEPT ![o] = "try"]
        \/ pc' = [pc EXCEPT ![o] = "failed"]
    BY <1>7 DEF Inspects, Goto
  <2>3. Abandoned(o) /\ seen[o].owner # NoOwner =>
          pc[seen[o].owner] = "done" \/ ProcessOf[seen[o].owner] \in dead
    <3>1. seen[o].owner # NoOwner => seen[o].owner \in Operations /\ pc[seen[o].owner] \in Ran
      BY <1>a, <1>b DEF Named
    <3> QED
      BY <3>1 DEF Abandoned, Tokens, Ran
  <2>4. Named' /\ Condemned'
    BY <1>a, <1>b, <2>1, <2>2, <2>3 DEF Named, Condemned, Ran
  <2> QED
    BY <1>0, <2>4 DEF NobodyCondemned
<1>8. ASSUME NEW o \in Operations, Restats(o) PROVE NobodyCondemned'
  <2>1. /\ pc[o] = "confirm" /\ lock' = lock /\ dead' = dead
        /\ pc' = [pc EXCEPT ![o] = "reread"] \/ pc' = [pc EXCEPT ![o] = "try"]
    BY <1>8 DEF Restats, At, Goto
  <2>2. \A q \in Operations : seen'[q].owner = seen[q].owner
    BY <1>a, <1>8 DEF Restats, Seen
  <2>3. Named' /\ Condemned'
    BY <1>a, <1>b, <2>1, <2>2 DEF Named, Condemned, Ran
  <2> QED
    BY <1>0, <2>3 DEF NobodyCondemned
<1>9. ASSUME NEW o \in Operations, Rereads(o) PROVE NobodyCondemned'
  <2>1. /\ pc[o] = "reread" /\ lock' = lock /\ dead' = dead /\ seen' = seen
        /\ pc' = [pc EXCEPT ![o] = "reclaim"] \/ pc' = [pc EXCEPT ![o] = "try"]
    BY <1>9 DEF Rereads, At, Goto
  <2>2. Named' /\ Condemned'
    BY <1>a, <1>b, <2>1 DEF Named, Condemned, Ran
  <2> QED
    BY <1>0, <2>2 DEF NobodyCondemned
<1>10. ASSUME NEW o \in Operations, Finishes(o) \/ ChecksOwner(o) PROVE NobodyCondemned'
  <2>1. /\ lock' = lock /\ dead' = dead /\ seen' = seen
        /\ \/ pc[o] = "critical" /\ pc' = [pc EXCEPT ![o] = "check"]
           \/ pc[o] = "check" /\ pc' = [pc EXCEPT ![o] = "release"]
           \/ pc[o] = "check" /\ pc' = [pc EXCEPT ![o] = "done"]
    BY <1>10 DEF Finishes, ChecksOwner, At, Goto
  <2>2. Named' /\ Condemned'
    BY <1>a, <1>b, <2>1 DEF Named, Condemned, Ran
  <2> QED
    BY <1>0, <2>2 DEF NobodyCondemned
<1>11. ASSUME NEW p \in Processes, Crash(p) PROVE NobodyCondemned'
  <2>1. lock' = lock /\ pc' = pc /\ seen' = seen /\ dead \subseteq dead'
    BY <1>11 DEF Crash
  <2>2. Named' /\ Condemned'
    BY <1>b, <2>1 DEF Named, Condemned
  <2> QED
    BY <1>0, <2>2 DEF NobodyCondemned
<1>12. CASE Ages
  <2>1. pc' = pc /\ seen' = seen /\ dead' = dead /\ lock'.owner = lock.owner
    BY <1>12, <1>a DEF Ages, Lock
  <2>2. Named' /\ Condemned'
    BY <1>b, <2>1 DEF Named, Condemned
  <2> QED
    BY <1>0, <2>2 DEF NobodyCondemned
<1>13. CASE UNCHANGED vars
  BY <1>13, <1>0, <1>b DEF vars, NobodyCondemned, Named, Condemned
<1>14. ASSUME NEW o \in Operations, Undoes(o) \/ Reclaims(o) \/ Releases(o) PROVE NobodyCondemned'
  BY <1>3, <1>4, <1>14 DEF Undoes, Reclaims, Releases
<1>15. ASSUME NEW o \in Operations,
              \/ FailsToWriteOwner(o) \/ FailsToUndo(o) \/ FailsToInspect(o)
              \/ FailsToReclaim(o) \/ FailsToRelease(o)
       PROVE NobodyCondemned'
  <2>1. /\ seen' = seen /\ dead' = dead /\ lock' = lock
        /\ \/ /\ pc[o] \notin Ran
              /\ \E to \in {"undo", "try", "failed"} : pc' = [pc EXCEPT ![o] = to]
           \/ pc[o] \in Ran /\ pc' = [pc EXCEPT ![o] = "done"]
    BY <1>15 DEF FailsToWriteOwner, FailsToUndo, FailsToInspect, FailsToReclaim,
       FailsToRelease, CallFails, At, Goto, Ran
  <2>2. Named' /\ Condemned'
    BY <1>a, <1>b, <2>1 DEF Named, Condemned, Ran
  <2> QED
    BY <1>0, <2>2 DEF NobodyCondemned
<1> QED
  BY <1>1, <1>2, <1>5, <1>6, <1>7, <1>8, <1>9, <1>10, <1>11, <1>12, <1>13, <1>14, <1>15
     DEF Next

\* Nobody ever judges the lock of an operation that runs abandoned, whatever crashed
\* or stood still (withLock: ownerIsActive).
THEOREM LiveOwnersAreSafe == Spec => []LiveOwnerNotCondemned
<1>1. Init => NobodyCondemned
  <2> SUFFICES ASSUME Init PROVE NobodyCondemned
    OBVIOUS
  <2>1. TypeOK
    BY LockAssumption DEF Init, TypeOK, Steps, Lock, NoLock, Touches, Seen, NothingSeen
  <2> QED
    BY <2>1 DEF Init, NoLock, NothingSeen, NobodyCondemned, Named, Condemned
<1>2. NobodyCondemned => LiveOwnerNotCondemned
  BY DEF NobodyCondemned, Condemned, LiveOwnerNotCondemned, At
<1> QED
  BY <1>1, <1>2, NobodyCondemnedStep, PTL DEF Spec

-----------------------------------------------------------------------------
Working == {"name", "undo", "undoing", "reclaiming", "releasing"}

\* A lock that names an operation is held by it, one that names none is about to
\* be named or removed, or else a call failed; and a path is active for an
\* operation that has its token.
Attended ==
  /\ lock.owner # NoOwner =>
       lock.there /\ (pc[lock.owner] \in Holding \/ lock.owner \in failures)
  /\ lock.there /\ lock.owner = NoOwner =>
       failures # {} \/ \E o \in Operations : pc[o] \in Working
  /\ \A p \in Processes : active[p] => \E o \in Tokens : ProcessOf[o] = p

\* Every step of withLock, crash, suspension and failure keeps the lock attended.
THEOREM AttendedStep == TypeOK /\ Attended /\ [Next]_vars => Attended'
<1> SUFFICES ASSUME TypeOK, Attended, [Next]_vars PROVE Attended'
  OBVIOUS
<1> USE LockAssumption DEF Attended, Tokens, Working, Holding
<1>a. /\ pc \in [Operations -> Steps] /\ active \in [Processes -> BOOLEAN]
      /\ lock \in Lock /\ lock.owner \in Operations \cup {NoOwner}
      /\ failures \subseteq Operations
  BY DEF TypeOK, Lock
<1>1. ASSUME NEW o \in Operations, MakesDirectory(o) PROVE Attended'
  <2>1. pc[o] = "try" /\ failures' = failures
    BY <1>1 DEF MakesDirectory, At
  <2>2. CASE lock.there
    BY <1>1, <1>a, <2>1, <2>2 DEF MakesDirectory, Goto
  <2>3. CASE ~lock.there
    <3>1. /\ lock'.there /\ lock'.owner = NoOwner /\ pc' = [pc EXCEPT ![o] = "name"]
          /\ active' = [active EXCEPT ![ProcessOf[o]] = TRUE]
      BY <1>1, <2>3 DEF MakesDirectory, Goto
    <3> QED
      BY <1>a, <2>1, <3>1
  <2> QED
    BY <2>2, <2>3
<1>2. ASSUME NEW o \in Operations, WritesOwner(o) PROVE Attended'
  <2>1. /\ pc[o] = "name" /\ failures' = failures
        /\ \/ /\ pc' = [pc EXCEPT ![o] = "critical"] /\ lock'.there /\ lock'.owner = o
              /\ active' = active
           \/ /\ pc' = [pc EXCEPT ![o] = "undo"] /\ lock' = lock
              /\ active' = [active EXCEPT ![ProcessOf[o]] = FALSE]
    BY <1>2, <1>a DEF WritesOwner, At, Goto, Lock
  <2> QED
    BY <1>a, <2>1
<1>3. ASSUME NEW o \in Operations, NEW from, NEW to,
             <<from, to>> \in {<<"undo", "undoing">>, <<"reclaim", "reclaiming">>,
                               <<"release", "releasing">>},
             Unlinks(o, from, to)
      PROVE Attended'
  <2>1. /\ \/ pc[o] = "undo" /\ pc' = [pc EXCEPT ![o] = "undoing"]
           \/ pc[o] = "reclaim" /\ pc' = [pc EXCEPT ![o] = "reclaiming"]
           \/ pc[o] = "release" /\ pc' = [pc EXCEPT ![o] = "releasing"]
        /\ active' = active /\ failures' = failures
        /\ lock'.owner = NoOwner
    BY <1>3, <1>a DEF Unlinks, At, Goto, Lock
  <2> QED
    BY <1>a, <2>1
\* What rm finds named when it removes the directory, it leaves.
<1>4. ASSUME NEW o \in Operations, NEW from, NEW to,
             <<from, to>> \in {<<"undoing", "try">>, <<"undoing", "failed">>,
                               <<"reclaiming", "try">>, <<"releasing", "done">>},
             RemovesDirectory(o, from, to),
             active' = IF from = "releasing" THEN [active EXCEPT ![ProcessOf[o]] = FALSE]
                                             ELSE active
      PROVE Attended'
  <2>1. /\ \/ /\ pc[o] \in {"undoing", "reclaiming"} /\ active' = active
              /\ pc' = [pc EXCEPT ![o] = "try"] \/ pc' = [pc EXCEPT ![o] = "failed"]
           \/ /\ pc[o] = "releasing" /\ pc' = [pc EXCEPT ![o] = "done"]
              /\ active' = [active EXCEPT ![ProcessOf[o]] = FALSE]
        /\ failures' = failures
    BY <1>4 DEF RemovesDirectory, At, Goto
  <2>2. \/ lock.owner # NoOwner /\ lock' = lock
        \/ lock'.owner = NoOwner /\ ~lock'.there
    BY <1>4 DEF RemovesDirectory, NoLock
  <2> QED
    BY <1>a, <2>1, <2>2
<1>5. ASSUME NEW o \in Operations,
             Stats(o) \/ ReadsOwner(o) \/ Inspects(o) \/ Restats(o) \/ Rereads(o)
      PROVE Attended'
  <2>1. /\ lock' = lock /\ active' = active /\ failures' = failures
        /\ pc[o] \in {"stat", "read", "inspect", "confirm", "reread"}
        /\ \E to \in {"try", "read", "inspect", "confirm", "reread", "reclaim", "failed"} :
             pc' = [pc EXCEPT ![o] = to]
    BY <1>5 DEF Stats, ReadsOwner, Inspects, Restats, Rereads, At, Goto
  <2> QED
    BY <1>a, <2>1
<1>6. ASSUME NEW o \in Operations, Finishes(o) \/ ChecksOwner(o) PROVE Attended'
  <2>1. /\ lock' = lock /\ failures' = failures
        /\ \/ /\ pc[o] = "critical" /\ pc' = [pc EXCEPT ![o] = "check"]
              /\ active' = active
           \/ /\ pc[o] = "check" /\ pc' = [pc EXCEPT ![o] = "release"]
              /\ active' = active
           \/ /\ pc[o] = "check" /\ pc' = [pc EXCEPT ![o] = "done"]
              /\ ~(lock.there /\ lock.owner = o)
              /\ active' = [active EXCEPT ![ProcessOf[o]] = FALSE]
    BY <1>6 DEF Finishes, ChecksOwner, At, Goto
  <2> QED
    BY <1>a, <2>1
<1>7. ASSUME NEW o \in Operations, FailsToWriteOwner(o) \/ FailsToInspect(o) PROVE Attended'
  <2>1. /\ lock' = lock /\ failures' = failures
        /\ \/ /\ pc[o] = "name" /\ pc' = [pc EXCEPT ![o] = "undo"]
              /\ active' = [active EXCEPT ![ProcessOf[o]] = FALSE]
           \/ /\ pc[o] \in {"stat", "confirm"} /\ pc' = [pc EXCEPT ![o] = "try"]
              /\ active' = active
    BY <1>7 DEF FailsToWriteOwner, FailsToInspect, CallFails, At, Goto
  <2> QED
    BY <1>a, <2>1
\* A lock that is left is the failure's.
<1>8. ASSUME NEW o \in Operations, FailsToUndo(o) \/ FailsToReclaim(o) \/ FailsToRelease(o)
      PROVE Attended'
  <2>1. /\ lock' = lock /\ failures' = failures \cup {o}
        /\ \/ /\ pc[o] \in {"undo", "undoing", "reclaim", "reclaiming"} /\ active' = active
              /\ pc' = [pc EXCEPT ![o] = "try"] \/ pc' = [pc EXCEPT ![o] = "failed"]
           \/ /\ pc[o] \in {"check", "release", "releasing"} /\ pc' = [pc EXCEPT ![o] = "done"]
              /\ active' = [active EXCEPT ![ProcessOf[o]] = FALSE]
    BY <1>8 DEF FailsToUndo, FailsToReclaim, FailsToRelease, CallFails, At, Goto
  <2> QED
    BY <1>a, <2>1
<1>9. ASSUME NEW p \in Processes, Crash(p) PROVE Attended'
  BY <1>9 DEF Crash
<1>10. CASE Ages
  BY <1>10, <1>a DEF Ages, Lock
<1>11. CASE UNCHANGED vars
  BY <1>11 DEF vars
<1>12. ASSUME NEW o \in Operations, Undoes(o) \/ Reclaims(o) \/ Releases(o) PROVE Attended'
  BY <1>3, <1>4, <1>12 DEF Undoes, Reclaims, Releases
<1> QED
  BY <1>1, <1>2, <1>5, <1>6, <1>7, <1>8, <1>9, <1>10, <1>11, <1>12 DEF Next

\* Operations that ended left no lock behind and no path active but by a crash or
\* a failure, and a lock that is left names nobody else, for any number of
\* operations and processes that crash, fail and stand still as they may (the
\* finally of withLock, the catch of its write).
THEOREM LockIsReleased == Spec => []NothingLeftBehind
<1>1. Init => TypeOK /\ Attended
  <2> SUFFICES ASSUME Init PROVE TypeOK /\ Attended
    OBVIOUS
  <2>1. TypeOK
    BY LockAssumption DEF Init, TypeOK, Steps, Lock, NoLock, Touches, Seen, NothingSeen
  <2> QED
    BY <2>1 DEF Init, NoLock, Attended
<1>2. TypeOK /\ Attended => NothingLeftBehind
  <2> SUFFICES ASSUME TypeOK, Attended,
                      \A o \in Operations : pc[o] \in {"done", "failed"} \/ ProcessOf[o] \in dead
               PROVE  /\ lock.there => dead # {} \/ failures # {}
                      /\ lock.owner # NoOwner =>
                           ProcessOf[lock.owner] \in dead \/ lock.owner \in failures
                      /\ \A p \in Processes \ dead : ~active[p]
    BY DEF NothingLeftBehind
  <2>1. lock.owner \in Operations \cup {NoOwner}
    BY DEF TypeOK, Lock
  <2> QED
    BY <2>1 DEF Attended, Holding, Working, Tokens
<1> QED
  BY <1>1, <1>2, TypeStep, AttendedStep, PTL DEF Spec

-----------------------------------------------------------------------------
(***************************************************************************)
(* A record says that its process exited on evidence alone, for any number *)
(* of observers, misses, grace and copies on their way.                    *)
(*                                                                         *)
(* Every copy of the record, those on their way included, counts no more   *)
(* misses than it has evidence of, and its first miss is evidence; so what *)
(* lands over the file brings its own evidence along.  And what a sweep of *)
(* the file saw, since the last copy landed on it, is older than whatever  *)
(* the file counts.                                                        *)
(***************************************************************************)
Statuses == {"running", "missing", "unknown", "mismatch"}

Copy == [exit : {"none", "missing", "mismatch"}, misses : Nat, first : Nat, last : Nat,
         evidence : SUBSET (Nat \ {0})]

Copies == {onFile, inMemory} \cup persisting

SweepTypeOK ==
  /\ now \in Nat \ {0}
  /\ process \in {"runs", "gone", "replaced"}
  /\ snapshotOf \in [Observers -> [at : 0 .. now, status : Statuses]]
  /\ sighted \subseteq Nat
  /\ \A r \in Copies : r \in Copy

\* Misses are counted once each, and the first of them is remembered.
Counted(r) ==
  /\ IsFiniteSet(r.evidence)
  /\ r.misses =< Cardinality(r.evidence)
  /\ \A at \in r.evidence : at =< r.last
  /\ (r.misses = 0) <=> (r.first = 0)
  /\ r.first # 0 => r.first \in r.evidence
  /\ r.exit = "none" /\ r.misses # 0 => r.last \in r.evidence

Confirmed(r) ==
  /\ r.exit = "missing" =>
       /\ Cardinality(r.evidence) >= Misses
       /\ \E at, later \in r.evidence : later - at >= Grace
  /\ r.exit = "mismatch" => process = "replaced"

SnapshotsAreTrue ==
  \A o \in Observers : snapshotOf[o].status = "mismatch" => process = "replaced"

\* A sighting of the process by a sweep resets the file's count.
FileIsFresh ==
  \A at \in sighted \ lost :
    at =< onFile.last /\ \A miss \in onFile.evidence : at < miss

SweepInv ==
  /\ SweepTypeOK
  /\ SnapshotsAreTrue
  /\ FileIsFresh
  /\ \A r \in Copies : Counted(r) /\ Confirmed(r)

-----------------------------------------------------------------------------
\* A new count is as sound as the old one.
LEMMA ResetIsCounted ==
  ASSUME NEW r \in Copy, NEW at \in Nat
  PROVE  Resets(r, at) \in Copy /\ Counted(Resets(r, at)) /\ Resets(r, at).exit = r.exit
<1>1. /\ Resets(r, at) \in Copy /\ Resets(r, at).exit = r.exit
      /\ Resets(r, at).evidence = {} /\ Resets(r, at).misses = 0 /\ Resets(r, at).first = 0
  BY DEF Copy, Resets
<1>2. IsFiniteSet({}) /\ Cardinality({}) = 0
  BY FS_EmptySet
<1> QED
  BY <1>1, <1>2 DEF Counted

LEMMA MissIsCounted ==
  ASSUME NEW r \in Copy, Counted(r), NEW at \in Nat \ {0}, r.last =< at, r.exit = "none"
  PROVE  LET c == Counts(r, at)
         IN  /\ c \in Copy /\ Counted(c) /\ c.exit = "none" /\ c.last = at
             /\ c.misses # 0 => at \in c.evidence
             /\ \A miss \in c.evidence : miss \in r.evidence \/ (miss = at /\ r.last < at)
<1>0. /\ r.misses \in Nat /\ r.first \in Nat /\ r.last \in Nat
      /\ r.evidence \subseteq Nat \ {0} /\ r.evidence \cup {at} \subseteq Nat \ {0}
  BY DEF Copy
<1>a. /\ IsFiniteSet(r.evidence) /\ Cardinality(r.evidence) \in Nat
      /\ r.misses =< Cardinality(r.evidence) /\ \A shot \in r.evidence : shot =< r.last
      /\ (r.misses = 0) <=> (r.first = 0)
      /\ r.first # 0 => r.first \in r.evidence
      /\ r.misses # 0 => r.last \in r.evidence
  BY FS_CardinalityType DEF Counted
<1> DEFINE c == Counts(r, at)
<1>1. CASE r.last = at
  <2>1. c = [r EXCEPT !.misses = r.misses, !.first = r.first, !.last = at,
                      !.evidence = r.evidence]
    BY <1>1 DEF Counts, Copy
  <2>2. /\ c \in Copy /\ c.misses = r.misses /\ c.first = r.first /\ c.last = at
        /\ c.evidence = r.evidence /\ c.exit = "none"
    BY <1>0, <2>1 DEF Copy
  <2> HIDE DEF c
  <2>3. Counted(c)
    BY <1>1, <1>a, <2>2 DEF Counted
  <2>4. c.misses # 0 => at \in c.evidence
    BY <1>1, <1>a, <2>2
  <2> QED
    BY <2>2, <2>3, <2>4 DEF c
<1>2. CASE r.last # at
  <2> DEFINE first == IF r.first # 0 THEN r.first ELSE at
             more == r.evidence \cup {at}
  <2>1. c = [r EXCEPT !.misses = r.misses + 1, !.first = first, !.last = at,
                      !.evidence = more]
    BY <1>2 DEF Counts, Copy
  <2>2. first \in Nat \ {0} /\ first \in more
    BY <1>0, <1>a
  <2>3. /\ IsFiniteSet(more) /\ Cardinality(more) = Cardinality(r.evidence) + 1
        /\ \A shot \in more : shot =< at
    <3>1. at \notin r.evidence
      BY <1>0, <1>2, <1>a
    <3> QED
      BY <1>0, <1>a, <3>1, FS_AddElement
  <2>4. at \in more /\ more \subseteq Nat \ {0} /\ r.last < at
    BY <1>0, <1>2
  <2>5. \A miss \in more : miss \in r.evidence \/ miss = at
    OBVIOUS
  <2> HIDE DEF first, more
  <2>a. r.misses + 1 \in Nat /\ r.misses + 1 # 0
    BY <1>0
  <2> HIDE DEF c
  <2>6. /\ c \in Copy /\ c.misses = r.misses + 1 /\ c.first = first /\ c.last = at
        /\ c.evidence = more /\ c.exit = "none"
    BY <2>1, <2>2, <2>4, <2>a DEF Copy
  <2>7. Counted(c)
    <3>1. c.misses =< Cardinality(c.evidence)
      BY <1>0, <1>a, <2>3, <2>6
    <3>2. c.misses # 0 /\ c.first # 0 /\ c.first \in c.evidence /\ c.last \in c.evidence
      BY <2>2, <2>4, <2>6, <2>a
    <3> QED
      BY <2>3, <2>6, <3>1, <3>2 DEF Counted
  <2> QED
    BY <2>4, <2>5, <2>6, <2>7 DEF c
<1> QED
  BY <1>1, <1>2

-----------------------------------------------------------------------------
Sound(r) == r \in Copy /\ Counted(r) /\ Confirmed(r)

\* What a copy j counts is what r did or the snapshot's, and nothing after a
\* sighting.
Follows(r, shot, j) ==
  shot.at >= r.last =>
    /\ j.last = shot.at /\ shot.at =< now
    /\ Sights(shot) => j.evidence = {}
    /\ \A miss \in j.evidence : miss \in r.evidence \/ (miss = shot.at /\ r.last < miss)

\* What a snapshot makes of a copy is sound, whether it sweeps or refreshes.
LEMMA JudgedIsConfirmed ==
  ASSUME SweepInv, NEW r \in Copies, r.exit = "none", NEW o \in Observers,
         snapshotOf[o].at # 0, NEW sweeping \in BOOLEAN
  PROVE  LET j == Judged(r, snapshotOf[o], sweeping)
         IN  Sound(j) /\ Follows(r, snapshotOf[o], j)
<1> DEFINE shot == snapshotOf[o]
           told == Told(r, shot)
           j == Judged(r, shot, sweeping)
<1>j. j = IF shot.at < r.last THEN r
          ELSE IF Confirms(r, told, shot, sweeping) THEN [told EXCEPT !.exit = Exit(shot)]
               ELSE told
  BY DEF Judged
<1> USE DEF Sound, Follows
<1> HIDE DEF j
<1>0. /\ r \in Copy /\ Counted(r) /\ Confirmed(r)
      /\ shot \in [at : 0 .. now, status : Statuses] /\ shot.at \in Nat \ {0}
      /\ now \in Nat /\ shot.at =< now /\ r.last \in Nat
      /\ shot.status = "mismatch" => process = "replaced"
  BY DEF SweepInv, SweepTypeOK, SnapshotsAreTrue, Copy
<1> HIDE DEF shot
<1> SUFFICES Sound(j) /\ Follows(r, shot, j)
  BY DEF j, shot
<1>1. CASE shot.at < r.last
  <2>1. j = r
    BY <1>j, <1>1
  <2> QED
    BY <1>0, <1>1, <2>1
<1>2. CASE r.last =< shot.at
  <2>0. j = IF Confirms(r, told, shot, sweeping) THEN [told EXCEPT !.exit = Exit(shot)]
            ELSE told
    BY <1>j, <1>0, <1>2
  <2>1. /\ told \in Copy /\ Counted(told) /\ told.exit = "none" /\ told.last = shot.at
        /\ ~Sights(shot) /\ told.misses # 0 => shot.at \in told.evidence
        /\ Sights(shot) => told.evidence = {}
        /\ \A miss \in told.evidence :
             miss \in r.evidence \/ (miss = shot.at /\ r.last < shot.at)
    <3>1. CASE Sights(shot)
      <4>1. told = Resets(r, shot.at)
        BY <3>1 DEF Told
      <4>2. told.evidence = {} /\ told.last = shot.at
        BY <1>0, <4>1 DEF Resets, Copy
      <4> HIDE DEF told
      <4> QED
        BY <1>0, <3>1, <4>1, <4>2, ResetIsCounted
    <3>2. CASE ~Sights(shot)
      <4>1. told = Counts(r, shot.at)
        BY <3>2 DEF Told
      <4> HIDE DEF told
      <4> QED
        BY <1>0, <1>2, <3>2, <4>1, MissIsCounted
    <3> QED
      BY <3>1, <3>2
  <2> HIDE DEF told
  <2>2. CASE ~Confirms(r, told, shot, sweeping)
    <3>1. j = told
      BY <2>0, <2>2
    <3> QED
      BY <1>0, <1>2, <2>1, <3>1 DEF Confirmed
  <2>3. CASE Confirms(r, told, shot, sweeping)
    <3>1. j = [told EXCEPT !.exit = Exit(shot)]
      BY <2>0, <2>3
    <3>2. /\ j \in Copy /\ j.evidence = told.evidence /\ j.misses = told.misses
          /\ j.first = told.first /\ j.last = told.last /\ j.exit = Exit(shot)
      BY <2>1, <3>1 DEF Copy, Exit
    <3>3. Counted(j)
      BY <2>1, <3>2 DEF Counted, Exit
    <3>4. j.exit = "missing" => /\ shot.status = "missing" /\ LongEnough(told, shot.at)
      BY <2>3, <3>2 DEF Confirms, Exit
    <3>5. j.exit = "missing" => /\ told.misses >= Misses /\ told.first # 0
                                /\ shot.at - told.first >= Grace
      BY <2>1, <3>4, MissesAssumption DEF LongEnough, Counted, Copy
    <3>6. j.exit = "missing" => Cardinality(told.evidence) >= Misses
      BY <2>1, <3>5, FS_CardinalityType, MissesAssumption DEF Counted, Copy
    <3>7. j.exit = "mismatch" => process = "replaced"
      BY <1>0, <3>2 DEF Exit
    <3>8. Confirmed(j)
      BY <2>1, <3>2, <3>4, <3>5, <3>6, <3>7, MissesAssumption DEF Confirmed, Counted, Sights
    <3> QED
      BY <1>0, <1>2, <2>1, <3>2, <3>3, <3>8
  <2> QED
    BY <2>2, <2>3
<1> QED
  BY <1>0, <1>1, <1>2

-----------------------------------------------------------------------------
\* Copies stay confirmed when the process does not come back.
LEMMA SweepStep == SweepInv /\ [SweepNext]_sweepVars => SweepInv'
<1> SUFFICES ASSUME SweepInv, [SweepNext]_sweepVars PROVE SweepInv'
  OBVIOUS
<1> USE DEF SweepInv
<1>1. CASE Ticks
  BY <1>1 DEF Ticks, SweepTypeOK, Copies, Confirmed, Counted, SnapshotsAreTrue, Observers, FileIsFresh
<1>2. ASSUME NEW reused \in BOOLEAN, ProcessEnds(reused) PROVE SweepInv'
  BY <1>2 DEF ProcessEnds, SweepTypeOK, Copies, Confirmed, Counted, SnapshotsAreTrue, Observers,
     FileIsFresh
<1>3. ASSUME NEW o \in Observers, NEW status \in Statuses, Observes(o, status) PROVE SweepInv'
  <2>1. snapshotOf' \in [Observers -> [at : 0 .. now, status : Statuses]]
    BY <1>3 DEF Observes, SweepTypeOK
  <2>2. SnapshotsAreTrue'
    BY <1>3 DEF Observes, SnapshotsAreTrue, SweepTypeOK
  <2> QED
    BY <1>3, <2>1, <2>2 DEF Observes, SweepTypeOK, Copies, Confirmed, Counted, FileIsFresh
<1>4. ASSUME NEW o \in Sweepers, Sweeps(o) PROVE SweepInv'
  <2> DEFINE shot == snapshotOf[o]
  <2>0. /\ onFile \in Copies /\ onFile.exit = "none" /\ o \in Observers /\ shot.at # 0
        /\ onFile' = Judged(onFile, shot, TRUE) /\ lost' = lost
        /\ sighted' = IF Sights(shot) /\ shot.at >= onFile.last
                       THEN sighted \cup {shot.at} ELSE sighted
    BY <1>4 DEF Sweeps, Copies, Observers
  <2>a. Sound(onFile') /\ Follows(onFile, shot, onFile')
    BY <2>0, JudgedIsConfirmed
  <2>1. onFile' \in Copy /\ Counted(onFile') /\ Confirmed(onFile')
    BY <2>a DEF Sound
  \* A sighting leaves nothing counted, and a miss that is counted is newer than any.
  <2>2. sighted' \subseteq Nat /\ FileIsFresh'
    <3>1. /\ onFile.last \in Nat /\ shot.at \in Nat
          /\ onFile.evidence \subseteq Nat /\ sighted \subseteq Nat
      BY <2>0 DEF SweepTypeOK, Copies, Copy
    <3>2. /\ shot.at < onFile.last => onFile' = onFile
          /\ shot.at >= onFile.last =>
               /\ onFile'.last = shot.at
               /\ Sights(shot) => onFile'.evidence = {}
               /\ \A miss \in onFile'.evidence :
                    miss \in onFile.evidence \/ (miss = shot.at /\ onFile.last < miss)
      <4>1. shot.at < onFile.last => onFile' = onFile
        BY <2>0 DEF Judged
      <4> QED
        BY <2>a, <4>1 DEF Follows
    <3>3. \A at \in sighted \ lost :
            at \in Nat /\ at =< onFile.last /\ \A miss \in onFile.evidence : at < miss
      BY <3>1 DEF FileIsFresh
    <3> HIDE DEF shot
    <3>4. SUFFICES ASSUME NEW at \in sighted' \ lost'
                   PROVE  at =< onFile'.last /\ \A miss \in onFile'.evidence : at < miss
      BY <2>0, <3>1 DEF FileIsFresh
    <3>5. CASE shot.at < onFile.last
      BY <2>0, <3>1, <3>2, <3>3, <3>5
    <3>6. CASE shot.at >= onFile.last /\ Sights(shot)
      <4>1. onFile'.last = shot.at /\ onFile'.evidence = {}
        BY <3>2, <3>6
      <4>2. at = shot.at \/ at \in sighted \ lost
        BY <2>0, <3>6
      <4>3. at =< shot.at
        <5>1. CASE at = shot.at
          BY <3>1, <5>1
        <5>2. CASE at \in sighted \ lost
          <6>1. at \in Nat /\ at =< onFile.last
            BY <3>3, <5>2
          <6> QED
            BY <3>1, <3>6, <6>1
        <5> QED
          BY <4>2, <5>1, <5>2
      <4> QED
        BY <4>1, <4>3
    <3>7. CASE shot.at >= onFile.last /\ ~Sights(shot)
      <4>1. at \in sighted \ lost
        BY <2>0, <3>7
      <4>2. at \in Nat /\ at =< onFile.last /\ onFile'.last = shot.at
        BY <3>2, <3>3, <3>7, <4>1
      <4>3. ASSUME NEW miss \in onFile'.evidence PROVE at < miss
        <5>1. miss \in onFile.evidence \/ (miss = shot.at /\ onFile.last < miss)
          BY <3>2, <3>7
        <5> QED
          BY <3>1, <3>3, <4>1, <4>2, <5>1
      <4> QED
        BY <3>1, <3>7, <4>2, <4>3
    <3> QED
      BY <3>1, <3>5, <3>6, <3>7
  <2> QED
    BY <1>4, <2>1, <2>2 DEF Sweeps, SweepTypeOK, Copies, SnapshotsAreTrue, Confirmed
<1>5. ASSUME NEW r \in Copy, Counted(r), Confirmed(r), PersistsObserved(r),
             UNCHANGED <<now, process, snapshotOf, onFile, sighted, lost>>
      PROVE  SweepInv'
  BY <1>5 DEF PersistsObserved, SweepTypeOK, Copies, SnapshotsAreTrue, Confirmed, FileIsFresh
<1>6. ASSUME NEW o \in Refreshers, RefreshesMemory(o) PROVE SweepInv'
  <2> DEFINE shot == snapshotOf[o]
             judged == Judged(inMemory, shot, FALSE)
             marked == [judged EXCEPT !.last = now]
  <2>0. /\ inMemory \in Copies /\ inMemory.exit = "none" /\ o \in Observers /\ shot.at # 0
        /\ shot.at >= inMemory.last
    BY <1>6 DEF RefreshesMemory, Copies, Observers
  <2>1. judged \in Copy /\ Counted(judged) /\ Confirmed(judged) /\ judged.last =< now
    <3>1. Sound(judged) /\ Follows(inMemory, shot, judged)
      BY <2>0, JudgedIsConfirmed
    <3> HIDE DEF judged
    <3>2. judged.last = shot.at /\ shot.at =< now
      BY <2>0, <3>1 DEF Follows
    <3> QED
      BY <3>1, <3>2 DEF Sound
  <2>2. judged.exit # "none" => marked \in Copy /\ Counted(marked) /\ Confirmed(marked)
    <3>1. /\ marked \in Copy /\ marked.last = now /\ marked.exit = judged.exit
          /\ marked.evidence = judged.evidence /\ marked.misses = judged.misses
          /\ marked.first = judged.first
      BY <2>1 DEF Copy, SweepTypeOK
    <3>2. \A at \in judged.evidence : at =< now
      <4>1. /\ judged.last \in Nat /\ judged.evidence \subseteq Nat /\ now \in Nat
            /\ judged.last =< now
        BY <2>1 DEF Copy, SweepTypeOK
      <4>2. \A at \in judged.evidence : at =< judged.last
        BY <2>1 DEF Counted
      <4> HIDE DEF judged
      <4> QED
        BY <4>1, <4>2
    <3> HIDE DEF judged, marked
    <3> QED
      BY <2>1, <3>1, <3>2 DEF Counted, Confirmed
  <2> QED
    BY <1>5, <1>6, <2>1, <2>2 DEF RefreshesMemory
<1>7. ASSUME NEW o \in Refreshers, Reopens(o) PROVE SweepInv'
  <2> DEFINE fresh == Resets(inMemory, snapshotOf[o].at)
             open == [fresh EXCEPT !.exit = "none"]
  <2>1. inMemory \in Copy /\ snapshotOf[o].at \in Nat
    BY DEF SweepTypeOK, Copies, Observers
  <2>2. fresh \in Copy /\ Counted(fresh)
    BY <2>1, ResetIsCounted
  <2>3. /\ open \in Copy /\ open.exit = "none" /\ open.evidence = fresh.evidence
        /\ open.misses = fresh.misses /\ open.first = fresh.first /\ open.last = fresh.last
    BY <2>2 DEF Copy
  <2>5. fresh.misses = 0
    BY <2>1 DEF Resets, Copy
  <2>4. Counted(open) /\ Confirmed(open)
    <3> HIDE DEF fresh, open
    <3> QED
      BY <2>2, <2>3, <2>5 DEF Counted, Confirmed
  <2> QED
    BY <1>5, <1>7, <2>3, <2>4 DEF Reopens
<1>8. ASSUME NEW r \in persisting, PersistLands(r) PROVE SweepInv'
  BY <1>8 DEF PersistLands, SweepTypeOK, Copies, SnapshotsAreTrue, Confirmed, FileIsFresh
<1>9. CASE UNCHANGED sweepVars
  BY <1>9 DEF sweepVars, SweepTypeOK, Copies, Confirmed, Counted, SnapshotsAreTrue,
     FileIsFresh
<1> QED
  BY <1>1, <1>2, <1>3, <1>4, <1>6, <1>7, <1>8, <1>9 DEF SweepNext, Statuses

\* Every copy of the record is sound in every state (sweepUnlocked,
\* applyProcessObservation, persist).
THEOREM SweepInvariant == SweepSpec => []SweepInv
<1>1. SweepInit => SweepInv
  <2> SUFFICES ASSUME SweepInit PROVE SweepInv
    OBVIOUS
  <2>1. OpenRecord \in Copy /\ Counted(OpenRecord) /\ Confirmed(OpenRecord)
    BY FS_EmptySet DEF OpenRecord, Copy, Counted, Confirmed
  <2> QED
    BY <2>1 DEF SweepInit, SweepInv, SweepTypeOK, Copies, SnapshotsAreTrue, Statuses,
       FileIsFresh
<1> QED
  BY <1>1, SweepStep, PTL DEF SweepSpec

\* A process is marked exited on as many misses as it takes, a grace time
\* apart and all newer than what the sweeps saw since a copy last landed, or when
\* its pid went to another one: for any observers, numbers of misses, grace and
\* copies under way.
THEOREM ExitsAreConfirmed == SweepSpec => []ExitIsConfirmed
<1>1. SweepInv => ExitIsConfirmed
  BY DEF SweepInv, Copies, Confirmed, FileIsFresh, ExitIsConfirmed
<1> QED
  BY <1>1, SweepInvariant, PTL

-----------------------------------------------------------------------------
(***************************************************************************)
(* ManagedLaunch.  Wherever a record is that says closed, in the owner's   *)
(* memory, on its way to the registry or in it, the process is gone.  Who  *)
(* may close it has seen it go, or is about to stop it; nobody else is in  *)
(* the middle of a step that would.                                        *)
(***************************************************************************)
AnyRecord ==
  [auth : {"none", "pending", "authorized", "released"},
   state : {"none", "launching", "connected", "failed", "exited"}, closed : BOOLEAN]

ManagedTypeOK ==
  /\ studio \in {"none", "suspended", "running", "gone"}
  /\ ownerAlive \in BOOLEAN /\ control \in BOOLEAN
  /\ launch \in {"none", "persisting", "launched", "failed"}
  /\ memory \in AnyRecord /\ file \in AnyRecord
  /\ asking \in {"nothing", "authorizing", "releasing"}
  /\ recording \subseteq AnyRecord
  /\ ending \subseteq {"failing", "exiting"}
  /\ writes \in [ManagerServers -> SUBSET AnyRecord]
  /\ sweep \in [by : ManagerServers, at : {"idle", "swept", "listed", "stopping"},
                copy : AnyRecord]

\* Before the launch there is nothing.
BeforeLaunch ==
  launch = "none" =>
    /\ studio = "none" /\ file.closed /\ sweep = NoSweep
    /\ \A v \in ManagerServers : writes[v] = {}

\* What resumes after an await is of a launch whose owner runs; the memory of one
\* that died has nothing open.
OwnersSteps ==
  /\ asking # "nothing" \/ ending # {} \/ recording # {} => ownerAlive /\ launch = "launched"
  /\ ~ownerAlive => memory.closed

ClosedIsGone ==
  studio # "gone" =>
    /\ launch \in {"persisting", "launched"} /\ ownerAlive => ~memory.closed
    /\ \A v \in ManagerServers : \A r \in writes[v] : ~r.closed
    /\ launch = "launched" => ~file.closed
    /\ "exiting" \notin ending

SweepsOpen == sweep.at \in {"listed", "stopping"} => ~sweep.copy.closed

LaunchInv == ManagedTypeOK /\ BeforeLaunch /\ OwnersSteps /\ ClosedIsGone /\ SweepsOpen

-----------------------------------------------------------------------------
\* What the steps make of a record.
LEMMA ChangedRecord ==
  ASSUME NEW r \in AnyRecord
  PROVE  /\ \A a \in {"none", "pending", "authorized", "released"} :
              [r EXCEPT !.auth = a] \in AnyRecord /\ [r EXCEPT !.auth = a].closed = r.closed
         /\ \A s \in {"launching", "connected", "failed", "exited"} :
              [r EXCEPT !.state = s] \in AnyRecord /\ [r EXCEPT !.state = s].closed = r.closed
         /\ ClosedRecord(r) \in AnyRecord /\ ClosedRecord(r).closed
  BY DEF AnyRecord, ClosedRecord

LEMMA NoRecords == /\ NoManaged \in AnyRecord /\ NoManaged.closed
                   /\ NoSweep \in [by : ManagerServers, at : {"idle"}, copy : AnyRecord]
  BY DEF NoManaged, AnyRecord, NoSweep, ManagerServers

\* Records on their way come to be r, or were.
OneMore(r) ==
  /\ writes' \in [ManagerServers -> SUBSET AnyRecord]
  /\ \A v \in ManagerServers : \A q \in writes'[v] : q \in writes[v] \/ q = r

\* What Writing, WritesRecord and Persists put on its way.
LEMMA WritingOne ==
  ASSUME ManagedTypeOK, NEW v \in ManagerServers, NEW rest \in SUBSET writes[v],
         NEW r \in AnyRecord, Writing(v, rest, r)
  PROVE  OneMore(r)
  BY DEF ManagedTypeOK, Writing, OneMore

LEMMA WritesOne ==
  ASSUME ManagedTypeOK, NEW v \in ManagerServers, NEW r \in AnyRecord, WritesRecord(v, r)
  PROVE  OneMore(r)
  BY WritingOne DEF WritesRecord, ManagedTypeOK

LEMMA PersistsOne ==
  ASSUME ManagedTypeOK, NEW r \in AnyRecord, Persists(r)
  PROVE  memory' = r /\ OneMore(r)
  BY WritesOne DEF Persists, ManagerServers

\* What is on its way says closed of no Studio that lives.
Writ == /\ writes' \in [ManagerServers -> SUBSET AnyRecord]
        /\ studio' # "gone" => \A v \in ManagerServers : \A q \in writes'[v] : ~q.closed

LEMMA OneMoreWrit ==
  ASSUME LaunchInv, NEW r, OneMore(r), r.closed => studio' = "gone",
         studio = "gone" => studio' = "gone"
  PROVE  Writ
  BY DEF OneMore, Writ, LaunchInv, ClosedIsGone

\* A launch that failed is not closed by that.
LEMMA FailsWrit ==
  ASSUME LaunchInv, studio' = studio, NEW r \in AnyRecord, r.closed = memory.closed,
         NEW rest \in SUBSET writes[Owner], Fails(r, rest)
  PROVE  /\ Writ /\ memory' \in AnyRecord /\ memory'.closed = memory.closed
         /\ ending' \subseteq ending \cup {"failing"}
  <1> DEFINE f == [r EXCEPT !.state = "failed"]
  <1>1. f \in AnyRecord /\ f.closed = memory.closed
    BY ChangedRecord
  <1>2. Owner \in ManagerServers /\ ManagedTypeOK /\ ClosedIsGone
    BY DEF LaunchInv, ManagerServers
  <1>3. ASSUME writes' = [writes EXCEPT ![Owner] = rest]
        PROVE  Writ
    BY <1>2, <1>3 DEF Writ, ClosedIsGone, ManagedTypeOK
  <1>4. CASE ~Usable(r)
    BY <1>3, <1>4 DEF Fails
  <1> HIDE DEF f
  <1>5. CASE Usable(r) /\ r.auth # "released" /\ control
    <2>1. memory' = f /\ writes' = [writes EXCEPT ![Owner] = rest] /\ ending' = ending \cup {"failing"}
      BY <1>5 DEF Fails, f
    <2> QED
      BY <1>1, <1>3, <2>1
  <1>6. CASE Usable(r) /\ ~(r.auth # "released" /\ control)
    <2>1. memory' = f /\ Writing(Owner, rest, f) /\ ending' = ending
      BY <1>6 DEF Fails, f
    <2>2. OneMore(f)
      BY <1>1, <1>2, <2>1, WritingOne
    <2>3. f.closed = FALSE
      BY <1>1, <1>6 DEF Usable, AnyRecord
    <2> QED
      BY <1>1, <2>1, <2>2, <2>3, OneMoreWrit
  <1> QED
    BY <1>4, <1>5, <1>6

\* A step that puts n on its way, n closed only of a Studio that is gone.
LEMMA PersistedWrit ==
  ASSUME LaunchInv, NEW n \in AnyRecord, Persists(n), n.closed => studio' = "gone",
         studio = "gone" => studio' = "gone"
  PROVE  memory' = n /\ Writ
  BY PersistsOne, OneMoreWrit DEF LaunchInv

LEMMA WrittenWrit ==
  ASSUME LaunchInv, NEW v \in ManagerServers, NEW n \in AnyRecord, WritesRecord(v, n),
         n.closed => studio' = "gone", studio = "gone" => studio' = "gone"
  PROVE  Writ
  BY WritesOne, OneMoreWrit DEF LaunchInv

\* The invariant is there, and stays.
LEMMA LaunchInit == ManagedInit => LaunchInv
  BY NoRecords DEF ManagedInit, LaunchInv, ManagedTypeOK, BeforeLaunch, OwnersSteps,
     ClosedIsGone,
     SweepsOpen, ManagerServers, NoManaged, NoSweep

LEMMA LaunchNext == LaunchInv /\ [ManagedNext]_managedVars => LaunchInv'
  <1> SUFFICES ASSUME LaunchInv, [ManagedNext]_managedVars
               PROVE  LaunchInv'
    OBVIOUS
  <1> USE DEF LaunchInv, ManagedTypeOK, BeforeLaunch, OwnersSteps, ClosedIsGone, SweepsOpen
  <1>1. ASSUME NEW retained \in BOOLEAN, Launches(retained)
        PROVE  LaunchInv'
    <2> DEFINE n == [auth |-> IF retained THEN "pending" ELSE "released",
                     state |-> "launching", closed |-> FALSE]
    <2>1. n \in AnyRecord /\ (n.closed => studio' = "gone")
      BY <1>1, ChangedRecord DEF Launches, AnyRecord, Usable, Alive
    <2>2. Persists(n)
      BY <1>1 DEF Launches
    <2>3. studio = "gone" => studio' = "gone"
      BY <1>1 DEF Launches
    <2> HIDE DEF n
    <2>4. memory' = n /\ Writ
      BY <2>1, <2>2, <2>3, PersistedWrit
    <2>5. ManagedTypeOK'
      BY <1>1, <2>1, <2>4, NoRecords DEF Launches, Writ
    <2>6. BeforeLaunch' /\ OwnersSteps' /\ SweepsOpen'
      BY <1>1, <2>1, <2>4, NoRecords DEF Launches, Usable
    <2>7. ClosedIsGone'
      BY <1>1, <2>1, <2>4 DEF Launches, Writ
    <2> QED
      BY <2>5, <2>6, <2>7
  <1>2. ASSUME NEW r \in writes[Owner], KeepsControls(r)
        PROVE  LaunchInv'
    BY <1>2 DEF KeepsControls, ManagerServers
  <1>3. ASSUME LaunchFails
        PROVE  LaunchInv'
    BY <1>3, NoRecords DEF LaunchFails, ManagerServers
  <1>4. ASSUME NEW v \in ManagerServers, NEW r \in writes[v], Lands(v, r)
        PROVE  LaunchInv'
    BY <1>4 DEF Lands
  <1>5. ASSUME NEW v \in ManagerServers, NEW r \in writes[v], WriteIsLost(v, r)
        PROVE  LaunchInv'
    BY <1>5 DEF WriteIsLost
  <1>6. ASSUME Authorizes
        PROVE  LaunchInv'
    BY <1>6 DEF Authorizes, Usable
  <1>7. ASSUME Completes
        PROVE  LaunchInv'
    BY <1>7 DEF Completes, Usable
  <1>8. ASSUME Authorized
        PROVE  LaunchInv'
    <2> DEFINE n == [memory EXCEPT !.auth = "authorized"]
    <2>1. n \in AnyRecord /\ (n.closed => studio' = "gone")
      BY <1>8, ChangedRecord DEF Authorized, AnyRecord, Usable, Alive
    <2>2. Persists(n)
      BY <1>8 DEF Authorized
    <2>3. studio = "gone" => studio' = "gone"
      BY <1>8 DEF Authorized
    <2> HIDE DEF n
    <2>4. memory' = n /\ Writ
      BY <2>1, <2>2, <2>3, PersistedWrit
    <2>5. ManagedTypeOK'
      BY <1>8, <2>1, <2>4, NoRecords DEF Authorized, Writ
    <2>6. BeforeLaunch' /\ OwnersSteps' /\ SweepsOpen'
      BY <1>8, <2>1, <2>4, NoRecords DEF Authorized, Usable
    <2>7. ClosedIsGone'
      BY <1>8, <2>1, <2>4 DEF Authorized, Writ
    <2> QED
      BY <2>5, <2>6, <2>7
  <1>9. ASSUME Released
        PROVE  LaunchInv'
    <2> DEFINE n == [memory EXCEPT !.auth = "released"]
    <2>1. n \in AnyRecord /\ (n.closed => studio' = "gone")
      BY <1>9, ChangedRecord DEF Released, AnyRecord, Usable, Alive
    <2>2. Persists(n)
      BY <1>9 DEF Released
    <2>3. studio = "gone" => studio' = "gone"
      BY <1>9 DEF Released
    <2> HIDE DEF n
    <2>4. memory' = n /\ Writ
      BY <2>1, <2>2, <2>3, PersistedWrit
    <2>5. ManagedTypeOK'
      BY <1>9, <2>1, <2>4, NoRecords DEF Released, Writ
    <2>6. BeforeLaunch' /\ OwnersSteps' /\ SweepsOpen'
      BY <1>9, <2>1, <2>4, NoRecords DEF Released, Usable
    <2>7. ClosedIsGone'
      BY <1>9, <2>1, <2>4 DEF Released, Writ
    <2> QED
      BY <2>5, <2>6, <2>7
  <1>10. ASSUME AskingFails
        PROVE  LaunchInv'
    <2> DEFINE u == Unauthorized(asking = "authorizing")
    <2>1. u \in AnyRecord /\ u.closed = memory.closed
      BY ChangedRecord DEF Unauthorized, AnyRecord
    <2> HIDE DEF u
    <2>2. /\ Writ /\ memory' \in AnyRecord /\ memory'.closed = memory.closed
          /\ ending' \subseteq ending \cup {"failing"}
      BY <1>10, <2>1, FailsWrit DEF AskingFails, u
    <2>3. ManagedTypeOK'
      BY <1>10, <2>2 DEF AskingFails, Writ
    <2>4. BeforeLaunch' /\ OwnersSteps' /\ SweepsOpen'
      BY <1>10, <2>2 DEF AskingFails
    <2>5. ClosedIsGone'
      BY <1>10, <2>2 DEF AskingFails, Writ
    <2> QED
      BY <2>3, <2>4, <2>5
  <1>11. ASSUME NEW r \in recording, RecordingFails(r)
        PROVE  LaunchInv'
    <2> DEFINE u == Unauthorized(r.auth = "authorized")
    <2>1. u \in AnyRecord /\ u.closed = memory.closed
      BY ChangedRecord DEF Unauthorized, AnyRecord
    <2> HIDE DEF u
    <2>2. /\ Writ /\ memory' \in AnyRecord /\ memory'.closed = memory.closed
          /\ ending' \subseteq ending \cup {"failing"}
      BY <1>11, <2>1, FailsWrit DEF RecordingFails, u
    <2>3. ManagedTypeOK'
      BY <1>11, <2>2 DEF RecordingFails, Writ
    <2>4. BeforeLaunch' /\ OwnersSteps' /\ SweepsOpen'
      BY <1>11, <2>2 DEF RecordingFails
    <2>5. ClosedIsGone'
      BY <1>11, <2>2 DEF RecordingFails, Writ
    <2> QED
      BY <2>3, <2>4, <2>5
  <1>12. ASSUME MarkFailed
        PROVE  LaunchInv'
    <2>1. Fails(memory, writes[Owner]) /\ studio' = studio
      BY <1>12 DEF MarkFailed
    <2>2. /\ Writ /\ memory' \in AnyRecord /\ memory'.closed = memory.closed
          /\ ending' \subseteq ending \cup {"failing"}
      BY <2>1, FailsWrit
    <2>3. ManagedTypeOK'
      BY <1>12, <2>2 DEF MarkFailed, Writ
    <2>4. BeforeLaunch' /\ OwnersSteps' /\ SweepsOpen'
      BY <1>12, <2>2 DEF MarkFailed
    <2>5. ClosedIsGone'
      BY <1>12, <2>2 DEF MarkFailed, Writ
    <2> QED
      BY <2>3, <2>4, <2>5
  <1>13. ASSUME AbortFails
        PROVE  LaunchInv'
    <2> DEFINE n == memory
    <2>1. n \in AnyRecord /\ (n.closed => studio' = "gone")
      BY <1>13, ChangedRecord DEF AbortFails, AnyRecord, Usable, Alive
    <2>2. Persists(n)
      BY <1>13 DEF AbortFails
    <2>3. studio = "gone" => studio' = "gone"
      BY <1>13 DEF AbortFails
    <2> HIDE DEF n
    <2>4. memory' = n /\ Writ
      BY <2>1, <2>2, <2>3, PersistedWrit
    <2>5. ManagedTypeOK'
      BY <1>13, <2>1, <2>4, NoRecords DEF AbortFails, Writ
    <2>6. BeforeLaunch' /\ OwnersSteps' /\ SweepsOpen'
      BY <1>13, <2>1, <2>4, NoRecords DEF AbortFails, Usable
    <2>7. ClosedIsGone'
      BY <1>13, <2>1, <2>4 DEF AbortFails, Writ
    <2> QED
      BY <2>5, <2>6, <2>7
  <1>14. ASSUME Aborted
        PROVE  LaunchInv'
    <2> DEFINE n == ClosedRecord(memory)
    <2>1. n \in AnyRecord /\ (n.closed => studio' = "gone")
      <3>1. memory \in AnyRecord /\ studio' = "gone"
        BY <1>14 DEF Aborted
      <3> QED
        BY <3>1, ChangedRecord
    <2>2. Persists(n)
      BY <1>14 DEF Aborted
    <2>3. studio = "gone" => studio' = "gone"
      BY <1>14 DEF Aborted
    <2> HIDE DEF n
    <2>4. memory' = n /\ Writ
      BY <2>1, <2>2, <2>3, PersistedWrit
    <2>5. ManagedTypeOK'
      BY <1>14, <2>1, <2>4, NoRecords DEF Aborted, Writ
    <2>6. BeforeLaunch' /\ OwnersSteps' /\ SweepsOpen'
      BY <1>14, <2>1, <2>4, NoRecords DEF Aborted, Usable
    <2>7. ClosedIsGone'
      BY <1>14, <2>1, <2>4 DEF Aborted, Writ
    <2> QED
      BY <2>5, <2>6, <2>7
  <1>15. ASSUME ExitIsSeen
        PROVE  LaunchInv'
    <2>1. CASE memory.auth # "released" /\ control
      BY <1>15, <2>1 DEF ExitIsSeen
    <2>2. CASE ~(memory.auth # "released" /\ control)
      <3>1. ClosedRecord(memory) \in AnyRecord
        BY ChangedRecord
      <3>2. memory' = ClosedRecord(memory) /\ OneMore(ClosedRecord(memory))
        BY <1>15, <2>2, <3>1, PersistsOne DEF ExitIsSeen
      <3> QED
        BY <1>15, <2>2, <3>1, <3>2 DEF ExitIsSeen, OneMore
    <2> QED
      BY <2>1, <2>2
  <1>16. ASSUME ExitIsMarked
        PROVE  LaunchInv'
    <2> DEFINE n == ClosedRecord(memory)
    <2>1. n \in AnyRecord /\ (n.closed => studio' = "gone")
      <3>1. memory \in AnyRecord /\ studio' = "gone"
        BY <1>16 DEF ExitIsMarked
      <3> QED
        BY <3>1, ChangedRecord
    <2>2. Persists(n)
      BY <1>16 DEF ExitIsMarked
    <2>3. studio = "gone" => studio' = "gone"
      BY <1>16 DEF ExitIsMarked
    <2> HIDE DEF n
    <2>4. memory' = n /\ Writ
      BY <2>1, <2>2, <2>3, PersistedWrit
    <2>5. ManagedTypeOK'
      BY <1>16, <2>1, <2>4, NoRecords DEF ExitIsMarked, Writ
    <2>6. BeforeLaunch' /\ OwnersSteps' /\ SweepsOpen'
      BY <1>16, <2>1, <2>4, NoRecords DEF ExitIsMarked, Usable
    <2>7. ClosedIsGone'
      BY <1>16, <2>1, <2>4 DEF ExitIsMarked, Writ
    <2> QED
      BY <2>5, <2>6, <2>7
  <1>17. ASSUME Attaches
        PROVE  LaunchInv'
    <2> DEFINE n == [memory EXCEPT !.state = "connected"]
    <2>1. n \in AnyRecord /\ (n.closed => studio' = "gone")
      BY <1>17, ChangedRecord DEF Attaches, AnyRecord, Usable, Alive
    <2>2. Persists(n)
      BY <1>17 DEF Attaches
    <2>3. studio = "gone" => studio' = "gone"
      BY <1>17 DEF Attaches
    <2> HIDE DEF n
    <2>4. memory' = n /\ Writ
      BY <2>1, <2>2, <2>3, PersistedWrit
    <2>5. ManagedTypeOK'
      BY <1>17, <2>1, <2>4, NoRecords DEF Attaches, Writ
    <2>6. BeforeLaunch' /\ OwnersSteps' /\ SweepsOpen'
      BY <1>17, <2>1, <2>4, NoRecords DEF Attaches, Usable
    <2>7. ClosedIsGone'
      BY <1>17, <2>1, <2>4 DEF Attaches, Writ
    <2> QED
      BY <2>5, <2>6, <2>7
  <1>18. ASSUME OwnerRefreshes
        PROVE  LaunchInv'
    <2> DEFINE n == memory
    <2>1. n \in AnyRecord /\ (n.closed => studio' = "gone")
      BY <1>18, ChangedRecord DEF OwnerRefreshes, AnyRecord, Usable, Alive
    <2>2. Persists(n)
      BY <1>18 DEF OwnerRefreshes
    <2>3. studio = "gone" => studio' = "gone"
      BY <1>18 DEF OwnerRefreshes
    <2> HIDE DEF n
    <2>4. memory' = n /\ Writ
      BY <2>1, <2>2, <2>3, PersistedWrit
    <2>5. ManagedTypeOK'
      BY <1>18, <2>1, <2>4, NoRecords DEF OwnerRefreshes, Writ
    <2>6. BeforeLaunch' /\ OwnersSteps' /\ SweepsOpen'
      BY <1>18, <2>1, <2>4, NoRecords DEF OwnerRefreshes, Usable
    <2>7. ClosedIsGone'
      BY <1>18, <2>1, <2>4 DEF OwnerRefreshes, Writ
    <2> QED
      BY <2>5, <2>6, <2>7
  <1>19. ASSUME OwnerCloses
        PROVE  LaunchInv'
    BY <1>19, ChangedRecord, PersistsOne DEF OwnerCloses, OneMore
  <1>20. ASSUME OtherRefreshes
        PROVE  LaunchInv'
    <2> DEFINE n == IF studio = "gone" THEN ClosedRecord(file) ELSE file
    <2>1. n \in AnyRecord /\ (n.closed => studio' = "gone")
      <3>1. file \in AnyRecord /\ ~file.closed /\ studio' = studio
        BY <1>20 DEF OtherRefreshes
      <3>2. ClosedRecord(file) \in AnyRecord
        BY <3>1, ChangedRecord
      <3> QED
        BY <3>1, <3>2
    <2>2. Other \in ManagerServers /\ WritesRecord(Other, n)
      BY <1>20 DEF OtherRefreshes, ManagerServers
    <2>3. studio = "gone" => studio' = "gone"
      BY <1>20 DEF OtherRefreshes
    <2> HIDE DEF n
    <2>4. Writ
      BY <2>1, <2>2, <2>3, WrittenWrit
    <2>5. ManagedTypeOK'
      BY <1>20, <2>1, <2>4, NoRecords DEF OtherRefreshes, Writ
    <2>6. BeforeLaunch' /\ OwnersSteps' /\ SweepsOpen'
      BY <1>20, <2>1, <2>4, NoRecords DEF OtherRefreshes, Usable
    <2>7. ClosedIsGone'
      BY <1>20, <2>1, <2>4 DEF OtherRefreshes, Writ
    <2> QED
      BY <2>5, <2>6, <2>7
  <1>21. ASSUME OtherCloses
        PROVE  LaunchInv'
    BY <1>21, ChangedRecord, WritesOne DEF OtherCloses, OneMore, ManagerServers
  <1>22. ASSUME NEW v \in ManagerServers, SweepsExited(v)
        PROVE  LaunchInv'
    BY <1>22, ChangedRecord, NoRecords, WritesOne DEF SweepsExited, OneMore
  <1>23. ASSUME NEW v \in ManagerServers, SweepsRunning(v)
        PROVE  LaunchInv'
    BY <1>23, NoRecords DEF SweepsRunning
  <1>24. ASSUME Lists
        PROVE  LaunchInv'
    BY <1>24, NoRecords DEF Lists
  <1>25. ASSUME Decides
        PROVE  LaunchInv'
    BY <1>25, NoRecords DEF Decides
  <1>26. ASSUME StopsOrphan
        PROVE  LaunchInv'
    <2> DEFINE n == [sweep.copy EXCEPT !.state = "failed", !.closed = TRUE]
    <2>1. n \in AnyRecord /\ (n.closed => studio' = "gone")
      <3>1. sweep.copy \in AnyRecord /\ studio' = "gone"
        BY <1>26 DEF StopsOrphan
      <3> QED
        BY <3>1 DEF AnyRecord
    <2>2. sweep.by \in ManagerServers /\ WritesRecord(sweep.by, n)
      BY <1>26 DEF StopsOrphan, ManagerServers
    <2>3. studio = "gone" => studio' = "gone"
      BY <1>26 DEF StopsOrphan
    <2> HIDE DEF n
    <2>4. Writ
      BY <2>1, <2>2, <2>3, WrittenWrit
    <2>5. ManagedTypeOK'
      BY <1>26, <2>1, <2>4, NoRecords DEF StopsOrphan, Writ
    <2>6. BeforeLaunch' /\ OwnersSteps' /\ SweepsOpen'
      BY <1>26, <2>1, <2>4, NoRecords DEF StopsOrphan, Usable
    <2>7. ClosedIsGone'
      BY <1>26, <2>1, <2>4 DEF StopsOrphan, Writ
    <2> QED
      BY <2>5, <2>6, <2>7
  <1>27. ASSUME FailsToStopOrphan
        PROVE  LaunchInv'
    <2> DEFINE n == [sweep.copy EXCEPT !.state = "failed"]
    <2>1. n \in AnyRecord /\ (n.closed => studio' = "gone")
      BY <1>27, ChangedRecord DEF FailsToStopOrphan, AnyRecord, Usable, Alive
    <2>2. sweep.by \in ManagerServers /\ WritesRecord(sweep.by, n)
      BY <1>27 DEF FailsToStopOrphan, ManagerServers
    <2>3. studio = "gone" => studio' = "gone"
      BY <1>27 DEF FailsToStopOrphan
    <2> HIDE DEF n
    <2>4. Writ
      BY <2>1, <2>2, <2>3, WrittenWrit
    <2>5. ManagedTypeOK'
      BY <1>27, <2>1, <2>4, NoRecords DEF FailsToStopOrphan, Writ
    <2>6. BeforeLaunch' /\ OwnersSteps' /\ SweepsOpen'
      BY <1>27, <2>1, <2>4, NoRecords DEF FailsToStopOrphan, Usable
    <2>7. ClosedIsGone'
      BY <1>27, <2>1, <2>4 DEF FailsToStopOrphan, Writ
    <2> QED
      BY <2>5, <2>6, <2>7
  <1>28. ASSUME StudioExits
        PROVE  LaunchInv'
    BY <1>28 DEF StudioExits, Alive
  <1>29. ASSUME OwnerDies
        PROVE  LaunchInv'
    BY <1>29, NoRecords DEF OwnerDies, ManagerServers
  <1>30. CASE UNCHANGED managedVars
    BY <1>30 DEF managedVars
  <1> QED
    BY <1>1, <1>2, <1>3, <1>4, <1>5, <1>6, <1>7, <1>8, <1>9, <1>10, <1>11, <1>12, <1>13,
       <1>14, <1>15, <1>16, <1>17, <1>18, <1>19, <1>20, <1>21, <1>22, <1>23, <1>24, <1>25,
       <1>26, <1>27, <1>28, <1>29, <1>30 DEF ManagedNext

\* The owner's memory, the registry and every write on its way agree on the one
\* thing nobody may get wrong: a record that says closed is of a process that is
\* gone (launch, close, refresh, the exit and failure paths and the sweeps of
\* studio-instance-manager.ts, in any interleaving of two servers).
THEOREM LaunchInvariant == ManagedSpec => []LaunchInv
  BY LaunchInit, LaunchNext, PTL DEF ManagedSpec

\* A managed Studio that lives has a record that says so, from its launch on:
\* list and close reach it, and no sweep forgets it, whatever the order in which
\* the records of its owner and of the other server land.
THEOREM LiveStudiosAreRecorded == ManagedSpec => []LiveStudioIsRecorded
  <1>1. LaunchInv => LiveStudioIsRecorded
    BY DEF LaunchInv, ManagedTypeOK, BeforeLaunch, ClosedIsGone, LiveStudioIsRecorded, Alive
  <1> QED
    BY <1>1, LaunchInvariant, PTL

=============================================================================
