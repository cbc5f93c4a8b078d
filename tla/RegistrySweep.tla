--------------------------- MODULE RegistrySweep ---------------------------
(***************************************************************************)
(* How observations of processes close a managed record that says a Studio *)
(* runs: in the file, by the sweep of any server (sweepUnlocked,           *)
(* managed-instance-registry.ts), and in the memory of the server that     *)
(* owns it (applyProcessObservation, studio-instance-manager.ts), which    *)
(* persists its whole copy later.                                          *)
(*                                                                         *)
(* A snapshot of the processes is taken at one time and used later, once,  *)
(* repeatedly, or never, by each observer; a Studio that runs can be       *)
(* missing from one.  The launch is released and identified (ManagedLaunch *)
(* has those that are not).                                                *)
(*                                                                         *)
(* A copy from memory replaces the record in the file as it is, with the   *)
(* count the copy has, and what the sweeps learned meanwhile is lost.  The *)
(* history variables sighted and lost are of the file and not of a copy,   *)
(* so they remember it.                                                    *)
(***************************************************************************)
EXTENDS Naturals, FiniteSets

CONSTANTS
  Sweepers,         \* sweeps of servers, each with a snapshot
  Refreshers,       \* refreshes of the owner, each with a snapshot
  Misses, Grace,    \* confirmedExitMisses, confirmedExitGraceMs
  MaxTime,          \* bound: the clock
  MaxPersists       \* bound: copies on their way to the file

ASSUME MissesAssumption == Misses \in Nat \ {0} /\ Grace \in Nat

VARIABLES
  now, process,
  snapshotOf,       \* what each observer holds
  onFile, inMemory, \* the two copies of the record
  persisting,       \* copies on their way from memory to file
  sighted,          \* when sweeps saw the process or could not tell; no state of the code
  lost              \* those of them that a copy from memory replaced; no state of the code

sweepVars == <<now, process, snapshotOf, onFile, inMemory, persisting, sighted, lost>>

Observers == Sweepers \cup Refreshers

\* The time 0 is none.  evidence is no field of the code: the times of the
\* misses this copy counted since an observation that did not miss the process.
OpenRecord == [exit |-> "none", misses |-> 0, first |-> 0, last |-> 0, evidence |-> {}]

SweepInit ==
  /\ now = 1 /\ process = "runs"
  /\ snapshotOf = [o \in Observers |-> [at |-> 0, status |-> "unknown"]]
  /\ onFile = OpenRecord /\ inMemory = OpenRecord
  /\ persisting = {}
  /\ sighted = {} /\ lost = {}

Ticks ==
  /\ now < MaxTime /\ now' = now + 1
  /\ UNCHANGED <<process, snapshotOf, onFile, inMemory, persisting, sighted, lost>>

\* Its pid can go to another process.
ProcessEnds(reused) ==
  /\ process = "runs" /\ process' = IF reused THEN "replaced" ELSE "gone"
  /\ UNCHANGED <<now, snapshotOf, onFile, inMemory, persisting, sighted, lost>>

\* observeRecord of a snapshot taken now.
Observes(o, status) ==
  /\ snapshotOf[o].at < now
  /\ status = "running" => process = "runs"
  /\ status = "mismatch" => process = "replaced"
  /\ snapshotOf' = [snapshotOf EXCEPT ![o] = [at |-> now, status |-> status]]
  /\ UNCHANGED <<now, process, onFile, inMemory, persisting, sighted, lost>>

-----------------------------------------------------------------------------
(***************************************************************************)
(* What an observation makes of a record.                                  *)
(***************************************************************************)
\* The time of the first miss stays.
ResetsCount(r, at) == [r EXCEPT !.misses = 0, !.last = at, !.evidence = {}]

Resets(r, at) == [r EXCEPT !.misses = 0, !.first = 0, !.last = at, !.evidence = {}]

Counts(r, at) ==
  [r EXCEPT !.misses = IF r.last = at THEN @ ELSE @ + 1,
            !.first = IF r.last = at \/ @ # 0 THEN @ ELSE at,
            !.last = at,
            !.evidence = IF r.last = at THEN @ ELSE @ \cup {at}]

Sights(seen) == seen.status \in {"running", "unknown"}

Told(r, seen) == IF Sights(seen) THEN Resets(r, seen.at) ELSE Counts(r, seen.at)

LongEnough(r, at) == r.misses >= Misses /\ (IF r.first = 0 THEN 0 ELSE at - r.first) >= Grace

Exit(seen) == IF seen.status = "mismatch" THEN "mismatch" ELSE "missing"

\* Only the sweep asks whether the observation is one it had before.
Confirms(before, after, seen, sweeping) ==
  \/ seen.status = "mismatch"
  \/ /\ seen.status = "missing"
     /\ sweeping => before.last # seen.at
     /\ LongEnough(after, seen.at)

\* Older evidence does not override newer.
Judged(r, seen, sweeping) ==
  IF seen.at < r.last THEN r
  ELSE IF Confirms(r, Told(r, seen), seen, sweeping)
       THEN [Told(r, seen) EXCEPT !.exit = Exit(seen)]
       ELSE Told(r, seen)

-----------------------------------------------------------------------------
Sweeps(o) ==
  /\ onFile.exit = "none" /\ snapshotOf[o].at # 0
  /\ onFile' = Judged(onFile, snapshotOf[o], TRUE)
  /\ sighted' = IF Sights(snapshotOf[o]) /\ snapshotOf[o].at >= onFile.last
                  THEN sighted \cup {snapshotOf[o].at} ELSE sighted
  /\ UNCHANGED <<now, process, snapshotOf, inMemory, persisting, lost>>

PersistsObserved(r) ==
  /\ inMemory' = r
  /\ persisting' = persisting \cup {r}
  /\ Cardinality(persisting') =< MaxPersists

\* An exit is timed when it is marked (markProcessExited).
RefreshesMemory(o) ==
  LET judged == Judged(inMemory, snapshotOf[o], FALSE) IN
  /\ inMemory.exit = "none" /\ snapshotOf[o].at >= inMemory.last /\ snapshotOf[o].at # 0
  /\ PersistsObserved(IF judged.exit = "none" THEN judged ELSE [judged EXCEPT !.last = now])
  /\ UNCHANGED <<now, process, snapshotOf, onFile, sighted, lost>>

\* reconcileFromPositiveEvidence: the process is there after all.
Reopens(o) ==
  /\ inMemory.exit = "missing" /\ snapshotOf[o].status = "running"
  /\ PersistsObserved([Resets(inMemory, snapshotOf[o].at) EXCEPT !.exit = "none"])
  /\ UNCHANGED <<now, process, snapshotOf, onFile, sighted, lost>>

PersistLands(r) ==
  /\ onFile' = r
  /\ persisting' = persisting \ {r}
  /\ lost' = sighted
  /\ UNCHANGED <<now, process, snapshotOf, inMemory, sighted>>

SweepNext ==
  \/ Ticks
  \/ \E reused \in BOOLEAN : ProcessEnds(reused)
  \/ \E o \in Observers, status \in {"running", "missing", "unknown", "mismatch"} :
       Observes(o, status)
  \/ \E o \in Sweepers : Sweeps(o)
  \/ \E o \in Refreshers : RefreshesMemory(o)
  \/ \E o \in Refreshers : Reopens(o)
  \/ \E r \in persisting : PersistLands(r)

SweepSpec == SweepInit /\ [][SweepNext]_sweepVars

-----------------------------------------------------------------------------
(***************************************************************************)
(* Properties.                                                             *)
(***************************************************************************)
\* A record that says its process exited has counted as many misses as it takes,
\* from different snapshots that are a grace time apart, since an observation of
\* that copy that saw the process or could not tell; and no sweep saw it at or
\* after the first of them, but for the sightings that a copy from memory has
\* replaced, which are forgotten.  Or it met a process of another identity, and
\* the Studio is gone.  Snapshots that are used twice, late or out of order do
\* not count (sweepUnlocked, applyProcessObservation).
ExitIsConfirmed ==
  /\ \A r \in {onFile, inMemory} :
       /\ r.exit = "missing" =>
            /\ Cardinality(r.evidence) >= Misses
            /\ \E at, later \in r.evidence : later - at >= Grace
       /\ r.exit = "mismatch" => process = "replaced"
  /\ onFile.exit = "missing" =>
       \A at \in sighted \ lost, miss \in onFile.evidence : at < miss

=============================================================================
