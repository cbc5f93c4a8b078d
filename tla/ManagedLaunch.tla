--------------------------- MODULE ManagedLaunch ---------------------------
(***************************************************************************)
(* One managed Studio launch (studio-instance-manager.ts): the server that *)
(* made it, another server, and the record both read and write in the      *)
(* shared registry directory (managed-instance-registry.ts).               *)
(*                                                                         *)
(* A launch that requires process identity starts suspended, and its       *)
(* server owns it by retained handles until it is authorized and then      *)
(* released; any server that finds an unreleased record whose owner is     *)
(* gone stops that Studio.  A persist writes the whole record as it was    *)
(* when persist was called, when the registry's lock is free: writes of    *)
(* one server can land in any order.                                       *)
(*                                                                         *)
(* The registry's lock is taken to exclude (RegistryLock), so a sweep of   *)
(* the file is one step; how many misses confirm an exit is left open.     *)
(***************************************************************************)
EXTENDS Naturals, FiniteSets

CONSTANTS
  Owner,            \* the server process that launches
  Other,            \* another one
  MaxWrites         \* bound: records of a server on their way to the registry

ASSUME MaxWritesAssumption == MaxWrites \in Nat

ManagerServers == {Owner, Other}

VARIABLES
  studio,           \* the process
  ownerAlive,
  launch,           \* how far launchSerialized got
  memory,           \* the owner's ManagedStudioInstance
  control,          \* launchControls has the launch
  asking,           \* authorizeByLaunchId or completeByLaunchId, at the handle's call
  recording,        \* ... and at persist: the records these wait for
  ending,           \* markFailed and markProcessExited, at control.abort()
  file,             \* the registry's record
  writes,           \* records on their way to it
  sweep             \* sweepRegistry of a server

managedVars == <<studio, ownerAlive, launch, memory, control, asking, recording, ending,
                 file, writes, sweep>>

ManagedRecord ==
  [auth : {"pending", "authorized", "released"},
   state : {"launching", "connected", "failed", "exited"}, closed : BOOLEAN]
NoManaged == [auth |-> "none", state |-> "none", closed |-> TRUE]

NoSweep == [by |-> Other, at |-> "idle", copy |-> NoManaged]

Alive == studio \in {"suspended", "running"}

ManagedInit ==
  /\ studio = "none"
  /\ ownerAlive = TRUE
  /\ launch = "none"
  /\ memory = NoManaged /\ control = FALSE
  /\ asking = "nothing" /\ recording = {} /\ ending = {}
  /\ file = NoManaged
  /\ writes = [v \in ManagerServers |-> {}]
  /\ sweep = NoSweep

Usable(record) == ~record.closed /\ record.state \notin {"failed", "exited"}

ClosedRecord(record) ==
  [record EXCEPT !.closed = TRUE, !.state = IF @ = "failed" THEN "failed" ELSE "exited"]

Writing(v, rest, r) ==
  /\ Cardinality(rest \cup {r}) =< MaxWrites
  /\ writes' = [writes EXCEPT ![v] = rest \cup {r}]

WritesRecord(v, r) == Writing(v, writes[v], r)

\* The owner's record becomes r, and is persisted.
Persists(r) == memory' = r /\ WritesRecord(Owner, r)

-----------------------------------------------------------------------------
(***************************************************************************)
(* launchSerialized.  The handles are kept once the record is durable.     *)
(***************************************************************************)
Launches(retained) ==
  /\ launch = "none" /\ ownerAlive
  /\ launch' = "persisting"
  /\ studio' = IF retained THEN "suspended" ELSE "running"
  /\ Persists([auth |-> IF retained THEN "pending" ELSE "released",
               state |-> "launching", closed |-> FALSE])
  /\ UNCHANGED <<ownerAlive, control, asking, recording, ending, file, sweep>>

KeepsControls(r) ==
  /\ launch = "persisting" /\ ownerAlive /\ r \in writes[Owner]
  /\ launch' = "launched"
  /\ writes' = [writes EXCEPT ![Owner] = @ \ {r}] /\ file' = r
  /\ control' = (memory.auth = "pending")
  /\ UNCHANGED <<studio, ownerAlive, memory, asking, recording, ending, sweep>>

\* The record cannot be written: the process is stopped, if it can be.
LaunchFails ==
  /\ launch = "persisting" /\ ownerAlive
  /\ launch' = "failed"
  /\ writes' = [writes EXCEPT ![Owner] = {}]
  /\ memory' = NoManaged
  /\ \/ studio' = "gone"
     \/ UNCHANGED studio
  /\ UNCHANGED <<ownerAlive, control, asking, recording, ending, file, sweep>>

Lands(v, r) ==
  /\ r \in writes[v] /\ launch # "persisting"
  /\ writes' = [writes EXCEPT ![v] = @ \ {r}]
  /\ recording' = IF v = Owner THEN recording \ {r} ELSE recording
  /\ file' = r
  /\ UNCHANGED <<studio, ownerAlive, launch, memory, control, asking, ending, sweep>>

\* The lock times out on a persist that is only logged, or tells its caller.
WriteIsLost(v, r) ==
  /\ r \in writes[v] /\ launch # "persisting"
  /\ v = Owner => r \notin recording
  /\ writes' = [writes EXCEPT ![v] = @ \ {r}]
  /\ UNCHANGED <<studio, ownerAlive, launch, memory, control, asking, recording, ending, file, sweep>>

-----------------------------------------------------------------------------
(***************************************************************************)
(* The owner's calls.  Each is looked at once more only where the code     *)
(* does: what resumes after its await does not ask whether the launch      *)
(* ended meanwhile.                                                        *)
(***************************************************************************)
Authorizes ==
  /\ launch = "launched" /\ asking = "nothing" /\ Usable(memory)
  /\ memory.auth = "pending" /\ control
  /\ asking' = "authorizing"
  /\ UNCHANGED <<studio, ownerAlive, launch, memory, control, recording, ending, file, writes, sweep>>

Completes ==
  /\ launch = "launched" /\ asking = "nothing" /\ Usable(memory)
  /\ memory.auth = "authorized" /\ control
  /\ asking' = "releasing"
  /\ UNCHANGED <<studio, ownerAlive, launch, memory, control, recording, ending, file, writes, sweep>>

Authorized ==
  /\ asking = "authorizing" /\ studio = "suspended"
  /\ asking' = "nothing" /\ studio' = "running"
  /\ Persists([memory EXCEPT !.auth = "authorized"])
  /\ recording' = recording \cup {memory'}
  /\ UNCHANGED <<ownerAlive, launch, control, ending, file, sweep>>

Released ==
  /\ asking = "releasing"
  /\ asking' = "nothing" /\ control' = FALSE
  /\ Persists([memory EXCEPT !.auth = "released"])
  /\ recording' = recording \cup {memory'}
  /\ UNCHANGED <<studio, ownerAlive, launch, ending, file, sweep>>

\* markFailed of a record r, with rest on its way: an unreleased process is
\* aborted first.
Fails(r, rest) ==
  IF ~Usable(r)
    THEN memory' = r /\ writes' = [writes EXCEPT ![Owner] = rest] /\ UNCHANGED ending
  ELSE IF r.auth # "released" /\ control
    THEN /\ memory' = [r EXCEPT !.state = "failed"]
         /\ writes' = [writes EXCEPT ![Owner] = rest]
         /\ ending' = ending \cup {"failing"}
  ELSE /\ memory' = [r EXCEPT !.state = "failed"]
       /\ Writing(Owner, rest, memory')
       /\ UNCHANGED ending

Unauthorized(authorizing) == [memory EXCEPT !.auth = IF authorizing THEN "pending" ELSE @]

\* The handle's call throws.
AskingFails ==
  /\ asking # "nothing"
  /\ asking' = "nothing"
  /\ Fails(Unauthorized(asking = "authorizing"), writes[Owner])
  /\ UNCHANGED <<studio, ownerAlive, launch, control, recording, file, sweep>>

\* What the handle did cannot be recorded.
RecordingFails(r) ==
  /\ r \in recording
  /\ recording' = recording \ {r}
  /\ Fails(Unauthorized(r.auth = "authorized"), writes[Owner] \ {r})
  /\ UNCHANGED <<studio, ownerAlive, launch, control, asking, file, sweep>>

\* The lease of an unreleased launch runs out (complete stops that timer
\* first), or a plugin did not connect in time.
MarkFailed ==
  /\ launch = "launched" /\ ownerAlive /\ asking # "releasing" /\ Usable(memory)
  /\ memory.state = "launching"
  /\ Fails(memory, writes[Owner])
  /\ UNCHANGED <<studio, ownerAlive, launch, control, asking, recording, file, sweep>>

\* abort threw, and the record is closed all the same.
AbortFailsClosed ==
  /\ "failing" \in ending
  /\ ending' = ending \ {"failing"}
  /\ control' = FALSE
  /\ Persists(ClosedRecord(memory))
  /\ UNCHANGED <<studio, ownerAlive, launch, asking, recording, file, sweep>>

\* abort threw: the record says failed and stays open, and so does the handle.
AbortFails ==
  /\ "failing" \in ending
  /\ ending' = ending \ {"failing"}
  /\ Persists(memory)
  /\ UNCHANGED <<studio, ownerAlive, launch, control, asking, recording, file, sweep>>

Aborted ==
  /\ "failing" \in ending
  /\ ending' = ending \ {"failing"}
  /\ control' = FALSE
  /\ studio' = "gone"
  /\ Persists(ClosedRecord(memory))
  /\ UNCHANGED <<ownerAlive, launch, asking, recording, file, sweep>>

\* markProcessExited, from the exit event or an observation that confirms it.
ExitIsSeen ==
  /\ launch = "launched" /\ ownerAlive /\ ~memory.closed /\ studio = "gone"
  /\ "exiting" \notin ending
  /\ IF memory.auth # "released" /\ control
       THEN ending' = ending \cup {"exiting"} /\ UNCHANGED <<memory, control, writes>>
       ELSE /\ control' = FALSE
            /\ Persists(ClosedRecord(memory))
            /\ UNCHANGED ending
  /\ UNCHANGED <<studio, ownerAlive, launch, asking, recording, file, sweep>>

ExitIsMarked ==
  /\ "exiting" \in ending
  /\ ending' = ending \ {"exiting"}
  /\ control' = FALSE
  /\ Persists(ClosedRecord(memory))
  /\ UNCHANGED <<studio, ownerAlive, launch, asking, recording, file, sweep>>

\* attachInstanceId.
Attaches ==
  /\ launch = "launched" /\ ownerAlive /\ Usable(memory) /\ studio = "running"
  /\ memory.state = "launching"
  /\ Persists([memory EXCEPT !.state = "connected"])
  /\ UNCHANGED <<studio, ownerAlive, launch, control, asking, recording, ending, file, sweep>>

\* refresh: the process runs, or cannot be observed.
OwnerRefreshes ==
  /\ launch = "launched" /\ ownerAlive /\ ~memory.closed
  /\ Persists(memory)
  /\ UNCHANGED <<studio, ownerAlive, launch, control, asking, recording, ending, file, sweep>>

\* close, by abort or closeProcess; the rest of it is markProcessExited's.
OwnerCloses ==
  /\ launch = "launched" /\ ownerAlive /\ ~memory.closed /\ Alive
  /\ studio' = "gone"
  /\ UNCHANGED <<ownerAlive, launch, memory, control, asking, recording, ending, file, writes, sweep>>

-----------------------------------------------------------------------------
(***************************************************************************)
(* The other server: it refreshes or closes a copy of the record.          *)
(***************************************************************************)
OtherRefreshes ==
  /\ ~file.closed
  /\ WritesRecord(Other, IF studio = "gone" THEN ClosedRecord(file) ELSE file)
  /\ UNCHANGED <<studio, ownerAlive, launch, memory, control, asking, recording, ending, file, sweep>>

OtherCloses ==
  /\ ~file.closed /\ Alive
  /\ studio' = "gone"
  /\ WritesRecord(Other, ClosedRecord(file))
  /\ UNCHANGED <<ownerAlive, launch, memory, control, asking, recording, ending, file, sweep>>

-----------------------------------------------------------------------------
(***************************************************************************)
(* sweepRegistry: the processes are observed, the file is swept, the open  *)
(* records listed, and those that are orphaned and were running stopped,   *)
(* each behind an await.  Bound: one sweep at a time.                      *)
(***************************************************************************)
Runs(v) == v = Other \/ ownerAlive

\* The process was seen to be gone, for the second time.
SweepsExited(v) ==
  /\ Runs(v) /\ ~file.closed /\ studio = "gone"
  /\ file' = ClosedRecord(file)
  /\ UNCHANGED <<studio, ownerAlive, launch, memory, control, asking, recording, ending, writes, sweep>>

SweepsRunning(v) ==
  /\ Runs(v) /\ ~file.closed /\ Alive /\ sweep = NoSweep
  /\ sweep' = [by |-> v, at |-> "swept", copy |-> NoManaged]
  /\ UNCHANGED <<studio, ownerAlive, launch, memory, control, asking, recording, ending, file, writes>>

\* listOpenUnchecked.
Lists ==
  /\ sweep.at = "swept"
  /\ sweep' = IF file.closed THEN NoSweep ELSE [sweep EXCEPT !.at = "listed", !.copy = file]
  /\ UNCHANGED <<studio, ownerAlive, launch, memory, control, asking, recording, ending, file, writes>>

\* isOrphanedUnreleasedLaunch: a record of this very process is one when it has
\* no handle.
Orphaned ==
  /\ sweep.copy.auth # "released"
  /\ sweep.by = Owner => ~control
  /\ sweep.by = Other => ~ownerAlive

Decides ==
  /\ sweep.at = "listed"
  /\ sweep' = IF Orphaned THEN [sweep EXCEPT !.at = "stopping"] ELSE NoSweep
  /\ UNCHANGED <<studio, ownerAlive, launch, memory, control, asking, recording, ending, file, writes>>

StopsOrphan ==
  /\ sweep.at = "stopping"
  /\ studio' = "gone"
  /\ control' = (control /\ sweep.by # Owner)
  /\ WritesRecord(sweep.by, [sweep.copy EXCEPT !.state = "failed", !.closed = TRUE])
  /\ sweep' = NoSweep
  /\ UNCHANGED <<ownerAlive, launch, memory, asking, recording, ending, file>>

FailsToStopOrphan ==
  /\ sweep.at = "stopping"
  /\ WritesRecord(sweep.by, [sweep.copy EXCEPT !.state = "failed"])
  /\ sweep' = NoSweep
  /\ UNCHANGED <<studio, ownerAlive, launch, memory, control, asking, recording, ending, file>>

-----------------------------------------------------------------------------
(***************************************************************************)
(* Studio ends by itself; the owner's process ends, and its handles and    *)
(* unwritten records with it.                                              *)
(***************************************************************************)
StudioExits ==
  /\ Alive /\ studio' = "gone"
  /\ UNCHANGED <<ownerAlive, launch, memory, control, asking, recording, ending, file, writes, sweep>>

OwnerDies ==
  /\ ownerAlive /\ ownerAlive' = FALSE
  /\ control' = FALSE /\ asking' = "nothing" /\ recording' = {} /\ ending' = {}
  /\ memory' = NoManaged
  /\ writes' = [writes EXCEPT ![Owner] = {}]
  /\ sweep' = IF sweep.by = Owner THEN NoSweep ELSE sweep
  /\ UNCHANGED <<studio, launch, file>>

ManagedNext ==
  \/ \E retained \in BOOLEAN : Launches(retained)
  \/ \E r \in writes[Owner] : KeepsControls(r)
  \/ LaunchFails
  \/ \E v \in ManagerServers : \E r \in writes[v] : Lands(v, r)
  \/ \E v \in ManagerServers : \E r \in writes[v] : WriteIsLost(v, r)
  \/ Authorizes
  \/ Completes
  \/ Authorized
  \/ Released
  \/ AskingFails
  \/ \E r \in recording : RecordingFails(r)
  \/ MarkFailed
  \/ AbortFails
  \/ Aborted
  \/ ExitIsSeen
  \/ ExitIsMarked
  \/ Attaches
  \/ OwnerRefreshes
  \/ OwnerCloses
  \/ OtherRefreshes
  \/ OtherCloses
  \/ \E v \in ManagerServers : SweepsExited(v)
  \/ \E v \in ManagerServers : SweepsRunning(v)
  \/ Lists
  \/ Decides
  \/ StopsOrphan
  \/ FailsToStopOrphan
  \/ StudioExits
  \/ OwnerDies

ManagedSpec == ManagedInit /\ [][ManagedNext]_managedVars

-----------------------------------------------------------------------------
(***************************************************************************)
(* Properties.                                                             *)
(***************************************************************************)
\* "Once Studio exists, callers must always have a durable launch_id with which
\* to inspect or close it": while a launched Studio lives, the registry has an
\* open record of it, through failed aborts, refreshes of copies, sweeps of two
\* servers and writes that land late or in another order (launchSerialized,
\* markFailed, markProcessExited, sweepRegistry).
LiveStudioIsRecorded == launch = "launched" /\ Alive => ~file.closed

\* "Orphaned unreleased Studio launch was stopped after its broker owner
\* exited": a sweep stops a Studio only when its owner is gone (sweepRegistry,
\* isOrphanedUnreleasedLaunch).
OrphansHaveNoOwner ==
  [][StopsOrphan /\ Alive => ~ownerAlive]_managedVars

=============================================================================
