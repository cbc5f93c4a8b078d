----------------------------- MODULE StatusWait -----------------------------
(***************************************************************************)
(* waitForRequestStatus of bridge-service.ts: callers that wait for one    *)
(* operation to settle, as a condition variable made of promises.          *)
(*                                                                         *)
(* lifecycleWaiters maps the operation to a set of callbacks that all its  *)
(* waiters share.  A waiter keeps the set it found when it came, and       *)
(* whoever leaves it empty removes the map's entry, so a set that is still *)
(* in use must be the one in the map.  A callback only resolves a promise: *)
(* the waiter goes on in a later microtask, and until then its callback is *)
(* still in the set.                                                       *)
(*                                                                         *)
(* The operation is what canStillSettle sees of it (BridgeLedger has the   *)
(* rest).  A set is named after the waiter that made it.                   *)
(***************************************************************************)
EXTENDS FiniteSets

CONSTANTS
  Waiters,          \* calls of waitForRequestStatus with a positive waitMs
  NoSet             \* the map has no entry for the operation

ASSUME WaitersAssumption == NoSet \notin Waiters

VARIABLES
  operation,        \* the record: its state, and whether Studio picked it up
  expired,          \* the record is past its retention, if it is not pending
  callbacks,        \* lifecycleWaiters.get(requestId)
  members,          \* the callbacks in each set
  waiter,           \* where each call is
  own,              \* the set each call holds
  due               \* its deadline or its signal has come

waitVars == <<operation, expired, callbacks, members, waiter, own, due>>

Operations == {"none", "queued", "dispatched", "ended", "ended_dispatched", "settled"}

\* asleep: at the await, and nothing has come of it; woken and late: the race
\* is decided, by a callback or by the deadline, and the call not yet resumed.
Places == {"idle", "asleep", "woken", "late", "done"}

WaitInit ==
  /\ operation = "none"
  /\ expired = FALSE
  /\ callbacks = NoSet
  /\ members = [s \in Waiters |-> {}]
  /\ waiter = [w \in Waiters |-> "idle"]
  /\ own = [w \in Waiters |-> NoSet]
  /\ due = [w \in Waiters |-> FALSE]

Settleable(op) == op \in {"queued", "dispatched", "ended_dispatched"}

Pending(op) == op \in {"queued", "dispatched"}

Prunable == expired /\ operation # "none" /\ ~Pending(operation)

-----------------------------------------------------------------------------
(***************************************************************************)
(* notifyLifecycleWaiters: the callbacks of the set in the map run.        *)
(***************************************************************************)
Called(places, among) ==
  [w \in Waiters |-> IF /\ places[w] = "asleep"
                        /\ callbacks # NoSet /\ w \in members[callbacks] \cap among
                       THEN "woken" ELSE places[w]]

Notify == waiter' = Called(waiter, Waiters)

\* The record changes, and whoever waits for it is told.
Becomes(op) ==
  /\ operation' = op /\ expired' = FALSE
  /\ Notify
  /\ UNCHANGED <<callbacks, members, own, due>>

\* admitRequest: a new record, after pruning forgot the old one.
WaitAdmits ==
  /\ operation = "none" /\ operation' = "queued" /\ expired' = FALSE
  /\ UNCHANGED <<callbacks, members, waiter, own, due>>

\* claimNextRequestForTransport wakes nobody: a wait goes on.
WaitClaims ==
  /\ operation = "queued" /\ operation' = "dispatched"
  /\ UNCHANGED <<expired, callbacks, members, waiter, own, due>>

\* endRequestWaiter.
WaitCallerEnds ==
  /\ Pending(operation)
  /\ Becomes(IF operation = "queued" THEN "ended" ELSE "ended_dispatched")

\* recordResponse: it comes from the transport, or is a failure to send.
WaitSettles == operation \in {"dispatched", "ended_dispatched"} /\ Becomes("settled")

\* A record that is pruned leaves its waiters asleep.
WaitPrunesQuietly ==
  /\ Prunable
  /\ operation' = "none" /\ expired' = FALSE
  /\ UNCHANGED <<callbacks, members, waiter, own, due>>

\* pruneOperations, from any method of the service: the record expired, or the
\* table is too large.
WaitPrunes ==
  /\ operation # "none" /\ ~Pending(operation)
  /\ Becomes("none")

WaitExpires ==
  /\ operation # "none" /\ ~Pending(operation) /\ ~expired
  /\ expired' = TRUE
  /\ UNCHANGED <<operation, callbacks, members, waiter, own, due>>

-----------------------------------------------------------------------------
(***************************************************************************)
(* canStillSettle prunes first, which may forget the operation and wake    *)
(* the others.                                                             *)
(***************************************************************************)
Checks(w) ==
  /\ operation' = IF Prunable THEN "none" ELSE operation
  /\ expired' = IF Prunable THEN FALSE ELSE expired

\* Where the other calls are after the check.
Others(w) == IF Prunable THEN Called(waiter, Waiters \ {w}) ELSE waiter

\* The last one to leave takes the map's entry with it, whoever is still there.
LeavesAlways(w, S, s) ==
  /\ members' = [members EXCEPT ![s] = S]
  /\ callbacks' = NoSet

\* The set s is left with the callbacks S; an empty one leaves the map.
Leaves(w, S, s) ==
  /\ members' = [members EXCEPT ![s] = S]
  /\ callbacks' = IF S = {} THEN NoSet ELSE callbacks

\* The call comes, with a status to return at once or to wait for.
WaitBegins(w) ==
  /\ waiter[w] = "idle"
  /\ Checks(w)
  /\ IF Settleable(operation')
       THEN LET s == IF callbacks = NoSet THEN w ELSE callbacks
            IN  /\ callbacks' = s
                /\ own' = [own EXCEPT ![w] = s]
                /\ members' = [members EXCEPT ![s] = @ \cup {w}]
                /\ waiter' = [Others(w) EXCEPT ![w] = "asleep"]
       ELSE /\ waiter' = [Others(w) EXCEPT ![w] = "done"]
            /\ UNCHANGED <<callbacks, own, members>>
  /\ UNCHANGED due

\* The timer or the abort listener resolves the deadline.
WaitIsDue(w) ==
  /\ waiter[w] \in {"asleep", "woken"} /\ ~due[w]
  /\ due' = [due EXCEPT ![w] = TRUE]
  /\ waiter' = [waiter EXCEPT ![w] = IF @ = "asleep" THEN "late" ELSE @]
  /\ UNCHANGED <<operation, expired, callbacks, members, own>>

\* After a transition the callback is taken out and the operation looked at
\* again; the next race may be decided already.
WaitGoesOn(w) ==
  /\ waiter[w] = "woken"
  /\ Checks(w)
  /\ IF Settleable(operation')
       THEN /\ waiter' = [Others(w) EXCEPT ![w] = IF due[w] THEN "late" ELSE "asleep"]
            /\ UNCHANGED <<members, callbacks>>
       ELSE /\ waiter' = [Others(w) EXCEPT ![w] = "done"]
            /\ Leaves(w, members[own[w]] \ {w}, own[w])
  /\ UNCHANGED <<own, due>>

\* After the deadline the status is returned as it is; getRequestStatus prunes.
WaitGivesUp(w) ==
  /\ waiter[w] = "late"
  /\ Checks(w)
  /\ Leaves(w, members[own[w]] \ {w}, own[w])
  /\ waiter' = [Others(w) EXCEPT ![w] = "done"]
  /\ UNCHANGED <<own, due>>

\* A new call of the same caller.
WaitAgain(w) ==
  /\ waiter[w] = "done"
  /\ waiter' = [waiter EXCEPT ![w] = "idle"]
  /\ own' = [own EXCEPT ![w] = NoSet]
  /\ due' = [due EXCEPT ![w] = FALSE]
  /\ UNCHANGED <<operation, expired, callbacks, members>>

WaitResumes(w) == WaitGoesOn(w) \/ WaitGivesUp(w)

WaitNext ==
  \/ WaitAdmits
  \/ WaitClaims
  \/ WaitCallerEnds
  \/ WaitSettles
  \/ WaitPrunes
  \/ WaitExpires
  \/ \E w \in Waiters : WaitBegins(w)
  \/ \E w \in Waiters : WaitIsDue(w)
  \/ \E w \in Waiters : WaitGoesOn(w)
  \/ \E w \in Waiters : WaitGivesUp(w)
  \/ \E w \in Waiters : WaitAgain(w)

WaitSpec == WaitInit /\ [][WaitNext]_waitVars

\* A microtask that is queued runs.
WaitFairness == \A w \in Waiters : WF_waitVars(WaitResumes(w))

-----------------------------------------------------------------------------
(***************************************************************************)
(* Properties.                                                             *)
(***************************************************************************)
WaitTypeOK ==
  /\ operation \in Operations
  /\ expired \in BOOLEAN
  /\ callbacks \in Waiters \cup {NoSet}
  /\ members \in [Waiters -> SUBSET Waiters]
  /\ waiter \in [Waiters -> Places]
  /\ own \in [Waiters -> Waiters \cup {NoSet}]
  /\ due \in [Waiters -> BOOLEAN]

\* A call that sleeps is one whose callback the next notification runs, and it
\* sleeps for an operation that can still settle: no order of arrivals,
\* deadlines and last departures leaves it with a set that is not in the map
\* (waitForRequestStatus), and no change of the record goes untold
\* (notifyLifecycleWaiters' callers).
SleepersAreHeard ==
  \A w \in Waiters :
    waiter[w] = "asleep" =>
      /\ callbacks # NoSet /\ w \in members[callbacks]
      /\ Settleable(operation)

\* The map does not grow with the operations ever waited for: an entry is there
\* only while some call holds its set (the finally of waitForRequestStatus).
NoEmptySetKept ==
  callbacks # NoSet => \E w \in members[callbacks] : own[w] = callbacks /\ waiter[w] # "done"

\* "An operation that can no longer settle returns at once, or as soon as it
\* gets there": a call whose operation cannot settle returns, whether or not
\* its deadline ever comes, unless the id is given to a new operation first.
WaitsReturn ==
  \A w \in Waiters :
    []<>(waiter[w] \in {"asleep", "woken", "late"} => Settleable(operation))

=============================================================================
