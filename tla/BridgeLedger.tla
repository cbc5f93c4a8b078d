---------------------------- MODULE BridgeLedger ----------------------------
(***************************************************************************)
(* The operation ledger of BridgeService                                   *)
(* (src/packages/core/src/bridge-service.ts): which Studio requests are    *)
(* waiting, which were handed to a Studio transport, how each one ended,   *)
(* and for how long the ledger remembers it.                               *)
(*                                                                         *)
(* The whole service is one JavaScript object, and its methods call each   *)
(* other: an admission prunes, a settlement prunes twice and frees a       *)
(* delivery slot.  So its state is one record, each method is an operator  *)
(* from a ledger to the ledger it leaves behind, and a method that calls   *)
(* another applies its operator.  BridgeOperations makes actions of them,  *)
(* and StudioDelivery composes them with a transport and a plugin.         *)
(*                                                                         *)
(* Time is kept as ages.  A record's age is the time since updatedAt and a *)
(* cancellation's the time since createdAt, counted in ticks up to the age *)
(* at which the code forgets it; a larger age would make no difference.    *)
(***************************************************************************)
EXTENDS Integers, FiniteSets

CONSTANTS
  Ids,              \* operation ids (requestId)
  Peers,            \* Studio peers that a request can target
  Transports,       \* the peers that own a socket
  TransportOf,      \* the transport a peer is reached through
  Reports,          \* the responses a transport reports
  Owners,           \* claim owners: one per socket a transport opens
  None,             \* "no transport", "no owner"
  MaxOutstanding,   \* MAX_OUTSTANDING_REQUESTS_PER_TRANSPORT
  MaxPending,       \* MAX_PENDING_REQUESTS
  MaxRecords,       \* MAX_OPERATION_RECORDS
  MaxRetained,      \* MAX_RETAINED_RESULTS
  MaxTombstones,    \* MAX_CANCELLATION_TOMBSTONES
  Retention,        \* OPERATION_RETENTION_MS, in ticks
  CancelTTL         \* CANCELLATION_TOMBSTONE_TTL_MS, in ticks

ASSUME IdsAssumption == IsFiniteSet(Ids)
ASSUME PeersAssumption ==
  /\ Transports \subseteq Peers
  /\ TransportOf \in [Peers -> Transports]
  /\ \A t \in Transports : TransportOf[t] = t
ASSUME NoneAssumption == None \notin Transports \cup Owners \cup Peers
ASSUME ReportsAssumption ==
  Reports \subseteq {"success", "error", "not_executed", "unknown", "undelivered"}
ASSUME LimitsAssumption ==
  /\ MaxOutstanding \in Nat \ {0}
  /\ MaxPending \in Nat \ {0}
  /\ MaxRecords \in Nat
  /\ MaxPending <= MaxRecords             \* 1024 and 32768
  /\ MaxRetained \in Nat
  /\ MaxTombstones \in Nat
  /\ Retention \in Nat \ {0}
  /\ CancelTTL \in Nat \ {0}

-----------------------------------------------------------------------------
(***************************************************************************)
(* The state of the service.                                               *)
(***************************************************************************)

EndedStates == {"timed_out", "aborted", "disconnected"}
Stages == {"queued", "dispatched", "executing", "response_delivery"}
Outcomes == {"success", "error", "not_executed", "unknown"}

(***************************************************************************)
(* What a transport can report of a request: how its handler ended, and    *)
(* whether the caller gets a response or an error.  "undelivered" is a     *)
(* handler that succeeded and a response that could not be encoded.        *)
(* "send_failed" is the server's own rejection before anything was sent.   *)
(***************************************************************************)
Responses ==
  {"success", "error", "not_executed", "unknown", "undelivered", "send_failed"}

Operation ==
  [state   : {"none", "pending", "settled"} \cup EndedStates,
   stage   : Stages,
   outcome : Outcomes \cup {"pending"},
   exec    : Outcomes,
   target  : Peers \cup {None},
   via     : Transports \cup {None},      \* transportPeerId
   result  : {"none", "stored", "unavailable"},
   age     : 0 .. Retention]

Cancellation ==
  [via   : Transports \cup {None},        \* None: there is no tombstone
   owner : Owners \cup {None},            \* claimOwner
   age   : 0 .. CancelTTL]

NoRecord ==
  [state |-> "none", stage |-> "queued", outcome |-> "pending", exec |-> "unknown",
   target |-> None, via |-> None, result |-> "none", age |-> 0]

NoCancel == [via |-> None, owner |-> None, age |-> 0]

(***************************************************************************)
(* A Map iterates in insertion order.  older orders the operations map:    *)
(* <<y, x>> is in it when y comes before x.  retainedResults is filled at  *)
(* settlement, which also moves the record to the end, so older orders it  *)
(* too, and among unclaimed pending requests older is admission order:     *)
(* nothing moves a record before it is claimed.  earlier orders the        *)
(* pendingCancellations map.                                               *)
(***************************************************************************)
Bridge ==
  [op       : [Ids -> Operation],
   older    : SUBSET (Ids \X Ids),
   pending  : SUBSET Ids,                 \* keys of pendingRequests
   retained : SUBSET Ids,                 \* keys of retainedResults
   cancel   : [Ids -> Cancellation],      \* pendingCancellations
   earlier  : SUBSET (Ids \X Ids),
   peers    : SUBSET Peers]               \* keys of peersById

InitialBridge ==
  [op |-> [x \in Ids |-> NoRecord], older |-> {}, pending |-> {}, retained |-> {},
   cancel |-> [x \in Ids |-> NoCancel], earlier |-> {}, peers |-> {}]

Recorded(b) == {x \in Ids : b.op[x].state # "none"}
Unpended(b) == Recorded(b) \ b.pending
Cancelled(b) == {x \in Ids : b.cancel[x].via # None}

-----------------------------------------------------------------------------
(***************************************************************************)
(* Ordered maps.                                                           *)
(***************************************************************************)

\* The longest initial segment of S whose members are all in aged: what a
\* loop removes that breaks at the first entry it keeps.
Leading(S, order, aged) ==
  {x \in S : \A y \in S : (y = x \/ <<y, x>> \in order) => y \in aged}

\* The first n members of S.
Oldest(S, order, n) == {x \in S : Cardinality({y \in S : <<y, x>> \in order}) < n}

\* The first member of S, as a set.
First(S, order) == {x \in S : \A y \in S : <<y, x>> \notin order}

Without(order, S) == {e \in order : e[1] \notin S /\ e[2] \notin S}

\* The keys S deleted from a map of those keys and set again, in their order.
AtEnd(order, keys, S) ==
  {e \in order : e[1] \notin S \/ e[2] \in S} \cup ((keys \ S) \X S)

-----------------------------------------------------------------------------
(***************************************************************************)
(* pruneOperations: records past their retention go, up to the first       *)
(* unpended one that is still fresh; then the oldest unpended records      *)
(* while the table is too large; then the oldest results.                  *)
(***************************************************************************)
Forget(b, S) ==
  [b EXCEPT !.op = [x \in Ids |-> IF x \in S THEN NoRecord ELSE b.op[x]],
            !.older = Without(b.older, S),
            !.retained = b.retained \ S]

Expired(b) ==
  Leading(Unpended(b), b.older, {x \in Ids : b.op[x].age >= Retention})

\* Overflow without the exemption of pending requests.
OverflowOfAny(b) ==
  Oldest(Recorded(b), b.older, Cardinality(Recorded(b)) - MaxRecords)

Overflow(b) ==
  Oldest(Unpended(b), b.older, Cardinality(Recorded(b)) - MaxRecords)

ExcessResults(b) ==
  Oldest(b.retained, b.older, Cardinality(b.retained) - MaxRetained)

EvictResults(b, S) ==
  [b EXCEPT !.op = [x \in Ids |-> IF x \in S
                                    THEN [b.op[x] EXCEPT !.result = "unavailable"]
                                    ELSE b.op[x]],
            !.retained = b.retained \ S]

Prune(b) ==
  LET unexpired == Forget(b, Expired(b))
      fitting   == Forget(unexpired, Overflow(unexpired))
  IN  EvictResults(fitting, ExcessResults(fitting))

\* prunePendingCancellations: expired tombstones, then the oldest ones.
DropCancels(b, S) ==
  [b EXCEPT !.cancel = [x \in Ids |-> IF x \in S THEN NoCancel ELSE b.cancel[x]],
            !.earlier = Without(b.earlier, S)]

\* Tombstones are dropped only when there are too many.
PruneCancelsBySize(b) ==
  DropCancels(b, Oldest(Cancelled(b), b.earlier, Cardinality(Cancelled(b)) - MaxTombstones))

PruneCancels(b) ==
  LET aged == {x \in Ids : b.cancel[x].age >= CancelTTL}
      live == DropCancels(b, Leading(Cancelled(b), b.earlier, aged))
  IN  DropCancels(live, Oldest(Cancelled(live), live.earlier,
                               Cardinality(Cancelled(live)) - MaxTombstones))

-----------------------------------------------------------------------------
(***************************************************************************)
(* admitRequest: an id the ledger remembers is joined, replayed or refused *)
(* as a collision, none of which changes it; a new one is refused at       *)
(* capacity, and else recorded last.  The table is pruned before and after.*)
(***************************************************************************)
Insert(b, x, p) ==
  [b EXCEPT !.op[x] = [NoRecord EXCEPT !.state = "pending", !.target = p],
            !.older = @ \cup (Recorded(b) \X {x}),
            !.pending = @ \cup {x}]

Admit(b, x, p) ==
  LET c == Prune(b)
  IN  IF x \in Recorded(c) \/ Cardinality(c.pending) >= MaxPending
        THEN c
        ELSE Prune(Insert(c, x, p))

(***************************************************************************)
(* notifyRequestCancelled: a request that was handed to a transport leaves *)
(* a tombstone for it, unless one is already there.                        *)
(***************************************************************************)
Tombstone(b, x) ==
  IF b.op[x].via = None \/ x \in Cancelled(b)
    THEN b
    ELSE LET c == PruneCancels(b)
         IN  PruneCancels(
               [c EXCEPT !.cancel[x] = [via |-> b.op[x].via, owner |-> None, age |-> 0],
                         !.earlier = @ \cup (Cancelled(c) \X {x})])

\* A request that was sent and not yet heard of is said not to have executed.
EndWaitersUnsure(b, S, state) ==
  [b EXCEPT
     !.pending = @ \ S,
     !.older = AtEnd(@, Recorded(b), S),
     !.op = [x \in Ids |->
               LET r == b.op[x]
                   queued == r.stage \in {"queued", "dispatched"}
               IN  IF x \notin S
                     THEN r
                     ELSE [r EXCEPT
                             !.state = state,
                             !.age = 0,
                             !.exec = IF queued THEN "not_executed" ELSE @,
                             !.outcome = IF queued \/ r.exec = "not_executed"
                                           THEN "not_executed" ELSE "unknown"]]]

(***************************************************************************)
(* endRequestWaiter, for each request of S: the waiter is gone, the record *)
(* says how, and moves to the end.  Requests of one call end in one        *)
(* instant; they keep the order they had.                                  *)
(***************************************************************************)
EndWaiters(b, S, state) ==
  [b EXCEPT
     !.pending = @ \ S,
     !.older = AtEnd(@, Recorded(b), S),
     !.op = [x \in Ids |->
               LET r == b.op[x]
                   queued == r.stage = "queued"
               IN  IF x \notin S
                     THEN r
                     ELSE [r EXCEPT
                             !.state = state,
                             !.age = 0,
                             !.exec = IF queued THEN "not_executed" ELSE @,
                             !.outcome = IF queued \/ r.exec = "not_executed"
                                           THEN "not_executed" ELSE "unknown"]]]

EndWaiter(b, x, state) == Tombstone(EndWaiters(b, {x}, state), x)

-----------------------------------------------------------------------------
(***************************************************************************)
(* What a transport takes.  claimNextRequestForTransport hands out the     *)
(* oldest unclaimed request for a peer behind the transport while fewer    *)
(* than MaxOutstanding waiting requests were handed to it.                 *)
(***************************************************************************)
Outstanding(b, t) == {x \in b.pending : b.op[x].via = t}

\* Requests whose waiter ended are handed out too.
ClaimableEnded(b, t) ==
  {x \in Recorded(b) : /\ b.op[x].via = None
                       /\ b.op[x].target \in b.peers
                       /\ TransportOf[b.op[x].target] = t}

Claimable(b, t) ==
  {x \in b.pending : /\ b.op[x].via = None
                     /\ b.op[x].target \in b.peers
                     /\ TransportOf[b.op[x].target] = t}

\* The window admits one request more.
NextRequestOffByOne(b, t) ==
  IF Cardinality(Outstanding(b, t)) > MaxOutstanding
    THEN {}
    ELSE First(Claimable(b, t), b.older)

NextRequest(b, t) ==
  IF Cardinality(Outstanding(b, t)) >= MaxOutstanding
    THEN {}
    ELSE First(Claimable(b, t), b.older)

Claim(b, x, t, o) ==
  [b EXCEPT !.op[x] = [@ EXCEPT !.via = t, !.stage = "dispatched", !.age = 0]]

NextCancel(b, t) ==
  First({x \in Ids : b.cancel[x].via = t /\ b.cancel[x].owner = None}, b.earlier)

ClaimCancel(b, x, o) == [b EXCEPT !.cancel[x].owner = o]

\* A reconnect that also gives the requests of the transport out again.
ReleaseAll(b, o) ==
  [b EXCEPT !.cancel = [x \in Ids |-> IF b.cancel[x].owner = o
                                        THEN [b.cancel[x] EXCEPT !.owner = None]
                                        ELSE b.cancel[x]],
            !.op = [x \in Ids |-> IF x \in b.pending
                                    THEN [b.op[x] EXCEPT !.via = None]
                                    ELSE b.op[x]]]

\* releaseDeliveryClaims: cancellations are handed out again, requests never.
Release(b, o) ==
  [b EXCEPT !.cancel = [x \in Ids |-> IF b.cancel[x].owner = o
                                        THEN [b.cancel[x] EXCEPT !.owner = None]
                                        ELSE b.cancel[x]]]

-----------------------------------------------------------------------------
(***************************************************************************)
(* What a transport reports.  Both reports prune first, and are ignored    *)
(* unless the record was handed to that transport and its peer is          *)
(* registered behind it.                                                   *)
(***************************************************************************)
Owned(b, t, x) ==
  /\ x \in Recorded(b)
  /\ b.op[x].via = t
  /\ t \in b.peers
  /\ b.op[x].target \in b.peers
  /\ TransportOf[b.op[x].target] = t

\* An observation that leaves the record where it was in the map.
ObserveInPlace(b, x, phase, exec) ==
  LET known == IF phase = "executing" THEN b.op[x].exec ELSE exec
  IN  [b EXCEPT !.op[x] = [@ EXCEPT !.stage = phase, !.exec = known, !.age = 0]]

Observe(b, x, phase, exec) ==
  LET known == IF phase = "executing" THEN b.op[x].exec ELSE exec
  IN  [b EXCEPT !.op[x] = [@ EXCEPT !.stage = phase, !.exec = known, !.age = 0],
                !.older = AtEnd(@, Recorded(b), {x})]

Progress(b, t, x, phase, exec) ==
  LET c == Prune(b)
  IN  IF \/ ~Owned(c, t, x)
         \/ c.op[x].state = "settled"
         \/ c.op[x].stage = "response_delivery"
         \/ phase = "executing" /\ c.op[x].stage # "dispatched"
        THEN c
        ELSE Observe(c, x, phase, exec)

ExecOf(r) ==
  CASE r \in Outcomes      -> r
    [] r = "undelivered"   -> "success"
    [] r = "send_failed"   -> "not_executed"

OutcomeOf(r) == IF r = "success" THEN "success" ELSE "error"

\* The record o settled with response r.
Settled(o, r) ==
  [state |-> "settled", stage |-> IF r = "send_failed" THEN o.stage ELSE "response_delivery",
   outcome |-> OutcomeOf(r), exec |-> ExecOf(r), target |-> o.target, via |-> o.via,
   result |-> "stored", age |-> 0]

\* A settlement that leaves the cancellation behind.
RecordKeepingCancel(b, x, r) ==
  [b EXCEPT !.op[x] = Settled(@, r),
            !.older = AtEnd(@, Recorded(b), {x}),
            !.retained = @ \cup {x},
            !.pending = @ \ {x}]

Record(b, x, r) ==
  [b EXCEPT !.op[x] = Settled(@, r),
            !.older = AtEnd(@, Recorded(b), {x}),
            !.retained = @ \cup {x},
            !.pending = @ \ {x},
            !.cancel[x] = NoCancel,
            !.earlier = Without(@, {x})]

\* What settleTransportResponse answers the transport.
Disposition(b, t, x) ==
  LET c == Prune(b)
  IN  IF ~Owned(c, t, x) THEN "unknown"
      ELSE IF c.op[x].state = "settled" THEN "already_settled"
      ELSE "accepted"

\* A late response overwrites the settled outcome.
SettleAgain(b, t, x, r) ==
  LET c == Prune(b) IN IF Owned(c, t, x) THEN Prune(Record(c, x, r)) ELSE c

Settle(b, t, x, r) ==
  LET c == Prune(b)
  IN  IF Disposition(b, t, x) = "accepted" THEN Prune(Record(c, x, r)) ELSE c

-----------------------------------------------------------------------------
(***************************************************************************)
(* Peers.  A peer behind a transport registers only while the transport is *)
(* registered, and leaves with it; requests for a peer that leaves end as  *)
(* disconnected.  A transport that leaves closes its socket, which         *)
(* releases the cancellations it had claimed.                              *)
(***************************************************************************)
Behind(p) == IF p \in Transports THEN {q \in Peers : TransportOf[q] = p} ELSE {p}

Register(b, p) ==
  IF TransportOf[p] \in b.peers \cup {p} THEN [b EXCEPT !.peers = @ \cup {p}] ELSE b

Unregister(b, p) ==
  IF p \notin b.peers
    THEN b
    ELSE LET leaving == Behind(p) \cap b.peers
             freed   == {x \in Ids : p \in Transports /\ b.cancel[x].via = p}
             gone    == [b EXCEPT !.peers = @ \ leaving,
                                  !.cancel = [x \in Ids |->
                                     IF x \in freed
                                       THEN [b.cancel[x] EXCEPT !.owner = None]
                                       ELSE b.cancel[x]]]
         IN  EndWaiters(gone, {x \in b.pending : b.op[x].target \in leaving},
                        "disconnected")

\* The clock moves: every age grows, up to the age at which it no longer counts.
Older(age, limit) == IF age < limit THEN age + 1 ELSE age

Tick(b) ==
  [b EXCEPT
     !.op = [x \in Ids |-> IF x \in Recorded(b)
                             THEN [b.op[x] EXCEPT !.age = Older(@, Retention)]
                             ELSE b.op[x]],
     !.cancel = [x \in Ids |-> IF x \in Cancelled(b)
                                 THEN [b.cancel[x] EXCEPT !.age = Older(@, CancelTTL)]
                                 ELSE b.cancel[x]]]

=============================================================================
