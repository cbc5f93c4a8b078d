-------------------------- MODULE BridgeOperations --------------------------
(***************************************************************************)
(* BridgeService as its callers, its timers and its Studio transports use  *)
(* it (src/packages/core/src/bridge-service.ts): each public method is an  *)
(* action that applies an operator of BridgeLedger, in any order, with any *)
(* arguments.  A transport is not held to any protocol here: it may report *)
(* on any operation, any number of times.                                  *)
(***************************************************************************)
EXTENDS BridgeLedger

VARIABLE bridge     \* the ledger, the claims on it and the registered peers

-----------------------------------------------------------------------------
(***************************************************************************)
(* The actions: callers, timers, peers and transports in any order.        *)
(***************************************************************************)
Init == bridge = InitialBridge

AdmitRequest(x, p) == bridge' = Admit(bridge, x, p)

\* getRequestStatus, joinOperation and canStillSettle only prune.
LookUp == bridge' = Prune(bridge)

WaiterTimesOut(x) == x \in bridge.pending /\ bridge' = EndWaiter(bridge, x, "timed_out")

WaiterAborts(x) == x \in bridge.pending /\ bridge' = EndWaiter(bridge, x, "aborted")

\* One turn of a transport's pump: a cancellation if there is one, else a
\* request, which the transport may find it cannot send.
Take(t, o) ==
  LET b == PruneCancels(bridge)
  IN  \/ \E x \in NextCancel(b, t) : bridge' = ClaimCancel(b, x, o)
      \/ /\ NextCancel(b, t) = {}
         /\ \E x \in NextRequest(b, t) :
               \/ bridge' = Claim(b, x, t, o)
               \/ bridge' = Settle(Claim(b, x, t, o), t, x, "send_failed")

SocketCloses(o) == bridge' = Release(bridge, o)

ReportProgress(t, x, phase, exec) == bridge' = Progress(bridge, t, x, phase, exec)

ReportResponse(t, x, r) == bridge' = Settle(bridge, t, x, r)

RegisterPeer(p) == bridge' = Register(bridge, p)

UnregisterPeer(p) == p \in bridge.peers /\ bridge' = Unregister(bridge, p)

TimePasses == bridge' = Tick(bridge)

Next ==
  \/ \E x \in Ids, p \in Peers : AdmitRequest(x, p)
  \/ LookUp
  \/ \E x \in Ids : WaiterTimesOut(x)
  \/ \E x \in Ids : WaiterAborts(x)
  \/ \E t \in Transports, o \in Owners : Take(t, o)
  \/ \E o \in Owners : SocketCloses(o)
  \/ \E t \in Transports, x \in Ids : ReportProgress(t, x, "executing", "unknown")
  \/ \E t \in Transports, x \in Ids, r \in Reports :
        \/ ReportProgress(t, x, "response_delivery", ExecOf(r))
        \/ ReportResponse(t, x, r)
  \/ \E p \in Peers : RegisterPeer(p)
  \/ \E p \in Peers : UnregisterPeer(p)
  \/ TimePasses

Spec == Init /\ [][Next]_bridge

-----------------------------------------------------------------------------
(***************************************************************************)
(* Properties.                                                             *)
(***************************************************************************)

\* The ledger is a ledger (bridge-service.ts, the maps declared at 501-506).
TypeOK == bridge \in Bridge

\* pendingRequests and operations never drift apart: a request waits exactly
\* while its record says so, whatever pruning has removed, and the results
\* counted as retained are exactly the ones the records still hold
\* (pruneOperations, recordResponse, endRequestWaiter).
MapsAgree ==
  /\ bridge.pending = {x \in Ids : bridge.op[x].state = "pending"}
  /\ bridge.retained = {x \in Ids : bridge.op[x].result = "stored"}

\* No transport has more waiting requests than the execution window
\* (claimNextRequestForTransport, MAX_OUTSTANDING_REQUESTS_PER_TRANSPORT).
OutstandingBounded ==
  \A t \in Transports : Cardinality(Outstanding(bridge, t)) <= MaxOutstanding

\* The expiry loop may stop at the first fresh record: no finished record that
\* is past its retention ever survives a prune behind a younger one
\* (pruneOperations, and the order recordResponse's comment promises).
PruneComplete ==
  \A x \in Unpended(Prune(bridge)) : bridge.op[x].age < Retention

\* A settled operation is never cancelled: neither an unsent cancellation nor
\* a tombstone of it is left behind (recordResponse against
\* notifyRequestCancelled).
SettledNotCancelled ==
  \A x \in Ids : bridge.op[x].state = "settled" => x \notin Cancelled(bridge)

\* x is forgotten in this step; its id may be admitted again at once.
Forgotten(x) ==
  \/ bridge'.op[x].state = "none"
  \/ bridge'.op[x].state = "pending" /\ bridge.op[x].state # "pending"

\* A recorded request is handed out at most once, only while its caller waits,
\* and never by way of a reconnect (claimNextRequestForTransport,
\* releaseDeliveryClaims: "Reconnect must never replay it").
DispatchedAtMostOnce ==
  [][\A x \in Ids :
       bridge'.op[x].via # bridge.op[x].via =>
         \/ bridge.op[x].via = None /\ x \in bridge.pending
         \/ Forgotten(x)]_bridge

\* What the ledger said of a settled operation it never takes back while it
\* remembers it, except that the result itself may be evicted (recordResponse:
\* 'already_settled').
SettledIsFinal ==
  [][\A x \in Ids :
       bridge.op[x].state = "settled" =>
         \/ Forgotten(x)
         \/ /\ bridge'.op[x].state = "settled"
            /\ bridge'.op[x].exec = bridge.op[x].exec
            /\ bridge'.op[x].outcome = bridge.op[x].outcome]_bridge

=============================================================================
