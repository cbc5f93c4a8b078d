--------------------- MODULE BridgeOperations_proofs ----------------------
(***************************************************************************)
(* What the ledger keeps for every set of requests, peers and transports   *)
(* and every limit.  Sound is inductive: BridgeLedger_proofs says that     *)
(* each operator preserves it, and the theorems follow action by action.   *)
(***************************************************************************)
EXTENDS BridgeOperations, BridgeLedger_proofs

-----------------------------------------------------------------------------
(***************************************************************************)
(* What any step of the service may do to its records, and the actions.    *)
(***************************************************************************)

\* From b to c a record is forgotten, or is admitted and handed to nobody, or
\* stays: then it may be handed out while its caller waits, if it was not
\* before, and what it says of a settlement stands.
Lawful(b, c) ==
  \A x \in Ids :
    \/ c.op[x].state = "none"
    \/ /\ c.op[x].state = "pending"
       /\ b.op[x].state # "pending"
       /\ c.op[x].via = None
    \/ /\ b.op[x].state # "none"
       /\ c.op[x].via # b.op[x].via => b.op[x].via = None /\ x \in b.pending
       /\ c.op[x].state = "pending" => b.op[x].state = "pending"
       /\ b.op[x].state = "settled" => /\ c.op[x].state = "settled"
                                       /\ c.op[x].exec = b.op[x].exec
                                       /\ c.op[x].outcome = b.op[x].outcome

\* No request is handed to a transport from b to c.
NoneHanded(b, c) == \A t \in Transports : Outstanding(c, t) \subseteq Outstanding(b, t)

LEMMA KeepsLawful ==
  ASSUME NEW b, Sound(b), NEW c, Sound(c), Keeps(b, c)
  PROVE  Lawful(b, c) /\ NoneHanded(b, c)
  BY DEF Keeps, Lawful, NoneHanded, Outstanding, Sound, Agree

LEMMA AdmitStep ==
  ASSUME NEW b, Sound(b), NEW x \in Ids, NEW p \in Peers
  PROVE  Lawful(b, Admit(b, x, p)) /\ NoneHanded(b, Admit(b, x, p))
  <1> DEFINE c == Prune(b)
             d == Insert(c, x, p)
  <1>1. Sound(c) /\ Keeps(b, c) /\ c.pending = b.pending
    BY PruneSound, PruneKeepsRecords, PruneKeeps
  <1>2. CASE x \in Recorded(c) \/ Cardinality(c.pending) >= MaxPending
    BY <1>1, <1>2, KeepsLawful DEF Admit
  <1>3. CASE ~(x \in Recorded(c) \/ Cardinality(c.pending) >= MaxPending)
    <2>1. Sound(d)
      BY <1>1, <1>3, InsertSound
    <2>2. /\ d.op[x].state = "pending" /\ d.op[x].via = None
          /\ \A y \in Ids : y # x => d.op[y] = c.op[y]
      BY <1>1 DEF Insert, Sound, Bridge, NoRecord
    <2>3. Sound(Prune(d)) /\ Keeps(d, Prune(d)) /\ Prune(d).pending = d.pending
      BY <2>1, PruneSound, PruneKeepsRecords, PruneKeeps
    <2>4. Prune(d).op[x].state = "pending" /\ Prune(d).op[x].via = None
      BY <2>1, <2>2, <2>3 DEF Sound, Agree, Keeps
    <2>5. b.op[x].state # "pending"
      BY <1>1, <1>3 DEF Sound, Agree, Recorded
    <2>6. \A y \in Ids : y # x => \/ Prune(d).op[y].state = "none"
                                  \/ /\ b.op[y].state # "none"
                                     /\ Prune(d).op[y].via = b.op[y].via
                                     /\ Prune(d).op[y].state = "pending" =>
                                          b.op[y].state = "pending"
                                     /\ b.op[y].state = "settled" =>
                                          /\ Prune(d).op[y].state = "settled"
                                          /\ Prune(d).op[y].exec = b.op[y].exec
                                          /\ Prune(d).op[y].outcome = b.op[y].outcome
      BY <1>1, <2>2, <2>3 DEF Keeps
    <2>7. Lawful(b, Prune(d))
      BY <2>4, <2>5, <2>6 DEF Lawful
    <2>8. NoneHanded(b, Prune(d))
      BY <2>3, <2>4, <2>6, NoneAssumption DEF NoneHanded, Outstanding, Sound, Agree
    <2>9. Admit(b, x, p) = Prune(d)
      BY <1>3 DEF Admit
    <2> QED
      BY <2>7, <2>8, <2>9
  <1> QED
    BY <1>2, <1>3

\* Within the window: no transport was handed more than it may hold.
Windowed(b) == \A t \in Transports : Cardinality(Outstanding(b, t)) <= MaxOutstanding

LEMMA NoneHandedWindowed ==
  ASSUME NEW b, Sound(b), NEW c, NoneHanded(b, c), Windowed(b)
  PROVE  Windowed(c)
  <1> SUFFICES ASSUME NEW t \in Transports
               PROVE  Cardinality(Outstanding(c, t)) <= MaxOutstanding
    BY DEF Windowed
  <1>1. IsFiniteSet(Outstanding(b, t))
    <2>1. Outstanding(b, t) \subseteq Ids
      BY DEF Outstanding, Sound, Bridge
    <2> QED
      BY <2>1, IdsAssumption, FS_Subset
  <1>2. Outstanding(c, t) \subseteq Outstanding(b, t)
    BY DEF NoneHanded
  <1>3. /\ Cardinality(Outstanding(c, t)) <= Cardinality(Outstanding(b, t))
        /\ IsFiniteSet(Outstanding(c, t))
    BY <1>1, <1>2, FS_Subset
  <1>4. Cardinality(Outstanding(c, t)) \in Nat /\ Cardinality(Outstanding(b, t)) \in Nat
    BY <1>1, <1>3, FS_CardinalityType
  <1> QED
    BY <1>3, <1>4, LimitsAssumption DEF Windowed

\* Handing out the next request is lawful and stays within the window.
LEMMA ClaimStep ==
  ASSUME NEW b, Sound(b), NEW t \in Transports, NEW x \in NextRequest(b, t), NEW o
  PROVE  /\ Sound(Claim(b, x, t, o))
         /\ Lawful(b, Claim(b, x, t, o))
         /\ \A y \in Ids : Claim(b, x, t, o).op[y].state = b.op[y].state
         /\ Windowed(b) => Windowed(Claim(b, x, t, o))
  <1> DEFINE c == Claim(b, x, t, o)
  <1>1. /\ x \in b.pending /\ x \in Ids /\ b.op[x].via = None
        /\ ~(Cardinality(Outstanding(b, t)) >= MaxOutstanding)
    BY DEF NextRequest, First, Claimable, Sound, Bridge
  <1>2. /\ Sound(c) /\ c.pending = b.pending /\ c.op[x].via = t
        /\ \A y \in Ids : (y # x => c.op[y] = b.op[y]) /\ c.op[y].state = b.op[y].state
    BY <1>1, ClaimSound
  <1>3. b.op[x].state = "pending"
    BY <1>1 DEF Sound, Agree
  <1>4. Lawful(b, c)
    BY <1>1, <1>2, <1>3 DEF Lawful
  <1>5. ASSUME Windowed(b), NEW u \in Transports
        PROVE  Cardinality(Outstanding(c, u)) <= MaxOutstanding
    <2>1. \A y \in b.pending : y \in Ids
      BY DEF Sound, Bridge
    <2>2. CASE u # t
      <3>1. Outstanding(c, u) = Outstanding(b, u)
        BY <1>1, <1>2, <2>1, <2>2, NoneAssumption DEF Outstanding
      <3> QED
        BY <1>5, <3>1 DEF Windowed
    <2>3. CASE u = t
      <3>1. Outstanding(c, t) = Outstanding(b, t) \cup {x} /\ x \notin Outstanding(b, t)
        BY <1>1, <1>2, <2>1, NoneAssumption DEF Outstanding
      <3>2. IsFiniteSet(Outstanding(b, t))
        <4>1. Outstanding(b, t) \subseteq Ids
          BY <2>1 DEF Outstanding
        <4> QED
          BY <4>1, IdsAssumption, FS_Subset
      <3>3. /\ Cardinality(Outstanding(c, t)) = Cardinality(Outstanding(b, t)) + 1
            /\ Cardinality(Outstanding(b, t)) \in Nat
        BY <3>1, <3>2, FS_AddElement, FS_CardinalityType
      <3> QED
        BY <1>1, <2>3, <3>3, LimitsAssumption
    <2> QED
      BY <2>2, <2>3
  <1> QED
    BY <1>2, <1>4, <1>5 DEF Windowed

\* A turn of the pump: a cancellation, or the next request, sent or rejected.
LEMMA TakeStep ==
  ASSUME Sound(bridge), NEW t \in Transports, NEW o \in Owners, Take(t, o)
  PROVE  /\ Sound(bridge')
         /\ Lawful(bridge, bridge')
         /\ Windowed(bridge) => Windowed(bridge')
  <1> DEFINE b == PruneCancels(bridge)
  <1>1. Sound(b) /\ SameRecords(bridge, b)
    BY PruneCancelsSound
  <1>2. ASSUME NEW x \in NextCancel(b, t), bridge' = ClaimCancel(b, x, o)
        PROVE  Sound(bridge') /\ SameRecords(bridge, bridge')
    <2>1. x \in Ids
      BY <1>2 DEF NextCancel, First
    <2> QED
      BY <1>1, <1>2, <2>1, ClaimCancelSound DEF SameRecords
  <1>3. SameRecords(bridge, bridge') /\ Sound(bridge') =>
          /\ Lawful(bridge, bridge')
          /\ Windowed(bridge) => Windowed(bridge')
    BY SameRecordsKeeps, KeepsLawful, NoneHandedWindowed
  <1>4. ASSUME NEW x \in NextRequest(b, t),
               \/ bridge' = Claim(b, x, t, o)
               \/ bridge' = Settle(Claim(b, x, t, o), t, x, "send_failed")
        PROVE  /\ Sound(bridge')
               /\ Lawful(bridge, bridge')
               /\ Windowed(bridge) => Windowed(bridge')
    <2> DEFINE c == Claim(b, x, t, o)
    <2>2. Windowed(b) <=> Windowed(bridge)
      BY <1>1 DEF Windowed, Outstanding, SameRecords
    <2>3. Lawful(b, bridge') => Lawful(bridge, bridge')
      BY <1>1 DEF Lawful, SameRecords
    <2>4. /\ Sound(c) /\ Lawful(b, c) /\ (Windowed(b) => Windowed(c))
          /\ \A y \in Ids : c.op[y].state = b.op[y].state
      BY <1>1, <1>4, ClaimStep
    <2>5. CASE bridge' = c
      BY <2>2, <2>3, <2>4, <2>5
    <2>6. CASE bridge' = Settle(c, t, x, "send_failed")
      <3>1. Sound(bridge') /\ Keeps(c, bridge')
        <4>1. "send_failed" \in Responses
          BY DEF Responses
        <4> QED
          BY <2>4, <2>6, <4>1, SettleSound
      <3>2. Windowed(c) => Windowed(bridge')
        BY <2>4, <3>1, KeepsLawful, NoneHandedWindowed
      <3>3. Lawful(b, bridge')
        BY <2>4, <3>1 DEF Keeps, Lawful
      <3> QED
        BY <2>2, <2>3, <2>4, <3>1, <3>2, <3>3
    <2> QED
      BY <1>4, <2>5, <2>6
  <1> QED
    BY <1>2, <1>3, <1>4 DEF Take

\* Every step keeps the ledger sound, is lawful, and stays within the window.
LEMMA NextStep ==
  ASSUME Sound(bridge), [Next]_bridge
  PROVE  /\ Sound(bridge')
         /\ Lawful(bridge, bridge')
         /\ Windowed(bridge) => Windowed(bridge')
  <1> DEFINE Goal == /\ Sound(bridge')
                     /\ Lawful(bridge, bridge')
                     /\ Windowed(bridge) => Windowed(bridge')
  <1>1. ASSUME Sound(bridge'), Keeps(bridge, bridge')
        PROVE  Goal
    BY <1>1, KeepsLawful, NoneHandedWindowed
  <1>2. ASSUME NEW x \in Ids, NEW p \in Peers, AdmitRequest(x, p)
        PROVE  Goal
    BY <1>2, AdmitSound, AdmitStep, NoneHandedWindowed DEF AdmitRequest
  <1>3. CASE LookUp
    BY <1>1, <1>3, PruneSound, PruneKeepsRecords DEF LookUp
  <1>4. ASSUME NEW x \in Ids, WaiterTimesOut(x) \/ WaiterAborts(x)
        PROVE  Goal
    <2>1. PICK state \in EndedStates : x \in bridge.pending /\ bridge' = EndWaiter(bridge, x, state)
      <3>1. "timed_out" \in EndedStates /\ "aborted" \in EndedStates
        BY DEF EndedStates
      <3> QED
        BY <1>4, <3>1 DEF WaiterTimesOut, WaiterAborts
    <2>2. Sound(bridge') /\ OnlyEnded(bridge, bridge', {x}, state)
      BY <2>1, WaiterEnds
    <2>3. Keeps(bridge, bridge')
      BY <2>1, <2>2, EndsKeeps DEF OnlyEnded
    <2> QED
      BY <1>1, <2>2, <2>3
  <1>5. ASSUME NEW t \in Transports, NEW o \in Owners, Take(t, o)
        PROVE  Goal
    BY <1>5, TakeStep
  <1>6. ASSUME NEW o \in Owners, SocketCloses(o)
        PROVE  Goal
    BY <1>1, <1>6, ReleaseSound, SameRecordsKeeps DEF SocketCloses
  <1>7. ASSUME NEW t \in Transports, NEW x \in Ids, NEW phase \in Stages,
               NEW exec \in Outcomes, ReportProgress(t, x, phase, exec)
        PROVE  Goal
    BY <1>1, <1>7, ProgressSound DEF ReportProgress
  <1>8. ASSUME NEW t \in Transports, NEW x \in Ids, NEW r \in Reports, ReportResponse(t, x, r)
        PROVE  Goal
    <2>1. r \in Responses
      BY ReportsAssumption DEF Responses
    <2> QED
      BY <1>1, <1>8, <2>1, SettleSound DEF ReportResponse
  <1>9. ASSUME NEW p \in Peers, RegisterPeer(p)
        PROVE  Goal
    BY <1>1, <1>9, RegisterSound, SameRecordsKeeps DEF RegisterPeer
  <1>10. ASSUME NEW p \in Peers, UnregisterPeer(p)
         PROVE  Goal
    BY <1>1, <1>10, UnregisterSound, EndsKeeps DEF UnregisterPeer
  <1>11. CASE TimePasses
    <2>1. Sound(bridge') /\ Keeps(bridge, bridge')
      <3>1. bridge' = Tick(bridge) /\ bridge \in Bridge
        BY <1>11 DEF TimePasses, Sound
      <3>2. \A x \in Ids : /\ bridge'.op[x].state = bridge.op[x].state
                           /\ bridge'.op[x].via = bridge.op[x].via
                           /\ bridge'.op[x].exec = bridge.op[x].exec
                           /\ bridge'.op[x].outcome = bridge.op[x].outcome
        <4> SUFFICES ASSUME NEW x \in Ids
                     PROVE  /\ bridge'.op[x].state = bridge.op[x].state
                            /\ bridge'.op[x].via = bridge.op[x].via
                            /\ bridge'.op[x].exec = bridge.op[x].exec
                            /\ bridge'.op[x].outcome = bridge.op[x].outcome
          OBVIOUS
        <4>1. bridge.op[x] \in Operation
          BY <3>1 DEF Bridge
        <4>2. \/ bridge'.op[x] = bridge.op[x]
              \/ bridge'.op[x] = [bridge.op[x] EXCEPT !.age = Older(@, Retention)]
          BY <3>1, TickSound
        <4> QED
          BY <4>1, <4>2 DEF Operation
      <3> QED
        BY <3>1, <3>2, TickSound DEF Keeps
    <2> QED
      BY <1>1, <2>1
  <1>12. CASE UNCHANGED bridge
    BY <1>1, <1>12 DEF Keeps
  <1>13. \A r \in Reports : ExecOf(r) \in Outcomes
    <2>1. \A r \in Reports : r \in Outcomes \/ r = "undelivered"
      BY ReportsAssumption DEF Outcomes
    <2> QED
      BY <2>1 DEF ExecOf, Outcomes
  <1>14. {"executing", "response_delivery"} \subseteq Stages /\ "unknown" \in Outcomes
    BY DEF Stages, Outcomes
  <1> QED
    BY <1>2, <1>3, <1>4, <1>5, <1>6, <1>7, <1>8, <1>9, <1>10, <1>11, <1>12, <1>13, <1>14
       DEF Next

-----------------------------------------------------------------------------
(***************************************************************************)
(* The theorems.                                                           *)
(***************************************************************************)

\* Every ledger the service reaches is sound, whatever its callers, timers and
\* transports do (BridgeService).
THEOREM LedgerSound == Spec => []Sound(bridge)
  <1>1. Init => Sound(bridge)
    BY InitialSound DEF Init
  <1>2. Sound(bridge) /\ [Next]_bridge => Sound(bridge)'
    BY NextStep
  <1> QED
    BY <1>1, <1>2, PTL DEF Spec

\* The ledger keeps its types (the maps of bridge-service.ts).
THEOREM TypeCorrect == Spec => []TypeOK
  <1>1. Sound(bridge) => TypeOK
    BY DEF Sound, TypeOK
  <1> QED
    BY <1>1, LedgerSound, PTL

\* The waiting requests and the stored results are exactly what the records
\* say (pruneOperations, endRequestWaiter, recordResponse).
THEOREM MapsStayTogether == Spec => []MapsAgree
  <1>1. Sound(bridge) => MapsAgree
    BY DEF Sound, Agree, MapsAgree
  <1> QED
    BY <1>1, LedgerSound, PTL

\* A settled operation is never cancelled (recordResponse).
THEOREM NoCancelAfterSettlement == Spec => []SettledNotCancelled
  <1>1. Sound(bridge) => SettledNotCancelled
    BY DEF Sound, Settlement, SettledNotCancelled, Cancelled
  <1> QED
    BY <1>1, LedgerSound, PTL

\* Stopping at the first fresh record loses nothing: a prune leaves no finished
\* record past its retention (pruneOperations).
THEOREM PruningIsComplete == Spec => []PruneComplete
  <1>1. Sound(bridge) => PruneComplete
    BY PruneExpires DEF PruneComplete
  <1> QED
    BY <1>1, LedgerSound, PTL

\* No transport ever holds more waiting requests than its window
\* (claimNextRequestForTransport).
THEOREM WindowHolds == Spec => []OutstandingBounded
  <1>1. Init => Windowed(bridge)
    <2>1. \A t \in Transports : Outstanding(InitialBridge, t) = {}
      BY DEF Outstanding, InitialBridge
    <2> QED
      BY <2>1, FS_EmptySet, LimitsAssumption DEF Init, Windowed
  <1>2. Sound(bridge) /\ Windowed(bridge) /\ [Next]_bridge => Windowed(bridge)'
    BY NextStep DEF Windowed
  <1>3. Windowed(bridge) => OutstandingBounded
    BY DEF Windowed, OutstandingBounded
  <1> QED
    BY <1>1, <1>2, <1>3, LedgerSound, PTL DEF Spec

\* A request is handed out at most once while it is remembered, and only while
\* its caller waits (claimNextRequestForTransport, releaseDeliveryClaims).
THEOREM NeverDispatchedTwice == Spec => DispatchedAtMostOnce
  <1> DEFINE Step == \A x \in Ids :
                       bridge'.op[x].via # bridge.op[x].via =>
                         \/ bridge.op[x].via = None /\ x \in bridge.pending
                         \/ Forgotten(x)
  <1>1. Sound(bridge) /\ [Next]_bridge => [Step]_bridge
    BY NextStep DEF Lawful, Forgotten
  <1> QED
    BY <1>1, LedgerSound, PTL DEF Spec, DispatchedAtMostOnce

\* A settlement is never taken back while it is remembered (recordResponse).
THEOREM SettlementStands == Spec => SettledIsFinal
  <1> DEFINE Step == \A x \in Ids :
                       bridge.op[x].state = "settled" =>
                         \/ Forgotten(x)
                         \/ /\ bridge'.op[x].state = "settled"
                            /\ bridge'.op[x].exec = bridge.op[x].exec
                            /\ bridge'.op[x].outcome = bridge.op[x].outcome
  <1>1. Sound(bridge) /\ [Next]_bridge => [Step]_bridge
    BY NextStep DEF Lawful, Forgotten
  <1> QED
    BY <1>1, LedgerSound, PTL DEF Spec, SettledIsFinal

=============================================================================
