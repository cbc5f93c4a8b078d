----------------------- MODULE BridgeLedger_proofs ------------------------
(***************************************************************************)
(* What the operators of BridgeLedger do to a ledger, for every set of     *)
(* requests, peers and transports and every limit: each keeps it sound,    *)
(* and changes no more of a record than its method does.  The last part    *)
(* says of the order of its maps and the ages in them what it takes for a  *)
(* cancellation to be of the operation it was made for.                    *)
(***************************************************************************)
EXTENDS BridgeLedger, FiniteSetTheorems, WellFoundedInduction, TLAPS

-----------------------------------------------------------------------------
(***************************************************************************)
(* The inductive invariant of a ledger b.                                  *)
(***************************************************************************)

\* pendingRequests and the stored results are what the records say.
Agree(b) ==
  /\ b.pending = {x \in Ids : b.op[x].state = "pending"}
  /\ b.retained = {x \in Ids : b.op[x].result = "stored"}

\* Only a settled record holds a result, and it has no cancellation.
Settlement(b) ==
  \A x \in Ids : /\ b.op[x].result = "stored" => b.op[x].state = "settled"
                 /\ b.op[x].state = "settled" => b.cancel[x].via = None

\* Among records nobody waits for, the map's order is the order of age.
Ordered(b) ==
  \A x \in Unpended(b) : \A y \in Unpended(b) :
     <<y, x>> \in b.older => b.op[y].age >= b.op[x].age

Sound(b) == b \in Bridge /\ Agree(b) /\ Settlement(b) /\ Ordered(b)

-----------------------------------------------------------------------------
(***************************************************************************)
(* Types.                                                                  *)
(***************************************************************************)

LEMMA NoRecordType == NoRecord \in Operation
  BY LimitsAssumption DEF NoRecord, Operation, Stages, Outcomes

LEMMA NoCancelType == NoCancel \in Cancellation
  BY LimitsAssumption DEF NoCancel, Cancellation

\* The initial ledger is sound.
LEMMA InitialSound == Sound(InitialBridge)
  <1>1. InitialBridge \in Bridge
    BY NoRecordType, NoCancelType DEF InitialBridge, Bridge
  <1>2. Agree(InitialBridge) /\ Settlement(InitialBridge) /\ Ordered(InitialBridge)
    BY DEF InitialBridge, Agree, Settlement, Ordered, NoRecord, NoCancel, Unpended, Recorded
  <1> QED
    BY <1>1, <1>2 DEF Sound

-----------------------------------------------------------------------------
(***************************************************************************)
(* Pruning.                                                                *)
(***************************************************************************)

\* Forgetting records nobody waits for keeps the ledger sound.
LEMMA ForgetSound ==
  ASSUME NEW b, Sound(b), NEW S \in SUBSET Unpended(b)
  PROVE  Sound(Forget(b, S))
  <1> DEFINE c == Forget(b, S)
  <1>1. c \in Bridge
    BY NoRecordType DEF Forget, Without, Sound, Bridge
  <1>2. /\ c.op = [x \in Ids |-> IF x \in S THEN NoRecord ELSE b.op[x]]
        /\ c.older \subseteq b.older
        /\ c.pending = b.pending
        /\ c.retained = b.retained \ S
        /\ c.cancel = b.cancel
    BY DEF Forget, Without, Sound, Bridge
  <1>3. Unpended(c) \subseteq Unpended(b) /\ \A x \in Unpended(c) : c.op[x] = b.op[x]
    BY <1>2 DEF Unpended, Recorded, NoRecord
  <1>4. Ordered(c)
    BY <1>2, <1>3 DEF Ordered, Sound
  <1>5. Agree(c) /\ Settlement(c)
    BY <1>2 DEF Agree, Settlement, Sound, NoRecord, Unpended, Recorded
  <1> QED
    BY <1>1, <1>4, <1>5 DEF Sound

\* Evicting results keeps the ledger sound.
LEMMA EvictResultsSound ==
  ASSUME NEW b, Sound(b), NEW S \in SUBSET b.retained
  PROVE  Sound(EvictResults(b, S))
  <1> DEFINE c == EvictResults(b, S)
  <1>1. c \in Bridge
    <2>1. \A r \in Operation : [r EXCEPT !.result = "unavailable"] \in Operation
      BY DEF Operation
    <2>2. b \in Bridge
      BY DEF Sound
    <2> QED
      BY <2>1, <2>2 DEF EvictResults, Bridge
  <1>2. /\ \A x \in Ids : /\ c.op[x].state = b.op[x].state
                          /\ c.op[x].age = b.op[x].age
                          /\ c.op[x].result = IF x \in S THEN "unavailable"
                                                         ELSE b.op[x].result
        /\ c.older = b.older
        /\ c.pending = b.pending
        /\ c.retained = b.retained \ S
        /\ c.cancel = b.cancel
    BY DEF EvictResults, Sound, Bridge, Operation
  <1>3. Unpended(c) = Unpended(b)
    BY <1>2 DEF Unpended, Recorded
  <1>4. Ordered(c)
    BY <1>2, <1>3 DEF Ordered, Sound, Unpended, Recorded
  <1>5. Agree(c) /\ Settlement(c)
    BY <1>2 DEF Agree, Settlement, Sound
  <1> QED
    BY <1>1, <1>4, <1>5 DEF Sound

\* What pruning removes: records nobody waits for, and results.
LEMMA PruneRemoves ==
  ASSUME NEW b
  PROVE  /\ Expired(b) \in SUBSET Unpended(b)
         /\ Overflow(b) \in SUBSET Unpended(b)
         /\ ExcessResults(b) \in SUBSET b.retained
  BY DEF Expired, Leading, Overflow, ExcessResults, Oldest

LEMMA PruneSound ==
  ASSUME NEW b, Sound(b)
  PROVE  Sound(Prune(b))
  <1> DEFINE c == Forget(b, Expired(b))
             d == Forget(c, Overflow(c))
  <1>1. Sound(c)
    BY PruneRemoves, ForgetSound
  <1>2. Sound(d)
    BY <1>1, PruneRemoves, ForgetSound
  <1>3. Sound(EvictResults(d, ExcessResults(d)))
    BY <1>2, PruneRemoves, EvictResultsSound
  <1> QED
    BY <1>3 DEF Prune

\* A record that pruning keeps is as it was, up to its result, and a record it
\* forgets had no caller waiting; nothing else changes.
LEMMA PruneKeeps ==
  ASSUME NEW b, Sound(b)
  PROVE  /\ Prune(b).pending = b.pending
         /\ Prune(b).cancel = b.cancel
         /\ Prune(b).peers = b.peers
         /\ \A x \in Ids :
              \/ x \in Unpended(b) /\ Prune(b).op[x] = NoRecord
              \/ /\ Prune(b).op[x].state = b.op[x].state
                 /\ Prune(b).op[x].stage = b.op[x].stage
                 /\ Prune(b).op[x].via = b.op[x].via
                 /\ Prune(b).op[x].exec = b.op[x].exec
                 /\ Prune(b).op[x].outcome = b.op[x].outcome
                 /\ Prune(b).op[x].age = b.op[x].age
  <1> DEFINE c == Forget(b, Expired(b))
             d == Forget(c, Overflow(c))
             e == EvictResults(d, ExcessResults(d))
  <1>1. Sound(c) /\ Sound(d)
    BY PruneRemoves, ForgetSound
  <1>2. /\ c.pending = b.pending /\ c.cancel = b.cancel /\ c.peers = b.peers
        /\ c.op = [x \in Ids |-> IF x \in Expired(b) THEN NoRecord ELSE b.op[x]]
    BY ZenonT(60) DEF Forget, Sound, Bridge
  <1>3. /\ d.pending = c.pending /\ d.cancel = c.cancel /\ d.peers = c.peers
        /\ d.op = [x \in Ids |-> IF x \in Overflow(c) THEN NoRecord ELSE c.op[x]]
    BY <1>1 DEF Forget, Sound, Bridge
  <1>4. /\ e.pending = d.pending /\ e.cancel = d.cancel /\ e.peers = d.peers
        /\ e.op = [x \in Ids |-> IF x \in ExcessResults(d)
                                   THEN [d.op[x] EXCEPT !.result = "unavailable"]
                                   ELSE d.op[x]]
    BY <1>1 DEF EvictResults, Sound, Bridge
  <1>5. Overflow(c) \subseteq Unpended(b) /\ Expired(b) \subseteq Unpended(b)
    BY <1>2, PruneRemoves DEF Unpended, Recorded, NoRecord
  <1>6. ExcessResults(d) \subseteq {x \in Ids : d.op[x].result = "stored"}
    BY <1>1, PruneRemoves DEF Sound, Agree
  <1>7. ASSUME NEW x \in Ids
        PROVE  \/ x \in Unpended(b) /\ e.op[x] = NoRecord
               \/ /\ e.op[x].state = b.op[x].state
                  /\ e.op[x].stage = b.op[x].stage
                  /\ e.op[x].via = b.op[x].via
                  /\ e.op[x].exec = b.op[x].exec
                  /\ e.op[x].outcome = b.op[x].outcome
                  /\ e.op[x].age = b.op[x].age
    <2>1. CASE x \in Expired(b) \cup Overflow(c)
      <3>1. d.op[x] = NoRecord
        BY <2>1, <1>2, <1>3
      <3>2. x \notin ExcessResults(d)
        BY <3>1, <1>6 DEF NoRecord
      <3> QED
        BY <2>1, <3>1, <3>2, <1>4, <1>5
    <2>2. CASE x \notin Expired(b) \cup Overflow(c)
      <3>1. d.op[x] = b.op[x]
        BY <2>2, <1>2, <1>3
      <3>2. b.op[x] \in Operation
        BY DEF Sound, Bridge
      <3> QED
        BY <3>1, <3>2, <1>4 DEF Operation
    <2> QED
      BY <2>1, <2>2
  <1> QED
    BY <1>2, <1>3, <1>4, <1>7 DEF Prune

\* No record past its retention survives a prune: the loop may stop at the
\* first fresh one because the map is in order of age.
LEMMA PruneExpires ==
  ASSUME NEW b, Sound(b), NEW x \in Unpended(Prune(b))
  PROVE  b.op[x].age < Retention
  <1> DEFINE c == Forget(b, Expired(b))
             d == Forget(c, Overflow(c))
             e == EvictResults(d, ExcessResults(d))
  <1> SUFFICES ASSUME ~(b.op[x].age < Retention)
               PROVE  FALSE
    OBVIOUS
  <1>1. x \in Unpended(b) /\ Prune(b).op[x] # NoRecord
    <2>1. x \in Ids /\ Prune(b).op[x].state # "none" /\ x \notin Prune(b).pending
      BY DEF Unpended, Recorded
    <2>2. Prune(b).op[x] # NoRecord
      BY <2>1 DEF NoRecord
    <2>3. Prune(b).op[x].state = b.op[x].state /\ Prune(b).pending = b.pending
      BY <2>1, <2>2, PruneKeeps
    <2> QED
      BY <2>1, <2>2, <2>3 DEF Unpended, Recorded
  <1>2. \A y \in Ids : b.op[y].age \in 0 .. Retention
    BY DEF Sound, Bridge, Operation
  <1>3. \A y \in Unpended(b) : <<y, x>> \in b.older => b.op[y].age >= b.op[x].age
    BY <1>1 DEF Sound, Ordered
  <1>4. \A y \in Unpended(b) :
          (y = x \/ <<y, x>> \in b.older) => b.op[y].age >= Retention
    BY <1>1, <1>2, <1>3, LimitsAssumption DEF Unpended, Recorded
  <1>5. x \in Expired(b)
    BY <1>1, <1>4 DEF Expired, Leading, Unpended, Recorded
  <1>6. c.op[x] = NoRecord /\ Sound(c)
    <2>1. Sound(c)
      BY PruneRemoves, ForgetSound
    <2>2. c.op = [y \in Ids |-> IF y \in Expired(b) THEN NoRecord ELSE b.op[y]]
      BY DEF Forget, Sound, Bridge
    <2> QED
      BY <1>1, <1>5, <2>1, <2>2 DEF Unpended, Recorded
  <1>7. d.op[x] = NoRecord /\ Sound(d)
    <2>1. Sound(d)
      BY <1>6, PruneRemoves, ForgetSound
    <2>2. d.op = [y \in Ids |-> IF y \in Overflow(c) THEN NoRecord ELSE c.op[y]]
      BY <1>6 DEF Forget, Sound, Bridge
    <2> QED
      BY <2>1, <2>2, <1>6, <1>1 DEF Unpended, Recorded
  <1>8. x \notin ExcessResults(d)
    BY <1>7, PruneRemoves DEF Sound, Agree, NoRecord
  <1>9. e.op[x] = NoRecord
    BY <1>1, <1>7, <1>8 DEF EvictResults, Sound, Bridge, Unpended, Recorded
  <1> QED
    BY <1>1, <1>9 DEF Prune

-----------------------------------------------------------------------------
(***************************************************************************)
(* Operators that leave every record alone: cancellations and peers.       *)
(***************************************************************************)

\* b and c differ in nothing the invariant says of the records.
SameRecords(b, c) ==
  c.op = b.op /\ c.older = b.older /\ c.pending = b.pending /\ c.retained = b.retained

\* Fewer tombstones over the same records keep the ledger sound.
LEMMA SameRecordsSound ==
  ASSUME NEW b, Sound(b), NEW c \in Bridge, SameRecords(b, c),
         \A x \in Ids : b.cancel[x].via = None => c.cancel[x].via = None
  PROVE  Sound(c)
  BY DEF Sound, SameRecords, Agree, Settlement, Ordered, Unpended, Recorded

LEMMA DropCancelsSound ==
  ASSUME NEW b, Sound(b), NEW S
  PROVE  /\ Sound(DropCancels(b, S))
         /\ SameRecords(b, DropCancels(b, S))
         /\ DropCancels(b, S).peers = b.peers
  <1> DEFINE c == DropCancels(b, S)
  <1>1. c \in Bridge /\ SameRecords(b, c) /\ c.peers = b.peers
    BY NoCancelType DEF DropCancels, Without, Sound, Bridge, SameRecords
  <1>2. \A x \in Ids : b.cancel[x].via = None => c.cancel[x].via = None
    BY DEF DropCancels, NoCancel, Sound, Bridge
  <1> QED
    BY <1>1, <1>2, SameRecordsSound

LEMMA PruneCancelsSound ==
  ASSUME NEW b, Sound(b)
  PROVE  /\ Sound(PruneCancels(b))
         /\ SameRecords(b, PruneCancels(b))
         /\ PruneCancels(b).peers = b.peers
  BY DropCancelsSound DEF PruneCancels, SameRecords

\* A tombstone for a record that has not settled keeps the ledger sound.
LEMMA TombstoneSound ==
  ASSUME NEW b, Sound(b), NEW x \in Ids, b.op[x].state # "settled"
  PROVE  /\ Sound(Tombstone(b, x))
         /\ SameRecords(b, Tombstone(b, x))
  <1> DEFINE c == PruneCancels(b)
             d == [c EXCEPT !.cancel[x] = [via |-> b.op[x].via, owner |-> None, age |-> 0],
                            !.earlier = @ \cup (Cancelled(c) \X {x})]
  <1>1. CASE b.op[x].via = None \/ x \in Cancelled(b)
    BY <1>1 DEF Tombstone, SameRecords
  <1>2. CASE ~(b.op[x].via = None \/ x \in Cancelled(b))
    <2>1. Sound(c) /\ SameRecords(b, c)
      BY PruneCancelsSound
    <2>2. [via |-> b.op[x].via, owner |-> None, age |-> 0] \in Cancellation
      BY LimitsAssumption DEF Sound, Bridge, Operation, Cancellation
    <2>3. d \in Bridge
      BY <2>1, <2>2 DEF Sound, Bridge, Cancelled
    <2>4. SameRecords(b, d)
      BY <2>1 DEF SameRecords, Sound, Bridge
    <2>5. \A y \in Ids : d.cancel[y] = IF y = x
                                        THEN [via |-> b.op[x].via, owner |-> None, age |-> 0]
                                        ELSE c.cancel[y]
      BY <2>1 DEF Sound, Bridge
    <2>6. Settlement(d)
      BY <2>1, <2>4, <2>5 DEF Settlement, Sound, SameRecords
    <2>7. Sound(d)
      BY <2>1, <2>3, <2>4, <2>6
         DEF Sound, SameRecords, Agree, Ordered, Unpended, Recorded
    <2>8. Tombstone(b, x) = PruneCancels(d)
      BY <1>2 DEF Tombstone
    <2>9. Sound(PruneCancels(d)) /\ SameRecords(d, PruneCancels(d))
      BY <2>7, PruneCancelsSound
    <2> HIDE DEF c, d
    <2>10. SameRecords(b, PruneCancels(d))
      BY <2>4, <2>9 DEF SameRecords
    <2> QED
      BY <2>8, <2>9, <2>10
  <1> QED
    BY <1>1, <1>2

LEMMA ClaimCancelSound ==
  ASSUME NEW b, Sound(b), NEW x \in Ids, NEW o \in Owners
  PROVE  Sound(ClaimCancel(b, x, o)) /\ SameRecords(b, ClaimCancel(b, x, o))
  <1> DEFINE c == ClaimCancel(b, x, o)
  <1>1. \A r \in Cancellation : [r EXCEPT !.owner = o] \in Cancellation
    BY DEF Cancellation
  <1>2. c \in Bridge /\ SameRecords(b, c)
    BY <1>1 DEF ClaimCancel, Sound, Bridge, SameRecords
  <1>3. \A y \in Ids : c.cancel[y].via = b.cancel[y].via
    BY DEF ClaimCancel, Sound, Bridge, Cancellation
  <1> QED
    BY <1>2, <1>3, SameRecordsSound

LEMMA ReleaseSound ==
  ASSUME NEW b, Sound(b), NEW o
  PROVE  Sound(Release(b, o)) /\ SameRecords(b, Release(b, o))
  <1> DEFINE c == Release(b, o)
  <1>1. \A r \in Cancellation : [r EXCEPT !.owner = None] \in Cancellation
    BY DEF Cancellation
  <1>2. c \in Bridge /\ SameRecords(b, c)
    BY <1>1 DEF Release, Sound, Bridge, SameRecords
  <1>3. \A y \in Ids : c.cancel[y].via = b.cancel[y].via
    BY DEF Release, Sound, Bridge, Cancellation
  <1> QED
    BY <1>2, <1>3, SameRecordsSound

LEMMA RegisterSound ==
  ASSUME NEW b, Sound(b), NEW p \in Peers
  PROVE  Sound(Register(b, p)) /\ SameRecords(b, Register(b, p))
  <1> DEFINE c == Register(b, p)
  <1>1. c \in Bridge /\ SameRecords(b, c) /\ c.cancel = b.cancel
    BY DEF Register, Sound, Bridge, SameRecords
  <1> QED
    BY <1>1, SameRecordsSound

-----------------------------------------------------------------------------
(***************************************************************************)
(* Operators that change records.                                          *)
(***************************************************************************)

LEMMA InsertSound ==
  ASSUME NEW b, Sound(b), NEW x \in Ids \ Recorded(b), NEW p \in Peers
  PROVE  Sound(Insert(b, x, p))
  <1> DEFINE c == Insert(b, x, p)
             r == [NoRecord EXCEPT !.state = "pending", !.target = p]
  <1>1. r \in Operation /\ r.state = "pending" /\ r.result = "none"
    BY NoRecordType DEF Operation, NoRecord
  <1>2. c \in Bridge
    BY <1>1 DEF Insert, Sound, Bridge, Recorded
  <1>3. /\ c.op = [b.op EXCEPT ![x] = r]
        /\ c.older = b.older \cup (Recorded(b) \X {x})
        /\ c.pending = b.pending \cup {x}
        /\ c.retained = b.retained
        /\ c.cancel = b.cancel
    BY DEF Insert, Sound, Bridge
  <1>4. b.op[x].state = "none" /\ x \notin b.retained /\ b.op \in [Ids -> Operation]
    BY DEF Recorded, Sound, Agree, Settlement, Bridge
  <1>5. Agree(c) /\ Settlement(c)
    BY <1>1, <1>3, <1>4 DEF Agree, Settlement, Sound
  <1>6. Unpended(c) = Unpended(b) /\ x \notin Unpended(b)
    BY <1>1, <1>3, <1>4 DEF Unpended, Recorded
  <1>7. Ordered(c)
    BY <1>3, <1>4, <1>6 DEF Ordered, Sound, Unpended, Recorded
  <1> QED
    BY <1>2, <1>5, <1>7 DEF Sound

LEMMA AdmitSound ==
  ASSUME NEW b, Sound(b), NEW x \in Ids, NEW p \in Peers
  PROVE  Sound(Admit(b, x, p))
  BY PruneSound, InsertSound DEF Admit

\* Records moved to the end of the map with age zero stay in order of age.
LEMMA AtEndOrdered ==
  ASSUME NEW b, Sound(b), NEW S \in SUBSET Ids,
         NEW c, c \in Bridge,
         c.older = AtEnd(b.older, Recorded(b), S),
         Unpended(c) \subseteq Unpended(b) \cup S,
         \A x \in S : c.op[x].age = 0,
         \A x \in Ids \ S : c.op[x].age = b.op[x].age
  PROVE  Ordered(c)
  <1> SUFFICES ASSUME NEW x \in Unpended(c), NEW y \in Unpended(c), <<y, x>> \in c.older
               PROVE  c.op[y].age >= c.op[x].age
    BY DEF Ordered
  <1>1. c.op[x].age \in Nat /\ c.op[y].age \in Nat
    BY LimitsAssumption DEF Bridge, Operation, Unpended, Recorded
  <1>2. CASE x \in S
    BY <1>1, <1>2
  <1>3. CASE x \notin S
    <2>1. <<y, x>> \in b.older /\ y \notin S
      BY <1>3 DEF AtEnd
    <2> QED
      BY <1>3, <2>1 DEF Sound, Ordered, Unpended, Recorded
  <1> QED
    BY <1>2, <1>3

\* From b to c the requests of S end as state, and nothing else happens.
OnlyEnded(b, c, S, state) ==
  /\ c.pending = b.pending \ S
  /\ \A x \in Ids : /\ x \notin S => c.op[x] = b.op[x]
                    /\ x \in S => c.op[x].state = state
                    /\ c.op[x].via = b.op[x].via

LEMMA EndWaitersSound ==
  ASSUME NEW b, Sound(b), NEW S \in SUBSET b.pending, NEW state \in EndedStates
  PROVE  /\ Sound(EndWaiters(b, S, state))
         /\ OnlyEnded(b, EndWaiters(b, S, state), S, state)
  <1> DEFINE c == EndWaiters(b, S, state)
             ended(r) == [r EXCEPT
                            !.state = state,
                            !.age = 0,
                            !.exec = IF r.stage = "queued" THEN "not_executed" ELSE @,
                            !.outcome = IF r.stage = "queued" \/ r.exec = "not_executed"
                                          THEN "not_executed" ELSE "unknown"]
  <1>1. \A r \in Operation : /\ ended(r) \in Operation
                             /\ ended(r).state = state
                             /\ ended(r).age = 0
                             /\ ended(r).via = r.via
                             /\ ended(r).result = r.result
    <2> SUFFICES ASSUME NEW r \in Operation
                 PROVE  /\ ended(r) \in Operation
                        /\ ended(r).state = state
                        /\ ended(r).age = 0
                        /\ ended(r).via = r.via
                        /\ ended(r).result = r.result
      OBVIOUS
    <2> DEFINE exec == IF r.stage = "queued" THEN "not_executed" ELSE r.exec
               outcome == IF r.stage = "queued" \/ r.exec = "not_executed"
                            THEN "not_executed" ELSE "unknown"
    <2>1. exec \in Outcomes /\ outcome \in Outcomes
      BY DEF Operation, Outcomes
    <2>2. ended(r) = [r EXCEPT !.state = state, !.age = 0,
                               !.exec = exec, !.outcome = outcome]
      BY DEF Operation
    <2> HIDE DEF exec, outcome, ended
    <2>3. [r EXCEPT !.state = state, !.age = 0,
                    !.exec = exec, !.outcome = outcome] \in Operation
      <3>1. \A q \in Operation : [q EXCEPT !.state = state] \in Operation
        BY DEF Operation
      <3>2. \A q \in Operation : [q EXCEPT !.age = 0] \in Operation
        BY LimitsAssumption DEF Operation
      <3>3. \A q \in Operation : [q EXCEPT !.exec = exec] \in Operation
        BY <2>1 DEF Operation
      <3>4. \A q \in Operation : [q EXCEPT !.outcome = outcome] \in Operation
        BY <2>1 DEF Operation
      <3> QED
        BY <3>1, <3>2, <3>3, <3>4
    <2> QED
      BY <2>2, <2>3 DEF Operation
  <1>2. b \in Bridge /\ S \subseteq Ids
    BY DEF Sound, Bridge
  <1>3. /\ c.op = [x \in Ids |-> IF x \notin S THEN b.op[x] ELSE ended(b.op[x])]
        /\ c.older = AtEnd(b.older, Recorded(b), S)
        /\ c.pending = b.pending \ S
        /\ c.retained = b.retained
        /\ c.cancel = b.cancel
    BY <1>2 DEF EndWaiters, Bridge
  <1>4. AtEnd(b.older, Recorded(b), S) \in SUBSET (Ids \X Ids)
    BY <1>2 DEF AtEnd, Bridge, Recorded
  <1>5. c \in Bridge
    BY <1>1, <1>2, <1>3, <1>4 DEF EndWaiters, Bridge
  <1> HIDE DEF ended, c
  <1>6. \A x \in Ids : /\ x \notin S => c.op[x] = b.op[x]
                       /\ x \in S => /\ c.op[x].state = state
                                     /\ c.op[x].age = 0
                       /\ c.op[x].result = b.op[x].result
                       /\ c.op[x].via = b.op[x].via
    BY <1>1, <1>2, <1>3 DEF Bridge
  <1>7. state # "pending" /\ state # "settled" /\ state # "none"
    BY DEF EndedStates
  <1>8. Agree(c)
    BY <1>2, <1>3, <1>6, <1>7 DEF Agree, Sound
  <1>9. Settlement(c)
    <2>1. \A x \in S : b.op[x].result # "stored"
      BY <1>2 DEF Sound, Agree, Settlement
    <2> QED
      BY <1>2, <1>3, <1>6, <1>7, <2>1 DEF Settlement, Sound
  <1>10. Ordered(c)
    <2>1. Unpended(c) \subseteq Unpended(b) \cup S
      BY <1>2, <1>3, <1>6 DEF Unpended, Recorded
    <2> QED
      <3>1. \A x \in S : c.op[x].age = 0
        BY <1>2, <1>6
      <3>2. \A x \in Ids \ S : c.op[x].age = b.op[x].age
        BY <1>6
      <3> QED
        BY <1>2, <1>3, <1>5, <2>1, <3>1, <3>2, AtEndOrdered
  <1> QED
    BY <1>3, <1>5, <1>6, <1>8, <1>9, <1>10 DEF Sound, OnlyEnded, c

\* A deadline or an abort ends one request as state says, keeps every other
\* record, and keeps the ledger sound.
LEMMA WaiterEnds ==
  ASSUME NEW b, Sound(b), NEW x \in b.pending, NEW state \in EndedStates
  PROVE  /\ Sound(EndWaiter(b, x, state))
         /\ OnlyEnded(b, EndWaiter(b, x, state), {x}, state)
  <1> DEFINE d == EndWaiters(b, {x}, state)
  <1>1. x \in Ids /\ {x} \in SUBSET b.pending
    BY DEF Sound, Bridge
  <1>2. Sound(d) /\ OnlyEnded(b, d, {x}, state)
    BY <1>1, EndWaitersSound
  <1>3. d.op[x].state # "settled"
    BY <1>1, <1>2 DEF OnlyEnded, EndedStates
  <1>4. Sound(Tombstone(d, x)) /\ SameRecords(d, Tombstone(d, x))
    BY <1>1, <1>2, <1>3, TombstoneSound
  <1> QED
    BY <1>2, <1>4 DEF EndWaiter, SameRecords, OnlyEnded

LEMMA UnregisterSound ==
  ASSUME NEW b, Sound(b), NEW p \in Peers
  PROVE  /\ Sound(Unregister(b, p))
         /\ Unregister(b, p).pending \subseteq b.pending
         /\ \A x \in Ids : /\ x \notin b.pending => Unregister(b, p).op[x] = b.op[x]
                           /\ Unregister(b, p).op[x].via = b.op[x].via
  <1> DEFINE leaving == Behind(p) \cap b.peers
             freed == {x \in Ids : p \in Transports /\ b.cancel[x].via = p}
             d == [b EXCEPT !.peers = @ \ leaving,
                            !.cancel = [x \in Ids |->
                               IF x \in freed THEN [b.cancel[x] EXCEPT !.owner = None]
                                              ELSE b.cancel[x]]]
             S == {x \in b.pending : b.op[x].target \in leaving}
  <1>1. CASE p \notin b.peers
    BY <1>1 DEF Unregister
  <1>2. CASE p \in b.peers
    <2>1. \A r \in Cancellation : /\ [r EXCEPT !.owner = None] \in Cancellation
                                  /\ [r EXCEPT !.owner = None].via = r.via
      BY DEF Cancellation
    <2>2. b \in Bridge
      BY DEF Sound
    <2>3. d \in Bridge /\ SameRecords(b, d)
      BY <2>1, <2>2 DEF Bridge, SameRecords
    <2>4. \A x \in Ids : d.cancel[x].via = b.cancel[x].via
      BY <2>1, <2>2 DEF Bridge
    <2>5. Sound(d)
      BY <2>3, <2>4, SameRecordsSound
    <2>6. Unregister(b, p) = EndWaiters(d, S, "disconnected")
      BY <1>2 DEF Unregister
    <2>7. S \in SUBSET d.pending /\ "disconnected" \in EndedStates
      BY <2>3 DEF SameRecords, EndedStates
    <2>8. d.op = b.op /\ d.pending = b.pending
      BY <2>3 DEF SameRecords
    <2> HIDE DEF d, S
    <2>9. /\ Sound(EndWaiters(d, S, "disconnected"))
          /\ OnlyEnded(d, EndWaiters(d, S, "disconnected"), S, "disconnected")
      BY <2>5, <2>7, EndWaitersSound
    <2> QED
      BY <2>6, <2>7, <2>8, <2>9 DEF OnlyEnded
  <1> QED
    BY <1>1, <1>2

\* Claiming a waiting request changes that record's transport, stage and age.
LEMMA ClaimSound ==
  ASSUME NEW b, Sound(b), NEW x \in b.pending, NEW t \in Transports, NEW o
  PROVE  /\ Sound(Claim(b, x, t, o))
         /\ Claim(b, x, t, o).pending = b.pending
         /\ Claim(b, x, t, o).op[x].via = t
         /\ \A y \in Ids : /\ y # x => Claim(b, x, t, o).op[y] = b.op[y]
                           /\ Claim(b, x, t, o).op[y].state = b.op[y].state
  <1> DEFINE c == Claim(b, x, t, o)
             r == [b.op[x] EXCEPT !.via = t, !.stage = "dispatched", !.age = 0]
  <1>1. x \in Ids /\ b \in Bridge /\ b.op[x] \in Operation
    BY DEF Sound, Bridge
  <1>2. r \in Operation /\ r.via = t /\ r.state = b.op[x].state /\ r.result = b.op[x].result
    <2>1. \A q \in Operation : [q EXCEPT !.via = t] \in Operation
      BY DEF Operation
    <2>2. \A q \in Operation : [q EXCEPT !.stage = "dispatched"] \in Operation
      BY DEF Operation, Stages
    <2>3. \A q \in Operation : [q EXCEPT !.age = 0] \in Operation
      BY LimitsAssumption DEF Operation
    <2> QED
      BY <1>1, <2>1, <2>2, <2>3, ZenonT(60) DEF Operation
  <1>3. /\ c.op = [b.op EXCEPT ![x] = r]
        /\ c.older = b.older
        /\ c.pending = b.pending
        /\ c.retained = b.retained
        /\ c.cancel = b.cancel
        /\ c \in Bridge
    BY <1>1, <1>2 DEF Claim, Bridge
  <1> HIDE DEF c, r
  <1>4. \A y \in Ids : /\ y # x => c.op[y] = b.op[y]
                       /\ c.op[y].state = b.op[y].state
                       /\ c.op[y].result = b.op[y].result
    BY <1>1, <1>2, <1>3 DEF Bridge
  <1>5. Unpended(c) = Unpended(b) /\ x \notin Unpended(c)
    BY <1>1, <1>3, <1>4 DEF Unpended, Recorded
  <1>6. Ordered(c)
    BY <1>3, <1>4, <1>5 DEF Ordered, Sound, Unpended, Recorded
  <1>7. Agree(c) /\ Settlement(c)
    BY <1>3, <1>4 DEF Agree, Settlement, Sound
  <1> QED
    BY <1>1, <1>2, <1>3, <1>4, <1>6, <1>7 DEF Sound, Bridge, c

\* From b to c only the record of x changes, and not its transport.
OnlyRecord(b, c, x) ==
  \A y \in Ids : /\ y # x => c.op[y] = b.op[y]
                 /\ c.op[y].via = b.op[y].via

\* An observation of a record that has not settled keeps the ledger sound.
LEMMA ObserveSound ==
  ASSUME NEW b, Sound(b), NEW x \in Recorded(b),
         NEW phase \in Stages, NEW exec \in Outcomes
  PROVE  /\ Sound(Observe(b, x, phase, exec))
         /\ OnlyRecord(b, Observe(b, x, phase, exec), x)
         /\ Observe(b, x, phase, exec).pending = b.pending
  <1> DEFINE c == Observe(b, x, phase, exec)
             known == IF phase = "executing" THEN b.op[x].exec ELSE exec
             r == [b.op[x] EXCEPT !.stage = phase, !.exec = known, !.age = 0]
  <1>1. x \in Ids /\ b \in Bridge /\ b.op[x] \in Operation
    BY DEF Sound, Bridge, Recorded
  <1>2. /\ r \in Operation /\ r.via = b.op[x].via /\ r.age = 0
        /\ r.state = b.op[x].state /\ r.result = b.op[x].result
    <2>1. known \in Outcomes
      BY <1>1 DEF Operation
    <2> HIDE DEF known
    <2>2. \A q \in Operation : [q EXCEPT !.stage = phase] \in Operation
      BY DEF Operation
    <2>3. \A q \in Operation : [q EXCEPT !.exec = known] \in Operation
      BY <2>1 DEF Operation
    <2>4. \A q \in Operation : [q EXCEPT !.age = 0] \in Operation
      BY LimitsAssumption DEF Operation
    <2> QED
      BY <1>1, <2>2, <2>3, <2>4, ZenonT(60) DEF Operation
  <1>3. c = [b EXCEPT !.op[x] = r, !.older = AtEnd(@, Recorded(b), {x})]
    BY DEF Observe
  <1> HIDE DEF r, c
  <1>4. AtEnd(b.older, Recorded(b), {x}) \in SUBSET (Ids \X Ids)
    BY <1>1 DEF AtEnd, Bridge, Recorded
  <1>5. /\ c \in Bridge
        /\ c.op = [b.op EXCEPT ![x] = r]
        /\ c.older = AtEnd(b.older, Recorded(b), {x})
        /\ c.pending = b.pending
        /\ c.retained = b.retained
        /\ c.cancel = b.cancel
    BY <1>1, <1>2, <1>3, <1>4 DEF Bridge
  <1>6. \A y \in Ids : /\ y # x => c.op[y] = b.op[y]
                       /\ c.op[y].via = b.op[y].via
                       /\ c.op[y].state = b.op[y].state
                       /\ c.op[y].result = b.op[y].result
    BY <1>1, <1>2, <1>5 DEF Bridge
  <1>7. Ordered(c)
    <2>1. Unpended(c) \subseteq Unpended(b) \cup {x}
      BY <1>5, <1>6 DEF Unpended, Recorded
    <2> DEFINE S == {x}
    <2>2. S \in SUBSET Ids /\ \A y \in S : c.op[y].age = 0
      BY <1>1, <1>2, <1>5 DEF Bridge
    <2>3. \A y \in Ids \ S : c.op[y].age = b.op[y].age
      BY <1>6
    <2>4. c.older = AtEnd(b.older, Recorded(b), S) /\ Unpended(c) \subseteq Unpended(b) \cup S
      BY <1>5, <2>1
    <2> HIDE DEF S
    <2> QED
      BY <1>5, <2>2, <2>3, <2>4, AtEndOrdered
  <1>8. Agree(c) /\ Settlement(c)
    BY <1>5, <1>6 DEF Agree, Settlement, Sound
  <1> QED
    BY <1>5, <1>6, <1>7, <1>8 DEF Sound, OnlyRecord, c

LEMMA SettledType ==
  ASSUME NEW o \in Operation, NEW r \in Responses
  PROVE  /\ Settled(o, r) \in Operation
         /\ Settled(o, r).state = "settled"
         /\ Settled(o, r).result = "stored"
         /\ Settled(o, r).via = o.via
         /\ Settled(o, r).age = 0
  <1>1. ExecOf(r) \in Outcomes
    <2>1. r \in Outcomes \/ r = "undelivered" \/ r = "send_failed"
      BY DEF Responses, Outcomes
    <2> QED
      BY <2>1 DEF ExecOf, Outcomes
  <1>2. OutcomeOf(r) \in Outcomes
    BY DEF OutcomeOf, Outcomes
  <1>3. (IF r = "send_failed" THEN o.stage ELSE "response_delivery") \in Stages
    BY DEF Operation, Stages
  <1> QED
    BY <1>1, <1>2, <1>3, LimitsAssumption DEF Settled, Operation

\* Recording a response settles that record, ends its caller's wait and its
\* cancellation, and keeps the ledger sound.
LEMMA RecordSound ==
  ASSUME NEW b, Sound(b), NEW x \in Recorded(b), NEW r \in Responses
  PROVE  /\ Sound(Record(b, x, r))
         /\ OnlyRecord(b, Record(b, x, r), x)
         /\ Record(b, x, r).pending = b.pending \ {x}
         /\ Record(b, x, r).op[x].state = "settled"
  <1> DEFINE c == Record(b, x, r)
             settled == Settled(b.op[x], r)
  <1>1. x \in Ids /\ b \in Bridge /\ b.op[x] \in Operation
    BY DEF Sound, Bridge, Recorded
  <1>2. AtEnd(b.older, Recorded(b), {x}) \in SUBSET (Ids \X Ids)
    BY <1>1 DEF AtEnd, Bridge, Recorded
  <1>3. /\ settled \in Operation /\ settled.state = "settled" /\ settled.result = "stored"
        /\ settled.via = b.op[x].via /\ settled.age = 0
    BY <1>1, SettledType
  <1>4. c = [b EXCEPT !.op[x] = settled, !.older = AtEnd(@, Recorded(b), {x}),
                      !.retained = @ \cup {x}, !.pending = @ \ {x},
                      !.cancel[x] = NoCancel, !.earlier = Without(@, {x})]
    BY DEF Record
  <1> HIDE DEF settled, c
  <1>5. /\ c.op = [b.op EXCEPT ![x] = settled]
        /\ c.older = AtEnd(b.older, Recorded(b), {x})
        /\ c.pending = b.pending \ {x}
        /\ c.retained = b.retained \cup {x}
        /\ c.cancel = [b.cancel EXCEPT ![x] = NoCancel]
        /\ c.earlier = Without(b.earlier, {x})
        /\ c.peers = b.peers
    BY <1>1, <1>4 DEF Bridge
  <1>6. c \in Bridge
    <2>1. Without(b.earlier, {x}) \in SUBSET (Ids \X Ids)
      BY <1>1 DEF Without, Bridge
    <2> QED
      BY <1>1, <1>2, <1>3, <1>4, <2>1, NoCancelType DEF Bridge
  <1>7. /\ c.op[x] = settled /\ c.cancel[x] = NoCancel
        /\ \A y \in Ids : y # x => c.op[y] = b.op[y] /\ c.cancel[y] = b.cancel[y]
    BY <1>1, <1>5 DEF Bridge
  <1>8. Ordered(c)
    <2> DEFINE S == {x}
    <2>1. Unpended(c) \subseteq Unpended(b) \cup {x}
      BY <1>1, <1>5, <1>7 DEF Unpended, Recorded
    <2>2. S \in SUBSET Ids /\ \A y \in S : c.op[y].age = 0
      BY <1>1, <1>3, <1>7
    <2>3. \A y \in Ids \ S : c.op[y].age = b.op[y].age
      BY <1>7
    <2>4. c.older = AtEnd(b.older, Recorded(b), S) /\ Unpended(c) \subseteq Unpended(b) \cup S
      BY <1>5, <2>1
    <2> HIDE DEF S
    <2> QED
      BY <1>6, <2>2, <2>3, <2>4, AtEndOrdered
  <1>9. Agree(c)
    BY <1>1, <1>3, <1>5, <1>7 DEF Agree, Sound
  <1>10. Settlement(c)
    BY <1>1, <1>3, <1>7 DEF Settlement, Sound, NoCancel
  <1>11. OnlyRecord(b, c, x)
    BY <1>3, <1>7 DEF OnlyRecord
  <1> QED
    BY <1>3, <1>5, <1>6, <1>7, <1>8, <1>9, <1>10, <1>11 DEF Sound, c

LEMMA TickSound ==
  ASSUME NEW b, Sound(b)
  PROVE  /\ Sound(Tick(b))
         /\ \A x \in Ids : \/ Tick(b).op[x] = b.op[x]
                           \/ Tick(b).op[x] = [b.op[x] EXCEPT !.age = Older(@, Retention)]
         /\ Tick(b).pending = b.pending
  <1> DEFINE c == Tick(b)
  <1>1. b \in Bridge
    BY DEF Sound
  <1>2. /\ \A r \in Operation : [r EXCEPT !.age = Older(@, Retention)] \in Operation
        /\ \A r \in Cancellation : [r EXCEPT !.age = Older(@, CancelTTL)] \in Cancellation
    BY LimitsAssumption DEF Operation, Cancellation, Older
  <1>3. c \in Bridge
    BY <1>1, <1>2 DEF Tick, Bridge
  <1>4. /\ c.op = [x \in Ids |-> IF x \in Recorded(b)
                                   THEN [b.op[x] EXCEPT !.age = Older(@, Retention)]
                                   ELSE b.op[x]]
        /\ c.older = b.older /\ c.pending = b.pending /\ c.retained = b.retained
        /\ \A x \in Ids : c.cancel[x].via = b.cancel[x].via
    BY <1>1 DEF Tick, Bridge, Cancellation
  <1>5. \A x \in Ids : /\ c.op[x].state = b.op[x].state
                       /\ c.op[x].result = b.op[x].result
                       /\ x \in Recorded(b) => c.op[x].age = Older(b.op[x].age, Retention)
    BY <1>1, <1>4 DEF Bridge, Operation
  <1>6. Unpended(c) = Unpended(b)
    BY <1>4, <1>5 DEF Unpended, Recorded
  <1>7. Ordered(c)
    <2>1. \A m \in 0 .. Retention : \A n \in 0 .. Retention :
            m >= n => Older(m, Retention) >= Older(n, Retention)
      BY LimitsAssumption DEF Older
    <2>2. \A x \in Ids : b.op[x].age \in 0 .. Retention
      BY <1>1 DEF Bridge, Operation
    <2> QED
      BY <1>4, <1>5, <1>6, <2>1, <2>2 DEF Ordered, Sound, Unpended, Recorded
  <1>8. Agree(c) /\ Settlement(c)
    BY <1>4, <1>5 DEF Agree, Settlement, Sound
  <1> QED
    BY <1>3, <1>4, <1>7, <1>8 DEF Sound

-----------------------------------------------------------------------------
(***************************************************************************)
(* Steps.  Keeps(b, c): from b to c no record is admitted, handed out,     *)
(* made to wait or taken back once settled; it may be forgotten.           *)
(***************************************************************************)
Keeps(b, c) ==
  \A x \in Ids :
    \/ c.op[x].state = "none"
    \/ /\ b.op[x].state # "none"
       /\ c.op[x].via = b.op[x].via
       /\ c.op[x].state = "pending" => b.op[x].state = "pending"
       /\ b.op[x].state = "settled" => /\ c.op[x].state = "settled"
                                       /\ c.op[x].exec = b.op[x].exec
                                       /\ c.op[x].outcome = b.op[x].outcome

LEMMA KeepsTransitive ==
  ASSUME NEW b, NEW c, NEW d, Keeps(b, c), Keeps(c, d)
  PROVE  Keeps(b, d)
  BY DEF Keeps

LEMMA PruneKeepsRecords ==
  ASSUME NEW b, Sound(b)
  PROVE  Keeps(b, Prune(b))
  BY PruneKeeps DEF Keeps, NoRecord

LEMMA SameRecordsKeeps ==
  ASSUME NEW b, NEW c, SameRecords(b, c)
  PROVE  Keeps(b, c)
  BY DEF Keeps, SameRecords

LEMMA ProgressSound ==
  ASSUME NEW b, Sound(b), NEW t, NEW x, NEW phase \in Stages, NEW exec \in Outcomes
  PROVE  /\ Sound(Progress(b, t, x, phase, exec))
         /\ Keeps(b, Progress(b, t, x, phase, exec))
  <1> DEFINE c == Prune(b)
             d == Progress(b, t, x, phase, exec)
  <1>1. Sound(c) /\ Keeps(b, c)
    BY PruneSound, PruneKeepsRecords
  <1>2. CASE d = c
    BY <1>1, <1>2
  <1>3. CASE d # c
    <2>1. d = Observe(c, x, phase, exec) /\ x \in Recorded(c) /\ c.op[x].state # "settled"
      BY <1>3 DEF Progress, Owned
    <2>2. Sound(d) /\ OnlyRecord(c, d, x) /\ d.pending = c.pending
      BY <1>1, <2>1, ObserveSound
    <2>3. x \in Ids
      BY <2>1 DEF Recorded
    <2>4. c.op[x].state # "pending" => d.op[x].state # "pending"
      BY <1>1, <2>2, <2>3 DEF Sound, Agree
    <2>5. Keeps(c, d)
      BY <2>1, <2>2, <2>4 DEF Keeps, OnlyRecord, Recorded
    <2> QED
      BY <1>1, <2>2, <2>5, KeepsTransitive
  <1> QED
    BY <1>2, <1>3

LEMMA SettleSound ==
  ASSUME NEW b, Sound(b), NEW t, NEW x, NEW r \in Responses
  PROVE  /\ Sound(Settle(b, t, x, r))
         /\ Keeps(b, Settle(b, t, x, r))
         /\ Settle(b, t, x, r).pending \subseteq b.pending
  <1> DEFINE c == Prune(b)
             d == Record(c, x, r)
  <1>1. Sound(c) /\ Keeps(b, c) /\ c.pending = b.pending
    BY PruneSound, PruneKeepsRecords, PruneKeeps
  <1>2. CASE Disposition(b, t, x) # "accepted"
    BY <1>1, <1>2 DEF Settle
  <1>3. CASE Disposition(b, t, x) = "accepted"
    <2>1. Owned(c, t, x) /\ c.op[x].state # "settled"
      BY <1>3 DEF Disposition
    <2>2. x \in Recorded(c)
      BY <2>1 DEF Owned
    <2>3. Sound(d) /\ OnlyRecord(c, d, x) /\ d.op[x].state = "settled"
          /\ d.pending = c.pending \ {x}
      BY <1>1, <2>2, RecordSound
    <2>4. Keeps(c, d)
      BY <2>1, <2>2, <2>3 DEF Keeps, OnlyRecord, Recorded
    <2>5. Sound(Prune(d)) /\ Keeps(d, Prune(d)) /\ Prune(d).pending = d.pending
      BY <2>3, PruneSound, PruneKeepsRecords, PruneKeeps
    <2>6. Settle(b, t, x, r) = Prune(d)
      BY <1>3 DEF Settle
    <2> QED
      BY <1>1, <2>3, <2>4, <2>5, <2>6, KeepsTransitive
  <1> QED
    BY <1>2, <1>3

LEMMA EndsKeeps ==
  ASSUME NEW b, Sound(b), NEW c, Sound(c), c.pending \subseteq b.pending,
         \A x \in Ids : /\ x \notin b.pending => c.op[x] = b.op[x]
                        /\ c.op[x].via = b.op[x].via
  PROVE  Keeps(b, c)
  BY DEF Keeps, Sound, Agree

-----------------------------------------------------------------------------
(***************************************************************************)
(* What becomes of the four fields that a transport and a caller go by.    *)
(***************************************************************************)
Same(o, n) == n.state = o.state /\ n.stage = o.stage /\ n.exec = o.exec /\ n.via = o.via

\* A record that is no record.
Blank(o) == o.state = "none" /\ o.stage = "queued" /\ o.exec = "unknown" /\ o.via = None

\* x keeps its record, or is forgotten while nobody waits for it.
DropsAt(b, c, x) ==
  \/ Same(b.op[x], c.op[x])
  \/ b.op[x].state # "pending" /\ Blank(c.op[x])

Drops(b, c) == \A x \in Ids : DropsAt(b, c, x)

\* x ends without a response: it did not execute if nobody was handed it.
EndsAt(b, c, x) ==
  /\ b.op[x].state = "pending" /\ c.op[x].state \in EndedStates
  /\ c.op[x].stage = b.op[x].stage /\ c.op[x].via = b.op[x].via
  /\ c.op[x].exec = IF b.op[x].stage = "queued" THEN "not_executed" ELSE b.op[x].exec

Ends(b, c) ==
  /\ c.pending \subseteq b.pending
  /\ \A x \in Ids : Same(b.op[x], c.op[x]) \/ EndsAt(b, c, x)

\* A transport reports on x: how far it is, and then how it went.
ReportsAt(b, c, x, t, phase, exec) ==
  /\ b.op[x].state \notin {"none", "settled"} /\ b.op[x].via = t
  /\ b.op[x].stage # "response_delivery"
  /\ phase = "executing" => b.op[x].stage = "dispatched"
  /\ c.op[x].state = b.op[x].state /\ c.op[x].via = t /\ c.op[x].stage = phase
  /\ c.op[x].exec = IF phase = "executing" THEN b.op[x].exec ELSE exec

\* A transport's response settles x.
SettlesAt(b, c, x, t, r) ==
  /\ b.op[x].state \notin {"none", "settled"} /\ b.op[x].via = t
  /\ c.op[x].state = "settled" /\ c.op[x].via = t
  /\ c.op[x].stage = "response_delivery" /\ c.op[x].exec = ExecOf(r)

\* No more requests wait than may.
Few(b) == Cardinality(b.pending) <= MaxPending

LEMMA FewerStay ==
  ASSUME NEW b, Sound(b), NEW c, Sound(c), c.pending \subseteq b.pending, Few(b)
  PROVE  Few(c)
  <1>1. b.pending \subseteq Ids
    BY DEF Sound, Bridge
  <1>2. IsFiniteSet(b.pending)
    BY <1>1, IdsAssumption, FS_Subset
  <1>3. IsFiniteSet(c.pending) /\ Cardinality(c.pending) <= Cardinality(b.pending)
    BY <1>2, FS_Subset
  <1>4. Cardinality(c.pending) \in Nat /\ Cardinality(b.pending) \in Nat
    BY <1>2, <1>3, FS_CardinalityType
  <1> QED
    BY <1>3, <1>4, LimitsAssumption DEF Few

LEMMA DropsTransitive ==
  ASSUME NEW b, NEW c, NEW d, Drops(b, c), Drops(c, d)
  PROVE  Drops(b, d)
  BY DEF Drops, DropsAt, Same, Blank

LEMMA SameRecordsDrops ==
  ASSUME NEW b, NEW c, SameRecords(b, c)
  PROVE  Drops(b, c)
  BY DEF Drops, DropsAt, Same, SameRecords

LEMMA PruneDrops ==
  ASSUME NEW b, Sound(b)
  PROVE  Drops(b, Prune(b)) /\ Prune(b).pending = b.pending
  <1>1. \A x \in Unpended(b) : b.op[x].state # "pending"
    BY DEF Unpended, Recorded, Sound, Agree
  <1> QED
    BY <1>1, PruneKeeps DEF Drops, DropsAt, Same, Blank, NoRecord

LEMMA TickDrops ==
  ASSUME NEW b, Sound(b)
  PROVE  Drops(b, Tick(b))
  <1> SUFFICES ASSUME NEW x \in Ids
               PROVE  Same(b.op[x], Tick(b).op[x])
    BY DEF Drops, DropsAt
  <1>1. b.op[x] \in Operation
    BY DEF Sound, Bridge
  <1>2. \/ Tick(b).op[x] = b.op[x]
        \/ Tick(b).op[x] = [b.op[x] EXCEPT !.age = Older(@, Retention)]
    BY TickSound
  <1> QED
    BY <1>1, <1>2 DEF Same, Operation

LEMMA EndWaitersEnds ==
  ASSUME NEW b, Sound(b), NEW S \in SUBSET b.pending, NEW state \in EndedStates
  PROVE  Ends(b, EndWaiters(b, S, state))
  <1> DEFINE c == EndWaiters(b, S, state)
  <1>1. c.pending = b.pending \ S
    BY DEF EndWaiters, Sound, Bridge
  <1>2. ASSUME NEW x \in Ids
        PROVE  Same(b.op[x], c.op[x]) \/ EndsAt(b, c, x)
    <2>1. b.op[x] \in Operation
      BY DEF Sound, Bridge
    <2>2. CASE x \notin S
      <3>1. c.op[x] = b.op[x]
        BY <2>2 DEF EndWaiters, Sound, Bridge
      <3> QED
        BY <3>1 DEF Same
    <2>3. CASE x \in S
      <3>1. c.op[x] = [b.op[x] EXCEPT
                         !.state = state,
                         !.age = 0,
                         !.exec = IF b.op[x].stage = "queued" THEN "not_executed" ELSE @,
                         !.outcome = IF b.op[x].stage = "queued" \/ b.op[x].exec = "not_executed"
                                       THEN "not_executed" ELSE "unknown"]
        BY <2>3 DEF EndWaiters, Sound, Bridge
      <3>2. /\ c.op[x].state = state /\ c.op[x].stage = b.op[x].stage
            /\ c.op[x].via = b.op[x].via
            /\ c.op[x].exec = IF b.op[x].stage = "queued" THEN "not_executed"
                                                           ELSE b.op[x].exec
        BY <2>1, <3>1 DEF Operation
      <3>3. b.op[x].state = "pending"
        BY <2>3 DEF Sound, Agree
      <3> QED
        BY <3>2, <3>3 DEF EndsAt
    <2> QED
      BY <2>2, <2>3
  <1> QED
    BY <1>1, <1>2 DEF Ends

LEMMA EndWaiterEnds ==
  ASSUME NEW b, Sound(b), NEW x \in b.pending, NEW state \in EndedStates
  PROVE  Ends(b, EndWaiter(b, x, state))
  <1> DEFINE d == EndWaiters(b, {x}, state)
  <1>1. x \in Ids /\ {x} \in SUBSET b.pending
    BY DEF Sound, Bridge
  <1>2. Sound(d) /\ Ends(b, d) /\ OnlyEnded(b, d, {x}, state)
    BY <1>1, EndWaitersSound, EndWaitersEnds
  <1>3. d.op[x].state # "settled"
    BY <1>1, <1>2 DEF OnlyEnded, EndedStates
  <1>4. SameRecords(d, Tombstone(d, x))
    BY <1>1, <1>2, <1>3, TombstoneSound
  <1> QED
    BY <1>2, <1>4 DEF EndWaiter, SameRecords, Ends, EndsAt

LEMMA UnregisterEnds ==
  ASSUME NEW b, Sound(b), NEW p \in Peers
  PROVE  Ends(b, Unregister(b, p))
  <1> DEFINE leaving == Behind(p) \cap b.peers
             freed == {x \in Ids : p \in Transports /\ b.cancel[x].via = p}
             d == [b EXCEPT !.peers = @ \ leaving,
                            !.cancel = [x \in Ids |->
                               IF x \in freed THEN [b.cancel[x] EXCEPT !.owner = None]
                                              ELSE b.cancel[x]]]
             S == {x \in b.pending : b.op[x].target \in leaving}
  <1>1. CASE p \notin b.peers
    BY <1>1 DEF Unregister, Ends, Same
  <1>2. CASE p \in b.peers
    <2>1. Unregister(b, p) = EndWaiters(d, S, "disconnected")
      BY <1>2 DEF Unregister
    <2>2. \A r \in Cancellation : /\ [r EXCEPT !.owner = None] \in Cancellation
                                  /\ [r EXCEPT !.owner = None].via = r.via
      BY DEF Cancellation
    <2>3. b \in Bridge
      BY DEF Sound
    <2>4. d \in Bridge /\ SameRecords(b, d)
      BY <2>2, <2>3 DEF Bridge, SameRecords
    <2>5. \A x \in Ids : d.cancel[x].via = b.cancel[x].via
      BY <2>2, <2>3 DEF Bridge
    <2>6. Sound(d)
      BY <2>4, <2>5, SameRecordsSound
    <2>7. d.op = b.op /\ d.pending = b.pending /\ S \in SUBSET d.pending
      BY <2>4 DEF SameRecords
    <2>8. "disconnected" \in EndedStates
      BY DEF EndedStates
    <2> HIDE DEF d, S
    <2>9. Ends(d, EndWaiters(d, S, "disconnected"))
      BY <2>6, <2>7, <2>8, EndWaitersEnds
    <2> QED
      BY <2>1, <2>7, <2>9 DEF Ends, EndsAt
  <1> QED
    BY <1>1, <1>2

\* An admission forgets what it may, and records x if x was not waited for.
AdmitsAt(b, c, x) ==
  /\ b.op[x].state # "pending" /\ x \notin b.pending /\ c.pending = b.pending \cup {x}
  /\ c.op[x].state = "pending" /\ c.op[x].stage = "queued"
  /\ c.op[x].exec = "unknown" /\ c.op[x].via = None

LEMMA AdmitAdmits ==
  ASSUME NEW b, Sound(b), Few(b), NEW x \in Ids, NEW p \in Peers
  PROVE  LET c == Admit(b, x, p)
         IN  /\ Sound(c) /\ Few(c)
             /\ \A y \in Ids \ {x} : DropsAt(b, c, y)
             /\ \/ AdmitsAt(b, c, x)
                \/ DropsAt(b, c, x) /\ c.pending = b.pending
  <1> DEFINE c == Prune(b)
             d == Insert(c, x, p)
  <1>1. Sound(c) /\ Drops(b, c) /\ c.pending = b.pending
    BY PruneSound, PruneDrops
  <1>2. CASE x \in Recorded(c) \/ Cardinality(c.pending) >= MaxPending
    <2>1. Admit(b, x, p) = c
      BY <1>2 DEF Admit
    <2> QED
      BY <1>1, <2>1 DEF Drops, Few
  <1>3. CASE ~(x \in Recorded(c) \/ Cardinality(c.pending) >= MaxPending)
    <2>1. Admit(b, x, p) = Prune(d) /\ Sound(d)
      BY <1>1, <1>3, InsertSound DEF Admit
    <2>2. /\ d.op[x].state = "pending" /\ d.op[x].via = None
          /\ d.op[x].stage = "queued" /\ d.op[x].exec = "unknown"
          /\ d.pending = c.pending \cup {x}
          /\ \A y \in Ids : y # x => d.op[y] = c.op[y]
      BY <1>1 DEF Insert, Sound, Bridge, NoRecord
    <2>3. Sound(Prune(d)) /\ Drops(d, Prune(d)) /\ Prune(d).pending = d.pending
      BY <2>1, PruneSound, PruneDrops
    <2>4. b.op[x].state # "pending" /\ x \notin b.pending
      BY <1>1, <1>3 DEF Sound, Agree, Recorded
    <2>5. AdmitsAt(b, Prune(d), x)
      BY <1>1, <2>2, <2>3, <2>4 DEF AdmitsAt, Drops, DropsAt, Same
    <2>6. \A y \in Ids \ {x} : DropsAt(b, Prune(d), y)
      BY <1>1, <2>2, <2>3 DEF Drops, DropsAt, Same, Blank
    <2>7. Few(Prune(d))
      <3>1. c.pending \subseteq Ids
        BY <1>1 DEF Sound, Bridge
      <3>2. IsFiniteSet(c.pending)
        BY <3>1, IdsAssumption, FS_Subset
      <3>3. Cardinality(d.pending) = Cardinality(c.pending) + 1
        BY <1>1, <2>2, <2>4, <3>2, FS_AddElement
      <3>4. Cardinality(c.pending) \in Nat
        BY <3>2, FS_CardinalityType
      <3> QED
        BY <1>3, <2>3, <3>3, <3>4, LimitsAssumption DEF Few
    <2> QED
      BY <2>1, <2>3, <2>5, <2>6, <2>7
  <1> QED
    BY <1>2, <1>3

\* Claiming x says of its record that it is on its way to t.
LEMMA ClaimSays ==
  ASSUME NEW b, Sound(b), NEW x \in b.pending, NEW t \in Transports, NEW o
  PROVE  LET c == Claim(b, x, t, o)
         IN  /\ c.op[x].state = b.op[x].state /\ c.op[x].exec = b.op[x].exec
             /\ c.op[x].via = t /\ c.op[x].stage = "dispatched"
             /\ \A y \in Ids : y # x => c.op[y] = b.op[y]
  <1>1. x \in Ids /\ b.op[x] \in Operation
    BY DEF Sound, Bridge
  <1>2. Claim(b, x, t, o).op =
          [b.op EXCEPT ![x] = [b.op[x] EXCEPT !.via = t, !.stage = "dispatched", !.age = 0]]
    BY <1>1 DEF Claim, Sound, Bridge
  <1>3. b.op \in [Ids -> Operation]
    BY DEF Sound, Bridge
  <1> QED
    BY <1>1, <1>2, <1>3 DEF Operation

LEMMA ProgressReports ==
  ASSUME NEW b, Sound(b), NEW t, NEW x, NEW phase \in Stages, NEW exec \in Outcomes
  PROVE  LET c == Progress(b, t, x, phase, exec)
         IN  /\ c.pending = b.pending
             /\ \/ Drops(b, c)
                \/ /\ x \in Ids /\ ReportsAt(b, c, x, t, phase, exec)
                   /\ \A y \in Ids \ {x} : DropsAt(b, c, y)
  <1> DEFINE c == Prune(b)
             d == Progress(b, t, x, phase, exec)
  <1>1. Sound(c) /\ Drops(b, c) /\ c.pending = b.pending
    BY PruneSound, PruneDrops
  <1>2. CASE d = c
    BY <1>1, <1>2
  <1>3. CASE d # c
    <2>1. /\ d = Observe(c, x, phase, exec) /\ Owned(c, t, x)
          /\ c.op[x].state # "settled" /\ c.op[x].stage # "response_delivery"
          /\ phase = "executing" => c.op[x].stage = "dispatched"
      BY <1>3 DEF Progress
    <2>2. x \in Ids /\ c.op[x].state # "none" /\ c.op[x].via = t /\ c.op[x] \in Operation
      BY <1>1, <2>1 DEF Owned, Recorded, Sound, Bridge
    <2>3. /\ d.pending = c.pending
          /\ d.op = [c.op EXCEPT ![x] =
               [c.op[x] EXCEPT !.stage = phase,
                               !.exec = IF phase = "executing" THEN c.op[x].exec ELSE exec,
                               !.age = 0]]
      BY <1>1, <2>1, <2>2 DEF Observe, Sound, Bridge
    <2>4. /\ d.op[x].state = c.op[x].state /\ d.op[x].via = t /\ d.op[x].stage = phase
          /\ d.op[x].exec = IF phase = "executing" THEN c.op[x].exec ELSE exec
          /\ \A y \in Ids : y # x => d.op[y] = c.op[y]
      BY <1>1, <2>2, <2>3 DEF Operation, Sound, Bridge
    <2>5. Same(b.op[x], c.op[x])
      BY <1>1, <2>2 DEF Drops, DropsAt, Blank
    <2>6. ReportsAt(b, d, x, t, phase, exec)
      BY <2>1, <2>2, <2>4, <2>5 DEF ReportsAt, Same
    <2>7. \A y \in Ids \ {x} : DropsAt(b, d, y)
      BY <1>1, <2>4 DEF Drops, DropsAt, Same
    <2> QED
      BY <1>1, <2>2, <2>3, <2>6, <2>7
  <1> QED
    BY <1>2, <1>3

\* The record that was touched last survives a prune, unless too many others
\* are waited for.
LEMMA LastSurvives ==
  ASSUME NEW b, Sound(b), NEW x \in Unpended(b), b.op[x].age = 0,
         \A y \in Recorded(b) \ {x} : <<y, x>> \in b.older,
         Cardinality(b.pending) < MaxRecords
  PROVE  Prune(b).op[x].state = b.op[x].state
  <1> DEFINE c == Forget(b, Expired(b))
             d == Forget(c, Overflow(c))
             e == EvictResults(d, ExcessResults(d))
             n == Cardinality(Recorded(c)) - MaxRecords
             before == {y \in Unpended(c) : <<y, x>> \in c.older}
  <1>1. x \in Ids /\ Sound(c) /\ Sound(d)
    BY PruneRemoves, ForgetSound DEF Unpended, Recorded
  <1>2. x \notin Expired(b)
    <2>1. ~(b.op[x].age >= Retention)
      BY LimitsAssumption
    <2> QED
      BY <2>1 DEF Expired, Leading
  <1>3. /\ c.op = [y \in Ids |-> IF y \in Expired(b) THEN NoRecord ELSE b.op[y]]
        /\ c.older = Without(b.older, Expired(b)) /\ c.pending = b.pending
    BY DEF Forget, Sound, Bridge
  <1>4. c.op[x] = b.op[x] /\ x \in Unpended(c)
    BY <1>1, <1>2, <1>3 DEF Unpended, Recorded
  <1>5. \A y \in Unpended(c) \ {x} : <<y, x>> \in c.older
    <2> SUFFICES ASSUME NEW y \in Unpended(c) \ {x}
                 PROVE  <<y, x>> \in c.older
      OBVIOUS
    <2>1. y \notin Expired(b) /\ y \in Recorded(b)
      BY <1>3 DEF Unpended, Recorded, NoRecord
    <2> QED
      BY <1>2, <1>3, <2>1 DEF Without
  <1>6. x \notin Overflow(c)
    <2>1. IsFiniteSet(Recorded(c)) /\ IsFiniteSet(c.pending) /\ c.pending \subseteq Recorded(c)
      <3>1. Recorded(c) \subseteq Ids /\ c.pending \subseteq Recorded(c)
        BY <1>1 DEF Recorded, Sound, Agree
      <3> QED
        BY <3>1, IdsAssumption, FS_Subset
    <2>2. Cardinality(Unpended(c)) = Cardinality(Recorded(c)) - Cardinality(c.pending)
      <3>1. Unpended(c) = Recorded(c) \ c.pending /\ Recorded(c) \cap c.pending = c.pending
        BY <2>1 DEF Unpended
      <3> QED
        BY <2>1, <3>1, FS_Difference
    <2>3. IsFiniteSet(Unpended(c))
      BY <2>1, FS_Subset DEF Unpended
    <2>4. Cardinality(Unpended(c) \ {x}) = Cardinality(Unpended(c)) - 1
      BY <1>4, <2>3, FS_RemoveElement
    <2>5. Unpended(c) \ {x} \subseteq before /\ before \subseteq Unpended(c)
      BY <1>5
    <2>6. IsFiniteSet(before)
      BY <2>3, <2>5, FS_Subset
    <2>7. IsFiniteSet(Unpended(c) \ {x})
          /\ Cardinality(Unpended(c) \ {x}) <= Cardinality(before)
      BY <2>5, <2>6, FS_Subset
    <2>8. /\ Cardinality(Recorded(c)) \in Nat /\ Cardinality(c.pending) \in Nat
          /\ Cardinality(Unpended(c)) \in Nat /\ Cardinality(before) \in Nat
          /\ Cardinality(Unpended(c) \ {x}) \in Nat
      BY <2>1, <2>3, <2>6, <2>7, FS_CardinalityType
    <2>9. ~(Cardinality(before) < n)
      BY <1>3, <2>2, <2>4, <2>7, <2>8, LimitsAssumption, SMTT(30)
    <2> QED
      BY <2>9 DEF Overflow, Oldest
  <1>7. d.op[x] = c.op[x]
    BY <1>1, <1>6 DEF Forget, Sound, Bridge
  <1>8. e.op[x].state = d.op[x].state
    BY <1>1 DEF EvictResults, Sound, Bridge, Operation
  <1> QED
    BY <1>4, <1>7, <1>8 DEF Prune

\* A response that is accepted settles its operation, and the record stays at
\* least if somebody waited for it; one that is not changes nothing but by
\* pruning.
LEMMA SettleSettles ==
  ASSUME NEW b, Sound(b), Few(b), NEW t, NEW x, NEW r \in Responses, r # "send_failed"
  PROVE  LET c == Settle(b, t, x, r)
         IN  /\ c.pending \subseteq b.pending
             /\ \/ /\ Disposition(b, t, x) = "accepted" /\ x \in Ids
                   /\ \/ SettlesAt(b, c, x, t, r)
                      \/ b.op[x].state # "pending" /\ Blank(c.op[x])
                   /\ \A y \in Ids \ {x} : DropsAt(b, c, y)
                \/ /\ Disposition(b, t, x) = "already_settled"
                   /\ x \in Ids /\ c.op[x].state = "settled"
                   /\ Drops(b, c)
                \/ Disposition(b, t, x) = "unknown" /\ Drops(b, c)
  <1> DEFINE c == Prune(b)
             d == Record(c, x, r)
  <1>1. Sound(c) /\ Drops(b, c) /\ c.pending = b.pending
    BY PruneSound, PruneDrops
  <1>2. CASE ~Owned(c, t, x)
    <2>1. Disposition(b, t, x) = "unknown"
      BY <1>2 DEF Disposition
    <2> QED
      BY <1>1, <2>1 DEF Settle
  <1>3. CASE Owned(c, t, x) /\ c.op[x].state = "settled"
    <2>1. Disposition(b, t, x) = "already_settled" /\ x \in Ids
      BY <1>3 DEF Disposition, Owned, Recorded
    <2> QED
      BY <1>1, <1>3, <2>1 DEF Settle
  <1>4. CASE Owned(c, t, x) /\ c.op[x].state # "settled"
    <2>1. Disposition(b, t, x) = "accepted" /\ Settle(b, t, x, r) = Prune(d)
      BY <1>4 DEF Disposition, Settle
    <2>2. /\ x \in Recorded(c) /\ x \in Ids /\ c.op[x].state # "none" /\ c.op[x].via = t
          /\ c.op[x] \in Operation
      BY <1>1, <1>4 DEF Owned, Recorded, Sound, Bridge
    <2>3. Sound(d) /\ d.pending = c.pending \ {x} /\ OnlyRecord(c, d, x)
      BY <1>1, <2>2, RecordSound
    <2>4. d.op[x] = Settled(c.op[x], r) /\ d.older = AtEnd(c.older, Recorded(c), {x})
      BY <1>1, <2>2 DEF Record, Sound, Bridge
    <2>5. /\ d.op[x].state = "settled" /\ d.op[x].stage = "response_delivery"
          /\ d.op[x].exec = ExecOf(r) /\ d.op[x].via = t /\ d.op[x].age = 0
      BY <2>2, <2>4 DEF Settled
    <2>6. Recorded(d) = Recorded(c) /\ x \in Unpended(d)
      BY <2>2, <2>3, <2>5 DEF Recorded, Unpended, OnlyRecord
    <2>7. \A y \in Recorded(d) \ {x} : <<y, x>> \in d.older
      BY <2>4, <2>6 DEF AtEnd
    <2>8. Sound(Prune(d)) /\ Drops(d, Prune(d)) /\ Prune(d).pending = d.pending
      BY <2>3, PruneSound, PruneDrops
    <2>9. \A y \in Ids \ {x} : DropsAt(b, Prune(d), y)
      BY <1>1, <2>3, <2>8 DEF OnlyRecord, Drops, DropsAt, Same, Blank
    <2>10. Same(b.op[x], c.op[x])
      BY <1>1, <2>2 DEF Drops, DropsAt, Blank
    <2>11. Same(d.op[x], Prune(d).op[x]) => SettlesAt(b, Prune(d), x, t, r)
      BY <1>4, <2>2, <2>5, <2>10 DEF SettlesAt, Same
    <2>12. CASE x \in c.pending
      <3>1. c.pending \subseteq Ids
        BY <1>1 DEF Sound, Bridge
      <3>2. IsFiniteSet(c.pending)
        BY <3>1, IdsAssumption, FS_Subset
      <3>3. Cardinality(d.pending) = Cardinality(c.pending) - 1 /\ Cardinality(c.pending) \in Nat
        BY <2>3, <2>12, <3>2, FS_RemoveElement, FS_CardinalityType
      <3>4. Cardinality(d.pending) < MaxRecords
        BY <1>1, <3>3, LimitsAssumption DEF Few
      <3>5. Prune(d).op[x].state = "settled"
        BY <2>3, <2>5, <2>6, <2>7, <3>4, LastSurvives
      <3>6. Same(d.op[x], Prune(d).op[x])
        BY <2>2, <2>8, <3>5 DEF Drops, DropsAt, Blank
      <3> QED
        BY <1>1, <2>1, <2>2, <2>3, <2>8, <2>9, <2>11, <3>6
    <2>13. CASE x \notin c.pending
      <3>1. b.op[x].state # "pending"
        BY <1>1, <2>2, <2>13 DEF Sound, Agree
      <3>2. SettlesAt(b, Prune(d), x, t, r) \/ Blank(Prune(d).op[x])
        BY <2>2, <2>8, <2>11 DEF Drops, DropsAt
      <3>3. Prune(d).pending \subseteq b.pending
        BY <1>1, <2>3, <2>8
      <3> QED
        BY <2>1, <2>2, <2>9, <3>1, <3>2, <3>3
    <2> QED
      BY <2>12, <2>13
  <1> QED
    BY <1>2, <1>3, <1>4

-----------------------------------------------------------------------------
(***************************************************************************)
(* The order of the maps.                                                  *)
(***************************************************************************)
StrictOrder(order, S) ==
  /\ order \subseteq S \X S
  /\ \A x \in S : <<x, x>> \notin order
  /\ \A x, y, z \in S : <<x, y>> \in order /\ <<y, z>> \in order => <<x, z>> \in order

LEMMA WithoutStrict ==
  ASSUME NEW order, NEW S, NEW D, StrictOrder(order, S)
  PROVE  StrictOrder(Without(order, D), S \ D)
  BY DEF StrictOrder, Without

LEMMA AtEndStrict ==
  ASSUME NEW order, NEW S, NEW D \in SUBSET S, StrictOrder(order, S)
  PROVE  StrictOrder(AtEnd(order, S, D), S)
  <1> DEFINE after == AtEnd(order, S, D)
  <1>1. ASSUME NEW x \in S, NEW y \in S
        PROVE  <<x, y>> \in after <=> (<<x, y>> \in order /\ (x \notin D \/ y \in D))
                                        \/ (x \notin D /\ y \in D)
    BY DEF AtEnd
  <1>2. after \subseteq S \X S
    BY DEF AtEnd, StrictOrder
  <1> HIDE DEF after
  <1>3. \A x \in S : <<x, x>> \notin after
    BY <1>1 DEF StrictOrder
  <1>4. ASSUME NEW x \in S, NEW y \in S, NEW z \in S, <<x, y>> \in after, <<y, z>> \in after
        PROVE  <<x, z>> \in after
    <2>1. CASE x \notin D /\ z \in D
      BY <1>1, <2>1
    <2>2. CASE x \in D \/ z \notin D
      <3>1. <<x, y>> \in order /\ <<y, z>> \in order /\ (x \notin D \/ z \in D)
        BY <1>1, <1>4, <2>2
      <3> QED
        BY <1>1, <3>1 DEF StrictOrder
    <2> QED
      BY <2>1, <2>2
  <1> QED
    BY <1>2, <1>3, <1>4 DEF StrictOrder, after

\* x comes last.
LEMMA AddStrict ==
  ASSUME NEW order, NEW S, NEW x, x \notin S, StrictOrder(order, S)
  PROVE  StrictOrder(order \cup (S \X {x}), S \cup {x})
  <1> DEFINE after == order \cup (S \X {x})
  <1>1. ASSUME NEW y \in S \cup {x}, NEW z \in S \cup {x}
        PROVE  <<y, z>> \in after <=> <<y, z>> \in order \/ (y \in S /\ z = x)
    OBVIOUS
  <1>2. after \subseteq (S \cup {x}) \X (S \cup {x})
    BY DEF StrictOrder
  <1>3. \A y : <<x, y>> \notin order /\ <<y, x>> \notin order
    BY DEF StrictOrder
  <1> HIDE DEF after
  <1> QED
    BY <1>1, <1>2, <1>3 DEF StrictOrder

\* Some member of a finite set comes first: one with fewest before it.
LEMMA FirstExists ==
  ASSUME NEW order, NEW S, NEW D \in SUBSET S, StrictOrder(order, S), IsFiniteSet(D), D # {}
  PROVE  First(D, order) # {}
  <1> DEFINE Before(x) == {y \in D : <<y, x>> \in order}
             counts == {n \in Nat : \E x \in D : n = Cardinality(Before(x))}
  <1>1. \A x \in D : IsFiniteSet(Before(x)) /\ Cardinality(Before(x)) \in Nat
    BY FS_Subset, FS_CardinalityType
  <1>2. counts # {} /\ counts \subseteq Nat
    BY <1>1
  <1>3. PICK n \in counts : \A m \in counts : n <= m
    <2> HIDE DEF counts
    <2>1. PICK n \in counts : \A m \in counts : <<m, n>> \notin OpToRel(<, Nat)
      BY <1>2, NatLessThanWellFounded, WFMin
    <2>2. \A m \in counts : ~(m < n)
      BY <1>2, <2>1 DEF OpToRel
    <2>3. ASSUME NEW m \in counts PROVE n <= m
      <3>1. n \in Nat /\ m \in Nat /\ ~(m < n)
        BY <1>2, <2>1, <2>2
      <3> QED
        BY <3>1
    <2> QED
      BY <2>1, <2>3
  <1>4. PICK x \in D : n = Cardinality(Before(x))
    BY <1>3
  <1>5. ASSUME NEW y \in D, <<y, x>> \in order
        PROVE  FALSE
    <2>1. Before(y) \subseteq Before(x) /\ y \in Before(x) /\ y \notin Before(y)
      BY <1>5 DEF StrictOrder
    <2>2. Cardinality(Before(y)) <= Cardinality(Before(x))
          /\ Cardinality(Before(y)) # Cardinality(Before(x))
      BY <1>1, <2>1, FS_Subset
    <2>3. Cardinality(Before(y)) \in Nat /\ Cardinality(Before(x)) \in Nat
      BY <1>1
    <2>4. n <= Cardinality(Before(y))
      BY <1>3, <2>3
    <2> HIDE DEF Before, counts
    <2> QED
      BY <1>4, <2>2, <2>3, <2>4
  <1> QED
    BY <1>4, <1>5 DEF First

-----------------------------------------------------------------------------
(***************************************************************************)
(* Cancellations in time.  They are in order of age; one that could still  *)
(* be handed out is of an operation that ended no later and is not         *)
(* forgotten; there is none of a request that a transport holds and        *)
(* somebody waits for; and there are no more than may be.  This is so only *)
(* while no record is evicted before its time, for its cancellation stays. *)
(***************************************************************************)
CancelsFit(b) ==
  /\ \A x, y \in Cancelled(b) : <<y, x>> \in b.earlier => b.cancel[y].age >= b.cancel[x].age
  /\ \A x \in Cancelled(b) :
       \/ b.cancel[x].age >= CancelTTL
       \/ x \in Unpended(b) /\ b.cancel[x].age >= b.op[x].age
  /\ \A x \in b.pending : b.op[x].via # None => x \notin Cancelled(b)

Lined(b) == StrictOrder(b.older, Recorded(b)) /\ StrictOrder(b.earlier, Cancelled(b))

Timely(b) == Lined(b) /\ CancelsFit(b) /\ Cardinality(Cancelled(b)) <= MaxTombstones

\* Records that nobody waits for and no prune lets go yet.
Fresh(b) == {x \in Unpended(b) : b.op[x].age < Retention}

\* The table has room for one more record, unless it holds every id.
Roomy(b) == \A x \in Ids : Cardinality(Recorded(b) \cup {x}) <= MaxRecords

\* From b to c cancellations stay, up to who hands them out.
SameCancels(b, c) ==
  /\ c.earlier = b.earlier
  /\ \A x \in Ids : c.cancel[x].via = b.cancel[x].via /\ c.cancel[x].age = b.cancel[x].age

LEMMA InitialTimely == Timely(InitialBridge)
  <1>1. Recorded(InitialBridge) = {} /\ Cancelled(InitialBridge) = {}
    BY DEF InitialBridge, Recorded, Cancelled, NoRecord, NoCancel
  <1>2. InitialBridge.older = {} /\ InitialBridge.earlier = {} /\ InitialBridge.pending = {}
    BY DEF InitialBridge
  <1>3. Cardinality({}) = 0
    BY FS_EmptySet
  <1> HIDE DEF InitialBridge
  <1> QED
    BY <1>1, <1>2, <1>3, LimitsAssumption DEF Timely, Lined, StrictOrder, CancelsFit

LEMMA Ages ==
  ASSUME NEW b, Sound(b), NEW x \in Ids
  PROVE  /\ b.cancel[x].age \in Nat /\ b.op[x].age \in Nat
         /\ b.cancel[x].age <= CancelTTL /\ b.op[x].age <= Retention
  BY LimitsAssumption DEF Sound, Bridge, Cancellation, Operation

\* Records may change, as long as they end after their cancellation at the latest.
LEMMA TimelyStays ==
  ASSUME NEW b, NEW c, Sound(b), Sound(c), Timely(b), SameCancels(b, c),
         StrictOrder(c.older, Recorded(c)),
         \A x \in Unpended(b) :
           \/ x \in Unpended(c) /\ c.op[x].age <= b.op[x].age
           \/ x \in Cancelled(b) => b.cancel[x].age >= CancelTTL,
         \A x \in c.pending : c.op[x].via # None => x \notin Cancelled(b)
  PROVE  Timely(c)
  <1>1. Cancelled(c) = Cancelled(b)
    BY DEF Cancelled, SameCancels
  <1>2. ASSUME NEW x \in Cancelled(c)
        PROVE  \/ c.cancel[x].age >= CancelTTL
               \/ x \in Unpended(c) /\ c.cancel[x].age >= c.op[x].age
    <2>1. x \in Ids /\ c.cancel[x].age = b.cancel[x].age
      BY <1>2 DEF Cancelled, SameCancels
    <2>2. /\ b.cancel[x].age \in Nat /\ b.op[x].age \in Nat /\ c.op[x].age \in Nat
      BY <2>1, Ages
    <2>3. CASE b.cancel[x].age >= CancelTTL
      BY <2>1, <2>3
    <2>4. CASE x \in Unpended(b) /\ b.cancel[x].age >= b.op[x].age
      BY <1>1, <2>1, <2>2, <2>4
    <2> QED
      BY <1>1, <1>2, <2>3, <2>4 DEF Timely, CancelsFit
  <1>3. CancelsFit(c)
    <2>1. \A x \in Cancelled(c) : x \in Ids
      BY DEF Cancelled
    <2>2. \A x, y \in Cancelled(c) : <<y, x>> \in c.earlier => c.cancel[y].age >= c.cancel[x].age
      BY <1>1, <2>1 DEF SameCancels, Timely, CancelsFit
    <2> QED
      BY <1>1, <1>2, <2>2 DEF CancelsFit
  <1> QED
    BY <1>1, <1>3 DEF Timely, Lined, SameCancels

LEMMA ForgetTimely ==
  ASSUME NEW b, Sound(b), Timely(b), CancelTTL <= Retention,
         NEW S \in SUBSET Unpended(b), \A x \in S : b.op[x].age >= Retention
  PROVE  /\ Timely(Forget(b, S))
         /\ Fresh(b) \subseteq Fresh(Forget(b, S))
         /\ Recorded(Forget(b, S)) \subseteq Recorded(b)
  <1> DEFINE c == Forget(b, S)
  <1>1. Sound(c)
    BY ForgetSound
  <1>2. /\ c.op = [x \in Ids |-> IF x \in S THEN NoRecord ELSE b.op[x]]
        /\ c.older = Without(b.older, S)
        /\ c.pending = b.pending
        /\ c.cancel = b.cancel /\ c.earlier = b.earlier
    BY DEF Forget, Sound, Bridge
  <1> HIDE DEF c
  <1>3. Recorded(c) = Recorded(b) \ S
    BY <1>2 DEF Recorded, NoRecord
  <1>4. StrictOrder(c.older, Recorded(c))
    BY <1>2, <1>3, WithoutStrict DEF Timely, Lined
  <1>5. ASSUME NEW x \in Unpended(b)
        PROVE  \/ x \in Unpended(c) /\ c.op[x] = b.op[x] /\ x \notin S
               \/ x \in S /\ (x \in Cancelled(b) => b.cancel[x].age >= CancelTTL)
    <2>1. CASE x \notin S
      BY <1>2, <1>3, <2>1 DEF Unpended, Recorded
    <2>2. CASE x \in S
      <3>1. b.op[x].age >= Retention /\ x \in Ids
        BY <2>2 DEF Unpended, Recorded
      <3>2. b.cancel[x].age \in Nat /\ b.op[x].age \in Nat
        BY <3>1, Ages
      <3>3. x \in Cancelled(b) => b.cancel[x].age >= CancelTTL \/ b.cancel[x].age >= b.op[x].age
        BY DEF Timely, CancelsFit
      <3> QED
        BY <2>2, <3>1, <3>2, <3>3, LimitsAssumption
    <2> QED
      BY <2>1, <2>2
  <1>6. SameCancels(b, c)
    BY <1>2 DEF SameCancels
  <1>7. \A x \in Unpended(b) : b.op[x].age \in Nat
    BY Ages DEF Unpended, Recorded
  <1>8. \A x \in c.pending : c.op[x].via # None => x \notin Cancelled(b)
    <2>1. \A x \in c.pending : x \in Ids /\ x \notin S
      BY <1>2 DEF Sound, Bridge, Unpended
    <2> QED
      BY <1>2, <2>1 DEF Timely, CancelsFit
  <1>9. Timely(c)
    BY <1>1, <1>4, <1>5, <1>6, <1>7, <1>8, TimelyStays
  <1>10. Fresh(b) \subseteq Fresh(c)
    BY <1>5, <1>7, LimitsAssumption DEF Fresh
  <1> QED
    BY <1>3, <1>9, <1>10 DEF c

LEMMA EvictResultsTimely ==
  ASSUME NEW b, Sound(b), Timely(b), NEW S \in SUBSET b.retained
  PROVE  /\ Timely(EvictResults(b, S))
         /\ Fresh(b) \subseteq Fresh(EvictResults(b, S))
         /\ Recorded(EvictResults(b, S)) = Recorded(b)
  <1> DEFINE c == EvictResults(b, S)
  <1>1. Sound(c)
    BY EvictResultsSound
  <1>2. /\ \A x \in Ids : /\ c.op[x].state = b.op[x].state
                          /\ c.op[x].age = b.op[x].age
                          /\ c.op[x].via = b.op[x].via
        /\ c.older = b.older /\ c.pending = b.pending
        /\ c.cancel = b.cancel /\ c.earlier = b.earlier
    BY DEF EvictResults, Sound, Bridge, Operation
  <1> HIDE DEF c
  <1>3. Recorded(c) = Recorded(b) /\ Unpended(c) = Unpended(b)
    BY <1>2 DEF Unpended, Recorded
  <1>4. \A x \in Unpended(b) : c.op[x].age <= b.op[x].age
    <2>1. \A x \in Unpended(b) : x \in Ids /\ b.op[x].age \in Nat
      BY Ages DEF Unpended, Recorded
    <2> QED
      BY <1>2, <2>1
  <1>5. \A x \in c.pending : c.op[x].via # None => x \notin Cancelled(b)
    <2>1. \A x \in c.pending : x \in Ids
      BY <1>1 DEF Sound, Bridge
    <2> QED
      BY <1>2, <2>1 DEF Timely, CancelsFit
  <1>6. SameCancels(b, c) /\ StrictOrder(c.older, Recorded(c))
    BY <1>2, <1>3 DEF SameCancels, Timely, Lined
  <1>7. Timely(c)
    BY <1>1, <1>3, <1>4, <1>5, <1>6, TimelyStays
  <1>8. Fresh(c) = Fresh(b)
    <2>1. \A x \in Unpended(b) : x \in Ids
      BY DEF Unpended, Recorded
    <2> QED
      BY <1>2, <1>3, <2>1 DEF Fresh
  <1> QED
    BY <1>3, <1>7, <1>8 DEF c

\* While the table is not too large, a prune lets go only what is past its time.
LEMMA PruneTimely ==
  ASSUME NEW b, Sound(b), Timely(b), CancelTTL <= Retention,
         Cardinality(Recorded(b)) <= MaxRecords
  PROVE  /\ Timely(Prune(b))
         /\ Fresh(b) \subseteq Fresh(Prune(b))
         /\ Recorded(Prune(b)) \subseteq Recorded(b)
         /\ \A x \in b.pending : Prune(b).op[x] = b.op[x]
  <1> DEFINE c == Forget(b, Expired(b))
             d == Forget(c, Overflow(c))
             e == EvictResults(d, ExcessResults(d))
  <1>1. Sound(c) /\ Sound(d) /\ Sound(e)
    BY PruneRemoves, ForgetSound, EvictResultsSound
  <1>2. Expired(b) \in SUBSET Unpended(b) /\ \A x \in Expired(b) : b.op[x].age >= Retention
    BY DEF Expired, Leading
  <1>3. Timely(c) /\ Fresh(b) \subseteq Fresh(c) /\ Recorded(c) \subseteq Recorded(b)
    BY <1>2, ForgetTimely
  <1>4. Overflow(c) = {}
    <2>1. IsFiniteSet(Recorded(b)) /\ Recorded(b) \subseteq Ids
      BY IdsAssumption, FS_Subset DEF Recorded
    <2>2. IsFiniteSet(Recorded(c)) /\ Cardinality(Recorded(c)) <= Cardinality(Recorded(b))
      BY <1>3, <2>1, FS_Subset
    <2>3. Cardinality(Recorded(c)) \in Nat /\ Cardinality(Recorded(b)) \in Nat
      BY <2>1, <2>2, FS_CardinalityType
    <2>4. ASSUME NEW x \in Unpended(c)
          PROVE  ~(Cardinality({y \in Unpended(c) : <<y, x>> \in c.older})
                     < Cardinality(Recorded(c)) - MaxRecords)
      <3> DEFINE before == {y \in Unpended(c) : <<y, x>> \in c.older}
      <3>1. before \subseteq Recorded(c)
        BY DEF Unpended
      <3>2. Cardinality(before) \in Nat
        BY <2>2, <3>1, FS_Subset, FS_CardinalityType
      <3> HIDE DEF before, c
      <3>3. ~(Cardinality(before) < Cardinality(Recorded(c)) - MaxRecords)
        BY <2>2, <2>3, <3>2, LimitsAssumption
      <3> QED
        BY <3>3 DEF before
    <2> QED
      BY <2>4 DEF Overflow, Oldest
  <1>5. Timely(d) /\ Fresh(c) \subseteq Fresh(d) /\ Recorded(d) \subseteq Recorded(c)
    <2>1. {} \in SUBSET Unpended(c) /\ \A x \in {} : c.op[x].age >= Retention
      OBVIOUS
    <2> HIDE DEF c
    <2> QED
      BY <1>1, <1>3, <1>4, <2>1, ForgetTimely
  <1>6. ExcessResults(d) \in SUBSET d.retained
    BY PruneRemoves
  <1>7. Timely(e) /\ Fresh(d) \subseteq Fresh(e) /\ Recorded(e) = Recorded(d)
    BY <1>1, <1>5, <1>6, EvictResultsTimely
  <1>8. ASSUME NEW x \in b.pending
        PROVE  e.op[x] = b.op[x]
    <2>1. x \in Ids /\ x \notin Expired(b) /\ b.op[x].state = "pending"
      BY <1>2 DEF Sound, Bridge, Agree, Unpended
    <2>2. c.op[x] = b.op[x]
      BY <2>1, Zenon DEF Forget, Sound, Bridge
    <2>3. d.op[x] = c.op[x]
      BY <1>1, <1>4, <2>1, ZenonT(60) DEF Forget, Sound, Bridge
    <2>4. d.op[x].state # "settled"
      BY <2>1, <2>2, <2>3
    <2> HIDE DEF d
    <2>5. x \notin ExcessResults(d)
      BY <1>1, <1>6, <2>1, <2>4 DEF Sound, Agree, Settlement
    <2>6. e.op[x] = d.op[x]
      BY <1>1, <2>1, <2>5 DEF EvictResults, Sound, Bridge
    <2> QED
      BY <2>2, <2>3, <2>6
  <1> HIDE DEF c, d
  <1>9. Fresh(b) \subseteq Fresh(e) /\ Recorded(e) \subseteq Recorded(b)
    BY <1>3, <1>5, <1>7
  <1> QED
    BY <1>7, <1>8, <1>9 DEF Prune, c, d

LEMMA RoomyFits ==
  ASSUME NEW b, Roomy(b)
  PROVE  Cardinality(Recorded(b)) <= MaxRecords
  <1>1. CASE Ids = {}
    <2>1. Recorded(b) = {}
      BY <1>1 DEF Recorded
    <2> QED
      BY <2>1, FS_EmptySet, LimitsAssumption
  <1>2. ASSUME NEW x \in Ids
        PROVE  Cardinality(Recorded(b)) <= MaxRecords
    <2>1. IsFiniteSet(Recorded(b)) /\ IsFiniteSet(Recorded(b) \cup {x})
      <3>1. Recorded(b) \subseteq Ids /\ Recorded(b) \cup {x} \subseteq Ids
        BY DEF Recorded
      <3> QED
        BY <3>1, IdsAssumption, FS_Subset
    <2>2. Cardinality(Recorded(b)) <= Cardinality(Recorded(b) \cup {x})
      BY <2>1, FS_Subset
    <2>3. Cardinality(Recorded(b)) \in Nat /\ Cardinality(Recorded(b) \cup {x}) \in Nat
      BY <2>1, FS_CardinalityType
    <2> QED
      BY <2>2, <2>3, LimitsAssumption DEF Roomy
  <1> QED
    BY <1>1, <1>2

LEMMA InsertTimely ==
  ASSUME NEW b, Sound(b), Timely(b), NEW x \in Ids \ Recorded(b), NEW p \in Peers
  PROVE  /\ Timely(Insert(b, x, p))
         /\ Fresh(b) \subseteq Fresh(Insert(b, x, p))
         /\ Recorded(Insert(b, x, p)) = Recorded(b) \cup {x}
  <1> DEFINE c == Insert(b, x, p)
             r == [NoRecord EXCEPT !.state = "pending", !.target = p]
  <1>1. Sound(c)
    BY InsertSound
  <1>2. /\ c.op = [b.op EXCEPT ![x] = r]
        /\ c.older = b.older \cup (Recorded(b) \X {x})
        /\ c.pending = b.pending \cup {x}
        /\ c.cancel = b.cancel /\ c.earlier = b.earlier
        /\ b.op \in [Ids -> Operation]
    BY DEF Insert, Sound, Bridge
  <1>3. r.state = "pending" /\ r.via = None
    BY DEF NoRecord
  <1> HIDE DEF c, r
  <1>4. Recorded(c) = Recorded(b) \cup {x}
    BY <1>2, <1>3 DEF Recorded
  <1>5. Unpended(c) = Unpended(b) /\ \A y \in Unpended(b) : y \in Ids /\ y # x /\ c.op[y] = b.op[y]
    BY <1>2, <1>3, <1>4 DEF Unpended, Recorded
  <1>6. StrictOrder(c.older, Recorded(c)) /\ SameCancels(b, c)
    BY <1>2, <1>4, AddStrict DEF Timely, Lined, SameCancels
  <1>7. \A y \in Unpended(b) : c.op[y].age <= b.op[y].age
    BY <1>5, Ages
  <1>8. \A y \in c.pending : c.op[y].via # None => y \notin Cancelled(b)
    <2>1. \A y \in b.pending : y \in Ids
      BY DEF Sound, Bridge
    <2> QED
      BY <1>2, <1>3, <2>1 DEF Timely, CancelsFit
  <1>9. Timely(c)
    BY <1>1, <1>5, <1>6, <1>7, <1>8, TimelyStays
  <1>10. Fresh(b) \subseteq Fresh(c)
    BY <1>5 DEF Fresh
  <1> QED
    BY <1>4, <1>9, <1>10 DEF c

LEMMA AdmitTimely ==
  ASSUME NEW b, Sound(b), Timely(b), CancelTTL <= Retention, Roomy(b),
         NEW x \in Ids, NEW p \in Peers
  PROVE  LET c == Admit(b, x, p)
         IN  /\ Timely(c) /\ Fresh(b) \subseteq Fresh(c)
             /\ \A y \in b.pending : c.op[y] = b.op[y]
             /\ \/ c.pending = b.pending
                \/ /\ x \notin b.pending /\ c.pending = b.pending \cup {x}
                   /\ c.op[x].via = None /\ c.op[x].target = p
  <1> DEFINE c == Prune(b)
             d == Insert(c, x, p)
  <1>1. Cardinality(Recorded(b)) <= MaxRecords
    BY RoomyFits
  <1>2. /\ Sound(c) /\ Timely(c) /\ Fresh(b) \subseteq Fresh(c)
        /\ Recorded(c) \subseteq Recorded(b) /\ c.pending = b.pending
        /\ \A y \in b.pending : c.op[y] = b.op[y]
    BY <1>1, PruneSound, PruneTimely, PruneKeeps
  <1> HIDE DEF c
  <1>3. CASE x \in Recorded(c) \/ Cardinality(c.pending) >= MaxPending
    <2>1. Admit(b, x, p) = c
      BY <1>3 DEF Admit, c
    <2> QED
      BY <1>2, <2>1
  <1>4. CASE ~(x \in Recorded(c) \/ Cardinality(c.pending) >= MaxPending)
    <2>1. Admit(b, x, p) = Prune(d)
      BY <1>4 DEF Admit, c
    <2>2. /\ Sound(d) /\ Timely(d) /\ Fresh(c) \subseteq Fresh(d)
          /\ Recorded(d) = Recorded(c) \cup {x}
      BY <1>2, <1>4, InsertSound, InsertTimely
    <2>3. Cardinality(Recorded(d)) <= MaxRecords
      <3>1. Recorded(d) \subseteq Recorded(b) \cup {x} /\ Recorded(b) \cup {x} \subseteq Ids
        BY <1>2, <2>2 DEF Recorded
      <3>2. IsFiniteSet(Recorded(b) \cup {x}) /\ IsFiniteSet(Recorded(d))
        BY <3>1, IdsAssumption, FS_Subset
      <3>3. Cardinality(Recorded(d)) <= Cardinality(Recorded(b) \cup {x})
        BY <3>1, <3>2, FS_Subset
      <3>4. Cardinality(Recorded(d)) \in Nat /\ Cardinality(Recorded(b) \cup {x}) \in Nat
        BY <3>2, FS_CardinalityType
      <3> QED
        BY <3>3, <3>4, LimitsAssumption DEF Roomy
    <2>4. /\ d.pending = b.pending \cup {x} /\ d.op[x].via = None /\ d.op[x].target = p
          /\ \A y \in Ids \ {x} : d.op[y] = c.op[y]
      BY <1>2 DEF Insert, Sound, Bridge, NoRecord
    <2>5. x \notin b.pending
      BY <1>2, <1>4 DEF Sound, Agree, Recorded
    <2> HIDE DEF d
    <2>6. /\ Timely(Prune(d)) /\ Fresh(d) \subseteq Fresh(Prune(d))
          /\ Prune(d).pending = d.pending
          /\ \A y \in d.pending : Prune(d).op[y] = d.op[y]
      BY <2>2, <2>3, PruneTimely, PruneKeeps
    <2>7. \A y \in b.pending : y \in Ids \ {x} /\ y \in d.pending
      BY <2>4, <2>5 DEF Sound, Bridge
    <2> QED
      BY <1>2, <2>1, <2>2, <2>4, <2>5, <2>6, <2>7
  <1> QED
    BY <1>3, <1>4

\* The requests of S have just ended, and the others wait as before.
JustEnded(b, c, S) ==
  /\ Fresh(b) \subseteq Fresh(c)
  /\ c.pending = b.pending \ S /\ c.cancel = b.cancel /\ c.peers = b.peers
  /\ \A x \in S : x \in Unpended(c) /\ c.op[x].age = 0 /\ c.op[x].via = b.op[x].via
  /\ \A x \in b.pending \ S : c.op[x] = b.op[x]

LEMMA EndWaitersTimely ==
  ASSUME NEW b, Sound(b), Timely(b), NEW S \in SUBSET b.pending, NEW state \in EndedStates,
         NEW c, c = EndWaiters(b, S, state)
  PROVE  Timely(c) /\ JustEnded(b, c, S)
  <1> DEFINE ended(r) == [r EXCEPT
                            !.state = state,
                            !.age = 0,
                            !.exec = IF r.stage = "queued" THEN "not_executed" ELSE @,
                            !.outcome = IF r.stage = "queued" \/ r.exec = "not_executed"
                                          THEN "not_executed" ELSE "unknown"]
  <1>1. Sound(c) /\ OnlyEnded(b, c, S, state)
    BY EndWaitersSound
  <1>2. b \in Bridge /\ S \subseteq Ids /\ b.pending \subseteq Ids
    BY DEF Sound, Bridge
  <1>3. /\ c.op = [x \in Ids |-> IF x \notin S THEN b.op[x] ELSE ended(b.op[x])]
        /\ c.older = AtEnd(b.older, Recorded(b), S)
        /\ c.pending = b.pending \ S
        /\ c.cancel = b.cancel /\ c.earlier = b.earlier /\ c.peers = b.peers
    BY <1>2 DEF EndWaiters, Bridge
  <1>4. \A r \in Operation : ended(r).age = 0
    BY DEF Operation
  <1> HIDE DEF ended
  <1>5. \A x \in Ids : /\ x \notin S => c.op[x] = b.op[x]
                       /\ x \in S => c.op[x].age = 0 /\ c.op[x].state = state
                       /\ c.op[x].via = b.op[x].via
    BY <1>1, <1>2, <1>3, <1>4 DEF Bridge, OnlyEnded
  <1>6. \A x \in S : b.op[x].state = "pending" /\ x \notin Unpended(b) /\ x \in Recorded(b)
    BY <1>2 DEF Sound, Agree, Unpended, Recorded
  <1>7. Recorded(c) = Recorded(b) /\ S \subseteq Unpended(c) /\ Unpended(b) \subseteq Unpended(c)
    BY <1>2, <1>3, <1>5, <1>6 DEF Recorded, Unpended, EndedStates
  <1>8. StrictOrder(c.older, Recorded(c)) /\ SameCancels(b, c)
    BY <1>3, <1>6, <1>7, AtEndStrict DEF Timely, Lined, SameCancels
  <1>9. \A x \in Unpended(b) : x \in Ids /\ c.op[x] = b.op[x] /\ b.op[x].age \in Nat
    BY <1>5, <1>6, Ages DEF Unpended, Recorded
  <1>10. \A x \in c.pending : c.op[x].via # None => x \notin Cancelled(b)
    BY <1>2, <1>3, <1>5 DEF Timely, CancelsFit
  <1>11. Timely(c)
    BY <1>1, <1>7, <1>8, <1>9, <1>10, TimelyStays
  <1>12. Fresh(b) \subseteq Fresh(c)
    BY <1>7, <1>9 DEF Fresh
  <1> QED
    BY <1>2, <1>3, <1>5, <1>7, <1>11, <1>12 DEF JustEnded

\* Without some cancellations the others are as they were.
LEMMA DropCancelsTimely ==
  ASSUME NEW b, Sound(b), Lined(b), CancelsFit(b), NEW S
  PROVE  LET c == DropCancels(b, S)
         IN  /\ Lined(c) /\ CancelsFit(c)
             /\ Cancelled(c) = Cancelled(b) \ S
             /\ \A x \in Cancelled(c) : c.cancel[x] = b.cancel[x]
             /\ c.earlier \subseteq b.earlier
  <1> DEFINE c == DropCancels(b, S)
  <1>1. /\ c.cancel = [x \in Ids |-> IF x \in S THEN NoCancel ELSE b.cancel[x]]
        /\ c.earlier = Without(b.earlier, S)
        /\ c.op = b.op /\ c.older = b.older /\ c.pending = b.pending
    BY DEF DropCancels, Sound, Bridge
  <1> HIDE DEF c
  <1>2. Cancelled(c) = Cancelled(b) \ S
    BY <1>1 DEF Cancelled, NoCancel
  <1>3. \A x \in Cancelled(c) : c.cancel[x] = b.cancel[x]
    BY <1>1, <1>2 DEF Cancelled
  <1>4. Recorded(c) = Recorded(b) /\ Unpended(c) = Unpended(b)
    BY <1>1 DEF Recorded, Unpended
  <1>5. Lined(c)
    BY <1>1, <1>2, <1>4, WithoutStrict DEF Lined
  <1>6. c.earlier \subseteq b.earlier
    BY <1>1 DEF Without
  <1>7. CancelsFit(c)
    BY <1>1, <1>2, <1>3, <1>4, <1>6 DEF CancelsFit
  <1> QED
    BY <1>2, <1>3, <1>5, <1>6, <1>7 DEF c

\* No aged cancellation survives, and one too many does not either.
LEMMA PruneCancelsTimely ==
  ASSUME NEW b, Sound(b), Lined(b), CancelsFit(b),
         Cardinality(Cancelled(b)) <= MaxTombstones + 1
  PROVE  LET c == PruneCancels(b)
         IN  /\ Timely(c)
             /\ Cancelled(c) \subseteq Cancelled(b)
             /\ \A x \in Cancelled(c) : c.cancel[x] = b.cancel[x] /\ ~(b.cancel[x].age >= CancelTTL)
  <1> DEFINE aged == {x \in Ids : b.cancel[x].age >= CancelTTL}
             S == Leading(Cancelled(b), b.earlier, aged)
             c == DropCancels(b, S)
             n == Cardinality(Cancelled(c)) - MaxTombstones
             T == Oldest(Cancelled(c), c.earlier, n)
             d == DropCancels(c, T)
  <1>1. PruneCancels(b) = d
    BY DEF PruneCancels
  <1>2. S \in SUBSET Cancelled(b) /\ T \in SUBSET Cancelled(c)
    BY DEF Leading, Oldest
  <1>3. \A x \in Cancelled(b) : b.cancel[x].age >= CancelTTL => x \in S
    <2> SUFFICES ASSUME NEW x \in Cancelled(b), b.cancel[x].age >= CancelTTL,
                        NEW y \in Cancelled(b), y = x \/ <<y, x>> \in b.earlier
                 PROVE  y \in aged
      BY DEF Leading
    <2>1. x \in Ids /\ y \in Ids
      BY DEF Cancelled
    <2>2. b.cancel[y].age >= b.cancel[x].age
      BY <2>1, Ages DEF CancelsFit
    <2>3. b.cancel[y].age >= CancelTTL
      BY <2>1, <2>2, Ages, LimitsAssumption
    <2> QED
      BY <2>1, <2>3
  <1> HIDE DEF S, aged
  <1>4. /\ Sound(c) /\ Lined(c) /\ CancelsFit(c) /\ Cancelled(c) = Cancelled(b) \ S
        /\ \A x \in Cancelled(c) : c.cancel[x] = b.cancel[x]
    BY <1>2, DropCancelsSound, DropCancelsTimely
  <1> HIDE DEF c
  <1>5. /\ Lined(d) /\ CancelsFit(d) /\ Cancelled(d) = Cancelled(c) \ T
        /\ \A x \in Cancelled(d) : d.cancel[x] = c.cancel[x]
    BY <1>2, <1>4, DropCancelsTimely
  <1>6. /\ IsFiniteSet(Cancelled(b)) /\ IsFiniteSet(Cancelled(c)) /\ IsFiniteSet(Cancelled(d))
        /\ Cardinality(Cancelled(c)) <= Cardinality(Cancelled(b))
    <2>1. IsFiniteSet(Cancelled(b))
      BY IdsAssumption, FS_Subset DEF Cancelled
    <2>2. Cancelled(c) \subseteq Cancelled(b) /\ Cancelled(d) \subseteq Cancelled(b)
      BY <1>4, <1>5
    <2> QED
      BY <2>1, <2>2, FS_Subset
  <1>7. Cardinality(Cancelled(c)) \in Nat /\ Cardinality(Cancelled(b)) \in Nat
    BY <1>6, FS_CardinalityType
  <1>8. Cardinality(Cancelled(d)) <= MaxTombstones
    <2>1. CASE Cardinality(Cancelled(c)) <= MaxTombstones
      <3>1. Cancelled(d) \subseteq Cancelled(c)
        BY <1>5
      <3>2. Cardinality(Cancelled(d)) <= Cardinality(Cancelled(c)) /\ Cardinality(Cancelled(d)) \in Nat
        BY <1>6, <3>1, FS_Subset, FS_CardinalityType
      <3> QED
        BY <1>7, <2>1, <3>2, LimitsAssumption
    <2>2. CASE Cardinality(Cancelled(c)) = MaxTombstones + 1
      <3>1. n = 1
        BY <2>2, LimitsAssumption
      <3>2. Cancelled(c) # {}
        BY <2>2, FS_EmptySet, LimitsAssumption
      <3>3. PICK x \in First(Cancelled(c), c.earlier) : TRUE
        BY <1>4, <1>6, <3>2, FirstExists DEF Lined
      <3>4. x \in Cancelled(c) /\ {y \in Cancelled(c) : <<y, x>> \in c.earlier} = {}
        BY <3>3 DEF First
      <3>5. x \in T
        <4> DEFINE before == {y \in Cancelled(c) : <<y, x>> \in c.earlier}
        <4>1. Cardinality(before) = 0
          <5>1. before = {}
            BY <3>4
          <5> HIDE DEF before
          <5> QED
            BY <5>1, FS_EmptySet
        <4> HIDE DEF n, before
        <4>2. Cardinality(before) < n
          BY <3>1, <4>1
        <4> QED
          BY <3>4, <4>2 DEF Oldest, before
      <3>6. Cancelled(d) \subseteq Cancelled(c) \ {x}
        BY <1>5, <3>5
      <3>7. /\ IsFiniteSet(Cancelled(c) \ {x})
            /\ Cardinality(Cancelled(c) \ {x}) = Cardinality(Cancelled(c)) - 1
        BY <1>6, <3>4, FS_RemoveElement
      <3>8. Cardinality(Cancelled(d)) <= Cardinality(Cancelled(c) \ {x})
            /\ Cardinality(Cancelled(d)) \in Nat
        BY <1>6, <3>6, <3>7, FS_Subset, FS_CardinalityType
      <3> QED
        BY <2>2, <3>7, <3>8, LimitsAssumption
    <2> QED
      BY <1>6, <1>7, <2>1, <2>2, LimitsAssumption
  <1>9. Timely(d)
    BY <1>5, <1>8 DEF Timely
  <1>10. \A x \in Cancelled(d) : d.cancel[x] = b.cancel[x] /\ ~(b.cancel[x].age >= CancelTTL)
    BY <1>3, <1>4, <1>5
  <1> QED
    BY <1>1, <1>4, <1>5, <1>9, <1>10

\* The operation of a new cancellation has just ended.
LEMMA TombstoneTimely ==
  ASSUME NEW b, Sound(b), Timely(b), NEW x \in Unpended(b), b.op[x].age = 0,
         b.op[x].state # "settled"
  PROVE  /\ Timely(Tombstone(b, x)) /\ SameRecords(b, Tombstone(b, x))
         /\ Tombstone(b, x).peers = b.peers
         /\ b.op[x].via = None => Tombstone(b, x) = b
  <1> DEFINE c == PruneCancels(b)
             new == [via |-> b.op[x].via, owner |-> None, age |-> 0]
             d == [c EXCEPT !.cancel[x] = new, !.earlier = @ \cup (Cancelled(c) \X {x})]
  <1>0. x \in Ids
    BY DEF Unpended, Recorded
  <1>1. CASE b.op[x].via = None \/ x \in Cancelled(b)
    BY <1>1 DEF Tombstone, SameRecords
  <1>2. CASE ~(b.op[x].via = None \/ x \in Cancelled(b))
    <2>1. Tombstone(b, x) = PruneCancels(d)
      BY <1>2 DEF Tombstone
    <2>2. Cardinality(Cancelled(b)) <= MaxTombstones + 1 /\ Lined(b) /\ CancelsFit(b)
      <3>1. Cardinality(Cancelled(b)) \in Nat
        BY IdsAssumption, FS_Subset, FS_CardinalityType DEF Cancelled
      <3> QED
        BY <3>1, LimitsAssumption DEF Timely
    <2>3. /\ Sound(c) /\ SameRecords(b, c) /\ c.peers = b.peers
          /\ Timely(c) /\ Cancelled(c) \subseteq Cancelled(b)
      BY <2>2, PruneCancelsSound, PruneCancelsTimely
    <2> HIDE DEF c
    <2>4. new \in Cancellation /\ new.via # None /\ new.age = 0
      BY <1>0, <1>2, LimitsAssumption DEF Sound, Bridge, Operation, Cancellation
    <2> HIDE DEF new
    <2>5. /\ d.cancel = [c.cancel EXCEPT ![x] = new]
          /\ d.earlier = c.earlier \cup (Cancelled(c) \X {x})
          /\ d \in Bridge /\ SameRecords(c, d) /\ d.peers = c.peers
      BY <1>0, <2>3, <2>4, Zenon DEF Sound, Bridge, SameRecords, Cancelled
    <2> HIDE DEF d
    <2>6. c.cancel \in [Ids -> Cancellation]
      BY <2>3 DEF Sound, Bridge
    <2>7. /\ Cancelled(d) = Cancelled(c) \cup {x} /\ x \notin Cancelled(c)
          /\ d.cancel[x] = new /\ \A y \in Ids \ {x} : d.cancel[y] = c.cancel[y]
      BY <1>0, <1>2, <2>3, <2>4, <2>5, <2>6 DEF Cancelled
    <2>8. Sound(d)
      <3>1. Settlement(d)
        <4> SUFFICES ASSUME NEW y \in Ids
                     PROVE  /\ d.op[y].result = "stored" => d.op[y].state = "settled"
                            /\ d.op[y].state = "settled" => d.cancel[y].via = None
          BY DEF Settlement
        <4>1. d.op = c.op /\ d.op = b.op
          BY <2>3, <2>5 DEF SameRecords
        <4> QED
          BY <2>3, <2>7, <4>1 DEF Settlement, Sound
      <3> QED
        BY <2>3, <2>5, <3>1 DEF Sound, SameRecords, Agree, Ordered, Unpended, Recorded
    <2>9. Recorded(d) = Recorded(c) /\ Unpended(d) = Unpended(b)
      BY <2>3, <2>5 DEF SameRecords, Recorded, Unpended
    <2>10. Lined(d)
      <3>1. StrictOrder(d.earlier, Cancelled(d))
        BY <2>3, <2>5, <2>7, AddStrict DEF Timely, Lined
      <3> QED
        BY <2>3, <2>5, <2>9, <3>1 DEF Timely, Lined, SameRecords
    <2>11. CancelsFit(d)
      <3>1. ASSUME NEW y \in Cancelled(d), NEW z \in Cancelled(d), <<z, y>> \in d.earlier
            PROVE  d.cancel[z].age >= d.cancel[y].age
        <4>1. y \in Ids /\ z \in Ids
          BY DEF Cancelled
        <4>2. CASE y = x
          <5>1. d.cancel[y].age = 0 /\ d.cancel[z].age \in Nat
            BY <2>4, <2>7, <2>8, <4>1, <4>2, Ages
          <5> QED
            BY <5>1
        <4>3. CASE y # x
          <5>1. <<z, y>> \in c.earlier
            BY <2>5, <3>1, <4>3
          <5>2. z # x /\ y \in Cancelled(c) /\ z \in Cancelled(c)
            BY <2>3, <2>7, <5>1 DEF Timely, Lined, StrictOrder
          <5> QED
            BY <2>3, <2>7, <4>1, <4>3, <5>1, <5>2 DEF Timely, CancelsFit
        <4> QED
          BY <4>2, <4>3
      <3>2. ASSUME NEW y \in Cancelled(d)
            PROVE  \/ d.cancel[y].age >= CancelTTL
                   \/ y \in Unpended(d) /\ d.cancel[y].age >= d.op[y].age
        <4>1. d.op = b.op /\ d.op = c.op /\ Unpended(c) = Unpended(b)
          BY <2>3, <2>5 DEF SameRecords, Unpended, Recorded
        <4>2. CASE y = x
          <5>1. d.cancel[y].age = 0 /\ d.op[y].age = 0
            BY <2>4, <2>7, <4>1, <4>2
          <5> QED
            BY <2>9, <4>2, <5>1
        <4>3. CASE y # x
          <5>1. y \in Cancelled(c) /\ y \in Ids
            BY <2>7, <4>3 DEF Cancelled
          <5> QED
            BY <2>3, <2>7, <2>9, <4>1, <4>3, <5>1 DEF Timely, CancelsFit
        <4> QED
          BY <4>2, <4>3
      <3>3. ASSUME NEW y \in d.pending, d.op[y].via # None
            PROVE  y \notin Cancelled(d)
        <4>1. y \in c.pending /\ c.op[y].via # None /\ y # x
          <5>1. d.pending = c.pending /\ d.op = c.op /\ c.pending = b.pending
            BY <2>3, <2>5 DEF SameRecords
          <5> QED
            BY <3>3, <5>1 DEF Unpended
        <4> QED
          BY <2>3, <2>7, <4>1 DEF Timely, CancelsFit
      <3> QED
        BY <3>1, <3>2, <3>3 DEF CancelsFit
    <2>12. Cardinality(Cancelled(d)) <= MaxTombstones + 1
      <3>1. IsFiniteSet(Cancelled(c)) /\ Cardinality(Cancelled(c)) \in Nat
        BY IdsAssumption, FS_Subset, FS_CardinalityType DEF Cancelled
      <3>2. Cardinality(Cancelled(d)) = Cardinality(Cancelled(c)) + 1
        <4>1. Cardinality(Cancelled(c) \cup {x}) = Cardinality(Cancelled(c)) + 1
          BY <2>7, <3>1, FS_AddElement
        <4> QED
          BY <2>7, <4>1
      <3> QED
        BY <2>3, <3>1, <3>2, LimitsAssumption DEF Timely
    <2>13. /\ Timely(PruneCancels(d)) /\ SameRecords(d, PruneCancels(d))
           /\ PruneCancels(d).peers = d.peers
      BY <2>8, <2>10, <2>11, <2>12, PruneCancelsSound, PruneCancelsTimely
    <2> QED
      BY <1>2, <2>1, <2>3, <2>5, <2>13 DEF SameRecords
  <1> QED
    BY <1>1, <1>2

LEMMA EndWaiterTimely ==
  ASSUME NEW b, Sound(b), Timely(b), NEW x \in b.pending, NEW state \in EndedStates
  PROVE  LET c == EndWaiter(b, x, state)
         IN  /\ Timely(c) /\ Fresh(b) \subseteq Fresh(c)
             /\ c.pending = b.pending \ {x} /\ c.peers = b.peers
             /\ \A y \in c.pending : c.op[y] = b.op[y]
             /\ b.op[x].via = None => c.cancel = b.cancel
  <1> DEFINE d == EndWaiters(b, {x}, state)
  <1>1. x \in Ids /\ {x} \in SUBSET b.pending
    BY DEF Sound, Bridge
  <1>2. Sound(d) /\ OnlyEnded(b, d, {x}, state)
    BY <1>1, EndWaitersSound
  <1>3. /\ Timely(d) /\ Fresh(b) \subseteq Fresh(d) /\ d.peers = b.peers
        /\ d.pending = b.pending \ {x} /\ d.cancel = b.cancel
        /\ x \in Unpended(d) /\ d.op[x].age = 0 /\ d.op[x].via = b.op[x].via
        /\ \A y \in b.pending \ {x} : d.op[y] = b.op[y]
    <2> DEFINE S == {x}
    <2>1. S \in SUBSET b.pending /\ d = EndWaiters(b, S, state) /\ x \in S
      BY <1>1
    <2> HIDE DEF S, d
    <2>2. Timely(d) /\ JustEnded(b, d, S)
      BY <2>1, EndWaitersTimely
    <2>3. x \in Unpended(d) /\ d.op[x].age = 0 /\ d.op[x].via = b.op[x].via
      BY <2>1, <2>2 DEF JustEnded
    <2>4. d.pending = b.pending \ {x} /\ \A y \in b.pending \ {x} : d.op[y] = b.op[y]
      BY <2>2 DEF JustEnded, S
    <2> QED
      BY <2>2, <2>3, <2>4 DEF JustEnded
  <1>4. d.op[x].state # "settled"
    BY <1>1, <1>2 DEF OnlyEnded, EndedStates
  <1> HIDE DEF d
  <1>5. /\ Timely(Tombstone(d, x)) /\ SameRecords(d, Tombstone(d, x))
        /\ Tombstone(d, x).peers = d.peers
        /\ d.op[x].via = None => Tombstone(d, x) = d
    BY <1>2, <1>3, <1>4, TombstoneTimely
  <1>6. Fresh(Tombstone(d, x)) = Fresh(d)
    BY <1>5 DEF SameRecords, Fresh, Unpended, Recorded
  <1> QED
    BY <1>3, <1>5, <1>6 DEF EndWaiter, SameRecords, d

\* Records and the times of cancellations stay.
LEMMA SameTimely ==
  ASSUME NEW b, NEW c, Sound(b), Sound(c), Timely(b), SameRecords(b, c), SameCancels(b, c)
  PROVE  Timely(c) /\ Fresh(c) = Fresh(b)
  <1>1. Recorded(c) = Recorded(b) /\ Unpended(c) = Unpended(b) /\ Fresh(c) = Fresh(b)
    BY DEF SameRecords, Recorded, Unpended, Fresh
  <1>2. Cancelled(c) = Cancelled(b) /\ \A x \in Cancelled(b) : x \in Ids
    BY DEF SameCancels, Cancelled
  <1>3. Lined(c)
    BY <1>1, <1>2 DEF Timely, Lined, SameRecords, SameCancels
  <1>4. CancelsFit(c)
    BY <1>1, <1>2 DEF Timely, CancelsFit, SameRecords, SameCancels
  <1> QED
    BY <1>1, <1>2, <1>3, <1>4 DEF Timely

LEMMA ClaimCancelTimely ==
  ASSUME NEW b, Sound(b), Timely(b), NEW x \in Ids, NEW o \in Owners
  PROVE  /\ Timely(ClaimCancel(b, x, o))
         /\ Fresh(ClaimCancel(b, x, o)) = Fresh(b)
  <1> DEFINE c == ClaimCancel(b, x, o)
  <1>1. Sound(c) /\ SameRecords(b, c)
    BY ClaimCancelSound
  <1>2. SameCancels(b, c)
    BY DEF ClaimCancel, SameCancels, Sound, Bridge, Cancellation
  <1> QED
    BY <1>1, <1>2, SameTimely

LEMMA ReleaseTimely ==
  ASSUME NEW b, Sound(b), Timely(b), NEW o
  PROVE  Timely(Release(b, o)) /\ Fresh(Release(b, o)) = Fresh(b)
  <1> DEFINE c == Release(b, o)
  <1>1. Sound(c) /\ SameRecords(b, c)
    BY ReleaseSound
  <1>2. SameCancels(b, c)
    BY DEF Release, SameCancels, Sound, Bridge, Cancellation
  <1> QED
    BY <1>1, <1>2, SameTimely

LEMMA RegisterTimely ==
  ASSUME NEW b, Sound(b), Timely(b), NEW p \in Peers
  PROVE  Timely(Register(b, p)) /\ Fresh(Register(b, p)) = Fresh(b)
  <1> DEFINE c == Register(b, p)
  <1>1. Sound(c) /\ SameRecords(b, c)
    BY RegisterSound
  <1>2. SameCancels(b, c)
    BY DEF Register, SameCancels, Sound, Bridge
  <1> QED
    BY <1>1, <1>2, SameTimely

LEMMA UnregisterTimely ==
  ASSUME NEW b, Sound(b), Timely(b), NEW p \in Peers
  PROVE  Timely(Unregister(b, p)) /\ Fresh(b) \subseteq Fresh(Unregister(b, p))
  <1> DEFINE leaving == Behind(p) \cap b.peers
             freed == {x \in Ids : p \in Transports /\ b.cancel[x].via = p}
             d == [b EXCEPT !.peers = @ \ leaving,
                            !.cancel = [x \in Ids |->
                               IF x \in freed THEN [b.cancel[x] EXCEPT !.owner = None]
                                              ELSE b.cancel[x]]]
             S == {x \in b.pending : b.op[x].target \in leaving}
             c == EndWaiters(d, S, "disconnected")
  <1>1. CASE p \notin b.peers
    BY <1>1 DEF Unregister
  <1>2. CASE p \in b.peers
    <2>1. Unregister(b, p) = c
      BY <1>2 DEF Unregister
    <2>2. \A r \in Cancellation : /\ [r EXCEPT !.owner = None] \in Cancellation
                                  /\ [r EXCEPT !.owner = None].via = r.via
                                  /\ [r EXCEPT !.owner = None].age = r.age
      BY DEF Cancellation
    <2>3. b \in Bridge
      BY DEF Sound
    <2>4. d \in Bridge /\ SameRecords(b, d)
      BY <2>2, <2>3 DEF Bridge, SameRecords
    <2>5. SameCancels(b, d)
      BY <2>2, <2>3 DEF Bridge, SameCancels
    <2>6. Sound(d)
      BY <2>4, <2>5, SameRecordsSound DEF SameCancels
    <2>7. S \in SUBSET d.pending /\ "disconnected" \in EndedStates
      BY <2>4 DEF SameRecords, EndedStates
    <2> HIDE DEF d, S
    <2>8. Timely(d) /\ Fresh(d) = Fresh(b)
      BY <2>4, <2>5, <2>6, SameTimely
    <2> HIDE DEF c
    <2>9. Timely(c) /\ JustEnded(d, c, S)
      BY <2>6, <2>7, <2>8, EndWaitersTimely DEF c
    <2> QED
      BY <2>1, <2>8, <2>9 DEF JustEnded
  <1> QED
    BY <1>1, <1>2

\* No cancellation of the request that is handed out is left.
LEMMA ClaimTimely ==
  ASSUME NEW b, Sound(b), Timely(b), NEW x \in b.pending, x \notin Cancelled(b),
         NEW t \in Transports, NEW o
  PROVE  Timely(Claim(b, x, t, o)) /\ Fresh(Claim(b, x, t, o)) = Fresh(b)
  <1> DEFINE c == Claim(b, x, t, o)
  <1>1. /\ Sound(c) /\ c.pending = b.pending
        /\ \A y \in Ids : /\ y # x => c.op[y] = b.op[y]
                          /\ c.op[y].state = b.op[y].state
    BY ClaimSound
  <1>2. c.older = b.older /\ c.cancel = b.cancel /\ c.earlier = b.earlier
    BY DEF Claim, Sound, Bridge
  <1> HIDE DEF c
  <1>3. Recorded(c) = Recorded(b) /\ Unpended(c) = Unpended(b)
    BY <1>1 DEF Recorded, Unpended
  <1>4. \A y \in Unpended(b) : y \in Ids /\ c.op[y] = b.op[y]
    BY <1>1 DEF Recorded, Unpended
  <1>5. \A y \in Unpended(b) : c.op[y].age <= b.op[y].age
    BY <1>4, Ages
  <1>6. \A y \in c.pending : c.op[y].via # None => y \notin Cancelled(b)
    <2>1. \A y \in b.pending : y \in Ids
      BY DEF Sound, Bridge
    <2> QED
      BY <1>1, <2>1 DEF Timely, CancelsFit
  <1>7. StrictOrder(c.older, Recorded(c)) /\ SameCancels(b, c)
    BY <1>2, <1>3 DEF Timely, Lined, SameCancels
  <1>8. Timely(c)
    BY <1>1, <1>3, <1>5, <1>6, <1>7, TimelyStays
  <1>9. Fresh(c) = Fresh(b)
    BY <1>3, <1>4 DEF Fresh
  <1> QED
    BY <1>8, <1>9 DEF c

\* Nothing is waited for, handed out or cancelled that was not.
Rests(b, c) ==
  /\ Fresh(b) \subseteq Fresh(c)
  /\ c.pending \subseteq b.pending /\ c.peers = b.peers /\ c.cancel = b.cancel
  /\ \A x \in b.pending : b.op[x].via # None => x \in c.pending
  /\ \A x \in c.pending : c.op[x].via = b.op[x].via /\ c.op[x].target = b.op[x].target

LEMMA PruneRests ==
  ASSUME NEW b, Sound(b), Timely(b), CancelTTL <= Retention,
         Cardinality(Recorded(b)) <= MaxRecords
  PROVE  Rests(b, Prune(b))
  <1> DEFINE c == Prune(b)
  <1>1. c.pending = b.pending /\ c.cancel = b.cancel /\ c.peers = b.peers
    BY PruneKeeps
  <1>2. Fresh(b) \subseteq Fresh(c) /\ \A x \in b.pending : c.op[x] = b.op[x]
    BY PruneTimely
  <1> QED
    BY <1>1, <1>2 DEF Rests

LEMMA ObserveTimely ==
  ASSUME NEW b, Sound(b), Timely(b), NEW x \in Recorded(b),
         NEW phase \in Stages, NEW exec \in Outcomes
  PROVE  Timely(Observe(b, x, phase, exec)) /\ Rests(b, Observe(b, x, phase, exec))
  <1> DEFINE c == Observe(b, x, phase, exec)
             known == IF phase = "executing" THEN b.op[x].exec ELSE exec
             r == [b.op[x] EXCEPT !.stage = phase, !.exec = known, !.age = 0]
  <1>1. x \in Ids /\ b \in Bridge /\ b.op[x] \in Operation
    BY DEF Sound, Bridge, Recorded
  <1>2. Sound(c)
    BY ObserveSound
  <1>3. /\ c.op = [b.op EXCEPT ![x] = r]
        /\ c.older = AtEnd(b.older, Recorded(b), {x})
        /\ c.pending = b.pending /\ c.peers = b.peers
        /\ c.cancel = b.cancel /\ c.earlier = b.earlier
    BY <1>1 DEF Observe, Bridge
  <1>4. /\ r.via = b.op[x].via /\ r.target = b.op[x].target /\ r.age = 0
        /\ r.state = b.op[x].state
    BY <1>1 DEF Operation
  <1> HIDE DEF c, r
  <1>5. \A y \in Ids : /\ y # x => c.op[y] = b.op[y]
                       /\ c.op[y].via = b.op[y].via /\ c.op[y].target = b.op[y].target
                       /\ c.op[y].state = b.op[y].state
                       /\ c.op[x].age = 0
    BY <1>1, <1>3, <1>4 DEF Bridge
  <1>6. Recorded(c) = Recorded(b) /\ Unpended(c) = Unpended(b)
    BY <1>3, <1>5 DEF Recorded, Unpended
  <1>7. \A y \in Unpended(b) : y \in Ids /\ c.op[y].age <= b.op[y].age
    <2>1. \A y \in Unpended(b) : y \in Ids /\ b.op[y].age \in Nat
      BY Ages DEF Unpended, Recorded
    <2> QED
      BY <1>5, <2>1
  <1>8. \A y \in c.pending : y \in Ids /\ (c.op[y].via # None => y \notin Cancelled(b))
    <2>1. \A y \in b.pending : y \in Ids
      BY DEF Sound, Bridge
    <2> QED
      BY <1>3, <1>5, <2>1 DEF Timely, CancelsFit
  <1>9. StrictOrder(c.older, Recorded(c)) /\ SameCancels(b, c)
    <2> DEFINE S == {x}
    <2>1. S \in SUBSET Recorded(b) /\ c.older = AtEnd(b.older, Recorded(b), S)
      BY <1>3
    <2> HIDE DEF S
    <2> QED
      BY <1>3, <1>6, <2>1, AtEndStrict DEF Timely, Lined, SameCancels
  <1>10. Timely(c)
    BY <1>2, <1>6, <1>7, <1>8, <1>9, TimelyStays
  <1>11. Fresh(b) \subseteq Fresh(c)
    <2>1. \A y \in Unpended(b) : b.op[y].age \in Nat /\ c.op[y].age \in Nat
      BY <1>2, <1>7, Ages
    <2> QED
      BY <1>6, <1>7, <2>1, LimitsAssumption DEF Fresh
  <1> QED
    BY <1>3, <1>5, <1>8, <1>10, <1>11 DEF Rests, c

LEMMA ProgressTimely ==
  ASSUME NEW b, Sound(b), Timely(b), CancelTTL <= Retention,
         Cardinality(Recorded(b)) <= MaxRecords,
         NEW t, NEW x, NEW phase \in Stages, NEW exec \in Outcomes
  PROVE  /\ Timely(Progress(b, t, x, phase, exec))
         /\ Rests(b, Progress(b, t, x, phase, exec))
  <1> DEFINE c == Prune(b)
             d == Progress(b, t, x, phase, exec)
  <1>1. Sound(c) /\ Timely(c) /\ Rests(b, c)
    BY PruneSound, PruneTimely, PruneRests
  <1>2. d = c \/ (x \in Recorded(c) /\ d = Observe(c, x, phase, exec))
    BY DEF Progress, Owned
  <1> HIDE DEF c, d
  <1>3. CASE x \in Recorded(c) /\ d = Observe(c, x, phase, exec)
    <2>1. Timely(d) /\ Rests(c, d)
      BY <1>1, <1>3, ObserveTimely
    <2> QED
      BY <1>1, <2>1 DEF Rests, d
  <1> QED
    BY <1>1, <1>2, <1>3 DEF d

LEMMA RecordTimely ==
  ASSUME NEW b, Sound(b), Timely(b), NEW x \in Recorded(b), NEW r \in Responses
  PROVE  /\ Timely(Record(b, x, r))
         /\ Fresh(b) \subseteq Fresh(Record(b, x, r))
         /\ Recorded(Record(b, x, r)) = Recorded(b)
  <1> DEFINE S == {x}
             m == DropCancels(b, S)
             c == Record(b, x, r)
             settled == Settled(b.op[x], r)
  <1>1. x \in Ids /\ b \in Bridge /\ b.op[x] \in Operation
    BY DEF Sound, Bridge, Recorded
  <1>2. settled.age = 0 /\ settled.state = "settled"
    BY <1>1, SettledType
  <1>3. /\ m.cancel = [y \in Ids |-> IF y \in S THEN NoCancel ELSE b.cancel[y]]
        /\ m.earlier = Without(b.earlier, S)
    BY <1>1 DEF DropCancels, Bridge
  <1>4. /\ c.op = [b.op EXCEPT ![x] = settled]
        /\ c.older = AtEnd(b.older, Recorded(b), S)
        /\ c.pending = b.pending \ {x}
        /\ c.cancel = [b.cancel EXCEPT ![x] = NoCancel]
        /\ c.earlier = Without(b.earlier, S)
    BY <1>1 DEF Record, Bridge
  <1>5. Sound(c)
    BY RecordSound
  <1> HIDE DEF settled, c
  <1>6. SameCancels(m, c)
    BY <1>1, <1>3, <1>4, ZenonT(60) DEF SameCancels, Bridge
  <1>7. \A y \in S : y \in Recorded(b) /\ y = x
    OBVIOUS
  <1>8. /\ \A y \in Ids : y # x => c.op[y] = b.op[y]
        /\ c.op[x].age = 0 /\ c.op[x].state = "settled"
    BY <1>1, <1>2, <1>4 DEF Bridge
  <1> HIDE DEF S, m
  <1>9. /\ Sound(m) /\ SameRecords(b, m) /\ Lined(m) /\ CancelsFit(m)
        /\ Cancelled(m) = Cancelled(b) \ S
    BY DropCancelsSound, DropCancelsTimely DEF m, Timely
  <1>10. Timely(m)
    <2>1. IsFiniteSet(Cancelled(b)) /\ IsFiniteSet(Cancelled(m))
      BY IdsAssumption, FS_Subset DEF Cancelled
    <2>2. Cardinality(Cancelled(m)) <= Cardinality(Cancelled(b))
      BY <1>9, <2>1, FS_Subset
    <2>3. Cardinality(Cancelled(m)) \in Nat /\ Cardinality(Cancelled(b)) \in Nat
      BY <2>1, FS_CardinalityType
    <2> QED
      BY <1>9, <2>2, <2>3, LimitsAssumption DEF Timely
  <1>11. Recorded(c) = Recorded(b) /\ Unpended(b) \subseteq Unpended(c) /\ x \in Unpended(c)
    BY <1>1, <1>4, <1>8 DEF Recorded, Unpended
  <1>12. StrictOrder(c.older, Recorded(c))
    <2>1. S \in SUBSET Recorded(b)
      BY <1>7
    <2> QED
      BY <1>4, <1>11, <2>1, AtEndStrict DEF Timely, Lined
  <1>13. \A y \in Unpended(b) : y \in Ids /\ c.op[y].age <= b.op[y].age /\ b.op[y].age \in Nat
    <2>1. \A y \in Unpended(b) : y \in Ids /\ b.op[y].age \in Nat
      BY Ages DEF Unpended, Recorded
    <2> QED
      BY <1>8, <2>1
  <1>14. Unpended(m) = Unpended(b) /\ m.op = b.op
    BY <1>9 DEF SameRecords, Unpended, Recorded
  <1>15. \A y \in c.pending : c.op[y].via # None => y \notin Cancelled(m)
    <2>1. \A y \in c.pending : y \in Ids /\ y \in b.pending /\ y # x
      BY <1>1, <1>4 DEF Bridge
    <2> QED
      BY <1>8, <1>9, <2>1 DEF Timely, CancelsFit
  <1>16. Timely(c)
    BY <1>5, <1>6, <1>9, <1>10, <1>11, <1>12, <1>13, <1>14, <1>15, TimelyStays
  <1>17. Fresh(b) \subseteq Fresh(c)
    <2>1. \A y \in Unpended(b) : c.op[y].age \in Nat
      BY <1>5, <1>13, Ages
    <2> QED
      BY <1>11, <1>13, <2>1, LimitsAssumption DEF Fresh
  <1> QED
    BY <1>11, <1>16, <1>17 DEF c

LEMMA SettleTimely ==
  ASSUME NEW b, Sound(b), Timely(b), CancelTTL <= Retention,
         Cardinality(Recorded(b)) <= MaxRecords, NEW t, NEW x, NEW r \in Responses
  PROVE  Timely(Settle(b, t, x, r)) /\ Fresh(b) \subseteq Fresh(Settle(b, t, x, r))
  <1> DEFINE c == Prune(b)
             d == Record(c, x, r)
  <1>1. /\ Sound(c) /\ Timely(c) /\ Fresh(b) \subseteq Fresh(c)
        /\ Recorded(c) \subseteq Recorded(b)
    BY PruneSound, PruneTimely
  <1>2. CASE Disposition(b, t, x) # "accepted"
    BY <1>1, <1>2 DEF Settle
  <1>3. CASE Disposition(b, t, x) = "accepted"
    <2>1. Settle(b, t, x, r) = Prune(d)
      BY <1>3 DEF Settle
    <2>2. x \in Recorded(c)
      BY <1>3 DEF Disposition, Owned
    <2> HIDE DEF c
    <2>3. /\ Sound(d) /\ Timely(d) /\ Fresh(c) \subseteq Fresh(d)
          /\ Recorded(d) = Recorded(c)
      BY <1>1, <2>2, RecordSound, RecordTimely
    <2>4. Cardinality(Recorded(d)) <= MaxRecords
      <3>1. IsFiniteSet(Recorded(b)) /\ IsFiniteSet(Recorded(d))
        BY IdsAssumption, FS_Subset DEF Recorded
      <3>2. Cardinality(Recorded(d)) <= Cardinality(Recorded(b))
        BY <1>1, <2>3, <3>1, FS_Subset
      <3>3. Cardinality(Recorded(d)) \in Nat /\ Cardinality(Recorded(b)) \in Nat
        BY <3>1, FS_CardinalityType
      <3> QED
        BY <3>2, <3>3, LimitsAssumption
    <2> HIDE DEF d
    <2>5. Timely(Prune(d)) /\ Fresh(d) \subseteq Fresh(Prune(d))
      BY <2>3, <2>4, PruneTimely
    <2> QED
      BY <1>1, <2>1, <2>3, <2>5
  <1> QED
    BY <1>2, <1>3

\* Cancellations grow old together with the records they are of.
LEMMA TickTimely ==
  ASSUME NEW b, Sound(b), Timely(b), CancelTTL <= Retention
  PROVE  /\ Timely(Tick(b))
         /\ Tick(b).pending = b.pending /\ Tick(b).peers = b.peers
         /\ \A x \in Ids : /\ Tick(b).op[x].via = b.op[x].via
                           /\ Tick(b).op[x].target = b.op[x].target
                           /\ Tick(b).cancel[x].via = b.cancel[x].via
                           /\ Tick(b).cancel[x].owner = b.cancel[x].owner
                           /\ b.cancel[x].age >= CancelTTL => Tick(b).cancel[x].age >= CancelTTL
  <1> DEFINE c == Tick(b)
  <1>1. b \in Bridge
    BY DEF Sound
  <1>2. /\ c.op = [x \in Ids |-> IF x \in Recorded(b)
                                   THEN [b.op[x] EXCEPT !.age = Older(@, Retention)]
                                   ELSE b.op[x]]
        /\ c.cancel = [x \in Ids |-> IF x \in Cancelled(b)
                                       THEN [b.cancel[x] EXCEPT !.age = Older(@, CancelTTL)]
                                       ELSE b.cancel[x]]
        /\ c.older = b.older /\ c.earlier = b.earlier
        /\ c.pending = b.pending /\ c.peers = b.peers
    BY <1>1 DEF Tick, Bridge
  <1> HIDE DEF c
  <1>3. \A r \in Operation : LET q == [r EXCEPT !.age = Older(@, Retention)]
                             IN  q.state = r.state /\ q.via = r.via /\ q.target = r.target
                                 /\ q.age = Older(r.age, Retention)
    BY DEF Operation
  <1>4. \A r \in Cancellation : LET q == [r EXCEPT !.age = Older(@, CancelTTL)]
                                IN  q.via = r.via /\ q.owner = r.owner
                                    /\ q.age = Older(r.age, CancelTTL)
    BY DEF Cancellation
  <1>5. \A x \in Ids : /\ c.op[x].via = b.op[x].via /\ c.op[x].target = b.op[x].target
                       /\ c.op[x].state = b.op[x].state
                       /\ x \in Recorded(b) => c.op[x].age = Older(b.op[x].age, Retention)
    BY <1>1, <1>2, <1>3 DEF Bridge
  <1>6. \A x \in Ids : /\ c.cancel[x].via = b.cancel[x].via
                       /\ c.cancel[x].owner = b.cancel[x].owner
                       /\ x \in Cancelled(b) => c.cancel[x].age = Older(b.cancel[x].age, CancelTTL)
                       /\ x \notin Cancelled(b) => c.cancel[x].age = b.cancel[x].age
    BY <1>1, <1>2, <1>4 DEF Bridge
  <1>7. /\ \A m \in 0 .. CancelTTL : \A n \in 0 .. CancelTTL :
             m >= n => Older(m, CancelTTL) >= Older(n, CancelTTL)
        /\ \A m \in 0 .. CancelTTL : m >= CancelTTL => Older(m, CancelTTL) >= CancelTTL
        /\ \A m \in 0 .. CancelTTL : \A n \in 0 .. Retention :
             m >= n => Older(m, CancelTTL) >= CancelTTL
                       \/ Older(m, CancelTTL) >= Older(n, Retention)
    BY LimitsAssumption DEF Older
  <1>8. \A x \in Ids : b.cancel[x].age \in 0 .. CancelTTL /\ b.op[x].age \in 0 .. Retention
    BY <1>1 DEF Bridge, Cancellation, Operation
  <1>9. Recorded(c) = Recorded(b) /\ Unpended(c) = Unpended(b) /\ Cancelled(c) = Cancelled(b)
    BY <1>2, <1>5, <1>6 DEF Recorded, Unpended, Cancelled
  <1>10. Lined(c)
    BY <1>2, <1>9 DEF Timely, Lined
  <1>11. CancelsFit(c)
    <2>1. \A x \in Cancelled(b) : x \in Ids
      BY DEF Cancelled
    <2>2. ASSUME NEW x \in Cancelled(b), NEW y \in Cancelled(b), <<y, x>> \in b.earlier
          PROVE  c.cancel[y].age >= c.cancel[x].age
      <3>1. b.cancel[y].age >= b.cancel[x].age
        BY <2>2 DEF Timely, CancelsFit
      <3>2. /\ c.cancel[y].age = Older(b.cancel[y].age, CancelTTL)
            /\ c.cancel[x].age = Older(b.cancel[x].age, CancelTTL)
            /\ b.cancel[x].age \in 0 .. CancelTTL /\ b.cancel[y].age \in 0 .. CancelTTL
        BY <1>6, <1>8, <2>1
      <3> QED
        BY <1>7, <3>1, <3>2
    <2>3. ASSUME NEW x \in Cancelled(b)
          PROVE  \/ c.cancel[x].age >= CancelTTL
                 \/ x \in Unpended(b) /\ c.cancel[x].age >= c.op[x].age
      <3>1. /\ c.cancel[x].age = Older(b.cancel[x].age, CancelTTL)
            /\ b.cancel[x].age \in 0 .. CancelTTL /\ b.op[x].age \in 0 .. Retention
        BY <1>6, <1>8, <2>1
      <3>2. CASE b.cancel[x].age >= CancelTTL
        BY <1>7, <3>1, <3>2
      <3>3. CASE x \in Unpended(b) /\ b.cancel[x].age >= b.op[x].age
        <4>1. c.op[x].age = Older(b.op[x].age, Retention)
          BY <1>5, <2>1, <3>3 DEF Unpended
        <4> QED
          BY <1>7, <3>1, <3>3, <4>1
      <3> QED
        BY <3>2, <3>3 DEF Timely, CancelsFit
    <2>4. \A x \in c.pending : c.op[x].via # None => x \notin Cancelled(b)
      <3>1. \A x \in c.pending : x \in Ids
        BY <1>1, <1>2 DEF Bridge
      <3> QED
        BY <1>2, <1>5, <3>1 DEF Timely, CancelsFit
    <2> QED
      BY <1>2, <1>9, <2>2, <2>3, <2>4 DEF CancelsFit
  <1>12. Timely(c)
    BY <1>9, <1>10, <1>11 DEF Timely
  <1>13. \A x \in Ids : b.cancel[x].age >= CancelTTL => c.cancel[x].age >= CancelTTL
    BY <1>6, <1>7, <1>8
  <1> QED
    BY <1>2, <1>5, <1>6, <1>12, <1>13 DEF c

=============================================================================
