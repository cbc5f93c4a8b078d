-------------------------- MODULE Servers_proofs --------------------------
(***************************************************************************)
(* The servers of one machine: who holds the port, what a proxy shows of   *)
(* the primary's topology, what the callers of one operation are told,     *)
(* that whoever waits for a status is heard, that a reference image is     *)
(* uploaded once, and how a server's input is cut in messages.  The six    *)
(* are proved one after the other and share nothing but a lemma.           *)
(***************************************************************************)
EXTENDS ServerElection, ProxyTopology, OperationCallers, StatusWait, ReferenceUploads,
        StdioTransport, FiniteSetTheorems, WellFoundedInduction, TLAPS

-----------------------------------------------------------------------------
(***************************************************************************)
(* Tool calls have a consumer, however many servers there are and however  *)
(* many attempts overlap: a process that was told its bind succeeded is    *)
(* still the one that holds the port, for only its own end gives it up.    *)
(***************************************************************************)
OneHolder == \A s, t \in holders : s = t

\* A bind that succeeded is held, whether or not its process knows yet.
BoundIsHeld ==
  \A s \in Servers :
    stage[s] = "binding" \/ binding[s].bound > 0 \/ (Serves(s) /\ bridgeKind[s] = "own")
      => s \in holders

\* Who is gone, or has not begun, has nothing under way.
IdleOutside == \A s \in Servers : stage[s] \in {"new", "gone"} => binding[s] = NoAttempts

ElectionInv == ElectionTypeOK /\ OneHolder /\ BoundIsHeld /\ IdleOutside

LEMMA ElectionStep == ElectionInv /\ [ElectionNext]_electionVars => ElectionInv'
<1> SUFFICES ASSUME ElectionInv, [ElectionNext]_electionVars PROVE ElectionInv'
  OBVIOUS
<1> USE DEF ElectionInv, ElectionTypeOK, OneHolder, BoundIsHeld, IdleOutside, Serves, Stages,
            NoAttempts
<1>1. ASSUME NEW s \in Servers, Starts(s) PROVE ElectionInv'
  BY <1>1 DEF Starts
<1>2. ASSUME NEW s \in Servers, ServesAsPrimary(s) PROVE ElectionInv'
  BY <1>2 DEF ServesAsPrimary
<1>3. ASSUME NEW s \in Servers, BecomesProxy(s) PROVE ElectionInv'
  BY <1>3 DEF BecomesProxy
<1>4. ASSUME NEW s \in Servers, ServesAsProxy(s) PROVE ElectionInv'
  BY <1>4 DEF ServesAsProxy
<1>5. ASSUME NEW s \in Servers, AttemptsPromotion(s) PROVE ElectionInv'
  <2>1. CASE holders = {}
    <3>1. /\ holders' = {s} /\ binding' = [binding EXCEPT ![s].bound = @ + 1]
          /\ UNCHANGED <<stage, bridgeKind, promoting>> /\ stage[s] = "serving"
      BY <1>5, <2>1 DEF AttemptsPromotion
    <3>2. ElectionTypeOK'
      BY <3>1
    <3>3. \A t \in Servers \ {s} : binding'[t] = binding[t] /\ t \notin holders
      BY <2>1, <3>1
    <3>4. OneHolder' /\ IdleOutside'
      BY <3>1
    <3>5. BoundIsHeld'
      BY <3>1, <3>2, <3>3
    <3> QED
      BY <3>2, <3>4, <3>5
  <2>2. CASE holders # {}
    <3> DEFINE a == [binding[s] EXCEPT !.refused = @ + 1]
    <3>1. /\ binding' = [binding EXCEPT ![s] = a]
          /\ UNCHANGED <<holders, stage, bridgeKind, promoting>> /\ stage[s] = "serving"
      BY <1>5, <2>2 DEF AttemptsPromotion
    <3>2. a \in [bound : Nat, refused : Nat] /\ a.bound = binding[s].bound
      OBVIOUS
    <3> HIDE DEF a
    <3>3. ElectionTypeOK'
      BY <3>1, <3>2
    <3>4. \A t \in Servers : /\ binding'[t].bound = binding[t].bound
                             /\ t # s => binding'[t] = binding[t]
      BY <3>1, <3>2
    <3>5. OneHolder' /\ IdleOutside' /\ BoundIsHeld'
      BY <3>1, <3>4
    <3> QED
      BY <3>3, <3>5
  <2> QED
    BY <2>1, <2>2
<1>6. ASSUME NEW s \in Servers, Promotes(s) PROVE ElectionInv'
  BY <1>6 DEF Promotes
<1>7. ASSUME NEW s \in Servers, Discards(s) PROVE ElectionInv'
  BY <1>7 DEF Discards
<1>8. ASSUME NEW s \in Servers, ShutsDown(s) PROVE ElectionInv'
  BY <1>8 DEF ShutsDown
<1>9. ASSUME NEW s \in Servers, Exits(s) PROVE ElectionInv'
  BY <1>9 DEF Exits
<1>10. ASSUME NEW s \in Servers, IsKilled(s) PROVE ElectionInv'
  BY <1>10 DEF IsKilled
<1>11. ASSUME NEW s \in Servers, StartsOver(s) PROVE ElectionInv'
  BY <1>11 DEF StartsOver
<1>12. CASE UNCHANGED electionVars
  BY <1>12 DEF electionVars
<1> QED
  BY <1>1, <1>2, <1>3, <1>4, <1>5, <1>6, <1>7, <1>8, <1>9, <1>10, <1>11, <1>12 DEF ElectionNext

\* The invariant of the election: one holder at most, and whoever was told that
\* it bound the port, or will be, is the one.
THEOREM ElectionInvariant == ElectionSpec => []ElectionInv
<1>1. ElectionInit => ElectionInv
  BY DEF ElectionInit, ElectionInv, ElectionTypeOK, OneHolder, BoundIsHeld, IdleOutside,
         Serves, Stages, NoAttempts
<1> QED
  BY <1>1, ElectionStep, PTL DEF ElectionSpec

\* A process that serves calls from a bridge of its own holds the port, and holds
\* it alone (server.ts, promotionInterval).
THEOREM ConsumersAreThere == ElectionSpec => []CallsHaveConsumer
<1>1. ElectionInv => CallsHaveConsumer
  BY DEF ElectionInv, ElectionTypeOK, OneHolder, BoundIsHeld, CallsHaveConsumer
<1> QED
  BY <1>1, ElectionInvariant, PTL

-----------------------------------------------------------------------------
(***************************************************************************)
(* A proxy does not bring back who is gone, for any peers, groups and      *)
(* number of polls.  The generation at which a peer left is at least that  *)
(* of every snapshot that still has it; the view is never older than the   *)
(* last poll that returned, so what it has left no earlier than that.      *)
(***************************************************************************)
\* A poll that was sent has a generation.
Numbered == \A g \in 1 .. MaxPolls : polls[g] # "unused" => g <= generation

\* An answer that still has a peer that is gone was given before the peer left.
SnapshotsAreOld ==
  \A g \in 1 .. MaxPolls, p \in ViewPeers :
    polls[g] = "answered" /\ snapshots[g][p] # Absent /\ topology[p] = Absent => g <= gone[p]

ViewIsOld ==
  \A p \in ViewPeers : view[p] # Absent /\ topology[p] = Absent => applied <= gone[p]

ReturnedApplied == \A g \in 1 .. MaxPolls : polls[g] = "returned" => g <= applied

ViewInv == ViewTypeOK /\ Numbered /\ SnapshotsAreOld /\ ViewIsOld /\ ReturnedApplied

\* Whatever the primary becomes, what leaves now leaves after every poll so far.
LEMMA PrimaryChanges ==
  ASSUME ViewInv, NEW t \in Topology, PrimaryBecomes(t),
         UNCHANGED <<view, generation, applied, polls, snapshots>>,
         change' \in Changes \cup {NoChange}
  PROVE  ViewInv'
<1>1. /\ topology' = t
      /\ gone' = [p \in ViewPeers |->
                    IF topology[p] # Absent /\ t[p] = Absent THEN generation ELSE gone[p]]
  BY DEF PrimaryBecomes
<1>2. generation \in Nat /\ applied <= generation /\ MaxPolls \in Nat
  BY ViewAssumption DEF ViewInv, ViewTypeOK
<1>3. ViewTypeOK'
  BY <1>1, <1>2 DEF ViewInv, ViewTypeOK
<1>4. SnapshotsAreOld'
  BY <1>1, <1>2 DEF ViewInv, ViewTypeOK, SnapshotsAreOld, Numbered
<1>5. ViewIsOld'
  BY <1>1, <1>2 DEF ViewInv, ViewTypeOK, ViewIsOld
<1> QED
  BY <1>3, <1>4, <1>5 DEF ViewInv, Numbered, ReturnedApplied

\* A change moves peers that are there and takes some away, and adds nobody.
LEMMA EditsAddNobody ==
  ASSUME NEW t \in Topology, NEW c \in Changes
  PROVE  Edited(t, c) \in Topology /\ \A p \in ViewPeers : t[p] = Absent => Edited(t, c)[p] = Absent
<1> USE GroupsAssumption
<1>1. CASE c.kind = "create"
  BY <1>1 DEF Edited, Topology, Changes, Absent, Ungrouped
<1>2. CASE c.kind = "remove"
  BY <1>2 DEF Edited, Topology, Changes, Absent, Ungrouped
<1>3. CASE c.kind = "unregister"
  BY <1>3 DEF Edited, Topology, Changes, Absent, Ungrouped
<1>4. c.kind \in {"create", "remove", "unregister"}
  BY DEF Changes
<1> QED
  BY <1>1, <1>2, <1>3, <1>4

LEMMA ViewStep == ViewInv /\ [ViewNext]_viewVars => ViewInv'
<1> SUFFICES ASSUME ViewInv, [ViewNext]_viewVars PROVE ViewInv'
  OBVIOUS
<1>0. /\ generation \in Nat /\ MaxPolls \in Nat /\ generation <= MaxPolls
      /\ applied \in Nat /\ applied <= generation
  BY ViewAssumption DEF ViewInv, ViewTypeOK
<1>1. ASSUME NEW p \in ViewPeers, NEW where \in Groups \cup {Absent, Ungrouped},
             PeerChanges(p, where)
      PROVE  ViewInv'
  <2>1. [topology EXCEPT ![p] = where] \in Topology
    BY DEF ViewInv, ViewTypeOK, Topology
  <2> QED
    BY <1>1, <2>1, PrimaryChanges DEF PeerChanges, ViewInv, ViewTypeOK
<1>2. CASE PrimaryIsReplaced
  <2>1. Nobody \in Topology
    BY DEF Nobody, Topology
  <2> QED
    BY <1>2, <2>1, PrimaryChanges DEF PrimaryIsReplaced, ViewInv, ViewTypeOK
<1>3. CASE PollBegins
  BY <1>0, <1>3 DEF PollBegins, ViewInv, ViewTypeOK, Numbered, SnapshotsAreOld, ViewIsOld,
                    ReturnedApplied
<1>4. ASSUME NEW g \in 1 .. MaxPolls, PrimaryAnswers(g) PROVE ViewInv'
  BY <1>0, <1>4 DEF PrimaryAnswers, ViewInv, ViewTypeOK, Numbered, SnapshotsAreOld, ViewIsOld,
                    ReturnedApplied
<1>5. ASSUME NEW g \in 1 .. MaxPolls, PollReturns(g) PROVE ViewInv'
  <2>1. /\ polls[g] = "answered" /\ g <= generation
        /\ polls' = [polls EXCEPT ![g] = "returned"]
        /\ UNCHANGED <<topology, generation, snapshots, change, gone>>
    BY <1>5 DEF PollReturns, ViewInv, Numbered
  <2>2. CASE g < applied
    BY <1>0, <1>5, <2>1, <2>2
       DEF PollReturns, ViewInv, ViewTypeOK, Numbered, SnapshotsAreOld, ViewIsOld,
           ReturnedApplied
  <2>3. CASE ~(g < applied)
    <3>1. applied' = g /\ view' = snapshots[g] /\ applied <= g
      BY <1>0, <1>5, <2>3 DEF PollReturns
    <3>2. ViewTypeOK'
      BY <1>0, <2>1, <3>1 DEF ViewInv, ViewTypeOK
    <3>3. ViewIsOld'
      BY <2>1, <3>1 DEF ViewInv, SnapshotsAreOld, ViewIsOld
    <3> QED
      BY <1>0, <2>1, <3>1, <3>2, <3>3
         DEF ViewInv, ViewTypeOK, Numbered, SnapshotsAreOld, ReturnedApplied
  <2> QED
    BY <2>2, <2>3
<1>6. ASSUME NEW g \in 1 .. MaxPolls, PollFails(g) PROVE ViewInv'
  BY <1>0, <1>6 DEF PollFails, ViewInv, ViewTypeOK, Numbered, SnapshotsAreOld, ViewIsOld,
                    ReturnedApplied
<1>7. ASSUME NEW c \in Changes, AsksChange(c) PROVE ViewInv'
  <2>1. [c EXCEPT !.answered = FALSE] \in Changes
    BY DEF Changes
  <2> QED
    BY <1>7, <2>1 DEF AsksChange, ViewInv, ViewTypeOK, Numbered, SnapshotsAreOld, ViewIsOld,
                      ReturnedApplied
<1>8. CASE PrimaryMakesChange
  <2>1. change \in Changes /\ topology \in Topology
    BY <1>8 DEF PrimaryMakesChange, ViewInv, ViewTypeOK
  <2>2. [change EXCEPT !.answered = TRUE] \in Changes
    BY <2>1 DEF Changes
  <2> QED
    BY <1>8, <2>1, <2>2, EditsAddNobody, PrimaryChanges DEF PrimaryMakesChange
<1>9. CASE ChangeReturns
  <2>1. change \in Changes /\ view \in Topology /\ view' = Edited(view, change)
    BY <1>9 DEF ChangeReturns, ViewInv, ViewTypeOK
  <2>2. view' \in Topology /\ \A p \in ViewPeers : view'[p] # Absent => view[p] # Absent
    BY <2>1, EditsAddNobody
  <2> QED
    BY <1>0, <1>9, <2>2 DEF ChangeReturns, ViewInv, ViewTypeOK, Numbered, SnapshotsAreOld,
                            ViewIsOld, ReturnedApplied
<1>10. CASE ChangeFails
  BY <1>0, <1>10 DEF ChangeFails, ViewInv, ViewTypeOK, Numbered, SnapshotsAreOld, ViewIsOld,
                     ReturnedApplied
<1>11. CASE UNCHANGED viewVars
  BY <1>11 DEF viewVars, ViewInv, ViewTypeOK, Numbered, SnapshotsAreOld, ViewIsOld,
               ReturnedApplied
<1> QED
  BY <1>1, <1>2, <1>3, <1>4, <1>5, <1>6, <1>7, <1>8, <1>9, <1>10, <1>11 DEF ViewNext

\* The invariant of the view: what it or an answer has of the gone is old.
THEOREM ViewInvariant == ViewSpec => []ViewInv
<1>1. ViewInit => ViewInv
  BY ViewAssumption
     DEF ViewInit, ViewInv, ViewTypeOK, Topology, Nobody, NoChange, Numbered, SnapshotsAreOld,
         ViewIsOld, ReturnedApplied
<1> QED
  BY <1>1, ViewStep, PTL DEF ViewSpec

\* No poll that answers late, and no change the proxy makes of its copy, brings
\* back a peer that had left before a returned poll began (refreshTopology).
THEOREM TheGoneStayGone == ViewSpec => []GoneStaysGone
<1>1. ViewInv => GoneStaysGone
  <2> SUFFICES ASSUME ViewInv, NEW g \in 1 .. MaxPolls, NEW p \in ViewPeers,
                      polls[g] = "returned", topology[p] = Absent, gone[p] < g
               PROVE  view[p] = Absent
    BY DEF GoneStaysGone
  <2>1. g <= applied /\ applied \in Nat /\ gone[p] \in Nat
    BY ViewAssumption DEF ViewInv, ViewTypeOK, ReturnedApplied
  <2> QED
    BY <2>1 DEF ViewInv, ViewIsOld
<1> QED
  BY <1>1, ViewInvariant, PTL

-----------------------------------------------------------------------------
(***************************************************************************)
(* A call that is told it was not executed never is, for any callers,      *)
(* proxied or not, and number of admissions: its admission is none, or was *)
(* never handed to Studio or is back from it, and is no longer pending.    *)
(***************************************************************************)
CallsTypeOK ==
  /\ call \in [Callers -> Call]
  /\ request \in [Callers -> Request]
  /\ joined \in [Callers -> Nat]
  /\ record \in Record
  /\ handed \subseteq Admissions /\ ran \subseteq Admissions

\* The primary's own record: what was not handed over can be said not executed.
RecordIsTrue ==
  /\ handed \cap ran = {}
  /\ \A n \in handed \cup ran : n =< record.number
  /\ record.state # "none" => record.number # 0
  /\ record.state # "none" /\ ~record.dispatched => record.number \notin handed \cup ran
  /\ record.state \in {"ended", "settled"} /\ record.answer = "not_executed"
       => record.number \notin handed \cup ran

\* Admission n did not run, is not at Studio, and will not be handed over.
NeverRuns(n) ==
  /\ n =< record.number
  /\ n \notin handed \cup ran
  /\ n = record.number => record.state # "pending"

\* Of a caller told a, with its request q and the admission n it joined.
IsTold(a, q, n) ==
  /\ a.mode = "none" => a.told = "nothing" /\ q.at = "none"
  /\ q.at \in {"none", "coming"} => n = 0
  /\ q.at = "waiting" => record.state = "pending" /\ n = record.number
  /\ q.at = "answered" /\ q.answer = "not_executed" => NeverRuns(n)
  /\ a.told = "not_executed" => q.at \in {"none", "gone"} /\ NeverRuns(n)

CallsInv ==
  /\ CallsTypeOK
  /\ RecordIsTrue
  /\ \A c \in Callers : IsTold(call[c], request[c], joined[c])

-----------------------------------------------------------------------------
\* A step of one caller, or of its request, leaves the others alone.
LEMMA OneCallerChanges ==
  ASSUME CallsInv, NEW c \in Callers, NEW a \in Call, NEW q \in Request, NEW n \in Nat,
         call' = [call EXCEPT ![c] = a], request' = [request EXCEPT ![c] = q],
         joined' = [joined EXCEPT ![c] = n], UNCHANGED <<record, handed, ran>>,
         IsTold(a, q, n)
  PROVE  CallsInv'
<1>1. CallsTypeOK' /\ RecordIsTrue'
  BY DEF CallsInv, CallsTypeOK, RecordIsTrue
<1>2. ASSUME NEW d \in Callers PROVE IsTold(call[d], request[d], joined[d])'
  BY DEF CallsInv, CallsTypeOK, IsTold, NeverRuns
<1> QED
  BY <1>1, <1>2 DEF CallsInv

\* The record's fields, and what follows for admission 0.
LEMMA RecordFields ==
  ASSUME CallsInv
  PROVE  /\ record.state \in {"none", "pending", "ended", "settled"}
         /\ record.dispatched \in BOOLEAN /\ record.answer \in Verdicts
         /\ record.signal \in Callers \cup {NoCaller}
         /\ record.number \in 0 .. MaxAdmissions /\ record.number \in Nat /\ MaxAdmissions \in Nat
         /\ NeverRuns(0)
<1>1. record \in Record /\ MaxAdmissions \in Nat
  BY CallersAssumption DEF CallsInv, CallsTypeOK
<1>2. /\ record.state \in {"none", "pending", "ended", "settled"}
      /\ record.dispatched \in BOOLEAN /\ record.answer \in Verdicts
      /\ record.signal \in Callers \cup {NoCaller}
      /\ record.number \in 0 .. MaxAdmissions
  BY <1>1 DEF Record, Admissions
<1>3. NeverRuns(0)
  <2>1. 0 \notin handed \cup ran
    BY DEF CallsInv, CallsTypeOK, Admissions
  <2>2. record.state # "none" => record.number # 0
    BY DEF CallsInv, RecordIsTrue
  <2>3. record.state = "pending" => record.state # "none"
    OBVIOUS
  <2> QED
    BY <1>1, <1>2, <2>1, <2>2, <2>3 DEF NeverRuns
<1> QED
  BY <1>1, <1>2, <1>3

\* The record ends or settles and those who wait are answered: what never runs
\* goes on never running.
LEMMA EndsForAll ==
  ASSUME CallsInv, NEW verdict \in Verdicts, AnswerAll(verdict),
         NEW state \in {"ended", "settled"},
         record' = [record EXCEPT !.state = state, !.answer = verdict, !.signal = NoCaller],
         record.state \in {"pending", "ended"},
         UNCHANGED <<call, joined, ran>>, handed' \subseteq handed,
         verdict = "not_executed" => record.number \notin handed' \cup ran
  PROVE  CallsInv'
<1>1. /\ record'.state = state /\ record'.answer = verdict
      /\ record'.number = record.number /\ record'.dispatched = record.dispatched
      /\ record' \in Record
  BY DEF CallsInv, CallsTypeOK, Record
<1>2. request' \in [Callers -> Request]
  BY DEF CallsInv, CallsTypeOK, AnswerAll, Request
<1>3. CallsTypeOK'
  BY <1>1, <1>2 DEF CallsInv, CallsTypeOK
<1>4. RecordIsTrue'
  BY <1>1 DEF CallsInv, RecordIsTrue
<1>5. ASSUME NEW n, NeverRuns(n) PROVE NeverRuns(n)'
  BY <1>1, <1>5 DEF NeverRuns
<1>6. verdict = "not_executed" => NeverRuns(record.number)'
  BY <1>1, RecordFields DEF NeverRuns
<1>7. ASSUME NEW c \in Callers PROVE IsTold(call[c], request[c], joined[c])'
  <2>1. IsTold(call[c], request[c], joined[c])
    BY DEF CallsInv
  <2>2. CASE request[c].at = "waiting"
    <3>1. request'[c].at = "answered" /\ request'[c].answer = verdict
      BY <2>2 DEF AnswerAll
    <3> QED
      BY <1>6, <2>1, <2>2, <3>1 DEF IsTold
  <2>3. CASE request[c].at # "waiting"
    <3>1. request'[c] = request[c]
      BY <2>3 DEF AnswerAll
    <3> QED
      BY <1>5, <2>1, <2>3, <3>1 DEF IsTold
  <2> QED
    BY <2>2, <2>3
<1> QED
  BY <1>3, <1>4, <1>7 DEF CallsInv

-----------------------------------------------------------------------------
\* One step per action: the callers' half first, then the primary's.
LEMMA CallsStep == CallsInv /\ [CallsNext]_callVars => CallsInv'
<1> SUFFICES ASSUME CallsInv, [CallsNext]_callVars PROVE CallsInv'
  OBVIOUS
<1>a. ASSUME NEW c \in Callers
      PROVE  /\ call[c] \in Call /\ request[c] \in Request /\ joined[c] \in Nat
             /\ IsTold(call[c], request[c], joined[c])
             /\ call = [call EXCEPT ![c] = call[c]]
             /\ request = [request EXCEPT ![c] = request[c]]
             /\ joined = [joined EXCEPT ![c] = joined[c]]
  BY DEF CallsInv, CallsTypeOK
\* The callers' half: the primary keeps what it has.
<1>1. ASSUME NEW c \in Callers, NEW mode \in {"send", "submit"}, Posts(c, mode) PROVE CallsInv'
  <2> DEFINE a == [call[c] EXCEPT !.mode = mode]
             q == [request[c] EXCEPT !.at = "coming"]
  <2>1. /\ a \in Call /\ q \in Request /\ q.at = "coming" /\ a.mode = mode
        /\ a.told = call[c].told
    BY <1>1, <1>a DEF Call, Request
  <2>2. call' = [call EXCEPT ![c] = a] /\ request' = [request EXCEPT ![c] = q]
    BY <1>1 DEF Posts
  <2>3. IsTold(a, q, joined[c])
    BY <1>1, <1>a, <2>1 DEF Posts, IsTold
  <2> HIDE DEF a, q
  <2> QED
    BY <1>1, <1>a, <2>1, <2>2, <2>3, OneCallerChanges DEF Posts
<1>2. ASSUME NEW c \in Callers, NEW mode \in {"send", "submit"}, RefusesToPost(c, mode)
      PROVE  CallsInv'
  <2> DEFINE a == [mode |-> mode, told |-> "not_executed"]
  <2>1. a \in Call /\ a.mode = mode /\ a.told = "not_executed"
    BY DEF Call, Verdicts
  <2>2. IsTold(a, request[c], joined[c])
    BY <1>2, <1>a, <2>1, RecordFields DEF RefusesToPost, IsTold
  <2>3. call' = [call EXCEPT ![c] = a]
    BY <1>2 DEF RefusesToPost
  <2> HIDE DEF a
  <2> QED
    BY <1>2, <1>a, <2>1, <2>2, <2>3, OneCallerChanges DEF RefusesToPost
<1>3. ASSUME NEW c \in Callers, LosesPrimary(c) PROVE CallsInv'
  <2> DEFINE a == [call[c] EXCEPT !.told = "unknown"]
  <2>1. a \in Call /\ a.mode = call[c].mode /\ a.told = "unknown" /\ a.mode # "none"
    BY <1>3, <1>a DEF Call, Verdicts, LosesPrimary, Waiting
  <2>2. IsTold(a, request[c], joined[c])
    BY <1>a, <2>1 DEF IsTold
  <2>3. call' = [call EXCEPT ![c] = a]
    BY <1>3 DEF LosesPrimary, Tell
  <2> HIDE DEF a
  <2> QED
    BY <1>3, <1>a, <2>1, <2>2, <2>3, OneCallerChanges DEF LosesPrimary
<1>4. ASSUME NEW c \in Callers, NEW q \in Request, request' = [request EXCEPT ![c] = q],
             UNCHANGED <<call, joined, record, handed, ran>>,
             q.at \in {"answered", "gone"}, request[c].at \notin {"none", "gone"},
             q.at = "answered" /\ q.answer = "not_executed" => NeverRuns(joined[c])
      PROVE  CallsInv'
  <2>1. IsTold(call[c], q, joined[c])
    BY <1>4, <1>a DEF IsTold
  <2> QED
    BY <1>4, <1>a, <2>1, OneCallerChanges
<1>5. ASSUME NEW c \in Callers, request' = [request EXCEPT ![c].at = "gone"],
             UNCHANGED <<call, joined, record, handed, ran>>, request[c].at \notin {"none", "gone"}
      PROVE  CallsInv'
  <2> DEFINE q == [request[c] EXCEPT !.at = "gone"]
  <2>1. q \in Request /\ q.at = "gone"
    BY <1>a DEF Request
  <2>2. request' = [request EXCEPT ![c] = q]
    BY <1>5
  <2> HIDE DEF q
  <2> QED
    BY <1>4, <1>5, <2>1, <2>2
<1>6. ASSUME NEW c \in Callers, RequestIsLost(c) PROVE CallsInv'
  BY <1>5, <1>6 DEF RequestIsLost
<1>7. ASSUME NEW c \in Callers, HearsAnswer(c) PROVE CallsInv'
  <2> DEFINE q == [request[c] EXCEPT !.at = "gone"]
             a == [call[c] EXCEPT !.told = request[c].answer]
  <2>1. q \in Request /\ q.at = "gone"
    BY <1>a DEF Request
  <2>2. CASE ~Waiting(c)
    BY <1>5, <1>7, <2>2 DEF HearsAnswer
  <2>3. CASE Waiting(c)
    <3>1. /\ a \in Call /\ a.mode = call[c].mode /\ a.told = request[c].answer
      BY <1>a DEF Call, Request
    <3>2. IsTold(a, q, joined[c])
      BY <1>7, <1>a, <2>1, <2>3, <3>1 DEF IsTold, HearsAnswer, Waiting
    <3>3. call' = [call EXCEPT ![c] = a] /\ request' = [request EXCEPT ![c] = q]
      BY <1>7, <2>3 DEF HearsAnswer, Tell
    <3> HIDE DEF a, q
    <3> QED
      BY <1>7, <1>a, <2>1, <3>1, <3>2, <3>3, OneCallerChanges DEF HearsAnswer
  <2> QED
    BY <2>2, <2>3
\* The primary's half.
<1>8. ASSUME NEW verdict \in Verdicts
      PROVE  LET q == [at |-> "answered", answer |-> verdict]
             IN  q \in Request /\ q.at = "answered" /\ q.answer = verdict
  BY DEF Request
<1>9. ASSUME NEW c \in Callers, Refuses(c) PROVE CallsInv'
  <2>1. joined[c] = 0
    BY <1>9, <1>a DEF Refuses, IsTold
  <2>2. PICK verdict \in Verdicts : request' = Answered(c, verdict)
    BY <1>9 DEF Refuses, Verdicts
  <2> QED
    BY <1>4, <1>8, <1>9, <2>1, <2>2, RecordFields DEF Refuses, Answered
<1>10. ASSUME NEW c \in Callers, Admits(c) PROVE CallsInv'
  <2> DEFINE n == record.number + 1
  <2>1. /\ record.state = "none" /\ request[c].at = "coming" /\ n \in Admissions
        /\ record' \in Record /\ record'.state = "pending" /\ record'.number = n
        /\ record'.dispatched = FALSE
    <3> DEFINE signal == IF call[c].mode = "send" THEN c ELSE NoCaller
    <3>1. signal \in Callers \cup {NoCaller} /\ n \in Admissions
      BY <1>10, RecordFields DEF Admits, Admissions
    <3>2. record' = [NoRecordYet EXCEPT !.state = "pending", !.number = n, !.signal = signal]
      BY <1>10 DEF Admits
    <3> HIDE DEF n, signal
    <3>3. /\ record' \in Record /\ record'.state = "pending" /\ record'.number = n
          /\ record'.dispatched = FALSE
      BY <3>1, <3>2 DEF Record, NoRecordYet, Verdicts
    <3> QED
      BY <1>10, <3>1, <3>3 DEF Admits
  <2>2. /\ request' \in [Callers -> Request] /\ joined' \in [Callers -> Nat]
    BY <1>10, <2>1, RecordFields DEF Admits, Answered, CallsInv, CallsTypeOK, Request, Verdicts
  <2>3. CallsTypeOK'
    BY <1>10, <2>1, <2>2 DEF Admits, CallsInv, CallsTypeOK
  <2>4. n \notin handed \cup ran /\ \A m \in handed \cup ran : m =< n
    BY RecordFields DEF CallsInv, CallsTypeOK, RecordIsTrue, Admissions
  <2>5. RecordIsTrue'
    <3>1. handed' = handed /\ ran' = ran /\ handed \cap ran = {}
      BY <1>10 DEF Admits, CallsInv, RecordIsTrue
    <3>2. n # 0
      BY <2>1 DEF Admissions
    <3> HIDE DEF n
    <3> QED
      BY <2>1, <2>4, <3>1, <3>2 DEF RecordIsTrue
  <2>6. ASSUME NEW m \in Nat, NeverRuns(m) PROVE NeverRuns(m)'
    BY <1>10, <2>1, <2>6, RecordFields DEF Admits, NeverRuns
  <2>7. ASSUME NEW d \in Callers PROVE IsTold(call[d], request[d], joined[d])'
    <3>1. CASE d # c
      <4>1. request'[d] = request[d] /\ joined'[d] = joined[d] /\ call'[d] = call[d]
        BY <1>10, <3>1 DEF Admits, Answered, CallsInv, CallsTypeOK
      <4>2. request[d].at # "waiting"
        BY <1>a, <2>1 DEF IsTold
      <4> QED
        BY <1>a, <2>6, <4>1, <4>2 DEF IsTold
    <3>2. CASE d = c
      <4>1. /\ joined'[c] = n /\ call'[c] = call[c]
            /\ request'[c].at \in {"waiting", "answered"}
            /\ request'[c].at = "answered" => request'[c].answer = "started"
        BY <1>10, <1>a DEF Admits, Answered, CallsInv, CallsTypeOK, Request
      <4>2. call[c].told # "not_executed" /\ call[c].mode # "none"
        BY <1>a, <2>1 DEF IsTold
      <4> QED
        BY <2>1, <3>2, <4>1, <4>2 DEF IsTold
    <3> QED
      BY <3>1, <3>2
  <2> QED
    BY <2>3, <2>5, <2>7 DEF CallsInv
<1>11. ASSUME NEW c \in Callers, Joins(c) PROVE CallsInv'
  <2> DEFINE q == IF call[c].mode = "send" THEN [request[c] EXCEPT !.at = "waiting"]
                                           ELSE [at |-> "answered", answer |-> "started"]
  <2>1. /\ q \in Request /\ q.at \in {"waiting", "answered"}
        /\ q.at = "answered" => q.answer = "started"
    BY <1>a DEF Request, Verdicts
  <2>2. request' = [request EXCEPT ![c] = q]
    BY <1>11 DEF Joins, Answered
  <2>3. IsTold(call[c], q, record.number)
    BY <1>11, <1>a, <2>1 DEF Joins, IsTold
  <2> HIDE DEF q
  <2> QED
    BY <1>11, <1>a, <2>1, <2>2, <2>3, OneCallerChanges, RecordFields DEF Joins
<1>12. ASSUME NEW c \in Callers, Replays(c) PROVE CallsInv'
  <2> DEFINE q == [at |-> "answered", answer |-> record.answer]
             n == IF record.answer = "not_executed" THEN record.number ELSE 0
  <2>1. q \in Request /\ q.at = "answered" /\ q.answer = record.answer
    BY <1>8, RecordFields
  <2>2. n \in Nat /\ NeverRuns(n)
    BY <1>12, RecordFields DEF Replays, NeverRuns, CallsInv, RecordIsTrue
  <2>3. IsTold(call[c], q, n)
    BY <1>12, <1>a, <2>1, <2>2 DEF Replays, IsTold
  <2>4. request' = [request EXCEPT ![c] = q] /\ joined' = [joined EXCEPT ![c] = n]
    BY <1>12 DEF Replays, Answered
  <2> HIDE DEF q, n
  <2> QED
    BY <1>12, <1>a, <2>1, <2>2, <2>3, <2>4, OneCallerChanges DEF Replays
<1>13. ASSUME record.state = "pending", EndsWith(EndVerdict), UNCHANGED <<call, joined, handed, ran>>
       PROVE  CallsInv'
  <2>1. /\ EndVerdict \in Verdicts
        /\ EndVerdict = "not_executed" => record.number \notin handed \cup ran
    BY <1>13 DEF EndVerdict, Verdicts, CallsInv, RecordIsTrue
  <2> QED
    BY <1>13, <2>1, EndsForAll DEF EndsWith
<1>14. ASSUME NEW c \in Callers, SeesCallerLeave(c) PROVE CallsInv'
  <2>1. CASE record.state = "pending" /\ record.signal = c
    BY <1>13, <1>14, <2>1 DEF SeesCallerLeave
  <2>2. CASE ~(record.state = "pending" /\ record.signal = c)
    BY <1>5, <1>14, <2>2 DEF SeesCallerLeave
  <2> QED
    BY <2>1, <2>2
<1>15. CASE RecordTimesOut
  BY <1>13, <1>15 DEF RecordTimesOut
<1>16. CASE IsClaimed
  <2>1. /\ record' \in Record /\ record'.state = "pending" /\ record'.dispatched = TRUE
        /\ record'.number = record.number /\ record.state = "pending"
        /\ handed' = handed \cup {record.number} /\ record.number \in Admissions
        /\ record.number \notin handed \cup ran /\ UNCHANGED <<call, request, joined, ran>>
    BY <1>16, RecordFields DEF IsClaimed, CallsInv, CallsTypeOK, RecordIsTrue, Record, Admissions
  <2>2. CallsTypeOK'
    BY <2>1 DEF CallsInv, CallsTypeOK
  <2>3. RecordIsTrue'
    BY <2>1, RecordFields DEF CallsInv, RecordIsTrue
  <2>4. ASSUME NEW m, NeverRuns(m) PROVE NeverRuns(m)'
    BY <2>1, <2>4 DEF NeverRuns
  <2> QED
    BY <2>1, <2>2, <2>3, <2>4 DEF CallsInv, IsTold
<1>17. ASSUME NEW n \in Admissions, StudioRuns(n) PROVE CallsInv'
  BY <1>17 DEF StudioRuns, CallsInv, CallsTypeOK, RecordIsTrue, IsTold, NeverRuns
<1>18. CASE StudioRefuses
  BY <1>18, EndsForAll DEF StudioRefuses, Verdicts, CallsInv, RecordIsTrue
<1>19. CASE RecordSettles
  BY <1>19, EndsForAll DEF RecordSettles, Verdicts
<1>20. CASE IsForgotten
  <2>1. /\ record' \in Record /\ record'.state = "none" /\ record'.number = record.number
        /\ UNCHANGED <<joined, handed, ran>>
    <3>1. record' = [NoRecordYet EXCEPT !.number = record.number]
      BY <1>20 DEF IsForgotten
    <3>2. record.number \in Admissions \cup {0}
      BY RecordFields DEF Admissions
    <3>3. record' \in Record /\ record'.state = "none" /\ record'.number = record.number
      BY <3>1, <3>2 DEF Record, NoRecordYet, Verdicts
    <3> QED
      BY <1>20, <3>3 DEF IsForgotten
  <2>2. call' \in [Callers -> Call] /\ request' \in [Callers -> Request]
    BY <1>20, ZenonT(60) DEF IsForgotten, CallsInv, CallsTypeOK, Call, Request, Verdicts
  <2>3. CallsTypeOK' /\ RecordIsTrue'
    BY <2>1, <2>2 DEF CallsInv, CallsTypeOK, RecordIsTrue
  <2>4. ASSUME NEW m, NeverRuns(m) PROVE NeverRuns(m)'
    BY <2>1, <2>4 DEF NeverRuns
  <2>5. ASSUME NEW c \in Callers PROVE IsTold(call[c], request[c], joined[c])'
    <3>1. CASE request[c].at = "waiting"
      <4>1. /\ request'[c].at = "gone"
            /\ call'[c].mode = call[c].mode /\ call'[c].told \in {call[c].told, "unknown"}
        BY <1>20, <1>a, <3>1 DEF IsForgotten, Call, Request
      <4>2. call[c].told # "not_executed" /\ call[c].mode # "none"
        BY <1>a, <3>1 DEF IsTold
      <4> QED
        BY <4>1, <4>2 DEF IsTold
    <3>2. CASE request[c].at # "waiting"
      <4>1. request'[c] = request[c] /\ call'[c] = call[c] /\ joined'[c] = joined[c]
        BY <1>20, <3>2 DEF IsForgotten
      <4> QED
        BY <1>a, <2>4, <3>2, <4>1 DEF IsTold
    <3> QED
      BY <3>1, <3>2
  <2> QED
    BY <2>3, <2>5 DEF CallsInv
<1>21. CASE UNCHANGED callVars
  BY <1>21 DEF callVars, CallsInv, CallsTypeOK, RecordIsTrue, IsTold, NeverRuns
<1> QED
  BY <1>1, <1>2, <1>3, <1>6, <1>7, <1>9, <1>10, <1>11, <1>12, <1>14, <1>15,
     <1>16, <1>17, <1>18, <1>19, <1>20, <1>21 DEF CallsNext

\* The invariant of the callers of one operation and of its record at the primary
\* (admitRequest, endRequestWaiter, postProxy).
THEOREM CallsInvariant == CallsSpec => []CallsInv
<1>1. CallsInit => CallsInv
  BY CallersAssumption DEF CallsInit, CallsInv, CallsTypeOK, RecordIsTrue, IsTold, NeverRuns,
     Call, Request, Record, NoRequest, NoRecordYet, NoCall, Verdicts
<1> QED
  BY <1>1, CallsStep, PTL DEF CallsSpec

\* For any callers and admissions: what its caller was told is not executed never
\* ran, and does not run later (postProxy, endRequestWaiter).
THEOREM NotExecutedNeverRuns == CallsSpec => []NotExecutedIsFinal
<1>1. CallsInv => NotExecutedIsFinal
  BY DEF CallsInv, IsTold, NeverRuns, NotExecutedIsFinal
<1> QED
  BY <1>1, CallsInvariant, PTL

-----------------------------------------------------------------------------
(***************************************************************************)
(* Status waits are heard, however many there are.                         *)
(*                                                                         *)
(* Every call that waits holds the set that is in the map, and has its     *)
(* callback there: so the last one to leave a set is the last one to wait  *)
(* at all, and the map loses its entry only when nobody waits.             *)
(***************************************************************************)
StillWaits(w) == waiter[w] \in {"asleep", "woken", "late"}

\* A call that waits has its callback in the set of the map, and holds that set.
InTheMap ==
  \A w \in Waiters :
    StillWaits(w) => /\ callbacks # NoSet /\ own[w] = callbacks
                  /\ w \in members[callbacks]

\* A set has no callbacks but those of calls that wait and hold it.
OnlyWaiting == \A s, w \in Waiters : w \in members[s] => StillWaits(w) /\ own[w] = s

NotEmpty == callbacks # NoSet => members[callbacks] # {}

WorthWhile == \A w \in Waiters : waiter[w] = "asleep" => Settleable(operation)

WaitInv == WaitTypeOK /\ InTheMap /\ OnlyWaiting /\ NotEmpty /\ WorthWhile

-----------------------------------------------------------------------------
\* What notifyLifecycleWaiters and the check do to the places of the calls.
LEMMA CalledWakes ==
  ASSUME WaitInv, NEW among \in SUBSET Waiters
  PROVE  /\ Called(waiter, among) \in [Waiters -> Places]
         /\ \A w \in Waiters :
              /\ waiter[w] # "asleep" => Called(waiter, among)[w] = waiter[w]
              /\ waiter[w] = "asleep" =>
                   Called(waiter, among)[w] = IF w \in among THEN "woken" ELSE "asleep"
  BY DEF Called, WaitInv, WaitTypeOK, Places, InTheMap, StillWaits

\* Any change of the record, told to all, keeps the invariant.
LEMMA TellingAll ==
  ASSUME WaitInv, Notify, operation' \in Operations, expired' \in BOOLEAN,
         UNCHANGED <<callbacks, members, own, due>>
  PROVE  WaitInv'
<1>1. /\ waiter' \in [Waiters -> Places]
      /\ \A w \in Waiters : (StillWaits(w))' <=> StillWaits(w)
      /\ \A w \in Waiters : waiter'[w] # "asleep"
  BY CalledWakes DEF Notify, StillWaits
<1> QED
  BY <1>1 DEF WaitInv, WaitTypeOK, InTheMap, OnlyWaiting, NotEmpty, WorthWhile, StillWaits

\* The check before a call goes on: either it changes nothing, or the operation
\* is forgotten and everybody else is told.
LEMMA CheckKeepsOthers ==
  ASSUME WaitInv, NEW w \in Waiters, Checks(w)
  PROVE  /\ Others(w) \in [Waiters -> Places]
         /\ operation' \in Operations /\ expired' \in BOOLEAN
         /\ \A v \in Waiters :
              Others(w)[v] \in {"asleep", "woken", "late"} <=> StillWaits(v)
         /\ \A v \in Waiters \ {w} : Others(w)[v] = "asleep" => Settleable(operation')
<1>1. CASE Prunable
  <2>1. /\ Others(w) = Called(waiter, Waiters \ {w})
        /\ operation' = "none" /\ expired' = FALSE
    BY <1>1 DEF Others, Checks
  <2>2. Waiters \ {w} \in SUBSET Waiters
    OBVIOUS
  <2>3. /\ Others(w) \in [Waiters -> Places]
        /\ \A v \in Waiters :
             /\ waiter[v] # "asleep" => Others(w)[v] = waiter[v]
             /\ waiter[v] = "asleep" =>
                  Others(w)[v] = IF v \in Waiters \ {w} THEN "woken" ELSE "asleep"
    BY <2>1, <2>2, CalledWakes
  <2> QED
    BY <2>1, <2>3 DEF StillWaits, Operations
<1>2. CASE ~Prunable
  BY <1>2 DEF Others, Checks, StillWaits, WaitInv, WaitTypeOK, WorthWhile
<1> QED
  BY <1>1, <1>2

\* A call that leaves its set leaves the others theirs.
LEMMA LeavingKeeps ==
  ASSUME WaitInv, NEW w \in Waiters, StillWaits(w), Checks(w),
         waiter' = [Others(w) EXCEPT ![w] = "done"],
         Leaves(w, members[own[w]] \ {w}, own[w]), UNCHANGED <<own, due>>
  PROVE  WaitInv'
<1> DEFINE rest == members[own[w]] \ {w}
<1>1. own[w] = callbacks /\ callbacks \in Waiters /\ w \in members[callbacks]
  BY DEF WaitInv, InTheMap, WaitTypeOK
<1>2. /\ members' = [members EXCEPT ![callbacks] = rest]
      /\ callbacks' = IF rest = {} THEN NoSet ELSE callbacks
  BY <1>1 DEF Leaves
<1>3. /\ waiter' \in [Waiters -> Places] /\ waiter'[w] = "done"
      /\ \A v \in Waiters \ {w} : StillWaits(v)' <=> StillWaits(v)
      /\ \A v \in Waiters : waiter'[v] = "asleep" => Settleable(operation')
      /\ operation' \in Operations /\ expired' \in BOOLEAN
  BY CheckKeepsOthers DEF StillWaits, Places
<1>4. WaitTypeOK'
  BY <1>1, <1>2, <1>3 DEF WaitInv, WaitTypeOK
<1>5. InTheMap' /\ NotEmpty'
  BY <1>1, <1>2, <1>3, WaitersAssumption DEF WaitInv, WaitTypeOK, InTheMap, NotEmpty, StillWaits
<1>6. OnlyWaiting'
  BY <1>1, <1>2, <1>3 DEF WaitInv, WaitTypeOK, OnlyWaiting, StillWaits
<1> QED
  BY <1>3, <1>4, <1>5, <1>6 DEF WaitInv, WorthWhile

-----------------------------------------------------------------------------
LEMMA WaitStep == WaitInv /\ [WaitNext]_waitVars => WaitInv'
<1> SUFFICES ASSUME WaitInv, [WaitNext]_waitVars PROVE WaitInv'
  OBVIOUS
<1>1. CASE WaitAdmits
  BY <1>1 DEF WaitAdmits, WaitInv, WaitTypeOK, InTheMap, OnlyWaiting, NotEmpty, WorthWhile,
              StillWaits, Operations, Settleable
<1>2. CASE WaitClaims
  BY <1>2 DEF WaitClaims, WaitInv, WaitTypeOK, InTheMap, OnlyWaiting, NotEmpty, WorthWhile,
              StillWaits, Operations, Settleable
<1>3. CASE WaitCallerEnds
  BY <1>3, TellingAll DEF WaitCallerEnds, Becomes, Operations
<1>4. CASE WaitSettles
  BY <1>4, TellingAll DEF WaitSettles, Becomes, Operations
<1>5. CASE WaitPrunes
  BY <1>5, TellingAll DEF WaitPrunes, Becomes, Operations
<1>6. CASE WaitExpires
  BY <1>6 DEF WaitExpires, WaitInv, WaitTypeOK, InTheMap, OnlyWaiting, NotEmpty, WorthWhile,
              StillWaits
<1>7. ASSUME NEW w \in Waiters, WaitBegins(w) PROVE WaitInv'
  <2>1. Checks(w) /\ waiter[w] = "idle" /\ due' = due
    BY <1>7 DEF WaitBegins
  <2>2. CASE Settleable(operation')
    <3> DEFINE s == IF callbacks = NoSet THEN w ELSE callbacks
    <3>1. /\ callbacks' = s /\ s \in Waiters
          /\ own' = [own EXCEPT ![w] = s]
          /\ members' = [members EXCEPT ![s] = members[s] \cup {w}]
          /\ waiter' = [Others(w) EXCEPT ![w] = "asleep"]
      BY <1>7, <2>2 DEF WaitBegins, WaitInv, WaitTypeOK
    <3>2. /\ waiter' \in [Waiters -> Places] /\ waiter'[w] = "asleep"
          /\ \A v \in Waiters \ {w} : StillWaits(v)' <=> StillWaits(v)
          /\ operation' \in Operations /\ expired' \in BOOLEAN
      BY <2>1, <3>1, CheckKeepsOthers DEF StillWaits, Places
    <3>3. WaitTypeOK'
      BY <2>1, <3>1, <3>2 DEF WaitInv, WaitTypeOK
    <3>4. \A v \in Waiters \ {w} : StillWaits(v) => s = callbacks
      BY DEF WaitInv, InTheMap
    <3>5. InTheMap' /\ NotEmpty'
      BY <3>1, <3>2, <3>4, WaitersAssumption
         DEF WaitInv, WaitTypeOK, InTheMap, NotEmpty, StillWaits
    <3>6. OnlyWaiting'
      <4>1. \A v \in Waiters : w \notin members[v]
        BY <2>1 DEF WaitInv, OnlyWaiting, StillWaits
      <4> QED
        BY <3>1, <3>2, <4>1 DEF WaitInv, WaitTypeOK, OnlyWaiting, StillWaits
    <3> QED
      BY <2>2, <3>3, <3>5, <3>6 DEF WaitInv, WorthWhile
  <2>3. CASE ~Settleable(operation')
    <3>1. /\ waiter' = [Others(w) EXCEPT ![w] = "done"]
          /\ UNCHANGED <<callbacks, own, members>>
      BY <1>7, <2>3 DEF WaitBegins
    <3>2. /\ waiter' \in [Waiters -> Places]
          /\ \A v \in Waiters : StillWaits(v)' <=> StillWaits(v)
          /\ \A v \in Waiters : waiter'[v] = "asleep" => Settleable(operation')
          /\ operation' \in Operations /\ expired' \in BOOLEAN
      BY <2>1, <3>1, CheckKeepsOthers DEF StillWaits, Places
    <3> QED
      BY <2>1, <3>1, <3>2 DEF WaitInv, WaitTypeOK, InTheMap, OnlyWaiting, NotEmpty,
                              WorthWhile, StillWaits
  <2> QED
    BY <2>2, <2>3
<1>8. ASSUME NEW w \in Waiters, WaitIsDue(w) PROVE WaitInv'
  BY <1>8 DEF WaitIsDue, WaitInv, WaitTypeOK, InTheMap, OnlyWaiting, NotEmpty, WorthWhile,
              StillWaits, Places
<1>9. ASSUME NEW w \in Waiters, WaitGoesOn(w) PROVE WaitInv'
  <2>1. Checks(w) /\ waiter[w] = "woken" /\ own' = own /\ due' = due
    BY <1>9 DEF WaitGoesOn
  <2>2. CASE Settleable(operation')
    <3>1. /\ waiter' = [Others(w) EXCEPT ![w] = IF due[w] THEN "late" ELSE "asleep"]
          /\ UNCHANGED <<members, callbacks>>
      BY <1>9, <2>2 DEF WaitGoesOn
    <3>2. /\ waiter' \in [Waiters -> Places]
          /\ \A v \in Waiters : StillWaits(v)' <=> StillWaits(v)
          /\ operation' \in Operations /\ expired' \in BOOLEAN
      BY <2>1, <3>1, CheckKeepsOthers DEF StillWaits, Places
    <3> QED
      BY <2>1, <2>2, <3>1, <3>2 DEF WaitInv, WaitTypeOK, InTheMap, OnlyWaiting, NotEmpty,
                                    WorthWhile, StillWaits
  <2>3. CASE ~Settleable(operation')
    BY <1>9, <2>1, <2>3, LeavingKeeps DEF WaitGoesOn, StillWaits
  <2> QED
    BY <2>2, <2>3
<1>10. ASSUME NEW w \in Waiters, WaitGivesUp(w) PROVE WaitInv'
  BY <1>10, LeavingKeeps DEF WaitGivesUp, StillWaits
<1>11. ASSUME NEW w \in Waiters, WaitAgain(w) PROVE WaitInv'
  BY <1>11 DEF WaitAgain, WaitInv, WaitTypeOK, InTheMap, OnlyWaiting, NotEmpty, WorthWhile,
               StillWaits, Places
<1>12. CASE UNCHANGED waitVars
  BY <1>12 DEF waitVars, WaitInv, WaitTypeOK, InTheMap, OnlyWaiting, NotEmpty, WorthWhile,
               StillWaits
<1> QED
  BY <1>1, <1>2, <1>3, <1>4, <1>5, <1>6, <1>7, <1>8, <1>9, <1>10, <1>11, <1>12 DEF WaitNext

\* The invariant of the waits: who waits has its callback in the set of the map.
THEOREM WaitInvariant == WaitSpec => []WaitInv
<1>1. WaitInit => WaitInv
  BY DEF WaitInit, WaitInv, WaitTypeOK, InTheMap, OnlyWaiting, NotEmpty, WorthWhile, StillWaits,
         Operations, Places
<1> QED
  BY <1>1, WaitStep, PTL DEF WaitSpec

\* A call that sleeps is one the next notification wakes, and it sleeps for an
\* operation that can settle (waitForRequestStatus, notifyLifecycleWaiters).
THEOREM SleepersHeard == WaitSpec => []SleepersAreHeard
<1>1. WaitInv => SleepersAreHeard
  BY DEF WaitInv, InTheMap, WorthWhile, StillWaits, SleepersAreHeard
<1> QED
  BY <1>1, WaitInvariant, PTL

\* The map has an entry only while a call holds its set: it does not grow with
\* the operations ever waited for (the finally of waitForRequestStatus).
THEOREM NoSetIsLeft == WaitSpec => []NoEmptySetKept
<1>1. WaitInv => NoEmptySetKept
  BY DEF WaitInv, WaitTypeOK, NotEmpty, OnlyWaiting, StillWaits, NoEmptySetKept
<1> QED
  BY <1>1, WaitInvariant, PTL

-----------------------------------------------------------------------------
\* A set of numbers up to a bound has a last one.
LEMMA HasLast ==
  ASSUME NEW N \in Nat, NEW S \in SUBSET (1 .. N), S # {}
  PROVE  \E m \in S : \A q \in S : q <= m
  <1> DEFINE T == {n \in Nat : N - n \in S}
  <1>1. T \subseteq Nat /\ T # {}
    <2>1. PICK r \in S : TRUE
      OBVIOUS
    <2>2. N - r \in Nat /\ N - (N - r) = r
      BY <2>1
    <2> QED
      BY <2>1, <2>2
  <1>2. PICK x \in T : \A y \in T : ~(<<y, x>> \in OpToRel(<, Nat))
    BY <1>1, NatLessThanWellFounded, WFMin
  <1>3. \A a, b \in Nat : a < b => <<a, b>> \in OpToRel(<, Nat)
    BY DEF OpToRel
  <1>4. ASSUME NEW y \in T PROVE x <= y
    <2>1. ~(y < x)
      BY <1>2, <1>3
    <2> QED
      BY <2>1
  <1>5. N - x \in S
    BY <1>2
  <1>6. ASSUME NEW q \in S PROVE q <= N - x
    <2>1. N - q \in Nat /\ N - (N - q) = q
      OBVIOUS
    <2>2. x <= N - q
      BY <1>4, <2>1
    <2> QED
      BY <1>5, <2>2
  <1> QED
    BY <1>5, <1>6

-----------------------------------------------------------------------------
(***************************************************************************)
(* ReferenceUploads.  Of the create requests of a record only the last can *)
(* have made an asset, and not even that one once the record says that the *)
(* upload failed; what was never sent lies after it.                       *)
(***************************************************************************)
MayHaveMade(r) == remote[r] \in {"sent", "processing", "created"}

UploadPlaces ==
  {"idle", "joining", "acquiring", "awaiting", "holding", "joined", "refused", "not_admitted"}

UploadsTypeOK ==
  /\ upload \in Uploads \cup {NoUpload}
  /\ calls \in [UploadCalls -> [at : UploadPlaces, peer : UploadPeers]]
  /\ remote \in [CreateRequests -> {"unsent", "sent", "refused", "processing", "failed", "created"}]

\* Only the last.
EarlierMadeNothing ==
  Remembered => \A r \in CreateRequests : upload.first <= r /\ r < upload.request => ~MayHaveMade(r)

LaterUnsent == Remembered => \A r \in CreateRequests : upload.request < r => remote[r] = "unsent"

\* What is said of the last request, before and after it is sent.
StagesTellTruth ==
  Remembered =>
    /\ upload.doing = "preparing" => remote[upload.request] = "unsent"
    /\ InFlight /\ upload.phase = "local" => upload.doing = "preparing"
    /\ upload.stage = "upload_unknown" => upload.phase # "local"
    /\ upload.stage = "upload_failed" => ~InFlight /\ ~MayHaveMade(upload.request)

UploadsInv == UploadsTypeOK /\ EarlierMadeNothing /\ LaterUnsent /\ StagesTellTruth

-----------------------------------------------------------------------------
\* A new request is a request after all that were sent.
LEMMA FreshIsUnsent ==
  ASSUME UploadsTypeOK
  PROVE  /\ FreshRequest \in Nat \ {0}
         /\ \A r \in CreateRequests : FreshRequest <= r => remote[r] = "unsent"
  <1>1. Used \in SUBSET (1 .. MaxUploads) /\ MaxUploads \in Nat
    BY UploadsAssumption DEF Used, CreateRequests
  <1>2. CASE Used = {}
    BY <1>2 DEF FreshRequest, Used, CreateRequests
  <1>3. CASE Used # {}
    <2> DEFINE m == CHOOSE r \in Used : \A q \in Used : q <= r
    <2>1. m \in Used /\ \A q \in Used : q <= m
      BY <1>1, <1>3, HasLast
    <2>2. FreshRequest = 1 + m
      BY <1>3 DEF FreshRequest
    <2> HIDE DEF m
    <2>3. m \in Nat \ {0}
      BY <1>1, <2>1
    <2> QED
      BY <2>1, <2>2, <2>3 DEF Used, CreateRequests
  <1> QED
    BY <1>2, <1>3

\* The invariant is there, and stays.
LEMMA UploadsInit == UploadInit => UploadsInv
  BY DEF UploadInit, UploadsInv, UploadsTypeOK, EarlierMadeNothing, LaterUnsent, StagesTellTruth,
     Remembered, InFlight, UploadPlaces

\* A record begins again after one that made nothing: its new request is the last.
LEMMA UploadingKeeps ==
  ASSUME UploadsInv, NEW c \in UploadCalls, NEW first, Uploading(c, first), remote' = remote,
         \/ first = FreshRequest
         \/ Remembered /\ upload.stage = "upload_failed" /\ first = upload.first
  PROVE  UploadsInv'
  <1> DEFINE q == FreshRequest
  <1>1. q \in CreateRequests /\ CreateRequests \subseteq Nat
    BY DEF Uploading, CreateRequests
  <1>2. \A r \in CreateRequests : q <= r => remote[r] = "unsent"
    BY FreshIsUnsent DEF UploadsInv
  <1>3. first \in CreateRequests
    BY <1>1 DEF UploadsInv, UploadsTypeOK, Remembered, NoUpload, Uploads
  <1>4. /\ upload' = [stage |-> "uploading", phase |-> "local", doing |-> "preparing", image |-> 0,
                      checkpoint |-> "none", peer |-> calls[c].peer, first |-> first, request |-> q]
        /\ calls' = [calls EXCEPT ![c].at = "awaiting"]
    BY DEF Uploading, Goes
  <1> HIDE DEF q
  <1>5. UploadsTypeOK'
    BY <1>1, <1>3, <1>4 DEF UploadsInv, UploadsTypeOK, Uploads, UploadPlaces
  <1>6. \A r \in CreateRequests : first <= r /\ r < q => ~MayHaveMade(r)
    <2>1. CASE first = FreshRequest
      BY <1>1, <2>1 DEF q
    <2>2. CASE Remembered /\ upload.stage = "upload_failed" /\ first = upload.first
      <3>1. upload.request \in CreateRequests
        BY <2>2 DEF UploadsInv, UploadsTypeOK, Remembered, NoUpload, Uploads
      <3>2. /\ \A r \in CreateRequests : first <= r /\ r < upload.request => ~MayHaveMade(r)
            /\ ~MayHaveMade(upload.request)
            /\ \A r \in CreateRequests : upload.request < r => ~MayHaveMade(r)
        BY <2>2 DEF UploadsInv, EarlierMadeNothing, LaterUnsent, StagesTellTruth, MayHaveMade
      <3>3. ASSUME NEW r \in CreateRequests, first <= r, r < q PROVE ~MayHaveMade(r)
        <4>1. r \in Nat /\ upload.request \in Nat
          BY <1>1, <3>1
        <4>2. r < upload.request \/ r = upload.request \/ upload.request < r
          BY <4>1
        <4> QED
          BY <2>2, <3>2, <3>3, <4>2
      <3> QED
        BY <3>3
    <2> QED
      BY <2>1, <2>2
  <1>7. EarlierMadeNothing'
    BY <1>4, <1>6 DEF EarlierMadeNothing, MayHaveMade
  <1>8. LaterUnsent' /\ StagesTellTruth'
    BY <1>1, <1>2, <1>4 DEF LaterUnsent, StagesTellTruth, InFlight, Remembered
  <1> QED
    BY <1>5, <1>7, <1>8 DEF UploadsInv

\* A step that changes what is said of the same requests.
LEMMA RecordChanges ==
  ASSUME UploadsInv, Remembered, upload' \in Uploads, remote' = remote,
         upload'.first = upload.first, upload'.request = upload.request,
         calls' \in [UploadCalls -> [at : UploadPlaces, peer : UploadPeers]], StagesTellTruth'
  PROVE  UploadsInv'
  <1>1. UploadsTypeOK'
    BY DEF UploadsInv, UploadsTypeOK
  <1>2. EarlierMadeNothing' /\ LaterUnsent'
    BY DEF UploadsInv, EarlierMadeNothing, LaterUnsent, MayHaveMade
  <1> QED
    BY <1>1, <1>2 DEF UploadsInv

LEMMA UploadsNext == UploadsInv /\ [UploadNext]_uploadVars => UploadsInv'
  <1> SUFFICES ASSUME UploadsInv, [UploadNext]_uploadVars PROVE UploadsInv'
    OBVIOUS
  <1> USE DEF UploadsInv, UploadsTypeOK, EarlierMadeNothing, LaterUnsent, StagesTellTruth,
     MayHaveMade,
              Remembered, InFlight
  <1>1. ASSUME NEW c \in UploadCalls, LooksUp(c)
        PROVE  UploadsInv'
    BY <1>1 DEF LooksUp, Goes, UploadPlaces
  <1>2. ASSUME NEW c \in UploadCalls, JoinAnswers(c)
        PROVE  UploadsInv'
    BY <1>2 DEF JoinAnswers, Goes, UploadPlaces
  <1>3. ASSUME NEW c \in UploadCalls, RefusedForPeer(c)
        PROVE  UploadsInv'
    BY <1>3 DEF RefusedForPeer, Goes, UploadPlaces
  <1>4. ASSUME NEW c \in UploadCalls, Acquires(c)
        PROVE  UploadsInv'
    <2>1. CASE ~Remembered /\ Uploading(c, FreshRequest)
      BY <1>4, <2>1, UploadingKeeps DEF Acquires
    <2>2. CASE InFlight /\ UNCHANGED upload /\ Goes(c, "awaiting")
      BY <1>4, <2>2 DEF Acquires, Goes, UploadPlaces
    <2>3. CASE /\ Remembered /\ ~InFlight /\ upload.image # 0
               /\ upload' = [upload EXCEPT !.peer = calls[c].peer]
               /\ Goes(c, "holding")
      BY <1>4, <2>3 DEF Acquires, Goes, UploadPlaces, Uploads, NoUpload
    <2>4. CASE Failed /\ upload.stage = "upload_failed" /\ Uploading(c, upload.first)
      BY <1>4, <2>4, UploadingKeeps DEF Acquires, Failed
    <2>5. CASE /\ Failed /\ upload.stage = "upload_unknown" /\ upload.checkpoint # "none"
               /\ upload' = [upload EXCEPT !.stage = "uploading", !.peer = calls[c].peer,
                        !.doing = IF upload.checkpoint = "asset" THEN "resolving" ELSE "polling"]
               /\ Goes(c, "awaiting")
      <3>1. upload \in Uploads /\ remote' = remote
        BY <1>4, <2>5 DEF Acquires, Failed
      <3>2. /\ upload' \in Uploads /\ upload'.stage = "uploading" /\ upload'.doing # "preparing"
            /\ upload'.first = upload.first /\ upload'.request = upload.request
            /\ upload'.phase = upload.phase
        BY <2>5, <3>1 DEF Uploads
      <3>3. StagesTellTruth'
        BY <2>5, <3>1, <3>2 DEF Failed
      <3>4. calls' \in [UploadCalls -> [at : UploadPlaces, peer : UploadPeers]]
        BY <2>5 DEF Goes, UploadPlaces
      <3> QED
        BY <2>5, <3>1, <3>2, <3>3, <3>4, RecordChanges DEF Failed
    <2>6. CASE /\ Failed /\ upload.stage = "upload_unknown" /\ upload.checkpoint = "none"
               /\ upload' = [upload EXCEPT !.peer = calls[c].peer]
               /\ Goes(c, "refused")
      BY <1>4, <2>6 DEF Acquires, Goes, UploadPlaces, Uploads, NoUpload, Failed
    <2> QED
      BY <1>4, <2>1, <2>2, <2>3, <2>4, <2>5, <2>6 DEF Acquires
  <1>5. ASSUME SendsCreate
        PROVE  UploadsInv'
    <2>1. /\ upload \in Uploads /\ upload.request \in CreateRequests
          /\ remote' = [remote EXCEPT ![upload.request] = "sent"] /\ calls' = calls
      BY <1>5 DEF SendsCreate, Uploads
    <2>2. /\ upload' \in Uploads /\ upload'.doing = "sending" /\ upload'.phase = "sending"
          /\ upload'.first = upload.first /\ upload'.request = upload.request
          /\ upload'.stage = upload.stage /\ upload.stage # "upload_failed"
      BY <1>5, <2>1 DEF SendsCreate, Uploads
    <2>3. UploadsTypeOK'
      BY <2>1, <2>2
    <2>4. CreateRequests \subseteq Nat
      BY DEF CreateRequests
    <2>5. EarlierMadeNothing' /\ LaterUnsent'
      BY <1>5, <2>1, <2>2, <2>4 DEF SendsCreate
    <2>6. StagesTellTruth'
      BY <2>1, <2>2
    <2> QED
      BY <2>3, <2>5, <2>6
  <1>6. ASSUME NEW r \in CreateRequests, RobloxActs(r)
        PROVE  UploadsInv'
    BY <1>6 DEF RobloxActs, Uploads, NoUpload
  <1>7. ASSUME IsAccepted
        PROVE  UploadsInv'
    BY <1>7 DEF IsAccepted, Uploads, NoUpload
  <1>8. ASSUME IsCreated
        PROVE  UploadsInv'
    BY <1>8 DEF IsCreated, Uploads, NoUpload
  <1>9. ASSUME Succeeds
        PROVE  UploadsInv'
    BY <1>9, ZenonT(60) DEF Succeeds, AllGo, Waits, UploadPlaces, Uploads, NoUpload
  <1>10. ASSUME UploadFails
        PROVE  UploadsInv'
    <2>1. PICK error \in Errors :
            upload' = [upload EXCEPT !.doing = "nothing",
                         !.stage = IF CreatedNothing(error) THEN "upload_failed" ELSE "upload_unknown",
                         !.phase = IF CreatedNothing(error) THEN "local" ELSE @,
                         !.checkpoint = IF CreatedNothing(error) THEN "none" ELSE @]
      BY <1>10 DEF UploadFails
    <2>2. /\ upload \in Uploads /\ remote' = remote
          /\ calls' \in [UploadCalls -> [at : UploadPlaces, peer : UploadPeers]]
      BY <1>10 DEF UploadFails, AllGo, Waits, UploadPlaces
    <2>3. /\ upload' \in Uploads /\ upload'.doing = "nothing"
          /\ upload'.stage = IF CreatedNothing(error) THEN "upload_failed" ELSE "upload_unknown"
          /\ ~CreatedNothing(error) => upload'.phase = upload.phase
          /\ upload'.first = upload.first /\ upload'.request = upload.request
      BY <2>1, <2>2 DEF Uploads
    <2>4. IF CreatedNothing(error) THEN ~MayHaveMade(upload.request) ELSE upload.phase # "local"
      BY <1>10, <2>1 DEF UploadFails, Errors, CreatedNothing
    <2>5. StagesTellTruth'
      BY <2>2, <2>3, <2>4
    <2> QED
      BY <1>10, <2>2, <2>3, <2>5, RecordChanges DEF UploadFails
  <1>11. ASSUME IsPruned
        PROVE  UploadsInv'
    BY <1>11 DEF IsPruned, NoUpload
  <1>12. ASSUME NEW c \in UploadCalls, Dispatches(c)
        PROVE  UploadsInv'
    <2>1. calls' \in [UploadCalls -> [at : UploadPlaces, peer : UploadPeers]] /\ remote' = remote
      BY <1>12 DEF Dispatches, Goes, UploadPlaces
    <2>2. CASE upload' = upload
      BY <2>1, <2>2
    <2>3. CASE Remembered /\ upload' = [upload EXCEPT !.stage = "dispatched", !.peer = calls[c].peer]
      <3>1. /\ upload' \in Uploads /\ upload'.stage = "dispatched" /\ upload'.doing = upload.doing
            /\ upload'.first = upload.first /\ upload'.request = upload.request
            /\ upload'.phase = upload.phase
        BY <2>3 DEF Uploads
      <3>2. StagesTellTruth'
        BY <2>1, <2>3, <3>1
      <3> QED
        BY <2>1, <2>3, <3>1, <3>2, RecordChanges
    <2> QED
      BY <1>12, <2>2, <2>3 DEF Dispatches
  <1>13. ASSUME NEW c \in UploadCalls, FailsToRoute(c)
        PROVE  UploadsInv'
    BY <1>13 DEF FailsToRoute, Goes, UploadPlaces
  <1>14. ASSUME NEW c \in UploadCalls, NotDispatched(c)
        PROVE  UploadsInv'
    BY <1>14 DEF NotDispatched, Goes, UploadPlaces, Uploads, NoUpload
  <1>15. ASSUME GenerationForgotten
        PROVE  UploadsInv'
    BY <1>15 DEF GenerationForgotten
  <1>16. ASSUME NEW c \in UploadCalls, Retries(c)
        PROVE  UploadsInv'
    BY <1>16 DEF Retries, UploadPlaces
  <1>17. CASE UNCHANGED uploadVars
    BY <1>17 DEF uploadVars
  <1> QED
    BY <1>1, <1>2, <1>3, <1>4, <1>5, <1>6, <1>7, <1>8, <1>9, <1>10, <1>11, <1>12,
       <1>13, <1>14, <1>15, <1>16, <1>17 DEF UploadNext

\* What the record says of its requests is what Roblox has of them.
THEOREM UploadsInvariant == UploadSpec => []UploadsInv
  BY UploadsInit, UploadsNext, PTL DEF UploadSpec

\* Of all the create requests made for one record, over failures, resumptions
\* and any number of concurrent retries, at most one has made an asset or still
\* may (acquire and createdNothing of reference-uploads.ts).
THEOREM UploadsAreMadeOnce == UploadSpec => []UploadedOnce
  <1>1. ASSUME UploadsInv, Remembered
        PROVE  Cardinality({r \in upload.first .. upload.request :
                              remote[r] \in {"sent", "processing", "created"}}) <= 1
    <2> DEFINE S == {r \in upload.first .. upload.request :
                       remote[r] \in {"sent", "processing", "created"}}
    <2>1. upload.first \in CreateRequests /\ upload.request \in CreateRequests
      BY <1>1 DEF UploadsInv, UploadsTypeOK, Remembered, Uploads, NoUpload
    <2>2. \A r \in CreateRequests : upload.first <= r /\ r < upload.request
             => remote[r] \notin {"sent", "processing", "created"}
      BY <1>1 DEF UploadsInv, EarlierMadeNothing, MayHaveMade
    <2>3. S \subseteq {upload.request}
      BY <2>1, <2>2, UploadsAssumption DEF CreateRequests
    <2> HIDE DEF S
    <2>4. IsFiniteSet({upload.request}) /\ Cardinality({upload.request}) = 1
      BY FS_Singleton
    <2> QED
      BY <2>3, <2>4, FS_Subset DEF S
  <1> QED
    BY <1>1, UploadsInvariant, PTL DEF UploadedOnce

-----------------------------------------------------------------------------
(***************************************************************************)
(* StdioTransport.  The reference definition is recursive: that it defines *)
(* anything is proved first, by what a first input prefix without a        *)
(* framing would be.  Then what was handled, and the line that is          *)
(* gathered, are at every symbol what it says of the symbols taken.        *)
(***************************************************************************)
\* f frames the first n symbols.
Frames(f, symbols, n) ==
  f = [m \in 0 .. n |-> IF m = 0 THEN [lines |-> <<>>, rest |-> EmptyLine]
                        ELSE Framed(f[m - 1], symbols[m])]

\* No symbol, and one symbol more.
LEMMA FramesNone == ASSUME NEW symbols PROVE \E f : Frames(f, symbols, 0)
  <1> DEFINE f == [m \in 0 .. 0 |-> [lines |-> <<>>, rest |-> EmptyLine]]
  <1>1. Frames(f, symbols, 0)
    BY DEF Frames
  <1> QED
    BY <1>1

LEMMA FramesMore ==
  ASSUME NEW symbols, NEW n \in Nat, NEW f, Frames(f, symbols, n)
  PROVE  \E g : Frames(g, symbols, n + 1)
  <1> DEFINE g == [m \in 0 .. n + 1 |-> IF m <= n THEN f[m] ELSE Framed(f[n], symbols[n + 1])]
  <1> DEFINE G(m) == IF m = 0 THEN [lines |-> <<>>, rest |-> EmptyLine]
                     ELSE Framed(g[m - 1], symbols[m])
  <1>1. ASSUME NEW m \in 0 .. n PROVE g[m] = G(m)
    <2>1. g[m] = f[m]
      OBVIOUS
    <2>2. m # 0 => g[m - 1] = f[m - 1]
      OBVIOUS
    <2>3. f[m] = IF m = 0 THEN [lines |-> <<>>, rest |-> EmptyLine] ELSE Framed(f[m - 1], symbols[m])
      BY DEF Frames
    <2> QED
      BY <2>1, <2>2, <2>3
  <1>2. g[n + 1] = G(n + 1)
    <2>1. g[n + 1] = Framed(f[n], symbols[n + 1]) /\ g[n] = f[n]
      OBVIOUS
    <2>2. (n + 1) - 1 = n /\ n + 1 # 0
      OBVIOUS
    <2> HIDE DEF g
    <2> QED
      BY <2>1, <2>2
  <1>3. \A m \in 0 .. n + 1 : g[m] = G(m)
    <2>1. \A m \in 0 .. n + 1 : m \in 0 .. n \/ m = n + 1
      OBVIOUS
    <2> QED
      BY <1>1, <1>2, <2>1
  <1>4. g = [m \in 0 .. n + 1 |-> g[m]]
    OBVIOUS
  <1>5. g = [m \in 0 .. n + 1 |-> G(m)]
    <2> HIDE DEF g, G
    <2> QED
      BY <1>3, <1>4
  <1>6. Frames(g, symbols, n + 1)
    BY <1>5 DEF Frames
  <1> QED
    BY <1>6

\* Every input is framed: of its prefixes there is no first that is not.
LEMMA FramesAll == ASSUME NEW symbols, NEW n \in Nat PROVE \E f : Frames(f, symbols, n)
  <1> SUFFICES ASSUME ~\E f : Frames(f, symbols, n) PROVE FALSE
    OBVIOUS
  <1> DEFINE S == {m \in 1 .. n + 1 : \E f : Frames(f, symbols, m - 1)}
  <1>1. 1 \in S
    BY FramesNone
  <1>2. PICK m \in S : \A q \in S : q <= m
    <2>1. \A q \in S : q \in 1 .. n + 1
      OBVIOUS
    <2> HIDE DEF S
    <2>2. S \in SUBSET (1 .. n + 1) /\ S # {} /\ n + 1 \in Nat
      BY <1>1, <2>1
    <2> QED
      BY <2>2, HasLast
  <1>3. m - 1 \in Nat /\ m - 1 < n
    OBVIOUS
  <1>4. \E g : Frames(g, symbols, (m - 1) + 1)
    BY <1>3, FramesMore
  <1>5. (m - 1) + 1 = m /\ (m + 1) - 1 = m
    OBVIOUS
  <1>6. m + 1 \in S
    BY <1>3, <1>4, <1>5
  <1> QED
    BY <1>2, <1>3, <1>6

\* What the reference definition says of one symbol more.
LEMMA FramingOf ==
  ASSUME NEW symbols \in Seq(Symbols)
  PROVE  /\ Framing(symbols)[0] = [lines |-> <<>>, rest |-> EmptyLine]
         /\ \A n \in 1 .. Len(symbols) : Framing(symbols)[n] = Framed(Framing(symbols)[n - 1], symbols[n])
  <1> DEFINE f == Framing(symbols)
  <1>1. Len(symbols) \in Nat
    OBVIOUS
  <1>2. f = CHOOSE g : Frames(g, symbols, Len(symbols))
    BY DEF Framing, Frames
  <1>3. Frames(f, symbols, Len(symbols))
    <2> HIDE DEF f
    <2> QED
      BY <1>1, <1>2, FramesAll
  <1> HIDE DEF f
  <1>4. \A m \in 0 .. Len(symbols) :
           f[m] = IF m = 0 THEN [lines |-> <<>>, rest |-> EmptyLine] ELSE Framed(f[m - 1], symbols[m])
    BY <1>3 DEF Frames
  <1>5. f[0] = [lines |-> <<>>, rest |-> EmptyLine]
    BY <1>1, <1>4
  <1>6. ASSUME NEW n \in 1 .. Len(symbols) PROVE f[n] = Framed(f[n - 1], symbols[n])
    BY <1>1, <1>4
  <1> QED
    BY <1>5, <1>6 DEF f

-----------------------------------------------------------------------------
StdioTypeOK ==
  /\ input \in Inputs /\ delivered \in 0 .. Len(input)
  /\ work \in Nat \X Nat /\ pending \in Nat \X Nat
  /\ line \in [bytes : Nat, bad : BOOLEAN]
  /\ output \in [blocked : BOOLEAN, farewell : BOOLEAN, draining : BOOLEAN]
  /\ ended \in [seen : BOOLEAN, stream : BOOLEAN]
  /\ closed \in {"open", "ended", "failed"}
  /\ ended.seen => ended.stream

\* What is being read or was set aside ends where the stream got to.
ChunksFit ==
  /\ Some(work) => work[1] >= 1 /\ work[2] = delivered /\ ~Some(pending)
  /\ Some(pending) => pending[1] >= 1 /\ pending[2] = delivered /\ output.blocked

\* How many symbols are handled.
Taken == IF Some(work) THEN work[1] - 1 ELSE IF Some(pending) THEN pending[1] - 1 ELSE delivered

\* The line without its end was rejected.
Rejected ==
  /\ ~Some(work) /\ ~Some(pending) /\ line = EmptyLine /\ ended.stream
  /\ LET reference == Framing(input)[delivered]
     IN  reference.rest.bytes > 0 /\ handled = Append(reference.lines, Truncated(reference.rest))

Reading ==
  Open => IF output.farewell THEN Rejected
          ELSE Framing(input)[Taken] = [lines |-> handled, rest |-> line]

StdioInv == StdioTypeOK /\ ChunksFit /\ Reading /\ StreamIsFramed

\* The invariant is there, and stays.
LEMMA StdioInitially == StdioInit => StdioInv
  <1> SUFFICES ASSUME StdioInit PROVE StdioInv
    OBVIOUS
  <1>1. input \in Seq(Symbols) /\ Len(input) \in Nat
    BY StdioAssumption DEF StdioInit
  <1>2. StdioTypeOK /\ ChunksFit /\ Taken = 0
    BY <1>1 DEF StdioInit, StdioTypeOK, ChunksFit, Nothing, Some, EmptyLine, Taken
  <1>3. Framing(input)[0] = [lines |-> handled, rest |-> line]
    BY <1>1, FramingOf DEF StdioInit
  <1> QED
    BY <1>2, <1>3 DEF StdioInv, Reading, StdioInit, StreamIsFramed

\* A message is written, or the transport fails.
LEMMA WritesSome ==
  ASSUME output \in [blocked : BOOLEAN, farewell : BOOLEAN, draining : BOOLEAN], Open,
         NEW farewell \in BOOLEAN, NEW draining \in BOOLEAN, Writes(farewell, draining)
  PROVE  /\ output' \in [blocked : BOOLEAN, farewell : BOOLEAN, draining : BOOLEAN]
         /\ output.blocked => output'.blocked
         /\ \/ closed' = "open" /\ output'.farewell = farewell
            \/ closed' = "failed" /\ output'.farewell = output.farewell
  <1>1. CASE /\ \E blocked \in {output.blocked, TRUE} :
                  output' = [blocked |-> blocked, farewell |-> farewell, draining |-> draining]
             /\ UNCHANGED closed
    <2>1. PICK blocked \in {output.blocked, TRUE} :
            output' = [blocked |-> blocked, farewell |-> farewell, draining |-> draining]
      BY <1>1
    <2>2. blocked \in BOOLEAN /\ (output.blocked => blocked)
      OBVIOUS
    <2> QED
      BY <1>1, <2>1, <2>2 DEF Open
  <1>2. CASE output' = [output EXCEPT !.draining = draining] /\ closed' = "failed"
    BY <1>2
  <1> QED
    BY <1>1, <1>2 DEF Writes

\* The end of the input, once everything is read.
LEMMA FinishesWell ==
  ASSUME StdioInv, Open, ~Some(work), ~Some(pending), Finishes, ended'.stream,
         ended' \in [seen : BOOLEAN, stream : BOOLEAN],
         UNCHANGED <<input, delivered, work, pending>>
  PROVE  StdioInv'
  <1> DEFINE reference == Framing(input)[delivered]
  <1>1. StdioTypeOK'
    <2>1. line' \in [bytes : Nat, bad : BOOLEAN] /\ closed' \in {"open", "ended", "failed"}
      <3>1. CASE line.bytes > 0
        <4>1. line' = EmptyLine /\ Writes(TRUE, FALSE)
          BY <3>1 DEF Finishes
        <4>2. closed' \in {"open", "failed"}
          BY <4>1, WritesSome DEF StdioInv, StdioTypeOK
        <4> QED
          BY <4>1, <4>2 DEF EmptyLine
      <3>2. CASE ~(line.bytes > 0)
        BY <3>2 DEF StdioInv, StdioTypeOK, Finishes
      <3> QED
        BY <3>1, <3>2
    <2>2. output' \in [blocked : BOOLEAN, farewell : BOOLEAN, draining : BOOLEAN]
      BY WritesSome DEF StdioInv, StdioTypeOK, Finishes
    <2> QED
      BY <2>1, <2>2 DEF StdioInv, StdioTypeOK
  <1>2. ChunksFit'
    BY DEF ChunksFit, Some
  <1>3. Taken = delivered /\ (Some(work))' = FALSE /\ (Some(pending))' = FALSE
    BY DEF Taken, Some
  <1>4. line.bytes \in Nat
    BY DEF StdioInv, StdioTypeOK
  <1>5. CASE output.farewell
    <2>1. Rejected
      BY <1>5 DEF StdioInv, Reading
    <2>2. line.bytes = 0
      BY <2>1 DEF Rejected, EmptyLine
    <2>3. closed' = "ended" /\ handled' = handled
      BY <2>2 DEF Finishes
    <2>4. Reading' /\ StreamIsFramed'
      BY <2>1, <2>3, <1>4 DEF Reading, Open, StreamIsFramed, Rejected
    <2> QED
      BY <1>1, <1>2, <2>4 DEF StdioInv
  <1>6. CASE ~output.farewell
    <2>1. reference.lines = handled /\ reference.rest = line
      BY <1>3, <1>6 DEF StdioInv, Reading
    <2> HIDE DEF reference
    <2>2. CASE line.bytes > 0
      <3>1. /\ handled' = Append(handled, Truncated(line)) /\ line' = EmptyLine
            /\ closed' = "failed" \/ (output'.farewell /\ closed' = "open")
        BY <2>2, WritesSome DEF Finishes, StdioInv, StdioTypeOK
      <3>2. Reading'
        <4>1. CASE closed' = "failed"
          BY <4>1 DEF Reading, Open
        <4>2. CASE output'.farewell
          <5>1. Rejected'
            BY <1>3, <2>1, <2>2, <3>1 DEF Rejected, reference
          <5> QED
            BY <4>2, <5>1 DEF Reading
        <4> QED
          BY <3>1, <4>1, <4>2
      <3>3. StreamIsFramed'
        BY <3>1 DEF StreamIsFramed
      <3> QED
        BY <1>1, <1>2, <3>2, <3>3 DEF StdioInv
    <2>3. CASE ~(line.bytes > 0)
      <3>1. line.bytes = 0
        BY <1>4, <2>3
      <3>2. closed' = "ended" /\ handled' = handled
        BY <2>3 DEF Finishes
      <3>3. Reading'
        BY <3>2 DEF Reading, Open
      <3>4. StreamIsFramed'
        BY <2>1, <3>1, <3>2 DEF StreamIsFramed, reference
      <3> QED
        BY <1>1, <1>2, <3>3, <3>4 DEF StdioInv
    <2> QED
      BY <2>2, <2>3
  <1> QED
    BY <1>5, <1>6

\* One symbol more is handled as the reference definition says.
LEMMA TakesOne ==
  ASSUME StdioInv, Open, Some(work), ~output.blocked, work' = <<work[1] + 1, work[2]>>,
         UNCHANGED <<input, delivered, pending, ended>>,
         line' \in [bytes : Nat, bad : BOOLEAN],
         output' \in [blocked : BOOLEAN, farewell : BOOLEAN, draining : BOOLEAN], ~output'.farewell,
         closed' \in {"open", "failed"},
         Framed([lines |-> handled, rest |-> line], input[work[1]]) = [lines |-> handled', rest |-> line']
  PROVE  StdioInv'
  <1>1. StdioTypeOK'
    BY DEF StdioInv, StdioTypeOK
  <1>2. /\ work[1] \in 1 .. Len(input) /\ work[1] \in Nat /\ work[2] = delivered /\ delivered \in Nat
        /\ work[1] <= delivered /\ ~Some(pending) /\ ~output.farewell /\ input \in Seq(Symbols)
    BY StdioAssumption DEF StdioInv, StdioTypeOK, ChunksFit, Reading, Rejected, Some
  <1>3. ChunksFit' /\ Taken = work[1] - 1 /\ Taken' = work[1]
    BY <1>2 DEF ChunksFit, Some, Taken
  <1>4. Framing(input)[work[1]] = Framed(Framing(input)[work[1] - 1], input[work[1]])
    BY <1>2, FramingOf
  <1>5. Framing(input)[work[1] - 1] = [lines |-> handled, rest |-> line]
    BY <1>2, <1>3 DEF StdioInv, Reading
  <1>6. Reading' /\ StreamIsFramed'
    BY <1>3, <1>4, <1>5 DEF Reading, StreamIsFramed
  <1> QED
    BY <1>1, <1>3, <1>6 DEF StdioInv

LEMMA StdioStep == StdioInv /\ [StdioNext]_stdioVars => StdioInv'
  <1> SUFFICES ASSUME StdioInv, [StdioNext]_stdioVars PROVE StdioInv'
    OBVIOUS
  <1>1. ASSUME NEW n \in 1 .. Len(input), Reads(n)
        PROVE  StdioInv'
    <2>1. input \in Seq(Symbols) /\ Len(input) \in Nat /\ ~Some(pending)
      BY <1>1, StdioAssumption DEF Reads, StdioInv, StdioTypeOK, ChunksFit
    <2>2. StdioTypeOK' /\ ChunksFit' /\ Taken' = Taken
      BY <1>1, <2>1 DEF Reads, StdioInv, StdioTypeOK, ChunksFit, Some, Idle, Taken
    <2>3. ~output.farewell
      BY <1>1 DEF Reads, StdioInv, Reading, Rejected
    <2>4. Reading' /\ StreamIsFramed'
      BY <1>1, <2>2, <2>3 DEF Reads, StdioInv, Reading, Open, StreamIsFramed
    <2> QED
      BY <2>2, <2>4 DEF StdioInv
  <1>2. ASSUME SetsAside
        PROVE  StdioInv'
    <2>1. StdioTypeOK' /\ ChunksFit' /\ Taken' = Taken /\ ~output.farewell
      BY <1>2 DEF SetsAside, StdioInv, StdioTypeOK, ChunksFit, Some, Taken, Nothing, Reading,
         Rejected
    <2>2. Reading' /\ StreamIsFramed'
      BY <1>2, <2>1 DEF SetsAside, StdioInv, Reading, Open, StreamIsFramed
    <2> QED
      BY <2>1, <2>2 DEF StdioInv
  <1>3. ASSUME TakesByte
        PROVE  StdioInv'
    <2>1. /\ line' \in [bytes : Nat, bad : BOOLEAN] /\ closed' = "open" /\ output' = output
          /\ output \in [blocked : BOOLEAN, farewell : BOOLEAN, draining : BOOLEAN]
      <3>1. line.bytes + 1 \in Nat /\ (line.bad \/ input[work[1]] = "bad") \in BOOLEAN
        BY DEF StdioInv, StdioTypeOK
      <3> QED
        BY <1>3, <3>1 DEF TakesByte, StdioInv, StdioTypeOK, Longer, Open
    <2>3. ~output.farewell
      BY <1>3 DEF TakesByte, StdioInv, Reading, Rejected
    <2>2. Framed([lines |-> handled, rest |-> line], input[work[1]]) = [lines |-> handled, rest |-> line']
      BY <1>3 DEF TakesByte, Framed, Longer
    <2> QED
      BY <1>3, <2>1, <2>2, <2>3, TakesOne DEF TakesByte
  <1>4. ASSUME TakesLineFeed
        PROVE  StdioInv'
    <2>3. ~output.farewell /\ line' \in [bytes : Nat, bad : BOOLEAN]
      BY <1>4 DEF TakesLineFeed, StdioInv, Reading, Rejected, EmptyLine
    <2>4. output \in [blocked : BOOLEAN, farewell : BOOLEAN, draining : BOOLEAN]
      BY DEF StdioInv, StdioTypeOK
    <2>1. /\ closed' \in {"open", "failed"} /\ ~output'.farewell
          /\ output' \in [blocked : BOOLEAN, farewell : BOOLEAN, draining : BOOLEAN]
      <3>1. CASE Verdict(line) = "message"
        BY <1>4, <2>3, <2>4, <3>1 DEF TakesLineFeed, Open
      <3>2. CASE Verdict(line) # "message"
        <4>1. Writes(FALSE, output.draining) /\ output.draining \in BOOLEAN /\ Open
          BY <1>4, <2>4, <3>2 DEF TakesLineFeed
        <4> QED
          BY <2>3, <2>4, <4>1, WritesSome
      <3> QED
        BY <3>1, <3>2
    <2>2. Framed([lines |-> handled, rest |-> line], input[work[1]]) = [lines |-> handled', rest |-> line']
      <3>1. line.bytes \in Nat /\ line.bad \in BOOLEAN /\ LineLimit \in Nat \ {0}
        BY StdioAssumption DEF StdioInv, StdioTypeOK
      <3>2. Verdict(line) = CASE line.bytes > LineLimit -> "too_large"
                              [] line.bytes \in 1 .. LineLimit /\ ~line.bad -> "message"
                              [] OTHER -> "parse_error"
        BY <3>1 DEF Verdict
      <3> QED
        BY <1>4, <3>2 DEF TakesLineFeed, Framed
    <2> QED
      BY <1>4, <2>1, <2>2, <2>3, TakesOne DEF TakesLineFeed
  <1>5. ASSUME Sends
        PROVE  StdioInv'
    <2>2. /\ output' \in [blocked : BOOLEAN, farewell : BOOLEAN, draining : BOOLEAN]
          /\ closed' \in {"open", "failed"} /\ output'.farewell = output.farewell
          /\ output.blocked => output'.blocked
      BY <1>5, WritesSome DEF Sends, StdioInv, StdioTypeOK
    <2>1. StdioTypeOK' /\ ChunksFit' /\ Taken' = Taken
      BY <1>5, <2>2 DEF Sends, StdioInv, StdioTypeOK, ChunksFit, Some, Taken
    <2>3. Reading' /\ StreamIsFramed'
      BY <1>5, <2>1, <2>2 DEF Sends, StdioInv, StdioTypeOK, Reading, Rejected, Open, Some,
         StreamIsFramed
    <2> QED
      BY <2>1, <2>3 DEF StdioInv
  <1>6. ASSUME Drains
        PROVE  StdioInv'
    <2>1. StdioTypeOK' /\ ChunksFit' /\ Taken' = Taken /\ output'.farewell = output.farewell
      <3>1. StdioTypeOK' /\ output'.farewell = output.farewell
        BY <1>6 DEF Drains, StdioInv, StdioTypeOK, Nothing
      <3>2. ~Some(work) /\ work' = pending /\ pending' = <<1, 0>> /\ delivered' = delivered
        BY <1>6 DEF Drains, Idle, Nothing
      <3>3. pending \in Nat \X Nat /\ delivered \in Nat
        BY StdioAssumption DEF StdioInv, StdioTypeOK
      <3>4. ChunksFit' /\ Taken' = Taken
        BY <3>2, <3>3 DEF StdioInv, ChunksFit, Some, Taken
      <3> QED
        BY <3>1, <3>4
    <2>2. Rejected => Rejected'
      BY <1>6 DEF Drains, Rejected, Some, Nothing
    <2>3. Reading' /\ StreamIsFramed'
      BY <1>6, <2>1, <2>2 DEF Drains, StdioInv, Reading, Open, StreamIsFramed
    <2> QED
      BY <2>1, <2>3 DEF StdioInv
  <1>7. ASSUME InputEnds
        PROVE  StdioInv'
    <2>1. /\ ended' \in [seen : BOOLEAN, stream : BOOLEAN] /\ ended'.stream
          /\ UNCHANGED <<input, delivered, work, pending>> /\ Open /\ ~Some(work)
      BY <1>7 DEF InputEnds, Idle
    <2>2. CASE ~Some(pending)
      BY <1>7, <2>1, <2>2, FinishesWell DEF InputEnds
    <2>3. CASE Some(pending)
      <3>1. UNCHANGED <<handled, line, output, closed>> /\ ~output.farewell
        BY <1>7, <2>1, <2>3 DEF InputEnds, StdioInv, Reading, Rejected
      <3>2. StdioTypeOK' /\ ChunksFit' /\ Taken' = Taken
        BY <2>1, <3>1 DEF StdioInv, StdioTypeOK, ChunksFit, Some, Taken
      <3>3. Reading' /\ StreamIsFramed'
        BY <2>1, <3>1, <3>2 DEF StdioInv, Reading, Open, StreamIsFramed
      <3> QED
        BY <3>2, <3>3 DEF StdioInv
    <2> QED
      BY <2>2, <2>3
  <1>8. ASSUME Drained
        PROVE  StdioInv'
    <2>1. UNCHANGED <<input, delivered, work, pending, ended>> /\ Open /\ ~Some(work)
      BY <1>8 DEF Drained
    <2>2. CASE ended.seen /\ ~Some(pending)
      <3>1. ended' \in [seen : BOOLEAN, stream : BOOLEAN]
        BY <2>1 DEF StdioInv, StdioTypeOK
      <3>2. ended'.stream
        BY <2>1, <2>2 DEF StdioInv, StdioTypeOK
      <3> QED
        BY <1>8, <2>1, <2>2, <3>1, <3>2, FinishesWell DEF Drained
    <2>3. CASE ~(ended.seen /\ ~Some(pending))
      <3>1. UNCHANGED <<handled, line, closed>> /\ output' = [output EXCEPT !.draining = FALSE]
        BY <1>8, <2>3 DEF Drained
      <3>2. StdioTypeOK' /\ ChunksFit' /\ Taken' = Taken /\ output'.farewell = output.farewell
        BY <2>1, <3>1 DEF StdioInv, StdioTypeOK, ChunksFit, Some, Taken
      <3>3. Rejected => Rejected'
        BY <2>1, <3>1 DEF Rejected, Some
      <3>4. Reading' /\ StreamIsFramed'
        BY <2>1, <3>1, <3>2, <3>3 DEF StdioInv, Reading, Open, StreamIsFramed
      <3> QED
        BY <3>2, <3>4 DEF StdioInv
    <2> QED
      BY <2>2, <2>3
  <1>9. ASSUME Farewell
        PROVE  StdioInv'
    <2>1. Rejected
      BY <1>9 DEF Farewell, StdioInv, Reading
    <2>2. StdioTypeOK' /\ ChunksFit' /\ Reading'
      BY <1>9 DEF Farewell, StdioInv, StdioTypeOK, ChunksFit, Some, Reading, Open
    <2>3. StreamIsFramed'
      BY <1>9, <2>1 DEF Farewell, StreamIsFramed, Rejected
    <2> QED
      BY <2>2, <2>3 DEF StdioInv
  <1>10. ASSUME StreamFails
        PROVE  StdioInv'
    BY <1>10 DEF StreamFails, StdioInv, StdioTypeOK, ChunksFit, Some, Reading, Open,
       StreamIsFramed
  <1>11. CASE UNCHANGED stdioVars
    <2>1. StdioTypeOK' /\ ChunksFit' /\ StreamIsFramed' /\ Taken' = Taken
      BY <1>11 DEF stdioVars, StdioInv, StdioTypeOK, ChunksFit, Some, Taken, StreamIsFramed
    <2>2. Reading'
      BY <1>11, <2>1 DEF stdioVars, StdioInv, Reading, Rejected, Open, Some
    <2> QED
      BY <2>1, <2>2 DEF StdioInv
  <1> QED
    BY <1>1, <1>2, <1>3, <1>4, <1>5, <1>6, <1>7, <1>8, <1>9, <1>10, <1>11 DEF StdioNext

\* However the input is cut, wherever stdout blocks and whenever the input ends:
\* a transport that ended in good order handled every line the stream emitted once,
\* in order, and rejected the line without its end (onData, onDrain, onEnd and
\* finishLine of stdio-transport.ts), for every input and every limit.
THEOREM StreamsAreFramed == StdioSpec => []StreamIsFramed
  <1>1. StdioInv => StreamIsFramed
    BY DEF StdioInv
  <1> QED
    BY <1>1, StdioInitially, StdioStep, PTL DEF StdioSpec

=============================================================================
