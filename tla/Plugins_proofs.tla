-------------------------- MODULE Plugins_proofs --------------------------
(***************************************************************************)
(* The plugins: who takes the ticket of a playtest, what the callers of a  *)
(* client are told, which play a request to stop ends, and that writers of *)
(* the scripts keep faith with each other.  The four are proved one after  *)
(* the other and share nothing.                                            *)
(***************************************************************************)
EXTENDS PlaytestTickets, ClientCalls, StopPlay, ScriptWrites, TLAPS

-----------------------------------------------------------------------------
(***************************************************************************)
(* The ticket of a Play that is not over is taken once, for any windows,   *)
(* runtimes and number of Plays.                                           *)
(*                                                                         *)
(* Who took a ticket is the one its claim names, and nobody else is about  *)
(* to write it: whoever looks finds it claimed, and the claim is cleared   *)
(* by its window alone, when the Play is over.  A ticket that is posted is *)
(* new, so nobody has it in hand.                                          *)
(***************************************************************************)
\* Tickets that were posted so far.
Posted == {t \in Tickets : t[2] <= play[t[1]].number}

Known ==
  /\ board \subseteq Posted
  /\ \A w \in Windows : update[w].board \subseteq Posted
  /\ \A r \in Runtimes : runtime[r].on \subseteq Posted

OneEach == \A r \in Runtimes : \A t, u \in runtime[r].on : t = u

\* A window clears the claim of its last ticket, once the Play is over.
ClearsItsOwn ==
  \A w \in Windows : /\ update[w].clears \subseteq {TicketOf(w)}
                     /\ play[w].state # "none" => update[w].clears = {}

\* A window with a Play has posted a ticket for it.
Numbered == \A w \in Windows : play[w].state # "none" => play[w].number # 0

\* The ticket t is r's, as far as claims go.
Holds(r, t) ==
  /\ claim[t] = r
  /\ \A q \in Runtimes \ {r} : ~(runtime[q].at = "writing" /\ t \in runtime[q].on)

TakersHold ==
  \A r \in Runtimes, w \in Windows :
    runtime[r].at = "took" /\ play[w].state # "none" /\ TicketOf(w) \in runtime[r].on
      => Holds(r, TicketOf(w))

TicketsInv == TicketsTypeOK /\ Known /\ OneEach /\ Numbered /\ ClearsItsOwn /\ TakersHold

-----------------------------------------------------------------------------
\* Whatever a window reads and is about to write, it clears no claim of a Play
\* that is not over.
LEMMA WindowWrites ==
  ASSUME TicketsInv, NEW w \in Windows, NEW state \in {"withdrawn", "none"}, NEW b, NEW clears,
         b \subseteq board \cup {TicketOf(w)},
         play[w].state # "none",
         play' = [play EXCEPT ![w].state = state] \/ play' = play,
         update' = [update EXCEPT ![w] = [pending |-> TRUE, board |-> b, clears |-> clears]],
         clears = {} \/ (clears = {TicketOf(w)} /\ play' = [play EXCEPT ![w].state = "none"]),
         UNCHANGED <<board, stale, claim, runtime>>
  PROVE  TicketsInv'
<1>1. /\ play' \in [Windows -> PlayRecord]
      /\ \A v \in Windows : play'[v].number = play[v].number
      /\ \A v \in Windows : play'[v].state # "none" => play[v].state # "none"
  BY DEF TicketsInv, TicketsTypeOK, PlayRecord
<1>2. Posted' = Posted /\ (\A v \in Windows : TicketOf(v)' = TicketOf(v))
  BY <1>1 DEF Posted, TicketOf, Tickets
<1>3. TicketOf(w) \in Posted
  <2>1. play[w].number \in 1 .. MaxPlays
    BY PlaytestTicketsAssumption DEF TicketsInv, TicketsTypeOK, Numbered, PlayRecord
  <2> QED
    BY <2>1 DEF Posted, TicketOf, Tickets
<1>4. clears \subseteq Tickets /\ b \subseteq Posted /\ Posted \subseteq Tickets
  BY <1>3 DEF TicketsInv, Known, Posted
<1>5. TicketsTypeOK'
  BY <1>1, <1>4 DEF TicketsInv, TicketsTypeOK, Update
<1>6. Known'
  BY <1>2, <1>4 DEF TicketsInv, TicketsTypeOK, Known
<1>7. ClearsItsOwn'
  BY <1>1, <1>2 DEF TicketsInv, TicketsTypeOK, ClearsItsOwn, PlayRecord
<1>8. TakersHold'
  BY <1>1, <1>2 DEF TicketsInv, TakersHold, Holds
<1> QED
  BY <1>1, <1>5, <1>6, <1>7, <1>8 DEF TicketsInv, OneEach, Numbered

\* A runtime that goes on without taking or writing anything disturbs nothing.
LEMMA RuntimeGoesOn ==
  ASSUME TicketsInv, NEW r \in Runtimes, NEW new \in Runtime,
         runtime' = [runtime EXCEPT ![r] = new],
         new.at \notin {"took", "writing"}, new.on \in {{}, runtime[r].on},
         UNCHANGED <<play, board, stale, claim, update>>
  PROVE  TicketsInv'
  BY DEF TicketsInv, TicketsTypeOK, Known, Posted, OneEach, Numbered, ClearsItsOwn, TicketOf, TakersHold,
         Holds

LEMMA TicketsStep == TicketsInv /\ [TicketsNext]_ticketVars => TicketsInv'
<1> SUFFICES ASSUME TicketsInv, [TicketsNext]_ticketVars PROVE TicketsInv'
  OBVIOUS
<1>1. ASSUME NEW w \in Windows, PostsTicket(w) PROVE TicketsInv'
  <2> DEFINE n == play[w].number + 1
             t == <<w, n>>
  <2>1. /\ play' = [play EXCEPT ![w] = [state |-> "posted", number |-> n]]
        /\ update' = [update EXCEPT ![w] = [pending |-> TRUE, board |-> (board \ stale) \cup {t},
                                            clears |-> {}]]
        /\ UNCHANGED <<board, stale, claim, runtime>>
        /\ play[w].number < MaxPlays
    BY <1>1 DEF PostsTicket, Publishing
  <2>2. /\ play[w].number \in Nat /\ n \in 1 .. MaxPlays /\ t \in Tickets
        /\ play' \in [Windows -> PlayRecord]
    BY <2>1, PlaytestTicketsAssumption DEF TicketsInv, TicketsTypeOK, PlayRecord, Tickets
  <2>3. Posted \subseteq Posted' /\ t \in Posted' /\ t \notin Posted
    BY <2>1, <2>2, PlaytestTicketsAssumption DEF Posted, Tickets, TicketsInv, TicketsTypeOK,
                                                 PlayRecord
  <2>4. TicketOf(w)' = t /\ \A v \in Windows \ {w} : TicketOf(v)' = TicketOf(v) /\ play'[v] = play[v]
    BY <2>1, <2>2 DEF TicketOf, TicketsInv, TicketsTypeOK
  <2>5. TicketsTypeOK'
    BY <2>1, <2>2 DEF TicketsInv, TicketsTypeOK, Update
  <2>6. Known'
    BY <2>1, <2>3 DEF TicketsInv, TicketsTypeOK, Known
  <2>7. ClearsItsOwn'
    BY <2>1, <2>4 DEF TicketsInv, TicketsTypeOK, ClearsItsOwn
  <2>8. TakersHold'
    BY <2>1, <2>3, <2>4 DEF TicketsInv, Known, TakersHold, Holds
  <2> QED
    BY <2>1, <2>2, <2>4, <2>5, <2>6, <2>7, <2>8
       DEF TicketsInv, TicketsTypeOK, OneEach, Numbered
<1>2. ASSUME NEW w \in Windows, Refreshes(w) PROVE TicketsInv'
  <2>1. play[w].state # "none" /\ UNCHANGED <<board, stale, claim, runtime>>
    BY <1>2 DEF Refreshes
  <2>2. CASE /\ play' = [play EXCEPT ![w].state = "withdrawn"]
             /\ Withdrawing(w, TicketOf(w), {})
    <3> DEFINE b == (board \ stale) \ {TicketOf(w)}
    <3>1. update' = [update EXCEPT ![w] = [pending |-> TRUE, board |-> b, clears |-> {}]]
      BY <2>2 DEF Withdrawing
    <3>2. b \subseteq board \cup {TicketOf(w)}
      OBVIOUS
    <3> HIDE DEF b
    <3> QED
      BY <2>1, <2>2, <3>1, <3>2, WindowWrites
  <2>3. CASE Publishing(w, TicketOf(w)) /\ UNCHANGED play
    <3> DEFINE b == (board \ stale) \cup {TicketOf(w)}
    <3>1. update' = [update EXCEPT ![w] = [pending |-> TRUE, board |-> b, clears |-> {}]]
      BY <2>3 DEF Publishing
    <3>2. b \subseteq board \cup {TicketOf(w)}
      OBVIOUS
    <3> HIDE DEF b
    <3> QED
      BY <2>1, <2>3, <3>1, <3>2, WindowWrites
  <2> QED
    BY <1>2, <2>2, <2>3 DEF Refreshes
<1>3. ASSUME NEW w \in Windows, Retires(w) PROVE TicketsInv'
  <2> DEFINE b == (board \ stale) \ {TicketOf(w)}
  <2>1. /\ play[w].state # "none" /\ UNCHANGED <<board, stale, claim, runtime>>
        /\ play' = [play EXCEPT ![w].state = "none"]
        /\ update' = [update EXCEPT ![w] = [pending |-> TRUE, board |-> b,
                                            clears |-> {TicketOf(w)}]]
    BY <1>3 DEF Retires, Withdrawing
  <2>2. b \subseteq board \cup {TicketOf(w)}
    OBVIOUS
  <2> HIDE DEF b
  <2> QED
    BY <2>1, <2>2, WindowWrites
<1>4. ASSUME NEW w \in Windows, WritesBoard(w) PROVE TicketsInv'
  <2>1. /\ board' = update[w].board
        /\ claim' = [t \in Tickets |-> IF t \in update[w].clears THEN NoRuntime ELSE claim[t]]
        /\ update' = [update EXCEPT ![w] = NoUpdate]
        /\ UNCHANGED <<play, stale, runtime>>
    BY <1>4 DEF WritesBoard
  <2>2. TicketsTypeOK'
    BY <2>1 DEF TicketsInv, TicketsTypeOK, Update, NoUpdate
  <2>3. \A v \in Windows : play[v].state # "none" => TicketOf(v) \notin update[w].clears
    BY DEF TicketsInv, ClearsItsOwn, TicketOf
  <2>4. TakersHold'
    BY <2>1, <2>3 DEF TicketsInv, TicketsTypeOK, Known, Posted, TakersHold, Holds, TicketOf
  <2> QED
    BY <2>1, <2>2, <2>4 DEF TicketsInv, TicketsTypeOK, Known, Posted, OneEach, Numbered, ClearsItsOwn,
                            TicketOf, NoUpdate
<1>5. ASSUME NEW t \in Tickets, GoesStale(t) PROVE TicketsInv'
  BY <1>5 DEF GoesStale, TicketsInv, TicketsTypeOK, Known, Posted, OneEach, Numbered, ClearsItsOwn,
              TicketOf, TakersHold, Holds
<1>6. ASSUME NEW r \in Runtimes, NEW w \in Windows, RuntimeStarts(r, w) PROVE TicketsInv'
  BY <1>6, RuntimeGoesOn DEF RuntimeStarts, Runtime
<1>7. ASSUME NEW r \in Runtimes, Settles(r) PROVE TicketsInv'
  <2>1. PICK t \in Tickets :
          /\ MatchingTickets(r) = {t}
          /\ runtime' = [runtime EXCEPT ![r] = [@ EXCEPT !.at = "writing", !.on = {t}]]
    BY <1>7 DEF Settles
  <2>2. t \in board /\ claim[t] \in {NoRuntime, r}
    BY <2>1 DEF MatchingTickets
  <2>3. /\ runtime'[r].at = "writing" /\ runtime'[r].on = {t}
        /\ \A q \in Runtimes \ {r} : runtime'[q] = runtime[q]
        /\ UNCHANGED <<play, board, stale, claim, update>>
    BY <1>7, <2>1 DEF Settles, TicketsInv, TicketsTypeOK, Runtime
  <2>4. TicketsTypeOK'
    BY <1>7, <2>1, ZenonT(60) DEF Settles, TicketsInv, TicketsTypeOK, Runtime
  <2>5. TakersHold'
    BY <2>2, <2>3, PlaytestTicketsAssumption DEF TicketsInv, TakersHold, Holds, TicketOf
  <2> QED
    BY <2>2, <2>3, <2>4, <2>5 DEF TicketsInv, Known, Posted, OneEach, Numbered, ClearsItsOwn, TicketOf
<1>8. ASSUME NEW r \in Runtimes, WritesClaim(r) PROVE TicketsInv'
  <2>1. /\ runtime[r].at = "writing"
        /\ claim' = [t \in Tickets |-> IF t \in runtime[r].on THEN r ELSE claim[t]]
        /\ runtime' = [runtime EXCEPT ![r].at = "waiting"]
        /\ UNCHANGED <<play, board, stale, update>>
    BY <1>8 DEF WritesClaim
  <2>2. /\ runtime'[r].at = "waiting" /\ runtime'[r].on = runtime[r].on
        /\ \A q \in Runtimes \ {r} : runtime'[q] = runtime[q]
    BY <2>1 DEF TicketsInv, TicketsTypeOK, Runtime
  <2>3. TicketsTypeOK'
    BY <2>1 DEF TicketsInv, TicketsTypeOK, Runtime
  <2>4. TakersHold'
    <3> SUFFICES ASSUME NEW q \in Runtimes, NEW w \in Windows,
                        runtime'[q].at = "took", play[w].state # "none",
                        TicketOf(w) \in runtime'[q].on
                 PROVE  Holds(q, TicketOf(w))'
      BY <2>1 DEF TakersHold, TicketOf
    <3>1. q # r /\ runtime'[q] = runtime[q] /\ Holds(q, TicketOf(w)) /\ TicketOf(w) \in Tickets
      BY <2>2 DEF TicketsInv, TakersHold, Known, Posted
    <3>2. TicketOf(w) \notin runtime[r].on /\ TicketOf(w)' = TicketOf(w)
      BY <2>1, <3>1 DEF Holds, TicketOf
    <3> QED
      BY <2>1, <2>2, <3>1, <3>2 DEF Holds
  <2> QED
    BY <2>1, <2>2, <2>3, <2>4 DEF TicketsInv, Known, Posted, OneEach, Numbered, ClearsItsOwn, TicketOf
<1>9. ASSUME NEW r \in Runtimes, ReadsClaim(r) PROVE TicketsInv'
  <2>1. /\ runtime[r].at = "waiting"
        /\ \A q \in Runtimes \ {r} : runtime[q].at = "writing" => runtime[q].on # runtime[r].on
        /\ UNCHANGED <<play, board, stale, claim, update>>
    BY <1>9 DEF ReadsClaim, PollPassed
  <2>2. CASE \A t \in runtime[r].on : claim[t] = r
    <3>1. runtime' = [runtime EXCEPT ![r].at = "took"]
      BY <1>9, <2>2 DEF ReadsClaim
    <3>2. /\ runtime'[r].at = "took" /\ runtime'[r].on = runtime[r].on
          /\ \A q \in Runtimes \ {r} : runtime'[q] = runtime[q]
      BY <3>1 DEF TicketsInv, TicketsTypeOK, Runtime
    <3>3. TicketsTypeOK'
      BY <2>1, <3>1 DEF TicketsInv, TicketsTypeOK, Runtime
    <3>4. \A q \in Runtimes \ {r}, t \in runtime[r].on :
            ~(runtime[q].at = "writing" /\ t \in runtime[q].on)
      <4> SUFFICES ASSUME NEW q \in Runtimes \ {r}, NEW t \in runtime[r].on,
                          runtime[q].at = "writing", t \in runtime[q].on
                   PROVE  FALSE
        OBVIOUS
      <4>1. runtime[q].on = {t} /\ runtime[r].on = {t}
        BY DEF TicketsInv, OneEach
      <4> QED
        BY <2>1, <4>1
    <3>5. TakersHold'
      BY <2>1, <2>2, <3>2, <3>4 DEF TicketsInv, TakersHold, Holds, TicketOf
    <3> QED
      BY <2>1, <3>2, <3>3, <3>5 DEF TicketsInv, Known, Posted, OneEach, Numbered, ClearsItsOwn, TicketOf
  <2>3. CASE ~(\A t \in runtime[r].on : claim[t] = r)
    <3> DEFINE new == [runtime[r] EXCEPT !.at = "looking"]
    <3>1. runtime' = [runtime EXCEPT ![r] = new] /\ new \in Runtime
          /\ new.at = "looking" /\ new.on = runtime[r].on
      BY <1>9, <2>3 DEF ReadsClaim, TicketsInv, TicketsTypeOK, Runtime
    <3> QED
      BY <2>1, <3>1, RuntimeGoesOn
  <2> QED
    BY <2>2, <2>3
<1>10. ASSUME NEW r \in Runtimes, RuntimeEnds(r) PROVE TicketsInv'
  <2> DEFINE new == [NotStarted EXCEPT !.at = "ended"]
  <2>1. NotStarted \in Runtime
    <3>1. \E w \in Windows : TRUE
      BY DEF TicketsInv, TicketsTypeOK, Runtime
    <3> QED
      BY <3>1 DEF NotStarted, Runtime
  <2>2. new \in Runtime /\ new.at = "ended" /\ new.on = {}
    BY <2>1 DEF NotStarted, Runtime
  <2> QED
    BY <1>10, <2>2, RuntimeGoesOn DEF RuntimeEnds
<1>11. CASE UNCHANGED ticketVars
  BY <1>11 DEF ticketVars, TicketsInv, TicketsTypeOK, Known, Posted, OneEach, Numbered, ClearsItsOwn,
               TicketOf, TakersHold, Holds
<1> QED
  BY <1>1, <1>2, <1>3, <1>4, <1>5, <1>6, <1>7, <1>8, <1>9, <1>10, <1>11 DEF TicketsNext

-----------------------------------------------------------------------------
\* The invariant of the tickets: who took the ticket of a Play is named by its claim.
THEOREM TicketsInvariant == TicketsSpec => []TicketsInv
<1>1. TicketsInit => TicketsInv
  <2> SUFFICES ASSUME TicketsInit PROVE TicketsInv
    OBVIOUS
  <2>1. NotStarted \in Runtime
    BY PlaytestTicketsAssumption DEF NotStarted, Runtime
  <2>2. TicketsTypeOK
    BY <2>1, PlaytestTicketsAssumption
       DEF TicketsInit, TicketsTypeOK, PlayRecord, Update, NoUpdate
  <2> QED
    BY <2>2 DEF TicketsInit, TicketsInv, Known, Posted, OneEach, Numbered, ClearsItsOwn, TakersHold,
                NoUpdate, NotStarted
<1> QED
  BY <1>1, TicketsStep, PTL DEF TicketsSpec

\* Two playtest servers that run never took the ticket of one Play (claimTicket,
\* refreshTicket, retirePlayRecord).
THEOREM TicketsAreTakenOnce == TicketsSpec => []NoTicketTakenTwice
<1>1. TicketsInv => NoTicketTakenTwice
  BY DEF TicketsInv, TakersHold, Holds, NoTicketTakenTwice
<1> QED
  BY <1>1, TicketsInvariant, PTL

-----------------------------------------------------------------------------
(***************************************************************************)
(* What a server Peer reports as not executed was not executed, for any    *)
(* number of requests: before it is sent a request is nowhere, and one     *)
(* that the client refused was never with a handler.                       *)
(***************************************************************************)
NewIsUnsent ==
  \A q \in ClientRequests : forwarded[q].at = "new" => envelope[q] = "unsent"

NotYetWithHandler ==
  \A q \in ClientRequests : envelope[q] \in {"unsent", "sent", "refused"} => q \notin handlers

ClientCallsInv == ClientCallsTypeOK /\ NewIsUnsent /\ NotYetWithHandler /\ NotExecutedNeverRan

\* A request that ends as anything but not executed disturbs nothing.
LEMMA EndsOtherwise ==
  ASSUME ClientCallsInv, NEW q \in ClientRequests, NEW outcome \in {"unknown", "handler"},
         Ends(q, outcome), UNCHANGED <<envelope, handlers>>,
         UNCHANGED <<overdue, withdrawn, reachable, channelBeat>>, unanswered' \in BOOLEAN
  PROVE  ClientCallsInv'
  BY DEF Ends, Forwarded, ClientCallsInv, ClientCallsTypeOK, NewIsUnsent, NotYetWithHandler,
         NotExecutedNeverRan

LEMMA ClientCallsStep == ClientCallsInv /\ [ClientCallsNext]_clientCallVars => ClientCallsInv'
<1> SUFFICES ASSUME ClientCallsInv, [ClientCallsNext]_clientCallVars PROVE ClientCallsInv'
  OBVIOUS
<1>0. unanswered \in BOOLEAN
  BY DEF ClientCallsInv, ClientCallsTypeOK
<1>1. ASSUME NEW q \in ClientRequests, IsNotRegistered(q) PROVE ClientCallsInv'
  BY <1>0, <1>1, EndsOtherwise DEF IsNotRegistered
<1>2. ASSUME NEW q \in ClientRequests, IsRefused(q) PROVE ClientCallsInv'
  BY <1>2 DEF IsRefused, Ends, Forwarded, ClientCallsInv, ClientCallsTypeOK, NewIsUnsent,
              NotYetWithHandler, NotExecutedNeverRan
<1>3. ASSUME NEW q \in ClientRequests, Invokes(q) PROVE ClientCallsInv'
  BY <1>3 DEF Invokes, Forwarded, ClientCallsInv, ClientCallsTypeOK, NewIsUnsent,
              NotYetWithHandler, NotExecutedNeverRan
<1>4. ASSUME NEW q \in ClientRequests, Interrupts(q) PROVE ClientCallsInv'
  <2>1. unanswered' \in BOOLEAN
    BY <1>0, <1>4 DEF Interrupts, TimesOut
  <2> QED
    BY <1>4, <2>1, EndsOtherwise DEF Interrupts
<1>5. ASSUME NEW q \in ClientRequests, Returns(q) PROVE ClientCallsInv'
  <2>1. unanswered' \in BOOLEAN
    BY <1>0, <1>5 DEF Returns, TimesOut
  <2>2. /\ envelope[q] \in {"refused", "answered", "raised"}
        /\ envelope' = [envelope EXCEPT ![q] = "heard"]
        /\ UNCHANGED <<handlers, overdue, withdrawn, reachable, channelBeat>>
    BY <1>5 DEF Returns
  <2>3. \/ UNCHANGED forwarded
        \/ \E outcome \in {"unknown", "handler"} : Ends(q, outcome)
        \/ Ends(q, "not_executed") /\ envelope[q] = "refused"
    BY <1>5 DEF Returns
  <2> QED
    BY <2>1, <2>2, <2>3 DEF Ends, Forwarded, ClientCallsInv, ClientCallsTypeOK, NewIsUnsent,
                            NotYetWithHandler, NotExecutedNeverRan
<1>6. ASSUME NEW q \in ClientRequests, Receives(q) PROVE ClientCallsInv'
  BY <1>6 DEF Receives, ClientCallsInv, ClientCallsTypeOK, NewIsUnsent, NotYetWithHandler,
              NotExecutedNeverRan
<1>7. ASSUME NEW q \in ClientRequests, Answers(q) PROVE ClientCallsInv'
  BY <1>7 DEF Answers, ClientCallsInv, ClientCallsTypeOK, NewIsUnsent, NotYetWithHandler,
              NotExecutedNeverRan
<1>8. CASE Disconnects
  BY <1>8 DEF Disconnects, ClientCallsInv, ClientCallsTypeOK, NewIsUnsent, NotYetWithHandler,
              NotExecutedNeverRan
<1>9. ASSUME NEW q \in ClientRequests, DeadlinePasses(q) \/ IsWithdrawn(q) PROVE ClientCallsInv'
  BY <1>9 DEF DeadlinePasses, IsWithdrawn, ClientCallsInv, ClientCallsTypeOK, NewIsUnsent,
              NotYetWithHandler, NotExecutedNeverRan
<1>10. CASE Beats
  BY <1>10 DEF Beats, ClientCallsInv, ClientCallsTypeOK, NewIsUnsent, NotYetWithHandler,
               NotExecutedNeverRan
<1>11. CASE UNCHANGED clientCallVars
  BY <1>11 DEF clientCallVars, ClientCallsInv, ClientCallsTypeOK, NewIsUnsent,
               NotYetWithHandler, NotExecutedNeverRan
<1> QED
  BY <1>1, <1>2, <1>3, <1>4, <1>5, <1>6, <1>7, <1>8, <1>9, <1>10, <1>11 DEF ClientCallsNext

\* A forwarded request that is said not to have been executed never entered a
\* handler of the client and never will (invokeClient, handleClientInvoke).
THEOREM NotExecutedIsTrue == ClientCallsSpec => []NotExecutedNeverRan
<1>1. ClientCallsInit => ClientCallsInv
  <2> SUFFICES ASSUME ClientCallsInit PROVE ClientCallsInv
    OBVIOUS
  <2>1. ClientCallsTypeOK
    BY DEF ClientCallsInit, ClientCallsTypeOK, Forwarded
  <2>2. \A q \in ClientRequests : envelope[q] = "unsent" /\ forwarded[q].outcome = "none"
    BY DEF ClientCallsInit
  <2>3. handlers = {}
    BY DEF ClientCallsInit
  <2> QED
    BY <2>1, <2>2, <2>3 DEF ClientCallsInv, NewIsUnsent, NotYetWithHandler, NotExecutedNeverRan
<1>2. ClientCallsInv => NotExecutedNeverRan
  BY DEF ClientCallsInv
<1> QED
  BY <1>1, <1>2, ClientCallsStep, PTL DEF ClientCallsSpec

-----------------------------------------------------------------------------
(***************************************************************************)
(* A request to stop ends the play it was made in or none, for any calls   *)
(* and number of plays.  What makes it so is that a request the monitor    *)
(* acted on is the last one it acted on for as long as it can come again.  *)
(***************************************************************************)
Phases == {"edit", "starting", "up", "ending", "down"}

StopReplies ==
  {"none", "stopped", "end_test_failed", "not_ready", "not_acknowledged", "no_active_playtest",
   "teardown_incomplete"}

Stop ==
  [at : {"none", "waiting", "settling", "answered"}, answer : StopReplies, active : BOOLEAN, of : Nat]

Results == [id : StopRequests \cup {NoStop}, ok : BOOLEAN]

StopTypeOK ==
  /\ slot \in StopRequests \cup {NoStop} /\ pendingRequest \in StopRequests \cup {NoStop}
  /\ result \in Results
  /\ stop \in [StopRequests -> Stop]
  /\ session \in Nat /\ phase \in Phases /\ testRunning \in BOOLEAN
  /\ monitor \in [issued : BOOLEAN, last : Results, since : SUBSET StopRequests]
  /\ endedBy \in [StopRequests -> Nat]

\* PlayIsOver of a given session and phase.
IsOver(n, s, p) == n < s \/ p \in {"down", "edit"}

\* What is not made yet is nowhere.
IsNew(r) ==
  /\ stop[r].answer = "none" /\ stop[r].of = 0 /\ endedBy[r] = 0
  /\ r \notin {slot, pendingRequest, result.id, monitor.last.id} \cup monitor.since

\* Something came of the request.
Seen(r) ==
  \/ r \in {result.id, monitor.last.id} \/ endedBy[r] # 0
  \/ stop[r].at = "settling" \/ stop[r].answer = "end_test_failed"

\* A request the monitor can act on is of its play; one it acted on before is the
\* last it acted on, or cannot come again.
SinceIsTrue(r) ==
  /\ stop[r].of = session
  /\ Seen(r) /\ pendingRequest = r => slot \in {r, NoStop}
  /\ Seen(r) /\ r \in {slot, pendingRequest} => monitor.last.id = r

ResultIsTrue(res, r) ==
  res.id = r => endedBy[r] = (IF res.ok THEN stop[r].of ELSE 0) /\ (res.ok => stop[r].of # 0)

StopOf(r) ==
  /\ stop[r].of =< session
  /\ stop[r].at = "none" => IsNew(r)
  /\ MonitorRuns /\ r \in monitor.since => SinceIsTrue(r)
  /\ ResultIsTrue(result, r) /\ ResultIsTrue(monitor.last, r)
  /\ endedBy[r] \in {0, stop[r].of}
  /\ stop[r].answer = "end_test_failed" => endedBy[r] = 0
  /\ stop[r].at = "settling" => endedBy[r] = stop[r].of /\ stop[r].of # 0
  /\ stop[r].answer = "stopped" => IsOver(stop[r].of, session, phase)

StopInv ==
  /\ StopTypeOK
  /\ phase # "edit" => session # 0
  /\ \A r \in StopRequests : StopOf(r)

-----------------------------------------------------------------------------
\* The fields of what a request is about.
LEMMA StopFields ==
  ASSUME StopInv, NEW r \in StopRequests
  PROVE  /\ stop[r] \in Stop /\ stop[r].of \in Nat /\ endedBy[r] \in Nat /\ session \in Nat
         /\ stop[r].at \in {"none", "waiting", "settling", "answered"}
         /\ result \in Results /\ monitor.last \in Results
         /\ result.id \in StopRequests \cup {NoStop} /\ result.ok \in BOOLEAN
         /\ monitor.last.id \in StopRequests \cup {NoStop} /\ monitor.last.ok \in BOOLEAN
         /\ monitor.since \subseteq StopRequests
         /\ StopOf(r) /\ r # NoStop
  BY NoStopAssumption DEF StopInv, StopTypeOK, Stop, Results

\* What leaves alone what became of a request, and lets it into the setting only
\* if it was there or waits to be delivered again.
LEMMA KeepsTrue ==
  ASSUME StopInv, NEW r \in StopRequests,
         UNCHANGED <<result, endedBy>>, monitor'.last = monitor.last,
         r \in monitor'.since => r \in monitor.since,
         session' \in Nat, session =< session',
         MonitorRuns' => MonitorRuns /\ session' = session,
         IsOver(stop[r].of, session, phase) => IsOver(stop[r].of, session', phase'),
         slot' \in {slot, NoStop} \/ pendingRequest' # r \/ slot' = r,
         slot' = r => r \in {slot, pendingRequest},
         pendingRequest' = r => pendingRequest = r,
         stop'[r].of = stop[r].of,
         stop'[r].at = "none" => stop'[r] = stop[r],
         stop'[r].at = "settling" => stop[r].at = "settling" \/ (result.id = r /\ result.ok),
         stop'[r].answer = "end_test_failed"
           => stop[r].answer = "end_test_failed" \/ (result.id = r /\ ~result.ok),
         stop'[r].answer = "stopped" => stop[r].answer = "stopped" \/ IsOver(stop[r].of, session', phase')
  PROVE  StopOf(r)'
<1>1. StopOf(r)
  BY DEF StopInv
<1>2. Seen(r)' => Seen(r)
  <2>1. stop'[r].at = "settling" => stop[r].at = "settling" \/ r = result.id
    OBVIOUS
  <2>2. stop'[r].answer = "end_test_failed" => stop[r].answer = "end_test_failed" \/ r = result.id
    OBVIOUS
  <2> QED
    BY <2>1, <2>2 DEF Seen
<1>3. stop'[r].at = "none" => IsNew(r)'
  BY <1>1, StopFields DEF StopOf, IsNew
<1>4. MonitorRuns' /\ r \in monitor'.since => SinceIsTrue(r)'
  BY <1>1, <1>2, StopFields DEF StopOf, SinceIsTrue
<1>5. ResultIsTrue(result, r)' /\ ResultIsTrue(monitor.last, r)'
  BY <1>1 DEF StopOf, ResultIsTrue
<1>6. /\ stop'[r].answer = "end_test_failed" => endedBy'[r] = 0
      /\ stop'[r].at = "settling" => endedBy'[r] = stop'[r].of /\ stop'[r].of # 0
  <2>1. result.id = r /\ ~result.ok => endedBy[r] = 0
    BY <1>1 DEF StopOf, ResultIsTrue
  <2>2. result.id = r /\ result.ok => endedBy[r] = stop[r].of /\ stop[r].of # 0
    BY <1>1 DEF StopOf, ResultIsTrue
  <2>3. /\ stop[r].answer = "end_test_failed" => endedBy[r] = 0
        /\ stop[r].at = "settling" => endedBy[r] = stop[r].of /\ stop[r].of # 0
    BY <1>1 DEF StopOf
  <2> QED
    BY <2>1, <2>2, <2>3
<1>7. stop'[r].of =< session' /\ endedBy'[r] \in {0, stop'[r].of}
  <2>1. session \in Nat /\ stop[r].of \in Nat
    BY StopFields
  <2>2. stop[r].of =< session /\ endedBy[r] \in {0, stop[r].of}
    BY <1>1 DEF StopOf
  <2> QED
    BY <2>1, <2>2
<1>8. stop'[r].answer = "stopped" => IsOver(stop[r].of, session', phase')
  BY <1>1 DEF StopOf
<1> QED
  BY <1>3, <1>4, <1>5, <1>6, <1>7, <1>8 DEF StopOf

\* The monitor acts on a request that it was not asked to act on before.
LEMMA ActsOnce ==
  ASSUME StopInv, NEW r \in StopRequests, NEW ok \in BOOLEAN, NEW q \in StopRequests,
         phase # "edit", MonitorRuns, MonitorRuns',
         slot = r, r \in monitor.since, monitor.last.id # r,
         UNCHANGED <<slot, pendingRequest, stop, session>>,
         monitor'.last = Result(r, ok), monitor'.since = monitor.since,
         result' \in {Result(r, ok), result},
         endedBy' = IF ok THEN [endedBy EXCEPT ![r] = session] ELSE endedBy
  PROVE  StopOf(q)'
<1>1. StopOf(r) /\ StopOf(q) /\ ~Seen(r) /\ stop[r].of = session /\ session # 0
  BY DEF StopInv, StopOf, SinceIsTrue
<1>2. r # NoStop /\ q # NoStop
  BY NoStopAssumption
<1>3. /\ endedBy[r] = 0 /\ result.id # r /\ stop[r].at \notin {"none", "settling"}
      /\ stop[r].answer # "end_test_failed"
  BY <1>1 DEF Seen, StopOf, IsNew
<1>4. /\ endedBy'[r] = IF ok THEN session ELSE 0
      /\ q # r => endedBy'[q] = endedBy[q]
  BY <1>3 DEF StopInv, StopTypeOK
<1>5. monitor'.last.id = r /\ monitor'.last.ok = ok
      /\ (result' = result \/ (result'.id = r /\ result'.ok = ok))
  BY DEF Result
<1>6. ResultIsTrue(result, q)' /\ ResultIsTrue(monitor.last, q)'
  BY <1>1, <1>3, <1>4, <1>5 DEF StopOf, ResultIsTrue
<1>7. /\ stop[q].at = "none" => IsNew(q)'
      /\ endedBy'[q] \in {0, stop[q].of}
      /\ stop[q].answer = "end_test_failed" => endedBy'[q] = 0
      /\ stop[q].at = "settling" => endedBy'[q] = stop[q].of
  BY <1>1, <1>3, <1>4, <1>5 DEF StopOf, IsNew
<1>8. q \in monitor.since => SinceIsTrue(q)'
  <2>1. CASE q = r
    BY <1>1, <1>5, <2>1 DEF SinceIsTrue
  <2>2. CASE q # r
    <3>1. Seen(q)' => Seen(q)
      BY <1>4, <1>5, <2>2 DEF Seen
    <3>2. q \in monitor.since => SinceIsTrue(q)
      BY <1>1 DEF StopOf
    <3> QED
      BY <1>2, <2>2, <3>1, <3>2 DEF SinceIsTrue
  <2> QED
    BY <2>1, <2>2
<1>9. IsOver(stop[q].of, session, phase) => IsOver(stop[q].of, session', phase')
  BY DEF IsOver, MonitorRuns
<1> QED
  BY <1>1, <1>6, <1>7, <1>8, <1>9 DEF StopOf

-----------------------------------------------------------------------------
\* One step per action; most of them are of one of two kinds (<1>2, <1>17).
LEMMA StopStep == StopInv /\ [StopNext]_stopVars => StopInv'
<1> SUFFICES ASSUME StopInv, [StopNext]_stopVars PROVE StopInv'
  OBVIOUS
<1> USE NoStopAssumption
<1>a. StopTypeOK /\ (phase # "edit" => session # 0)
  BY DEF StopInv
\* The edit session's calls.
<1>1. ASSUME NEW r \in StopRequests, Requests(r) PROVE StopInv'
  <2> DEFINE made == [at |-> "waiting", answer |-> "none", active |-> testRunning \/ ~EditModeActive,
                      of |-> IF EditModeActive THEN 0 ELSE session]
  <2>1. /\ made \in Stop /\ made.at = "waiting" /\ made.answer = "none"
        /\ made.of = (IF EditModeActive THEN 0 ELSE session)
    BY <1>a, StopFields DEF Stop, StopReplies, StopTypeOK
  <2>2. /\ stop' = [stop EXCEPT ![r] = made] /\ pendingRequest' = r /\ slot' \in {r, slot}
        /\ monitor' = [monitor EXCEPT !.since = IF MonitorRuns THEN @ \cup {r} ELSE @]
        /\ UNCHANGED <<result, session, phase, testRunning, tasks, expired, endedBy>>
        /\ stop[r].at = "none"
    BY <1>1 DEF Requests, Sets, playVars
  <2> HIDE DEF made
  <2>3. /\ StopTypeOK' /\ stop'[r] = made /\ \A q \in StopRequests \ {r} : stop'[q] = stop[q]
        /\ monitor'.last = monitor.last
        /\ monitor'.since = IF MonitorRuns THEN monitor.since \cup {r} ELSE monitor.since
    BY <1>a, <2>1, <2>2 DEF StopTypeOK
  <2>4. StopOf(r)'
    <3>1. IsNew(r) /\ ~Seen(r)'
      BY <2>1, <2>2, <2>3, StopFields DEF StopOf, IsNew, Seen
    <3>2. stop'[r].of =< session' /\ stop'[r].at # "none" /\ stop'[r].at # "settling"
          /\ stop'[r].answer = "none" /\ endedBy'[r] = 0
      BY <2>1, <2>2, <2>3, <3>1, StopFields DEF IsNew
    <3>3. ResultIsTrue(result, r)' /\ ResultIsTrue(monitor.last, r)'
      BY <2>2, <2>3, <3>1 DEF IsNew, ResultIsTrue
    <3>4. MonitorRuns' /\ r \in monitor'.since => SinceIsTrue(r)'
      BY <2>1, <2>2, <2>3, <3>1 DEF SinceIsTrue, MonitorRuns, EditModeActive
    <3> QED
      BY <3>2, <3>3, <3>4 DEF StopOf
  <2>5. ASSUME NEW q \in StopRequests \ {r} PROVE StopOf(q)'
    <3>1. /\ session' = session /\ session \in Nat /\ q # NoStop
          /\ MonitorRuns' = MonitorRuns /\ phase' = phase
      BY <2>2, StopFields DEF MonitorRuns
    <3>2. session =< session'
      BY <3>1
    <3> QED
      BY <2>2, <2>3, <3>1, <3>2, KeepsTrue
  <2> QED
    BY <1>a, <2>2, <2>3, <2>4, <2>5 DEF StopInv
\* What the callers do after it, and what becomes of the setting.
<1>2. ASSUME NEW r \in StopRequests, NEW c \in Stop, stop' = [stop EXCEPT ![r] = c],
             c.of = stop[r].of, c.at # "none" \/ c = stop[r],
             c.at = "settling" => stop[r].at = "settling" \/ (result.id = r /\ result.ok),
             c.answer = "end_test_failed"
               => stop[r].answer = "end_test_failed" \/ (result.id = r /\ ~result.ok),
             c.answer = "stopped" => stop[r].answer = "stopped" \/ EditModeActive,
             slot' \in {slot, NoStop} \/ (slot' = r /\ pendingRequest = r),
             pendingRequest' \in {pendingRequest, NoStop},
             UNCHANGED <<result, playVars, monitor, endedBy>>
      PROVE  StopInv'
  <2>1. StopTypeOK'
    BY <1>2, <1>a DEF StopTypeOK, playVars
  <2>2. stop'[r] = c /\ \A q \in StopRequests \ {r} : stop'[q] = stop[q]
    BY <1>2, <1>a DEF StopTypeOK
  <2>3. ASSUME NEW q \in StopRequests PROVE StopOf(q)'
    <3>1. /\ session' = session /\ session \in Nat /\ session =< session'
          /\ MonitorRuns' = MonitorRuns /\ q # NoStop
          /\ IsOver(stop[q].of, session, phase) \/ EditModeActive
               => IsOver(stop[q].of, session', phase')
      <4>1. session' = session /\ phase' = phase
        BY <1>2 DEF playVars
      <4>2. session \in Nat /\ q # NoStop
        BY StopFields
      <4> QED
        BY <4>1, <4>2 DEF MonitorRuns, IsOver, EditModeActive
    <3>2. /\ slot' \in {slot, NoStop} \/ pendingRequest' # q \/ slot' = q
          /\ slot' = q => q \in {slot, pendingRequest}
          /\ pendingRequest' = q => pendingRequest = q
      <4>1. CASE slot' \in {slot, NoStop}
        BY <1>2, <3>1, <4>1
      <4>2. CASE slot' = r /\ pendingRequest = r
        BY <1>2, <3>1, <4>2
      <4> QED
        BY <1>2, <4>1, <4>2
    <3>3. CASE q = r
      BY <1>2, <2>2, <3>1, <3>2, <3>3, KeepsTrue
    <3>4. CASE q # r
      BY <1>2, <2>2, <3>1, <3>2, <3>4, KeepsTrue
    <3> QED
      BY <3>3, <3>4
  <2> QED
    BY <1>2, <1>a, <2>1, <2>3 DEF StopInv, playVars
<1>3. ASSUME NEW r \in StopRequests
      PROVE  stop = [stop EXCEPT ![r] = stop[r]] /\ stop[r] \in Stop
  BY <1>a DEF StopTypeOK
<1>4. ASSUME NEW r \in StopRequests, RequestFails(r) PROVE StopInv'
  <2> DEFINE c == [stop[r] EXCEPT !.at = "answered", !.answer = "not_ready"]
  <2>1. /\ c \in Stop /\ c.of = stop[r].of /\ c.at = "answered"
        /\ c.answer = "not_ready"
    BY <1>3 DEF Stop, StopReplies
  <2>2. stop' = [stop EXCEPT ![r] = c]
    BY <1>4 DEF RequestFails
  <2> HIDE DEF c
  <2> QED
    BY <1>2, <1>4, <2>1, <2>2 DEF RequestFails, playVars
<1>5. ASSUME NEW r \in StopRequests, StopAccepted(r) PROVE StopInv'
  <2> DEFINE c == [stop[r] EXCEPT !.at = "settling"]
  <2>1. /\ c \in Stop /\ c.of = stop[r].of /\ c.at = "settling"
        /\ c.answer = stop[r].answer
    BY <1>3 DEF Stop, StopReplies
  <2>2. stop' = [stop EXCEPT ![r] = c]
    BY <1>5 DEF StopAccepted
  <2> HIDE DEF c
  <2> QED
    BY <1>2, <1>5, <2>1, <2>2, ZenonT(60) DEF StopAccepted, Clears, Sets, playVars, Result
<1>6. ASSUME NEW r \in StopRequests, StopRefused(r) PROVE StopInv'
  <2> DEFINE c == [stop[r] EXCEPT !.at = "answered", !.answer = (IF testRunning THEN "not_acknowledged" ELSE "end_test_failed")]
  <2>1. /\ c \in Stop /\ c.of = stop[r].of /\ c.at = "answered"
        /\ c.answer = (IF testRunning THEN "not_acknowledged" ELSE "end_test_failed")
    BY <1>3 DEF Stop, StopReplies
  <2>2. stop' = [stop EXCEPT ![r] = c]
    BY <1>6 DEF StopRefused, StopAnswers
  <2> HIDE DEF c
  <2> QED
    BY <1>2, <1>6, <2>1, <2>2 DEF StopRefused, StopAnswers, Clears, Sets, playVars, Result
<1>7. ASSUME NEW r \in StopRequests, StopTimesOut(r) PROVE StopInv'
  <2> DEFINE c == [stop[r] EXCEPT !.at = "answered", !.answer = (CASE stop[r].active /\ ~testRunning /\ EditModeActive -> "stopped"
                  [] testRunning -> "not_acknowledged"
                  [] OTHER       -> "no_active_playtest")]
  <2>1. /\ c \in Stop /\ c.of = stop[r].of /\ c.at = "answered"
        /\ c.answer = (CASE stop[r].active /\ ~testRunning /\ EditModeActive -> "stopped"
                  [] testRunning -> "not_acknowledged"
                  [] OTHER       -> "no_active_playtest")
    BY <1>3 DEF Stop, StopReplies
  <2>2. stop' = [stop EXCEPT ![r] = c]
    BY <1>7 DEF StopTimesOut, StopAnswers
  <2> HIDE DEF c
  <2> QED
    BY <1>2, <1>7, <2>1, <2>2 DEF StopTimesOut, StopAnswers, Clears, Sets, playVars
<1>8. ASSUME NEW r \in StopRequests, StopSettles(r) PROVE StopInv'
  <2> DEFINE c == [stop[r] EXCEPT !.at = "answered", !.answer = "stopped"]
  <2>1. /\ c \in Stop /\ c.of = stop[r].of /\ c.at = "answered"
        /\ c.answer = "stopped"
    BY <1>3 DEF Stop, StopReplies
  <2>2. stop' = [stop EXCEPT ![r] = c]
    BY <1>8 DEF StopSettles, StopAnswers
  <2> HIDE DEF c
  <2> QED
    BY <1>2, <1>8, <2>1, <2>2 DEF StopSettles, StopAnswers, playVars
<1>9. ASSUME NEW r \in StopRequests, SettlingTimesOut(r) PROVE StopInv'
  <2> DEFINE c == [stop[r] EXCEPT !.at = "answered", !.answer = "teardown_incomplete"]
  <2>1. /\ c \in Stop /\ c.of = stop[r].of /\ c.at = "answered"
        /\ c.answer = "teardown_incomplete"
    BY <1>3 DEF Stop, StopReplies
  <2>2. stop' = [stop EXCEPT ![r] = c]
    BY <1>9 DEF SettlingTimesOut, StopAnswers
  <2> HIDE DEF c
  <2> QED
    BY <1>2, <1>9, <2>1, <2>2 DEF SettlingTimesOut, StopAnswers, playVars
<1>10. ASSUME NEW r \in StopRequests, Redelivers(r) PROVE StopInv'
  BY <1>2, <1>3, <1>10 DEF Redelivers
<1>11. ASSUME NEW r \in StopRequests, Expires(r) PROVE StopInv'
  BY <1>2, <1>3, <1>11 DEF Expires
<1>12. ASSUME NEW r \in StopRequests, Drops(r) PROVE StopInv'
  BY <1>2, <1>3, <1>12 DEF Drops, Finds
\* The monitor.
<1>13. ASSUME NEW r \in StopRequests, Republishes(r) PROVE StopInv'
  <2>1. StopTypeOK' /\ result' = monitor.last /\ monitor.last.id = r
    BY <1>13, <1>a, StopFields DEF Republishes, Handled, StopTypeOK, playVars
  <2>2. ASSUME NEW q \in StopRequests PROVE StopOf(q)'
    <3>1. StopOf(q)
      BY StopFields
    <3>2. UNCHANGED <<slot, pendingRequest, stop, session, phase, monitor, endedBy>>
      BY <1>13 DEF Republishes, playVars
    <3>3. Seen(q)' => Seen(q)
      BY <2>1, <3>2 DEF Seen
    <3>4. stop[q].at = "none" => IsNew(q)'
      BY <2>1, <3>1, <3>2 DEF StopOf, IsNew
    <3>5. MonitorRuns /\ q \in monitor.since => SinceIsTrue(q)'
      BY <3>1, <3>2, <3>3 DEF StopOf, SinceIsTrue
    <3>6. ResultIsTrue(result, q)' /\ ResultIsTrue(monitor.last, q)'
      BY <2>1, <3>1, <3>2 DEF StopOf, ResultIsTrue
    <3> QED
      BY <3>1, <3>2, <3>4, <3>5, <3>6 DEF StopOf, MonitorRuns, IsOver
  <2> QED
    BY <1>13, <1>a, <2>1, <2>2 DEF StopInv, Republishes, playVars
<1>14. ASSUME NEW r \in StopRequests, RefusesIssued(r) PROVE StopInv'
  <2>1. /\ Result(r, FALSE) \in Results
        /\ monitor' = [monitor EXCEPT !.last = Result(r, FALSE), !.issued = TRUE]
        /\ result' \in {Result(r, FALSE), result}
    BY <1>14 DEF RefusesIssued, WritesResult, SetsResult, Results, Result
  <2>2. monitor'.last = Result(r, FALSE) /\ monitor'.since = monitor.since
    BY <1>a, <2>1 DEF StopTypeOK
  <2>3. /\ UNCHANGED <<slot, pendingRequest, stop, session>> /\ phase # "edit"
        /\ MonitorRuns /\ MonitorRuns' /\ phase' \in Phases /\ phase' # "edit"
        /\ slot = r /\ r \in monitor.since /\ monitor.last.id # r
        /\ endedBy' = endedBy
        /\ testRunning' = testRunning
    BY <1>14, <1>a DEF RefusesIssued, Finds, Stale, Handled, MonitorRuns, Phases, playVars
  <2>4. StopTypeOK'
    BY <1>a, <2>1, <2>3 DEF StopTypeOK
  <2>5. ASSUME NEW q \in StopRequests PROVE StopOf(q)'
    BY <2>1, <2>2, <2>3, ActsOnce
  <2> QED
    BY <1>a, <2>3, <2>4, <2>5 DEF StopInv
<1>15. ASSUME NEW r \in StopRequests, EndTestSucceeds(r) PROVE StopInv'
  <2>1. /\ Result(r, TRUE) \in Results
        /\ monitor' = [monitor EXCEPT !.last = Result(r, TRUE), !.issued = TRUE]
        /\ result' \in {Result(r, TRUE), result}
    BY <1>15 DEF EndTestSucceeds, WritesResult, SetsResult, Results, Result
  <2>2. monitor'.last = Result(r, TRUE) /\ monitor'.since = monitor.since
    BY <1>a, <2>1 DEF StopTypeOK
  <2>3. /\ UNCHANGED <<slot, pendingRequest, stop, session>> /\ phase # "edit"
        /\ MonitorRuns /\ MonitorRuns' /\ phase' \in Phases /\ phase' # "edit"
        /\ slot = r /\ r \in monitor.since /\ monitor.last.id # r
        /\ endedBy' = [endedBy EXCEPT ![r] = session]
        /\ testRunning' = testRunning
    BY <1>15, <1>a DEF EndTestSucceeds, Finds, Stale, Handled, MonitorRuns, Phases, playVars
  <2>4. StopTypeOK'
    BY <1>a, <2>1, <2>3 DEF StopTypeOK
  <2>5. ASSUME NEW q \in StopRequests PROVE StopOf(q)'
    BY <2>1, <2>2, <2>3, ActsOnce
  <2> QED
    BY <1>a, <2>3, <2>4, <2>5 DEF StopInv
<1>16. ASSUME NEW r \in StopRequests, EndTestFails(r) PROVE StopInv'
  <2>1. /\ Result(r, FALSE) \in Results
        /\ monitor' = [monitor EXCEPT !.last = Result(r, FALSE), !.issued = FALSE]
        /\ result' \in {Result(r, FALSE), result}
    BY <1>16 DEF EndTestFails, WritesResult, SetsResult, Results, Result
  <2>2. monitor'.last = Result(r, FALSE) /\ monitor'.since = monitor.since
    BY <1>a, <2>1 DEF StopTypeOK
  <2>3. /\ UNCHANGED <<slot, pendingRequest, stop, session>> /\ phase # "edit"
        /\ MonitorRuns /\ MonitorRuns' /\ phase' \in Phases /\ phase' # "edit"
        /\ slot = r /\ r \in monitor.since /\ monitor.last.id # r
        /\ endedBy' = endedBy
        /\ testRunning' = testRunning
    BY <1>16, <1>a DEF EndTestFails, Finds, Stale, Handled, MonitorRuns, Phases, playVars
  <2>4. StopTypeOK'
    BY <1>a, <2>1, <2>3 DEF StopTypeOK
  <2>5. ASSUME NEW q \in StopRequests PROVE StopOf(q)'
    BY <2>1, <2>2, <2>3, ActsOnce
  <2> QED
    BY <1>a, <2>3, <2>4, <2>5 DEF StopInv
\* The plays.
<1>17. ASSUME UNCHANGED <<slot, result, pendingRequest, stop, monitor, endedBy>>,
             session' \in Nat, session =< session', phase' \in Phases, testRunning' \in BOOLEAN,
             MonitorRuns' => MonitorRuns /\ session' = session,
             \A q \in StopRequests :
               IsOver(stop[q].of, session, phase) => IsOver(stop[q].of, session', phase'),
             phase' # "edit" => session' # 0
      PROVE  StopInv'
  <2>1. StopTypeOK'
    BY <1>17, <1>a DEF StopTypeOK
  <2>2. ASSUME NEW q \in StopRequests PROVE StopOf(q)'
    BY <1>17, KeepsTrue, StopFields
  <2> QED
    BY <1>17, <2>1, <2>2 DEF StopInv
<1>18. ASSUME NEW tracked \in BOOLEAN, Starts(tracked) PROVE StopInv'
  <2>1. /\ UNCHANGED <<slot, result, pendingRequest, stop, monitor, endedBy>>
        /\ session' = session + 1 /\ phase' = "starting" /\ testRunning' \in BOOLEAN
    BY <1>18, <1>a DEF Starts, StopTypeOK
  <2>2. session \in Nat
    BY <1>a DEF StopTypeOK
  <2>3. \A q \in StopRequests : stop[q].of < session'
    BY <2>1, <2>2, StopFields DEF StopOf
  <2>4. /\ session' \in Nat /\ session =< session' /\ phase' \in Phases /\ ~MonitorRuns'
        /\ \A q \in StopRequests : IsOver(stop[q].of, session', phase')
        /\ session' # 0
    BY <2>1, <2>2, <2>3 DEF Phases, MonitorRuns, IsOver
  <2> QED
    BY <1>17, <2>1, <2>4
<1>19. CASE GoesDown
  BY <1>17, <1>19, <1>a DEF GoesDown, StopTypeOK, Phases, MonitorRuns, IsOver, EditModeActive, playVars
<1>20. CASE BackToEdit
  BY <1>17, <1>20, <1>a DEF BackToEdit, StopTypeOK, Phases, MonitorRuns, IsOver, EditModeActive, playVars
<1>21. ASSUME NEW m \in tasks, TaskEnds(m) PROVE StopInv'
  <2>1. /\ UNCHANGED <<slot, result, pendingRequest, stop, session, phase, monitor, endedBy>>
        /\ testRunning' \in BOOLEAN /\ session \in Nat /\ phase \in Phases
    BY <1>21, <1>a DEF TaskEnds, StopTypeOK
  <2>2. MonitorRuns' = MonitorRuns /\ session =< session'
    BY <2>1 DEF MonitorRuns
  <2> QED
    BY <1>17, <1>a, <2>1, <2>2
<1>22. CASE UNCHANGED stopVars
  BY <1>17, <1>22, <1>a DEF stopVars, StopTypeOK, Phases, MonitorRuns, IsOver, EditModeActive, playVars
<1>23. CASE Loads
  <2>1. /\ phase = "starting" /\ phase' = "up" /\ session # 0
        /\ monitor'.last.id = NoStop /\ monitor'.since = {}
        /\ UNCHANGED <<slot, result, pendingRequest, stop, session, testRunning, endedBy>>
    BY <1>23, <1>a DEF Loads, NewMonitor, NoResult, Result
  <2>2. StopTypeOK'
    BY <1>23, <1>a, <2>1 DEF Loads, StopTypeOK, NewMonitor, NoResult, Result, Results, Phases
  <2>3. ASSUME NEW q \in StopRequests PROVE StopOf(q)'
    BY <2>1, StopFields DEF StopOf, IsNew, ResultIsTrue, IsOver
  <2> QED
    BY <2>1, <2>2, <2>3 DEF StopInv
<1> QED
  BY <1>1, <1>4, <1>5, <1>6, <1>7, <1>8, <1>9, <1>10, <1>11, <1>12, <1>13, <1>14, <1>15, <1>16, <1>18, <1>19, <1>20, <1>21, <1>22, <1>23 DEF StopNext

\* The invariant of the requests to stop, of both ends of the two settings
\* (stopPlaytest, handleStopRequest).
THEOREM StopInvariant == StopSpec => []StopInv
<1>1. StopInit => StopInv
  <2> SUFFICES ASSUME StopInit PROVE StopInv
    OBVIOUS
  <2>1. /\ slot = NoStop /\ pendingRequest = NoStop /\ result = NoResult
        /\ session = 0 /\ phase = "edit" /\ testRunning = FALSE /\ monitor = NewMonitor
        /\ endedBy = [r \in StopRequests |-> 0]
    BY DEF StopInit
  <2>2. /\ NoResult \in Results /\ NoResult.id = NoStop
        /\ NewMonitor.last = NoResult /\ NewMonitor.since = {}
        /\ NewMonitor \in [issued : BOOLEAN, last : Results, since : SUBSET StopRequests]
    BY DEF NoResult, Result, Results, NewMonitor
  <2>3. /\ stop \in [StopRequests -> Stop]
        /\ \A r \in StopRequests : stop[r].at = "none" /\ stop[r].answer = "none" /\ stop[r].of = 0
    BY DEF StopInit, Stop, StopReplies
  <2>4. StopTypeOK
    BY <2>1, <2>2, <2>3 DEF StopTypeOK, Phases
  <2>5. ASSUME NEW r \in StopRequests PROVE StopOf(r)
    BY <2>1, <2>2, <2>3, NoStopAssumption DEF StopOf, IsNew, ResultIsTrue
  <2> QED
    BY <2>1, <2>4, <2>5 DEF StopInv
<1> QED
  BY <1>1, StopStep, PTL DEF StopSpec

\* For any calls and plays: a request ends the play it was made in or none, and
\* its caller is told the truth of it (stopPlaytest, handleStopRequest).
THEOREM StopsAreTrue == StopSpec => []StopIsTrue
<1>1. StopInv => StopIsTrue
  BY DEF StopInv, StopOf, IsOver, PlayIsOver, StopIsTrue
<1> QED
  BY <1>1, StopInvariant, PTL

-----------------------------------------------------------------------------
(***************************************************************************)
(* Writers of the scripts keep faith with each other, for any scripts and  *)
(* calls.  Whoever writes but the run only adds to a text it expects or    *)
(* replaces it by one without the run's change, so no text gets that       *)
(* change back once it is without it, and none becomes again what the run  *)
(* wrote.                                                                  *)
(***************************************************************************)
Changes == Writers \cup {Draft}

Writes ==
  [at : {"none", "asked", "called"}, script : 0 .. NumScripts, expected : SUBSET Changes,
   new : SUBSET Changes, checked : BOOLEAN]

Statuses == {"none", "applied", "failed", "not_attempted", "restored", "restore_failed"}

WritesTypeOK ==
  /\ text \in [Scripts -> SUBSET Changes] /\ kept \in [Scripts -> SUBSET Changes]
  /\ write \in [Writers -> Writes]
  /\ run \in [phase : {"idle", "applying", "done", "restoring", "failed"},
              at : 0 .. NumScripts, failedAt : 0 .. NumScripts]
  /\ planned \in [Scripts -> SUBSET Changes]
  /\ status \in [Scripts -> Statuses]

\* A handler adds its change to what it read, or to nothing.
EditIsTrue(c) ==
  write[c].at # "none" =>
    /\ write[c].script \in Scripts
    /\ write[c].new = (IF write[c].checked THEN write[c].expected \cup {c} ELSE {c})

\* What the run asks for at the script it is at.
Asks(expected, new) ==
  /\ run.at \in Scripts
  /\ write[Replace].at # "none" /\ write[Replace].script = run.at
  /\ write[Replace].expected = expected /\ write[Replace].new = new /\ write[Replace].checked

\* The run is over with the script, which holds its text where it says so only.
Settled(s) ==
  \/ status[s] = "restore_failed"
  \/ status[s] \in {"restored", "not_attempted"} /\ Replace \notin text[s]
  \/ status[s] = "failed" /\ text[s] # New(s) /\ (Replace \in text[s] => New(s) \subseteq text[s])

RunIsTrue ==
  /\ run.phase = "idle" => \A s \in Scripts : Replace \notin text[s]
  /\ run.phase \in {"idle", "done", "failed"} => write[Replace].at = "none"
  /\ run.phase \in {"applying", "restoring"} => \A s \in Scripts : Replace \notin planned[s]
  /\ run.phase = "applying" =>
       /\ Asks(planned[run.at], New(run.at))
       /\ \A s \in Scripts : s > run.at => Replace \notin text[s]
       /\ write[Replace].at = "asked" => Replace \notin text[run.at]
       /\ Replace \in text[run.at] => New(run.at) \subseteq text[run.at]
  /\ run.phase = "restoring" =>
       /\ Asks(New(run.at), planned[run.at])
       /\ \A s \in Scripts : s > run.at => Settled(s)
  /\ run.phase = "failed" => \A s \in Scripts : Settled(s)

WritesInv ==
  /\ WritesTypeOK
  /\ \A s \in Scripts : kept[s] \subseteq text[s]
  /\ \A c \in EditCalls : EditIsTrue(c)
  /\ RunIsTrue

-----------------------------------------------------------------------------
LEMMA WritesFields ==
  ASSUME WritesInv, NEW w \in Writers
  PROVE  /\ write[w] \in Writes
         /\ write[w].at \in {"none", "asked", "called"} /\ write[w].checked \in BOOLEAN
         /\ write[w].expected \subseteq Changes /\ write[w].new \subseteq Changes
         /\ Replace \in Writers /\ Writers \subseteq Changes /\ Replace \notin EditCalls
         /\ Draft # Replace /\ Draft \in Changes
  BY ChangesAssumption DEF WritesInv, WritesTypeOK, Writes, Changes, Writers

LEMMA RunFields ==
  ASSUME WritesInv
  PROVE  /\ run.phase \in {"idle", "applying", "done", "restoring", "failed"}
         /\ run.at \in 0 .. NumScripts /\ run.failedAt \in 0 .. NumScripts
         /\ NumScripts \in Nat \ {0} /\ 1 \in Scripts
         /\ \A s \in Scripts : /\ s \in Nat /\ planned[s] \subseteq Changes /\ text[s] \subseteq Changes
                               /\ New(s) \subseteq Changes /\ Replace \in New(s)
                               /\ kept[s] \subseteq text[s]
         /\ \A s \in Scripts : s # NumScripts => s + 1 \in Scripts
         /\ \A s \in Scripts : s - 1 \in 0 .. NumScripts /\ (s - 1 # 0 => s - 1 \in Scripts)
  BY NumScriptsAssumption DEF WritesInv, WritesTypeOK, Scripts, New, Changes, Writers

\* A write that finds what it expects keeps what is to be kept.
LEMMA PutsKeeps ==
  ASSUME WritesInv, NEW w \in Writes, w.script \in Scripts, MayAssign(w), Puts(w)
  PROVE  /\ text' \in [Scripts -> SUBSET Changes] /\ kept' \in [Scripts -> SUBSET Changes]
         /\ \A s \in Scripts : kept'[s] \subseteq text'[s]
         /\ text' = [text EXCEPT ![w.script] = w.new]
<1>1. w.new \subseteq Changes /\ w.checked \in BOOLEAN
  BY DEF Writes
<1>2. StillKept(w) \subseteq w.new
  BY RunFields DEF StillKept, MayAssign
<1> QED
  BY <1>1, <1>2 DEF Puts, WritesInv, WritesTypeOK

\* What others than the run do to a text: it does not get the run's change, and if
\* it keeps that change it keeps everything.
Tame(s) == Replace \in text'[s] => Replace \in text[s] /\ text[s] \subseteq text'[s]

LEMMA EditIsTame ==
  ASSUME WritesInv, NEW c \in EditCalls, write[c].at # "none", MayAssign(write[c]),
         text' = [text EXCEPT ![write[c].script] = write[c].new], NEW s \in Scripts
  PROVE  Tame(s)
<1>1. /\ write[c].script \in Scripts /\ c # Replace
      /\ write[c].new = (IF write[c].checked THEN write[c].expected \cup {c} ELSE {c})
  BY ChangesAssumption DEF WritesInv, EditIsTrue
<1>2. text \in [Scripts -> SUBSET Changes]
  BY DEF WritesInv, WritesTypeOK
<1>3. CASE s = write[c].script
  BY <1>1, <1>2, <1>3 DEF Tame, MayAssign
<1>4. CASE s # write[c].script
  BY <1>2, <1>4 DEF Tame
<1> QED
  BY <1>3, <1>4

\* A settled script stays so.
LEMMA TameIsSettled ==
  ASSUME NEW s \in Scripts, Settled(s), Tame(s), status'[s] = status[s], planned' = planned
  PROVE  Settled(s)'
<1>1. Replace \in New(s) /\ New(s)' = New(s)
  BY DEF New
<1>2. CASE status[s] = "failed" /\ text[s] # New(s) /\ (Replace \in text[s] => New(s) \subseteq text[s])
  BY <1>1, <1>2 DEF Settled, Tame
<1>3. CASE status[s] \in {"restored", "not_attempted"} /\ Replace \notin text[s]
  BY <1>3 DEF Settled, Tame
<1>4. CASE status[s] = "restore_failed"
  BY <1>4 DEF Settled
<1> QED
  BY <1>2, <1>3, <1>4 DEF Settled

\* Whatever others do, the run's part of the invariant stays.
LEMMA TameKeepsRun ==
  ASSUME WritesInv, \A s \in Scripts : Tame(s), UNCHANGED <<run, planned, status>>,
         write'[Replace] = write[Replace]
  PROVE  RunIsTrue'
<1>1. RunIsTrue /\ run' = run /\ planned' = planned /\ status' = status
  BY DEF WritesInv
<1>2. \A s \in Scripts : New(s)' = New(s) /\ (Settled(s) => Settled(s)')
  BY <1>1, TameIsSettled DEF New
<1>3. CASE run.phase = "idle"
  BY <1>1, <1>3 DEF RunIsTrue, Tame
<1>4. CASE run.phase = "applying"
  <2>1. /\ Asks(planned[run.at], New(run.at)) /\ \A s \in Scripts : Replace \notin planned[s]
        /\ \A s \in Scripts : s > run.at => Replace \notin text[s]
        /\ write[Replace].at = "asked" => Replace \notin text[run.at]
        /\ Replace \in text[run.at] => New(run.at) \subseteq text[run.at]
        /\ run.at \in Scripts
    BY <1>1, <1>4 DEF RunIsTrue, Asks
  <2>2. New(run.at)' = New(run.at)
    BY <1>1 DEF New
  <2>3. Asks(planned[run.at], New(run.at))'
    BY <1>1, <2>1, <2>2 DEF Asks
  <2>4. /\ \A s \in Scripts : s > run.at => Replace \notin text'[s]
        /\ write'[Replace].at = "asked" => Replace \notin text'[run.at]
        /\ Replace \in text'[run.at] => New(run.at) \subseteq text'[run.at]
    BY <2>1 DEF Tame
  <2> QED
    BY <1>1, <1>4, <2>1, <2>2, <2>3, <2>4 DEF RunIsTrue
<1>5. CASE run.phase = "restoring"
  <2>1. /\ Asks(New(run.at), planned[run.at]) /\ \A s \in Scripts : Replace \notin planned[s]
        /\ \A s \in Scripts : s > run.at => Settled(s)
    BY <1>1, <1>5 DEF RunIsTrue
  <2>2. Asks(New(run.at), planned[run.at])'
    BY <1>1, <2>1 DEF Asks, New
  <2> QED
    BY <1>1, <1>2, <1>5, <2>1, <2>2 DEF RunIsTrue
<1>6. CASE run.phase = "failed"
  BY <1>1, <1>2, <1>6 DEF RunIsTrue
<1>7. CASE run.phase = "done"
  BY <1>1, <1>7 DEF RunIsTrue
<1> QED
  BY <1>3, <1>4, <1>5, <1>6, <1>7, RunFields

-----------------------------------------------------------------------------
\* A step of a handler, or of the user.
LEMMA OthersKeep ==
  ASSUME WritesInv, NEW c \in EditCalls, NEW w \in Writes, write' = [write EXCEPT ![c] = w],
         w.at # "none" => /\ w.script \in Scripts
                          /\ w.new = (IF w.checked THEN w.expected \cup {c} ELSE {c}),
         UNCHANGED <<run, planned, status>>,
         text' \in [Scripts -> SUBSET Changes], kept' \in [Scripts -> SUBSET Changes],
         \A s \in Scripts : Tame(s) /\ kept'[s] \subseteq text'[s]
  PROVE  WritesInv'
<1>1. /\ write' \in [Writers -> Writes] /\ write'[c] = w
      /\ \A d \in Writers \ {c} : write'[d] = write[d]
  BY DEF WritesInv, WritesTypeOK, Writers
<1>2. write'[Replace] = write[Replace] /\ EditCalls \subseteq Writers
  BY <1>1, ChangesAssumption DEF Writers
<1>3. WritesTypeOK'
  BY <1>1 DEF WritesInv, WritesTypeOK
<1>4. ASSUME NEW d \in EditCalls PROVE EditIsTrue(d)'
  BY <1>1, <1>2 DEF WritesInv, EditIsTrue
<1>5. RunIsTrue'
  BY <1>2, TameKeepsRun
<1> QED
  BY <1>3, <1>4, <1>5 DEF WritesInv

\* The run asks for its next write, or for no more.
LEMMA RunGoesOn ==
  ASSUME WritesInv, NEW w \in Writes, write' = [write EXCEPT ![Replace] = w],
         run' \in [phase : {"idle", "applying", "done", "restoring", "failed"},
                   at : 0 .. NumScripts, failedAt : 0 .. NumScripts],
         planned' \in [Scripts -> SUBSET Changes], status' \in [Scripts -> Statuses],
         text' \in [Scripts -> SUBSET Changes], kept' \in [Scripts -> SUBSET Changes],
         \A s \in Scripts : kept'[s] \subseteq text'[s],
         RunIsTrue'
  PROVE  WritesInv' /\ write'[Replace] = w
<1>1. /\ write' \in [Writers -> Writes] /\ write'[Replace] = w
      /\ \A d \in EditCalls : write'[d] = write[d]
  BY ChangesAssumption DEF WritesInv, WritesTypeOK, Writers
<1>2. WritesTypeOK'
  BY <1>1 DEF WritesTypeOK
<1>3. \A d \in EditCalls : EditIsTrue(d)'
  BY <1>1 DEF WritesInv, EditIsTrue
<1> QED
  BY <1>1, <1>2, <1>3 DEF WritesInv

\* What a run asks for is a write.
LEMMA RunWrites ==
  ASSUME WritesInv, NEW s \in Scripts
  PROVE  /\ Write(s, planned[s], New(s), TRUE) \in Writes
         /\ Write(s, New(s), planned[s], TRUE) \in Writes
         /\ NoWrite \in Writes /\ NoWrite.at = "none"
<1>1. planned[s] \in SUBSET Changes /\ New(s) \in SUBSET Changes /\ s \in 0 .. NumScripts /\ 0 \in 0 .. NumScripts
  BY RunFields DEF Scripts
<1> QED
  BY <1>1 DEF Write, NoWrite, Writes

\* From script s on, backwards, when what comes after it is settled.
LEMMA RestoresOn ==
  ASSUME WritesInv, NEW s \in 0 .. NumScripts, NEW f \in 0 .. NumScripts, RestoresFrom(s, f),
         planned' = planned, \A t \in Scripts : Replace \notin planned[t],
         status' \in [Scripts -> Statuses],
         text' \in [Scripts -> SUBSET Changes], kept' \in [Scripts -> SUBSET Changes],
         \A t \in Scripts : kept'[t] \subseteq text'[t],
         \A t \in Scripts : t > s => Settled(t)'
  PROVE  WritesInv'
<1>1. planned' \in [Scripts -> SUBSET Changes]
  BY DEF WritesInv, WritesTypeOK
<1>2. \A t \in Scripts : New(t)' = New(t) /\ t \in Nat /\ t > 0
  BY NumScriptsAssumption DEF New, Scripts
<1>3. write \in [Writers -> Writes] /\ Replace \in Writers
  BY WritesFields DEF WritesInv, WritesTypeOK, Writers
<1>4. CASE s = 0
  <2>1. run' = [phase |-> "failed", at |-> 0, failedAt |-> f] /\ write' = [write EXCEPT ![Replace] = NoWrite]
    BY <1>4 DEF RestoresFrom
  <2>2. /\ run' \in [phase : {"idle", "applying", "done", "restoring", "failed"},
                     at : 0 .. NumScripts, failedAt : 0 .. NumScripts]
        /\ run'.phase = "failed"
    BY <1>4, <2>1
  <2>3. write'[Replace].at = "none" /\ NoWrite \in Writes
    BY <1>3, <2>1, RunWrites, RunFields
  <2>4. RunIsTrue'
    BY <1>2, <1>4, <2>2, <2>3 DEF RunIsTrue
  <2> QED
    BY <1>1, <2>1, <2>2, <2>3, <2>4, RunGoesOn
<1>5. CASE s # 0
  <2> DEFINE w == Write(s, New(s), planned[s], TRUE)
  <2>1. /\ run' = [phase |-> "restoring", at |-> s, failedAt |-> f]
        /\ write' = [write EXCEPT ![Replace] = w] /\ s \in Scripts
    <3>1. s \in Scripts
      BY <1>5, NumScriptsAssumption DEF Scripts
    <3> QED
      BY <1>5, <3>1 DEF RestoresFrom
  <2>2. /\ run' \in [phase : {"idle", "applying", "done", "restoring", "failed"},
                     at : 0 .. NumScripts, failedAt : 0 .. NumScripts]
        /\ run'.phase = "restoring" /\ run'.at = s
    BY <2>1
  <2>3. w \in Writes /\ w.at = "asked" /\ w.script = s /\ w.expected = New(s) /\ w.new = planned[s] /\ w.checked
    BY <2>1, RunWrites DEF Write
  <2> HIDE DEF w
  <2>4. write'[Replace] = w
    BY <1>3, <2>1, <2>3
  <2>5. Asks(New(run.at), planned[run.at])'
    BY <1>2, <2>1, <2>2, <2>3, <2>4 DEF Asks
  <2>6. RunIsTrue'
    BY <2>2, <2>5 DEF RunIsTrue
  <2> QED
    BY <1>1, <2>1, <2>2, <2>3, <2>6, RunGoesOn
<1> QED
  BY <1>4, <1>5

-----------------------------------------------------------------------------
\* The handlers, the user, and the callback of UpdateSourceAsync.
LEMMA EditsKeep ==
  ASSUME WritesInv, NEW c \in EditCalls,
         \/ \E s \in Scripts, checked \in BOOLEAN : EditBegins(c, s, checked)
         \/ EditVerified(c) \/ EditAssigned(c) \/ EditFails(c)
         \/ CallbackWrites(c) \/ NothingIsWritten(c)
  PROVE  WritesInv'
<1>1. c \in Writers /\ c \in Changes /\ write[c] \in Writes /\ EditIsTrue(c)
  BY WritesFields DEF Writers, WritesInv
<1>2. /\ text \in [Scripts -> SUBSET Changes] /\ kept \in [Scripts -> SUBSET Changes]
      /\ \A s \in Scripts : kept[s] \subseteq text[s]
  BY DEF WritesInv, WritesTypeOK
<1>3. NoWrite \in Writes /\ NoWrite.at = "none"
  BY RunWrites, RunFields
<1>4. text' = text => \A s \in Scripts : Tame(s)
  BY DEF Tame
<1>5. ASSUME NEW s \in Scripts, NEW checked \in BOOLEAN, EditBegins(c, s, checked) PROVE WritesInv'
  <2> DEFINE new == IF checked THEN text[s] \cup {c} ELSE {c}
             w == Write(s, text[s], new, checked)
  <2>1. text[s] \in SUBSET Changes /\ new \in SUBSET Changes /\ s \in 0 .. NumScripts
    BY <1>1, <1>2 DEF Scripts
  <2>2. w \in Writes /\ w.script = s /\ w.expected = text[s] /\ w.new = new /\ w.checked = checked
    <3> HIDE DEF new
    <3> QED
      BY <1>5, <2>1 DEF Write, Writes
  <2>3. w.new = (IF w.checked THEN w.expected \cup {c} ELSE {c})
    BY <2>2
  <2>4. write' = [write EXCEPT ![c] = w] /\ UNCHANGED <<text, kept, run, planned, status>>
    BY <1>5 DEF EditBegins
  <2> HIDE DEF w
  <2> QED
    BY <1>2, <1>4, <1>5, <2>2, <2>3, <2>4, OthersKeep
<1>6. CASE EditVerified(c)
  <2>1. /\ write[c].script \in Scripts /\ c \in write[c].new /\ text[write[c].script] = write[c].new
        /\ text' = text /\ kept' = [kept EXCEPT ![write[c].script] = @ \cup {c}]
        /\ write' = [write EXCEPT ![c] = NoWrite] /\ UNCHANGED <<run, planned, status>>
    BY <1>1, <1>6 DEF EditVerified, EditSucceeds, Verified, EditIsTrue
  <2>2. kept' \in [Scripts -> SUBSET Changes] /\ \A s \in Scripts : kept'[s] \subseteq text'[s]
    BY <1>1, <1>2, <2>1
  <2> QED
    BY <1>2, <1>3, <1>4, <2>1, <2>2, OthersKeep
<1>7. CASE EditAssigned(c)
  <2> DEFINE w == write[c]
  <2>1. /\ w.at # "none" /\ w.script \in Scripts /\ c \in w.new /\ MayAssign(w) /\ w \in Writes
        /\ text' = [text EXCEPT ![w.script] = w.new]
        /\ kept' = [kept EXCEPT ![w.script] = StillKept(w) \cup {c}]
        /\ write' = [write EXCEPT ![c] = NoWrite] /\ UNCHANGED <<run, planned, status>>
    BY <1>1, <1>7 DEF EditAssigned, EditSucceeds, EditIsTrue
  <2>2. StillKept(w) \cup {c} \subseteq w.new /\ w.new \subseteq Changes
    BY <1>1, <1>2, <2>1, WritesFields DEF StillKept, MayAssign
  <2>3. /\ text' \in [Scripts -> SUBSET Changes] /\ kept' \in [Scripts -> SUBSET Changes]
        /\ \A s \in Scripts : kept'[s] \subseteq text'[s]
    BY <1>2, <2>1, <2>2
  <2>4. \A s \in Scripts : Tame(s)
    BY <2>1, EditIsTame
  <2> QED
    BY <1>3, <2>1, <2>3, <2>4, OthersKeep
<1>8. CASE EditFails(c)
  BY <1>2, <1>3, <1>4, <1>8, OthersKeep DEF EditFails
<1>9. ASSUME write[c].at = "asked", write' = [write EXCEPT ![c].at = "called"],
             UNCHANGED <<run, planned, status>>,
             text' \in [Scripts -> SUBSET Changes], kept' \in [Scripts -> SUBSET Changes],
             \A s \in Scripts : Tame(s) /\ kept'[s] \subseteq text'[s]
      PROVE  WritesInv'
  <2> DEFINE w == [write[c] EXCEPT !.at = "called"]
  <2>1. /\ w \in Writes /\ w.script = write[c].script /\ w.expected = write[c].expected
        /\ w.new = write[c].new /\ w.checked = write[c].checked
    BY <1>1 DEF Writes
  <2>2. /\ w.script \in Scripts /\ w.new = (IF w.checked THEN w.expected \cup {c} ELSE {c})
    BY <1>1, <1>9, <2>1 DEF EditIsTrue
  <2>3. write' = [write EXCEPT ![c] = w]
    BY <1>9
  <2> HIDE DEF w
  <2> QED
    BY <1>9, <2>1, <2>2, <2>3, OthersKeep
<1>10. CASE CallbackWrites(c)
  <2>1. /\ write[c].at = "asked" /\ MayAssign(write[c]) /\ Puts(write[c])
        /\ write' = [write EXCEPT ![c].at = "called"] /\ UNCHANGED <<run, planned, status>>
        /\ write[c].script \in Scripts
    BY <1>1, <1>10 DEF CallbackWrites, MayAssign, EditIsTrue
  <2>2. /\ text' \in [Scripts -> SUBSET Changes] /\ kept' \in [Scripts -> SUBSET Changes]
        /\ \A s \in Scripts : kept'[s] \subseteq text'[s]
        /\ text' = [text EXCEPT ![write[c].script] = write[c].new]
    BY <1>1, <2>1, PutsKeeps
  <2>3. \A s \in Scripts : Tame(s)
    BY <2>1, <2>2, EditIsTame
  <2> QED
    BY <1>9, <2>1, <2>2, <2>3
<1>11. CASE NothingIsWritten(c)
  BY <1>2, <1>4, <1>9, <1>11 DEF NothingIsWritten
<1> QED
  BY <1>5, <1>6, <1>7, <1>8, <1>10, <1>11

LEMMA UserKeeps ==
  ASSUME WritesInv, NEW s \in Scripts, UserTypes(s) \/ UserUndoes(s)
  PROVE  WritesInv'
<1>1. /\ text \in [Scripts -> SUBSET Changes] /\ kept \in [Scripts -> SUBSET Changes]
      /\ \A t \in Scripts : kept[t] \subseteq text[t]
      /\ Draft # Replace /\ Draft \in Changes
      /\ UNCHANGED <<write, run, planned, status>>
  BY WritesFields DEF WritesInv, WritesTypeOK, UserTypes, UserUndoes, Writers
<1>2. /\ text' \in [Scripts -> SUBSET Changes] /\ kept' \in [Scripts -> SUBSET Changes]
      /\ \A t \in Scripts : kept'[t] \subseteq text'[t] /\ Tame(t)
  <2>1. CASE UserTypes(s)
    BY <1>1, <2>1 DEF UserTypes, Tame
  <2>2. CASE UserUndoes(s)
    BY <1>1, <2>2 DEF UserUndoes, Tame
  <2> QED
    BY <2>1, <2>2
<1>3. RunIsTrue'
  BY <1>1, <1>2, TameKeepsRun
<1>4. WritesTypeOK' /\ \A c \in EditCalls : EditIsTrue(c)'
  BY <1>1, <1>2 DEF WritesInv, WritesTypeOK, EditIsTrue
<1> QED
  BY <1>2, <1>3, <1>4 DEF WritesInv

-----------------------------------------------------------------------------
\* The run's own write, while it yields.
LEMMA RunYields ==
  ASSUME WritesInv, CallbackWrites(Replace) \/ NothingIsWritten(Replace)
  PROVE  WritesInv'
<1> DEFINE w == [write[Replace] EXCEPT !.at = "called"]
<1>0. write[Replace] \in Writes /\ Replace \in Writers
  BY WritesFields DEF Writers
<1>1. /\ write[Replace] \in Writes /\ w \in Writes /\ w.at = "called"
      /\ w.script = write[Replace].script /\ w.expected = write[Replace].expected
      /\ w.new = write[Replace].new /\ w.checked = write[Replace].checked
  BY <1>0 DEF Writes
<1>2. /\ write[Replace].at = "asked" /\ write' = [write EXCEPT ![Replace] = w]
      /\ UNCHANGED <<run, planned, status>>
  BY DEF CallbackWrites, NothingIsWritten
<1> HIDE DEF w
<1>3. run.phase \in {"applying", "restoring"} /\ RunIsTrue
  BY <1>2, RunFields DEF WritesInv, RunIsTrue
<1>4. /\ run.at \in Scripts /\ write[Replace].script = run.at /\ write[Replace].checked
      /\ \A s \in Scripts : Replace \notin planned[s]
  BY <1>3 DEF RunIsTrue, Asks
<1>5. /\ text' \in [Scripts -> SUBSET Changes] /\ kept' \in [Scripts -> SUBSET Changes]
      /\ \A s \in Scripts : kept'[s] \subseteq text'[s]
      /\ text' = text \/ text' = [text EXCEPT ![run.at] = write[Replace].new]
  <2>1. CASE CallbackWrites(Replace)
    <3>1. MayAssign(write[Replace]) /\ Puts(write[Replace])
      BY <2>1 DEF CallbackWrites, MayAssign
    <3> QED
      BY <1>1, <1>4, <3>1, PutsKeeps
  <2>2. CASE NothingIsWritten(Replace)
    BY <2>2 DEF NothingIsWritten, WritesInv, WritesTypeOK
  <2> QED
    BY <2>1, <2>2
<1>6. /\ run' \in [phase : {"idle", "applying", "done", "restoring", "failed"},
                   at : 0 .. NumScripts, failedAt : 0 .. NumScripts]
      /\ planned' \in [Scripts -> SUBSET Changes] /\ status' \in [Scripts -> Statuses]
      /\ write'[Replace] = w /\ text \in [Scripts -> SUBSET Changes]
  BY <1>0, <1>2 DEF WritesInv, WritesTypeOK
<1>7. \A s \in Scripts : New(s)' = New(s) /\ Replace \in New(s) /\ s \in Nat
  BY <1>2, RunFields DEF New
<1>8. \A s \in Scripts \ {run.at} : text'[s] = text[s]
  BY <1>5, <1>6
<1>9. RunIsTrue'
  <2>1. CASE run.phase = "applying"
    <3>1. /\ Asks(planned[run.at], New(run.at))
          /\ \A s \in Scripts : s > run.at => Replace \notin text[s]
          /\ Replace \in text[run.at] => New(run.at) \subseteq text[run.at]
      BY <1>3, <2>1 DEF RunIsTrue
    <3>2. Asks(planned[run.at], New(run.at))'
      BY <1>1, <1>2, <1>4, <1>6, <1>7, <3>1 DEF Asks
    <3>3. text'[run.at] \in {text[run.at], New(run.at)}
      BY <1>4, <1>5, <1>6, <3>1 DEF Asks
    <3>4. \A s \in Scripts : s > run.at => Replace \notin text'[s]
      BY <1>4, <1>7, <1>8, <3>1
    <3>5. Replace \in text'[run.at] => New(run.at) \subseteq text'[run.at]
      BY <3>1, <3>3
    <3>6. run' = run /\ planned' = planned /\ New(run.at)' = New(run.at) /\ write'[Replace].at = "called"
      BY <1>1, <1>2, <1>6 DEF New
    <3> QED
      BY <1>4, <2>1, <3>2, <3>4, <3>5, <3>6 DEF RunIsTrue
  <2>2. CASE run.phase = "restoring"
    <3>1. Asks(New(run.at), planned[run.at]) /\ \A s \in Scripts : s > run.at => Settled(s)
      BY <1>3, <2>2 DEF RunIsTrue
    <3>2. Asks(New(run.at), planned[run.at])'
      BY <1>1, <1>2, <1>4, <1>6, <1>7, <3>1 DEF Asks
    <3>3. ASSUME NEW s \in Scripts, s > run.at PROVE Settled(s)'
      <4>1. text'[s] = text[s] /\ Settled(s)
        BY <1>4, <1>7, <1>8, <3>1, <3>3
      <4> QED
        BY <1>2, <1>7, <4>1 DEF Settled
    <3> QED
      BY <1>2, <1>4, <2>2, <3>2, <3>3 DEF RunIsTrue
  <2> QED
    BY <1>3, <2>1, <2>2
<1> QED
  BY <1>1, <1>2, <1>5, <1>6, <1>9, RunGoesOn

\* The script at hand is written: the next one has not been.
LEMMA AppliedKeeps ==
  ASSUME WritesInv, run.phase = "applying", Applied,
         text' \in [Scripts -> SUBSET Changes], kept' \in [Scripts -> SUBSET Changes],
         \A s \in Scripts : kept'[s] \subseteq text'[s],
         \A s \in Scripts \ {run.at} : text'[s] = text[s]
  PROVE  WritesInv'
<1>1. /\ run.at \in Scripts /\ \A s \in Scripts : Replace \notin planned[s]
      /\ \A s \in Scripts : s > run.at => Replace \notin text[s]
  BY DEF WritesInv, RunIsTrue, Asks
<1>2. /\ status' \in [Scripts -> Statuses] /\ planned' \in [Scripts -> SUBSET Changes]
      /\ planned' = planned
      /\ run \in [phase : {"idle", "applying", "done", "restoring", "failed"},
                  at : 0 .. NumScripts, failedAt : 0 .. NumScripts]
      /\ write \in [Writers -> Writes] /\ Replace \in Writers
  BY <1>1 DEF Applied, WritesInv, WritesTypeOK, Statuses, Writers
<1>3. CASE run.at = NumScripts
  <2>1. run' = [run EXCEPT !.phase = "done"] /\ write' = [write EXCEPT ![Replace] = NoWrite]
    BY <1>3 DEF Applied
  <2>2. /\ run' \in [phase : {"idle", "applying", "done", "restoring", "failed"},
                     at : 0 .. NumScripts, failedAt : 0 .. NumScripts]
        /\ run'.phase = "done"
    BY <1>2, <2>1
  <2>3. NoWrite \in Writes /\ write'[Replace].at = "none"
    BY <1>1, <1>2, <2>1, RunWrites
  <2>4. RunIsTrue'
    BY <2>2, <2>3 DEF RunIsTrue
  <2> QED
    BY <1>2, <2>1, <2>2, <2>3, <2>4, RunGoesOn
<1>4. CASE run.at # NumScripts
  <2> DEFINE n == run.at + 1
             w == Write(n, planned[n], New(n), TRUE)
  <2>1. run' = [run EXCEPT !.at = n] /\ write' = [write EXCEPT ![Replace] = w]
    BY <1>4 DEF Applied
  <2>2. n \in Scripts /\ n > run.at /\ n # run.at /\ \A s \in Scripts : s > n => s > run.at /\ s # run.at
    BY <1>1, <1>4, RunFields
  <2>3. w \in Writes /\ w.at = "asked" /\ w.script = n /\ w.expected = planned[n] /\ w.new = New(n) /\ w.checked
    BY <2>2, RunWrites DEF Write
  <2> HIDE DEF n, w
  <2>4. n \in 0 .. NumScripts
    BY <2>2 DEF Scripts
  <2>5. /\ run' \in [phase : {"idle", "applying", "done", "restoring", "failed"},
                     at : 0 .. NumScripts, failedAt : 0 .. NumScripts]
        /\ run'.phase = "applying" /\ run'.at = n
    BY <1>2, <2>1, <2>4
  <2>6. write'[Replace] = w
    BY <1>2, <2>1, <2>3
  <2>7. Asks(planned[run.at], New(run.at))'
    BY <1>2, <2>2, <2>3, <2>5, <2>6 DEF Asks, New
  <2>8. /\ Replace \notin text'[n]
        /\ \A s \in Scripts : s > n => Replace \notin text'[s]
    BY <1>1, <2>2
  <2>9. RunIsTrue'
    BY <1>1, <1>2, <2>5, <2>7, <2>8 DEF RunIsTrue
  <2> QED
    BY <1>2, <2>1, <2>3, <2>5, <2>9, RunGoesOn
<1> QED
  BY <1>3, <1>4

\* The run plans, applies, and restores.
LEMMA RunKeeps ==
  ASSUME WritesInv,
         \/ RunPlans \/ AppliedVerified \/ AppliedAssigned
         \/ ApplyFails \/ RestoreAssigned \/ RestoreEnds
  PROVE  WritesInv'
<1>1. /\ text \in [Scripts -> SUBSET Changes] /\ kept \in [Scripts -> SUBSET Changes]
      /\ \A s \in Scripts : kept[s] \subseteq text[s]
      /\ write \in [Writers -> Writes] /\ Replace \in Writers /\ Replace \in Changes
      /\ status \in [Scripts -> Statuses] /\ planned \in [Scripts -> SUBSET Changes]
      /\ RunIsTrue /\ 1 \in Scripts
  BY NumScriptsAssumption DEF WritesInv, WritesTypeOK, Writers, Changes, Scripts
<1>2. CASE RunPlans
  <2> DEFINE w == Write(1, text[1], text[1] \cup {Replace}, TRUE)
  <2>1. /\ run' = [phase |-> "applying", at |-> 1, failedAt |-> 0]
        /\ write' = [write EXCEPT ![Replace] = w] /\ planned' = text
        /\ UNCHANGED <<text, kept, status>> /\ \A s \in Scripts : Replace \notin text[s]
    BY <1>1, <1>2 DEF RunPlans, RunIsTrue
  <2>2. /\ w \in Writes /\ w.at = "asked" /\ w.script = 1 /\ w.expected = text[1]
        /\ w.new = text[1] \cup {Replace} /\ w.checked
    <3>1. text[1] \in SUBSET Changes /\ text[1] \cup {Replace} \in SUBSET Changes /\ 1 \in 0 .. NumScripts
      BY <1>1 DEF Scripts
    <3> QED
      BY <3>1 DEF Write, Writes
  <2> HIDE DEF w
  <2>3. /\ run' \in [phase : {"idle", "applying", "done", "restoring", "failed"},
                     at : 0 .. NumScripts, failedAt : 0 .. NumScripts]
        /\ run'.phase = "applying" /\ run'.at = 1
    BY <2>1, NumScriptsAssumption
  <2>4. write'[Replace] = w /\ New(1)' = text[1] \cup {Replace}
    BY <1>1, <2>1, <2>2 DEF New
  <2>5. Asks(planned[run.at], New(run.at))'
    BY <1>1, <2>1, <2>2, <2>3, <2>4 DEF Asks, New
  <2>6. RunIsTrue'
    BY <1>1, <2>1, <2>3, <2>5 DEF RunIsTrue
  <2> QED
    BY <1>1, <2>1, <2>2, <2>3, <2>6, RunGoesOn
<1>3. ASSUME run.phase = "applying"
      PROVE  /\ run.at \in Scripts /\ write[Replace].script = run.at /\ write[Replace].checked
             /\ write[Replace].expected = planned[run.at] /\ write[Replace].new = New(run.at)
             /\ \A s \in Scripts : Replace \notin planned[s]
             /\ \A s \in Scripts : s > run.at => Replace \notin text[s]
             /\ Replace \in text[run.at] => New(run.at) \subseteq text[run.at]
  BY <1>1, <1>3 DEF RunIsTrue, Asks
<1>4. CASE AppliedVerified
  <2>1. /\ run.phase = "applying" /\ text[run.at] = New(run.at) /\ text' = text
        /\ kept' = [kept EXCEPT ![run.at] = @ \cup {Replace}] /\ Applied
    BY <1>3, <1>4 DEF AppliedVerified, Verified
  <2>2. kept' \in [Scripts -> SUBSET Changes] /\ \A s \in Scripts : kept'[s] \subseteq text'[s]
    BY <1>1, <1>3, <2>1 DEF New
  <2> QED
    BY <1>1, <2>1, <2>2, AppliedKeeps
<1>5. CASE AppliedAssigned
  <2>1. /\ run.phase = "applying" /\ text[run.at] = planned[run.at] /\ Applied
        /\ text' = [text EXCEPT ![run.at] = New(run.at)]
        /\ kept' = [kept EXCEPT ![run.at] = @ \cup {Replace}]
    BY <1>3, <1>5 DEF AppliedAssigned, MayAssign
  <2>2. kept[run.at] \cup {Replace} \subseteq New(run.at) /\ New(run.at) \subseteq Changes
    BY <1>1, <1>3, <2>1 DEF New
  <2>3. /\ text' \in [Scripts -> SUBSET Changes] /\ kept' \in [Scripts -> SUBSET Changes]
        /\ \A s \in Scripts : kept'[s] \subseteq text'[s]
        /\ \A s \in Scripts \ {run.at} : text'[s] = text[s]
    BY <1>1, <1>3, <2>1, <2>2
  <2> QED
    BY <2>1, <2>3, AppliedKeeps
<1>6. CASE ApplyFails
  <2>1. /\ run.phase = "applying" /\ RestoresFrom(FirstToRestore, run.at)
        /\ UNCHANGED <<text, kept, planned>>
        /\ status' = [s \in Scripts |-> CASE s < run.at -> "applied"
                                          [] s = run.at -> "failed"
                                          [] OTHER      -> "not_attempted"]
    BY <1>6 DEF ApplyFails
  <2>2. /\ run.at \in 0 .. NumScripts /\ FirstToRestore \in 0 .. NumScripts
        /\ FirstToRestore \in {run.at, run.at - 1}
        /\ FirstToRestore # run.at => text[run.at] # New(run.at)
        /\ \A s \in Scripts : s > FirstToRestore => s > run.at \/ (s = run.at /\ FirstToRestore # run.at)
    BY <1>3, <2>1, RunFields DEF FirstToRestore
  <2>3. ASSUME NEW s \in Scripts, s > FirstToRestore PROVE Settled(s)'
    <3>1. CASE s > run.at
      <4>1. status'[s] = "not_attempted"
        BY <1>3, <2>1, <3>1, RunFields
      <4> QED
        BY <1>3, <2>1, <3>1, <4>1 DEF Settled
    <3>2. CASE s = run.at /\ FirstToRestore # run.at
      <4>1. status'[s] = "failed"
        BY <1>3, <2>1, <3>2, RunFields
      <4> QED
        BY <1>3, <2>1, <2>2, <3>2, <4>1 DEF Settled, New
    <3> QED
      BY <2>2, <2>3, <3>1, <3>2
  <2>4. status' \in [Scripts -> Statuses]
    BY <2>1 DEF Statuses
  <2> QED
    BY <1>1, <1>3, <2>1, <2>2, <2>3, <2>4, RestoresOn
<1>7. ASSUME run.phase = "restoring"
      PROVE  /\ run.at \in Scripts /\ write[Replace].script = run.at /\ write[Replace].checked
             /\ write[Replace].expected = New(run.at) /\ write[Replace].new = planned[run.at]
             /\ \A s \in Scripts : Replace \notin planned[s]
             /\ \A s \in Scripts : s > run.at => Settled(s)
  BY <1>1, <1>7 DEF RunIsTrue, Asks
<1>8. ASSUME run.phase = "restoring", NEW outcome \in {"restored", "restore_failed"}, Restored(outcome),
             text' \in [Scripts -> SUBSET Changes], kept' \in [Scripts -> SUBSET Changes],
             \A s \in Scripts : kept'[s] \subseteq text'[s],
             \A s \in Scripts \ {run.at} : text'[s] = text[s],
             outcome = "restored" => Replace \notin text'[run.at]
      PROVE  WritesInv'
  <2>1. /\ status' = [status EXCEPT ![run.at] = outcome] /\ planned' = planned
        /\ RestoresFrom(run.at - 1, run.failedAt)
    BY <1>8 DEF Restored
  <2>2. run.at - 1 \in 0 .. NumScripts /\ run.failedAt \in 0 .. NumScripts
    BY <1>7, <1>8, RunFields
  <2>3. status' \in [Scripts -> Statuses] /\ status'[run.at] = outcome
    BY <1>1, <1>7, <1>8, <2>1 DEF Statuses
  <2>4. ASSUME NEW s \in Scripts, s > run.at - 1 PROVE Settled(s)'
    <3>1. CASE s = run.at
      BY <1>8, <2>3, <3>1 DEF Settled
    <3>2. CASE s # run.at
      <4>1. Settled(s) /\ text'[s] = text[s] /\ status'[s] = status[s] /\ New(s)' = New(s)
        BY <1>1, <1>7, <1>8, <2>1, <2>4, <3>2, RunFields DEF New
      <4> QED
        BY <4>1 DEF Settled
    <3> QED
      BY <3>1, <3>2
  <2> QED
    BY <1>7, <1>8, <2>1, <2>2, <2>3, <2>4, RestoresOn
<1>9. CASE RestoreAssigned
  <2>1. /\ run.phase = "restoring" /\ MayAssign(write[Replace]) /\ Puts(write[Replace])
        /\ Restored("restored")
    BY <1>9 DEF RestoreAssigned
  <2>2. /\ text' \in [Scripts -> SUBSET Changes] /\ kept' \in [Scripts -> SUBSET Changes]
        /\ \A s \in Scripts : kept'[s] \subseteq text'[s]
        /\ text' = [text EXCEPT ![run.at] = planned[run.at]]
    BY <1>1, <1>7, <2>1, PutsKeeps
  <2> QED
    BY <1>1, <1>7, <1>8, <2>1, <2>2
<1>10. CASE RestoreEnds
  <2>1. /\ run.phase = "restoring" /\ UNCHANGED <<text, kept>>
        /\ Restored(IF text[run.at] = planned[run.at] THEN "restored" ELSE "restore_failed")
    BY <1>10 DEF RestoreEnds
  <2>2. CASE text[run.at] = planned[run.at]
    BY <1>1, <1>7, <1>8, <2>1, <2>2
  <2>3. CASE text[run.at] # planned[run.at]
    BY <1>1, <1>7, <1>8, <2>1, <2>3
  <2> QED
    BY <2>2, <2>3
<1> QED
  BY <1>2, <1>4, <1>5, <1>6, <1>9, <1>10

-----------------------------------------------------------------------------
LEMMA WritesStep == WritesInv /\ [WritesNext]_writeVars => WritesInv'
<1> SUFFICES ASSUME WritesInv, [WritesNext]_writeVars PROVE WritesInv'
  OBVIOUS
<1>1. ASSUME NEW w \in Writers, CallbackWrites(w) \/ NothingIsWritten(w) PROVE WritesInv'
  BY <1>1, EditsKeep, RunYields DEF Writers
<1>2. ASSUME NEW c \in EditCalls,
             \/ \E s \in Scripts, checked \in BOOLEAN : EditBegins(c, s, checked)
             \/ EditVerified(c) \/ EditAssigned(c) \/ EditFails(c)
      PROVE  WritesInv'
  BY <1>2, EditsKeep
<1>3. CASE RunPlans \/ AppliedVerified \/ AppliedAssigned \/ ApplyFails \/ RestoreAssigned \/ RestoreEnds
  BY <1>3, RunKeeps
<1>4. ASSUME NEW s \in Scripts, UserTypes(s) \/ UserUndoes(s) PROVE WritesInv'
  BY <1>4, UserKeeps
<1>5. CASE UNCHANGED writeVars
  BY <1>5 DEF writeVars, WritesInv, WritesTypeOK, EditIsTrue, RunIsTrue, Asks, Settled, New
<1> QED
  BY <1>1, <1>2, <1>3, <1>4, <1>5 DEF WritesNext

\* The invariant of the scripts' writers (applyScriptSource, ScriptReplace.run).
THEOREM WritesInvariant == WritesSpec => []WritesInv
<1>1. WritesInit => WritesInv
  <2> SUFFICES ASSUME WritesInit PROVE WritesInv
    OBVIOUS
  <2>1. NoWrite \in Writes /\ NoWrite.at = "none" /\ Replace \in Writers
    BY NumScriptsAssumption DEF NoWrite, Writes, Writers
  <2>2. /\ text = [s \in Scripts |-> {}] /\ kept = [s \in Scripts |-> {}]
        /\ write = [w \in Writers |-> NoWrite] /\ run = [phase |-> "idle", at |-> 0, failedAt |-> 0]
        /\ planned = text /\ status = [s \in Scripts |-> "none"]
    BY DEF WritesInit
  <2>3. WritesTypeOK
    BY <2>1, <2>2, NumScriptsAssumption DEF WritesTypeOK, Statuses
  <2>4. \A c \in EditCalls : EditIsTrue(c)
    BY <2>1, <2>2 DEF EditIsTrue, Writers
  <2>5. RunIsTrue
    BY <2>1, <2>2 DEF RunIsTrue
  <2> QED
    BY <2>2, <2>3, <2>4, <2>5 DEF WritesInv
<1> QED
  BY <1>1, WritesStep, PTL DEF WritesSpec

\* For any scripts and calls: what a user typed or a caller was told is written is
\* not lost, and a replacement that failed leaves its text only where it says so
\* (applyScriptSource's comparison, the restoration of ScriptReplace.run).
THEOREM FaithIsKept == WritesSpec => []WritersKeepFaith
<1>1. WritesInv => WritersKeepFaith
  BY DEF WritesInv, RunIsTrue, Settled, New, WritersKeepFaith
<1> QED
  BY <1>1, WritesInvariant, PTL

=============================================================================
