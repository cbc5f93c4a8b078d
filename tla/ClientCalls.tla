---------------------------- MODULE ClientCalls ----------------------------
(***************************************************************************)
(* The requests the server Peer of a playtest forwards to one client       *)
(* through a RemoteFunction, which has no timeout of its own               *)
(* (dispatchClientRequest, invokeClient and handleClientInvoke of          *)
(* ClientBroker.ts), and the heartbeats by which it refuses to (see        *)
(* unresponsiveBridge).                                                    *)
(*                                                                         *)
(* Server and client read the same clock, so a request that reaches the    *)
(* client after the deadline its server waits for is refused there.  A     *)
(* capture is several such invocations; one is modelled.                   *)
(***************************************************************************)
CONSTANT ClientRequests

VARIABLES
  forwarded,        \* each request at the server: where it is and its executionOutcome
  envelope,         \* where it is between server and client
  handlers,         \* requests the client entered a handler for
  overdue,          \* past the deadline
  withdrawn,        \* context.isCancelled()
  reachable,        \* the proxy entry is current, and its Player there
  channelBeat,      \* the newest heartbeat: "none", "recent" or "stale"
  unanswered        \* lastTimeoutAt is set, and not before lastAnswerAt

clientCallVars == <<forwarded, envelope, handlers, overdue, withdrawn, reachable, channelBeat,
                    unanswered>>

\* "handler": what the handler's result says.
Forwarded == [at : {"new", "invoking", "settled"},
              outcome : {"none", "not_executed", "unknown", "handler"}]

ClientCallsInit ==
  /\ forwarded = [q \in ClientRequests |-> [at |-> "new", outcome |-> "none"]]
  /\ envelope = [q \in ClientRequests |-> "unsent"]
  /\ handlers = {} /\ overdue = {} /\ withdrawn = {}
  /\ reachable = TRUE
  /\ channelBeat = "none"
  /\ unanswered = FALSE

Ends(q, outcome) == forwarded' = [forwarded EXCEPT ![q] = [at |-> "settled", outcome |-> outcome]]

-----------------------------------------------------------------------------
(***************************************************************************)
(* The server.                                                             *)
(***************************************************************************)
IsNotRegistered(q) ==
  /\ forwarded[q].at = "new" /\ ~reachable
  /\ Ends(q, "handler")
  /\ UNCHANGED <<envelope, handlers, overdue, withdrawn, reachable, channelBeat, unanswered>>

\* unresponsiveBridge: a heartbeat that does not come is not enough.
Unresponsive == unanswered /\ channelBeat = "stale"

Inadmissible(q) == q \in withdrawn \cup overdue \/ Unresponsive

IsRefused(q) ==
  /\ forwarded[q].at = "new" /\ reachable /\ Inadmissible(q)
  /\ Ends(q, "not_executed")
  /\ UNCHANGED <<envelope, handlers, overdue, withdrawn, reachable, channelBeat, unanswered>>

Invokes(q) ==
  /\ forwarded[q].at = "new" /\ reachable /\ ~Inadmissible(q)
  /\ forwarded' = [forwarded EXCEPT ![q] = [at |-> "invoking", outcome |-> "unknown"]]
  /\ envelope' = [envelope EXCEPT ![q] = "sent"]
  /\ UNCHANGED <<handlers, overdue, withdrawn, reachable, channelBeat, unanswered>>

IsInterrupted(q) == q \in withdrawn \cup overdue \/ ~reachable
TimesOut(q) == q \in overdue \ withdrawn /\ reachable

\* A request that is late is refused by the client, so it did not run.
InterruptsAsRefused(q) ==
  /\ forwarded[q].at = "invoking" /\ IsInterrupted(q)
  /\ Ends(q, IF TimesOut(q) THEN "not_executed" ELSE "unknown")
  /\ unanswered' = (unanswered \/ TimesOut(q))
  /\ UNCHANGED <<envelope, handlers, overdue, withdrawn, reachable, channelBeat>>

\* invokeClient polls for its own end: only the local wait is over, the request
\* goes where it goes.
Interrupts(q) ==
  /\ forwarded[q].at = "invoking" /\ IsInterrupted(q)
  /\ Ends(q, "unknown")
  /\ unanswered' = (unanswered \/ TimesOut(q))
  /\ UNCHANGED <<envelope, handlers, overdue, withdrawn, reachable, channelBeat>>

\* InvokeClient returns: for a wait that is over only that it did, unless its
\* thread was cancelled in time.
Returns(q) ==
  /\ envelope[q] \in {"refused", "answered", "raised"}
  /\ envelope' = [envelope EXCEPT ![q] = "heard"]
  /\ IF forwarded[q].at = "invoking"
       THEN IF IsInterrupted(q)
              THEN /\ Ends(q, "unknown")
                   /\ unanswered' = (TimesOut(q) \/ (unanswered /\ envelope[q] = "raised"))
              ELSE /\ Ends(q, CASE envelope[q] = "refused" -> "not_executed"
                                [] envelope[q] = "answered" -> "handler"
                                [] OTHER -> "unknown")
                   /\ unanswered' = (unanswered /\ envelope[q] = "raised")
       ELSE /\ unanswered' \in {unanswered, unanswered /\ envelope[q] = "raised"}
            /\ UNCHANGED forwarded
  /\ UNCHANGED <<handlers, overdue, withdrawn, reachable, channelBeat>>

-----------------------------------------------------------------------------
(***************************************************************************)
(* The client, the channel and the clock.                                  *)
(***************************************************************************)
\* handleClientInvoke.
Receives(q) ==
  /\ envelope[q] = "sent"
  /\ IF q \in overdue
       THEN envelope' = [envelope EXCEPT ![q] = "refused"] /\ UNCHANGED handlers
       ELSE envelope' = [envelope EXCEPT ![q] = "running"] /\ handlers' = handlers \cup {q}
  /\ UNCHANGED <<forwarded, overdue, withdrawn, reachable, channelBeat, unanswered>>

\* A result, or an error that InvokeClient raises again.
Answers(q) ==
  /\ envelope[q] = "running"
  /\ \E reply \in {"answered", "raised"} : envelope' = [envelope EXCEPT ![q] = reply]
  /\ UNCHANGED <<forwarded, handlers, overdue, withdrawn, reachable, channelBeat, unanswered>>

\* The connection ends; what was on its way may have arrived.
Disconnects ==
  /\ reachable /\ reachable' = FALSE
  /\ \E lost \in SUBSET ClientRequests :
       /\ \A q \in lost : envelope[q] \in {"sent", "running", "refused", "answered"}
       /\ envelope' = [q \in ClientRequests |-> IF q \in lost THEN "raised" ELSE envelope[q]]
  /\ UNCHANGED <<forwarded, handlers, overdue, withdrawn, channelBeat, unanswered>>

DeadlinePasses(q) ==
  /\ q \notin overdue /\ overdue' = overdue \cup {q}
  /\ UNCHANGED <<forwarded, envelope, handlers, withdrawn, reachable, channelBeat, unanswered>>

IsWithdrawn(q) ==
  /\ q \notin withdrawn /\ withdrawn' = withdrawn \cup {q}
  /\ UNCHANGED <<forwarded, envelope, handlers, overdue, reachable, channelBeat, unanswered>>

Beats ==
  /\ channelBeat' \in {"recent", "stale"} \ {channelBeat}
  /\ channelBeat' = "stale" => channelBeat = "recent"
  /\ UNCHANGED <<forwarded, envelope, handlers, overdue, withdrawn, reachable, unanswered>>

ClientCallsNext ==
  \/ \E q \in ClientRequests : IsNotRegistered(q)
  \/ \E q \in ClientRequests : IsRefused(q)
  \/ \E q \in ClientRequests : Invokes(q)
  \/ \E q \in ClientRequests : Interrupts(q)
  \/ \E q \in ClientRequests : Returns(q)
  \/ \E q \in ClientRequests : Receives(q)
  \/ \E q \in ClientRequests : Answers(q)
  \/ Disconnects
  \/ \E q \in ClientRequests : DeadlinePasses(q)
  \/ \E q \in ClientRequests : IsWithdrawn(q)
  \/ Beats

ClientCallsSpec == ClientCallsInit /\ [][ClientCallsNext]_clientCallVars

-----------------------------------------------------------------------------
(***************************************************************************)
(* Properties.                                                             *)
(***************************************************************************)
ClientCallsTypeOK ==
  /\ forwarded \in [ClientRequests -> Forwarded]
  /\ envelope \in [ClientRequests -> {"unsent", "sent", "running", "refused", "answered",
                                      "raised", "heard"}]
  /\ handlers \subseteq ClientRequests
  /\ overdue \subseteq ClientRequests /\ withdrawn \subseteq ClientRequests
  /\ reachable \in BOOLEAN /\ unanswered \in BOOLEAN
  /\ channelBeat \in {"none", "recent", "stale"}

\* "Only the client's own pre-start refusal establishes that nothing ran": a
\* request said to be not executed never entered a handler of the client and is
\* not on its way to one, whatever its deadline, its cancellation, the
\* heartbeats and a late answer did to its wait (invokeClient, admitClientCall,
\* handleClientInvoke).
NotExecutedNeverRan ==
  \A q \in ClientRequests :
    forwarded[q].outcome = "not_executed" =>
      q \notin handlers /\ envelope[q] \notin {"sent", "running"}

=============================================================================
