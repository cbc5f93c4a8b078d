--------------------------- MODULE ClientProxies ---------------------------
(***************************************************************************)
(* How the server Peer of a playtest registers the client of one Player at *)
(* the MCP server (ClientBroker.ts): the proxy entry, its /ready and       *)
(* /disconnect requests and their retries.  Players do not share entries.  *)
(*                                                                         *)
(* A client VM has a Peer id of its own and, once another VM of the Player *)
(* has introduced itself, does not come back.  A request yields: it may    *)
(* fail at any moment, before the MCP server handles it or after, and      *)
(* requests may reach the server in any order.  Each request has a         *)
(* coroutine of its own that hears its answer, so answers are heard in any *)
(* order too.  A change of a Player's topology is a new generation of its  *)
(* entry; which topology it is, is left out.                               *)
(***************************************************************************)
EXTENDS Naturals, FiniteSets

CONSTANTS
  MaxClients,       \* bound: VMs of the Player
  MaxGenerations,   \* bound: generations of an entry
  MaxCopies         \* bound: requests alike that are not yet answered

ASSUME ClientProxiesAssumption == {MaxClients, MaxGenerations, MaxCopies} \subseteq Nat

VARIABLES
  entry,            \* proxyByPlayer: the Player's entry
  playing,          \* player.Parent: the Player is there
  introduced,       \* VMs that introduced themselves so far
  retries,          \* timers of scheduleProxyRetry
  disconnects,      \* pendingProxyDisconnects, and what each waits for
  posted,           \* requests not yet handled by the MCP server
  responses,        \* its answers, not yet heard
  registry,         \* the client Peers it has
  restarted,        \* it lost them, and the plugin has not connected again
  leftBehind        \* Peers whose clean-up was skipped; no state of the code

proxyVars == <<entry, playing, introduced, retries, disconnects, posted, responses, registry,
               restarted, leftBehind>>

Clients == 1 .. MaxClients
Generations == 0 .. MaxGenerations

Entry == [peer : Clients \cup {0}, generation : Generations,
          registered : BOOLEAN, registering : BOOLEAN]
NoEntry == [peer |-> 0, generation |-> 0, registered |-> FALSE, registering |-> FALSE]

\* copy tells requests apart that are otherwise the same.
PostedRequest ==
  [kind : {"ready", "disconnect"}, peer : Clients, generation : Generations,
   copy : 1 .. MaxCopies]

ProxiesInit ==
  /\ entry = NoEntry
  /\ playing = TRUE
  /\ introduced = 0
  /\ retries = {}
  /\ disconnects = [p \in Clients |-> "none"]
  /\ posted = {}
  /\ responses = {}
  /\ registry = {}
  /\ restarted = FALSE
  /\ leftBehind = {}

-----------------------------------------------------------------------------
(***************************************************************************)
(* Steps of the plugin.  What an action posts depends on what is in flight *)
(* besides: the requests waiting to be handled and the answers heard next. *)
(***************************************************************************)
InFlight(waiting, heard) == waiting \cup {answer.request : answer \in heard}

\* Posts the set wanted of requests, each as the first copy that is free.
Posting(waiting, heard, wanted) ==
  LET free(w) == {q \in [kind : {w.kind}, peer : {w.peer}, generation : {w.generation},
                         copy : 1 .. MaxCopies] : q \notin InFlight(waiting, heard)}
      first(w) == CHOOSE q \in free(w) : \A r \in free(w) : q.copy =< r.copy
  IN /\ \A w \in wanted : free(w) # {}
     /\ posted' = waiting \cup {first(w) : w \in wanted}
     /\ responses' = heard

Ready(e) == [kind |-> "ready", peer |-> e.peer, generation |-> e.generation]
Disconnect(p) == [kind |-> "disconnect", peer |-> p, generation |-> 0]

\* queueProxyDisconnect.
Queues(p) == IF p # 0 /\ disconnects[p] = "none" THEN {p} ELSE {}
Queued(ps) == [p \in Clients |-> IF p \in ps THEN "posted" ELSE disconnects[p]]

\* registerProxyEntry of the entry e.
MayRegister(e) == e.peer # 0 /\ ~e.registering /\ playing

\* registerProxy with the identity of a new VM.
Introduces ==
  /\ playing /\ introduced < MaxClients
  /\ introduced' = introduced + 1
  /\ entry' = [NoEntry EXCEPT !.peer = introduced', !.registering = TRUE]
  /\ disconnects' = Queued(Queues(entry.peer))
  /\ Posting(posted, responses, {Ready(entry')} \cup {Disconnect(p) : p \in Queues(entry.peer)})
  /\ UNCHANGED <<playing, retries, registry, restarted, leftBehind>>

\* registerProxy with the same identity and another topology, or
\* refreshAllProxyRegistrations once the plugin has connected again.
Renews ==
  /\ entry.peer # 0 /\ entry.generation < MaxGenerations
  /\ entry' = [entry EXCEPT !.generation = @ + 1, !.registered = FALSE, !.registering = playing]
  /\ Posting(posted, responses, IF playing THEN {Ready(entry')} ELSE {})
  /\ restarted' = FALSE
  /\ UNCHANGED <<playing, introduced, retries, disconnects, registry, leftBehind>>

ConnectsAgain ==
  /\ restarted /\ entry.peer = 0
  /\ restarted' = FALSE
  /\ UNCHANGED <<entry, playing, introduced, retries, disconnects, posted, responses, registry,
                 leftBehind>>

\* unregisterProxy, by PlayerRemoving or a request that finds the Player gone.
Unregisters ==
  /\ entry.peer # 0 /\ ~playing
  /\ entry' = NoEntry
  /\ disconnects' = Queued(Queues(entry.peer))
  /\ Posting(posted, responses, {Disconnect(p) : p \in Queues(entry.peer)})
  /\ UNCHANGED <<playing, introduced, retries, registry, restarted, leftBehind>>

\* registerProxyEntry, once its /ready has an answer: the entry is gone, its
\* generation is, or it is as it was.
IgnoresLateReady(q, ok, waiting, heard) ==
  /\ Posting(waiting, heard, {})
  /\ UNCHANGED <<entry, retries, disconnects, leftBehind>>

\* The MCP server has the Peer, and is not to be told that it is gone.
IsLeftBehind(p, waiting, heard) ==
  /\ p \in registry /\ disconnects[p] # "delayed"
  /\ \A q \in InFlight(waiting, {answer \in heard : ~answer.ok}) :
       q.kind = "disconnect" => q.peer # p

LateReadyAnswered(q, ok, waiting, heard) ==
  LET ghost == IF ok THEN Queues(q.peer) ELSE {}
  IN /\ disconnects' = Queued(ghost)
     /\ Posting(waiting, heard, {Disconnect(p) : p \in ghost})
     /\ leftBehind' = IF ghost = {} /\ IsLeftBehind(q.peer, waiting, heard)
                        THEN leftBehind \cup {q.peer} ELSE leftBehind
     /\ UNCHANGED <<entry, retries>>

OldReadyAnswered(waiting, heard) ==
  LET free == [entry EXCEPT !.registering = FALSE]
      again == ~entry.registered /\ MayRegister(free)
  IN /\ entry' = [free EXCEPT !.registering = again]
     /\ Posting(waiting, heard, IF again THEN {Ready(entry)} ELSE {})
     /\ UNCHANGED <<retries, disconnects, leftBehind>>

CurrentReadyAnswered(ok, waiting, heard) ==
  /\ entry' = [entry EXCEPT !.registering = FALSE, !.registered = ok]
  /\ retries' = IF ok THEN retries ELSE retries \cup {<<entry.peer, entry.generation>>}
  /\ Posting(waiting, heard, {})
  /\ UNCHANGED <<disconnects, leftBehind>>

ReadyAnswered(q, ok, waiting, heard) ==
  /\ \/ q.peer # entry.peer /\ LateReadyAnswered(q, ok, waiting, heard)
     \/ /\ q.peer = entry.peer /\ q.generation # entry.generation
        /\ OldReadyAnswered(waiting, heard)
     \/ /\ q.peer = entry.peer /\ q.generation = entry.generation
        /\ CurrentReadyAnswered(ok, waiting, heard)
  /\ UNCHANGED <<playing, introduced, registry, restarted>>

\* deliverProxyDisconnect, once its /disconnect has an answer.
DisconnectAnswered(q, ok, waiting, heard) ==
  /\ disconnects' = [disconnects EXCEPT ![q.peer] = IF ok THEN "none" ELSE "delayed"]
  /\ Posting(waiting, heard, {})
  /\ UNCHANGED <<entry, playing, introduced, retries, registry, restarted, leftBehind>>

IsAnswered(q, ok, waiting, heard) ==
  IF q.kind = "ready" THEN ReadyAnswered(q, ok, waiting, heard)
  ELSE DisconnectAnswered(q, ok, waiting, heard)

HearsResponse(answer) ==
  /\ answer \in responses
  /\ IsAnswered(answer.request, answer.ok, posted, responses \ {answer})

\* The request is lost before the MCP server has it.
PostFails(q) ==
  /\ q \in posted
  /\ IsAnswered(q, FALSE, posted \ {q}, responses)

\* The MCP server handled it, and its answer is lost.
AnswerIsLost(answer) ==
  /\ answer \in responses
  /\ IsAnswered(answer.request, FALSE, posted, responses \ {answer})

RetriesReady(timer) ==
  /\ timer \in retries
  /\ retries' = retries \ {timer}
  /\ LET goes == timer = <<entry.peer, entry.generation>> /\ ~entry.registered /\ MayRegister(entry)
     IN /\ entry' = IF goes THEN [entry EXCEPT !.registering = TRUE] ELSE entry
        /\ Posting(posted, responses, IF goes THEN {Ready(entry)} ELSE {})
  /\ UNCHANGED <<playing, introduced, disconnects, registry, restarted, leftBehind>>

RetriesDisconnect(p) ==
  /\ disconnects[p] = "delayed"
  /\ disconnects' = [disconnects EXCEPT ![p] = "posted"]
  /\ Posting(posted, responses, {Disconnect(p)})
  /\ UNCHANGED <<entry, playing, introduced, retries, registry, restarted, leftBehind>>

PlayerLeaves ==
  /\ playing /\ playing' = FALSE
  /\ UNCHANGED <<entry, introduced, retries, disconnects, posted, responses, registry, restarted,
                 leftBehind>>

-----------------------------------------------------------------------------
(***************************************************************************)
(* The MCP server: /ready may be refused, and a restart loses the Peers    *)
(* and the requests on their way.                                          *)
(***************************************************************************)
Handles(q, accepted) ==
  /\ q \in posted
  /\ q.kind = "disconnect" => accepted
  /\ posted' = posted \ {q}
  /\ responses' = responses \cup {[request |-> q, ok |-> accepted]}
  /\ registry' = IF ~accepted THEN registry
                 ELSE IF q.kind = "ready" THEN registry \cup {q.peer} ELSE registry \ {q.peer}
  /\ UNCHANGED <<entry, playing, introduced, retries, disconnects, restarted, leftBehind>>

Restarts ==
  /\ entry.generation < MaxGenerations /\ ~restarted
  /\ restarted' = TRUE
  /\ registry' = {}
  /\ responses' = responses \cup {[request |-> q, ok |-> FALSE] : q \in posted}
  /\ posted' = {}
  /\ UNCHANGED <<entry, playing, introduced, retries, disconnects, leftBehind>>

ProxiesNext ==
  \/ Introduces
  \/ Renews
  \/ ConnectsAgain
  \/ Unregisters
  \/ \E answer \in responses : HearsResponse(answer) \/ AnswerIsLost(answer)
  \/ \E q \in posted : PostFails(q)
  \/ \E timer \in retries : RetriesReady(timer)
  \/ \E p \in Clients : RetriesDisconnect(p)
  \/ PlayerLeaves
  \/ \E q \in posted, accepted \in BOOLEAN : Handles(q, accepted)
  \/ Restarts

ProxiesSpec == ProxiesInit /\ [][ProxiesNext]_proxyVars

\* The /ready of the client that is there: alone made again and again, with the
\* /disconnect of each Peer.
IsCurrent(q) == q.kind = "ready" /\ q.peer = entry.peer

\* Events are handled, answers are heard and timers fire; a request that is made
\* again and again gets through.
ProxiesFairness ==
  /\ WF_proxyVars(\/ restarted /\ (Renews \/ ConnectsAgain)
                  \/ Unregisters
                  \/ \E answer \in responses :
                       ~IsCurrent(answer.request) /\ HearsResponse(answer))
  /\ WF_proxyVars(\/ \E timer \in retries : RetriesReady(timer)
                  \/ \E answer \in responses :
                       IsCurrent(answer.request) /\ HearsResponse(answer))
  /\ SF_proxyVars(\E q \in posted : IsCurrent(q) /\ Handles(q, TRUE))
  /\ \A p \in Clients :
       /\ WF_proxyVars(RetriesDisconnect(p))
       /\ SF_proxyVars(\E q \in posted : q.kind = "disconnect" /\ q.peer = p /\ Handles(q, TRUE))

-----------------------------------------------------------------------------
(***************************************************************************)
(* Properties.                                                             *)
(***************************************************************************)
\* However its requests, their retries, its renewals and its end cross, the
\* MCP server comes to have the client that is there, and no other: a client that
\* plays is registered for good, and one that left or was replaced while its
\* /ready was on its way does not stay, with one exception.  If the /ready is
\* handled after the /disconnect, and its answer is lost or is heard while that
\* of the /disconnect is not, the clean-up is skipped and the Peer stays
\* (registerProxyEntry, scheduleProxyRetry, unregisterProxy,
\* queueProxyDisconnect, deliverProxyDisconnect).
RegistryFollowsClients ==
  <>[]LET here == IF playing /\ entry.peer # 0 THEN {entry.peer} ELSE {}
      IN  here \subseteq registry /\ registry \subseteq here \cup leftBehind

=============================================================================
