---------------------------- MODULE StudioPlugin ----------------------------
(***************************************************************************)
(* The plugin's end of a Studio socket: StudioWebSocket                    *)
(* (src/studio-plugin/src/modules/StudioWebSocket.ts).  It enters handlers *)
(* for the requests it admits, keeps every response until the server       *)
(* acknowledges it, and remembers the ids it is done with, so that no      *)
(* request is entered twice.                                               *)
(*                                                                         *)
(* A plugin p is one record and each function an operator on it.  While    *)
(* the socket is open, every handler that runs and every response kept has *)
(* been reported on it: Opened reports what there was, and later changes   *)
(* report themselves.  So the sentGeneration of an entry is not kept.      *)
(* Bytes are left out, and so is the cancelled flag of a running handler,  *)
(* which only the handler reads.                                           *)
(***************************************************************************)
EXTENDS BridgeLedger, Sequences

CONSTANTS
  MaxActive,        \* MAX_ACTIVE_RESPONSES
  MaxRejections,    \* MAX_ADMISSION_REJECTIONS
  MaxTerminal       \* MAX_TERMINAL_RESPONSES

ASSUME PluginAssumption ==
  /\ MaxActive \in Nat \ {0}
  /\ MaxRejections \in Nat
  /\ MaxTerminal \in Nat \ {0}

Plugin ==
  [phase    : {"waiting", "registering", "upgrading", "open"},
   ready    : BOOLEAN,                    \* cachedReady is set
   work     : SUBSET Ids,                 \* inFlightRequests
   pend     : [Ids -> Responses \cup {"none"}],   \* pendingResponses
   rejected : SUBSET Ids,                 \* those with admissionRejection
   done     : SUBSET Ids,                 \* terminalResponseIds
   age      : [Ids -> 0 .. Retention]]    \* since expiresAt was set

InitialPlugin ==
  [phase |-> "registering", ready |-> FALSE, work |-> {},
   pend |-> [x \in Ids |-> "none"], rejected |-> {}, done |-> {},
   age |-> [x \in Ids |-> 0]]

Kept(p) == {x \in Ids : p.pend[x] # "none"}
Active(p) == p.work \cup (Kept(p) \ p.rejected)
Remembered(p) == p.work \cup Kept(p) \cup p.done

-----------------------------------------------------------------------------
(***************************************************************************)
(* Responses.                                                              *)
(***************************************************************************)

\* retainResponse: the handler, if one ran, is out of flight.
Retain(p, x, r) ==
  [p EXCEPT !.work = @ \ {x}, !.pend[x] = r, !.age[x] = 0]

\* settleResponse: the response is let go, its id is remembered.
ReleaseResponse(p, x) ==
  [p EXCEPT !.pend[x] = "none", !.rejected = @ \ {x}, !.done = @ \cup {x}, !.age[x] = 0]

\* What the plugin sends of a handler that runs, and of a response it keeps.
Executing(x) == <<[kind |-> "executing", id |-> x]>>
Returned(x, r) ==
  <<[kind |-> "returned", id |-> x, response |-> r],
    [kind |-> "response", id |-> x, response |-> r]>>

\* resumePendingResponses: the same of every handler that runs and every
\* response kept, in the order given.
Resumed(p, running, kept) ==
  [i \in 1 .. Len(running) |-> [kind |-> "executing", id |-> running[i]]]
    \o [i \in 1 .. 2 * Len(kept) |->
          LET x == kept[(i + 1) \div 2]
          IN  [kind |-> IF i % 2 = 1 THEN "returned" ELSE "response",
               id |-> x, response |-> p.pend[x]]]

-----------------------------------------------------------------------------
(***************************************************************************)
(* scheduleReconnect: whatever the plugin was doing, it waits for the      *)
(* retry timer.  A registration is used again only after a socket that     *)
(* did open.                                                               *)
(***************************************************************************)

\* A registration is used again whatever came of it.
ReconnectReusing(p) == [p EXCEPT !.phase = "waiting"]

Reconnect(p) == [p EXCEPT !.phase = "waiting", !.ready = @ /\ p.phase = "open"]

-----------------------------------------------------------------------------
(***************************************************************************)
(* dispatchRequest: a known id is dropped; one too many is rejected, or    *)
(* dropped with the connection when the reserve for rejections is spent;   *)
(* else the handler is entered.                                            *)
(***************************************************************************)

Known(p, x) == x \in Remembered(p)

\* No room is kept for the rejections.
FullUnreserved(p) ==
  \/ Cardinality(Active(p)) >= MaxActive
  \/ Cardinality(p.done) + Cardinality(Active(p)) >= MaxTerminal

Full(p) ==
  \/ Cardinality(Active(p)) >= MaxActive
  \/ Cardinality(p.done) + Cardinality(Active(p)) + MaxRejections >= MaxTerminal

ReserveSpent(p) ==
  \/ Cardinality(p.rejected) >= MaxRejections
  \/ Cardinality(Remembered(p)) >= MaxTerminal

Reject(p, x) == [Retain(p, x, "not_executed") EXCEPT !.rejected = @ \cup {x}]

Enter(p, x) == [p EXCEPT !.work = @ \cup {x}]

-----------------------------------------------------------------------------
(***************************************************************************)
(* Time: tombstones expire, and so do responses nobody acknowledged, whose *)
(* socket is closed if they were sent on it.                               *)
(***************************************************************************)
Aged(p) ==
  LET older == [p EXCEPT !.age = [x \in Ids |->
                  IF x \in Kept(p) \cup p.done THEN Older(p.age[x], Retention) ELSE 0]]
  IN  [older EXCEPT !.done = {x \in @ : older.age[x] < Retention},
                    !.age = [x \in Ids |->
                       IF x \in p.done /\ @[x] >= Retention THEN 0 ELSE @[x]]]

Expiring(p) == {x \in Kept(p) : p.age[x] >= Retention}

Expire(p) ==
  LET S == Expiring(p)
      released == [p EXCEPT !.pend = [x \in Ids |-> IF x \in S THEN "none" ELSE @[x]],
                            !.rejected = @ \ S,
                            !.done = @ \cup S,
                            !.age = [x \in Ids |-> IF x \in S THEN 0 ELSE @[x]]]
  IN  IF S # {} /\ p.phase = "open" THEN Reconnect(released) ELSE released

=============================================================================
