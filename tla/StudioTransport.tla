--------------------------- MODULE StudioTransport ---------------------------
(***************************************************************************)
(* The server's end of a Studio socket: WebSocketStudioTransport           *)
(* (src/packages/core/src/studio-transport.ts) over the ledger of          *)
(* BridgeLedger.  One frame is written at a time; acknowledgements go      *)
(* before cancellations, those before requests, and a heartbeat last.      *)
(*                                                                         *)
(* A server s is the ledger, the connection that is current for the        *)
(* transport peer, and the bytes on it.  Every handler of the transport    *)
(* runs to its end before another one starts, so each is an operator here, *)
(* the ledger's listeners it wakes included.                               *)
(*                                                                         *)
(* Status frames are left out: they take a turn of the pump like a         *)
(* heartbeat does, and a current connection's peer is always known.  A     *)
(* frame that cannot be written closes the connection; that is a frame     *)
(* lost with its connection.                                               *)
(***************************************************************************)
EXTENDS BridgeLedger, Sequences, SequencesExt

CONSTANTS
  Transport,        \* the one transport peer whose socket is modelled
  Owner,            \* its claim owner; a replaced socket's claims are released first
  MaxAcks           \* MAX_PENDING_ACKS

ASSUME TransportAssumption == Transport \in Transports /\ Owner \in Owners
ASSUME AcksAssumption == MaxAcks \in Nat \ {0}

Dispositions == {"accepted", "already_settled", "unknown"}

(***************************************************************************)
(* What the server writes: acknowledgements, cancellations, requests,      *)
(* heartbeats.  past is not in the program: it says of a request or an     *)
(* acknowledgement that its operation is gone, because the id was admitted *)
(* again or the server restarted, and is FALSE when the frame is made.     *)
(***************************************************************************)
Ack == [kind : {"ack"}, id : Ids, disposition : Dispositions, past : BOOLEAN]

DownFrame ==
  [kind : {"request"}, id : Ids, past : BOOLEAN]
    \cup [kind : {"cancel"}, id : Ids]
    \cup Ack
    \cup [kind : {"heartbeat"}]

\* What the plugin sends: progress of a handler, and responses.
UpFrame ==
  [kind : {"executing"}, id : Ids]
    \cup [kind : {"returned", "response"}, id : Ids, response : Responses]

Connection ==
  [open    : BOOLEAN,                     \* this connection is current
   sending : BOOLEAN,                     \* a write has not completed
   acks    : Seq(Ack),                    \* pendingAcks
   beat    : BOOLEAN,                     \* heartbeatPending
   down    : Seq(DownFrame),              \* written, not read by the plugin
   up      : Seq(UpFrame)]                \* sent by the plugin, not received

NoConnection ==
  [open |-> FALSE, sending |-> FALSE, acks |-> <<>>, beat |-> FALSE,
   down |-> <<>>, up |-> <<>>]

Server == [bridge : Bridge, conn : Connection]

InitialServer == [bridge |-> InitialBridge, conn |-> NoConnection]

-----------------------------------------------------------------------------
(***************************************************************************)
(* pump and send: the next frame, if the connection is current and idle.   *)
(***************************************************************************)
Write(conn, frame) == [conn EXCEPT !.sending = TRUE, !.down = Append(@, frame)]

Pump(s) ==
  LET b == PruneCancels(s.bridge)
      cancels == NextCancel(b, Transport)
      requests == NextRequest(b, Transport)
  IN  CASE ~s.conn.open \/ s.conn.sending -> s
        [] OTHER ->
             IF s.conn.acks # <<>>
               THEN [s EXCEPT !.conn = [Write(s.conn, Head(s.conn.acks)) EXCEPT
                                          !.acks = Tail(s.conn.acks)]]
             ELSE IF cancels # {}
               THEN LET x == CHOOSE x \in cancels : TRUE
                    IN  [bridge |-> ClaimCancel(b, x, Owner),
                         conn |-> Write(s.conn, [kind |-> "cancel", id |-> x])]
             ELSE IF requests # {}
               THEN LET x == CHOOSE x \in requests : TRUE
                    IN  [bridge |-> Claim(b, x, Transport, Owner),
                         conn |-> Write(s.conn, [kind |-> "request", id |-> x, past |-> FALSE])]
             ELSE IF s.conn.beat
               THEN [bridge |-> b,
                     conn |-> [Write(s.conn, [kind |-> "heartbeat"]) EXCEPT !.beat = FALSE]]
             ELSE [s EXCEPT !.bridge = b]

\* The callback of a write: the next frame may go.
WriteCompletes(s) == Pump([s EXCEPT !.conn.sending = FALSE])

\* The heartbeat timer of a current connection.
Heartbeat(s) == Pump([s EXCEPT !.conn.beat = TRUE])

\* closeSocket: what the plugin has sent and the server not received is lost,
\* what was written may still be read.
CloseSocket(s) ==
  IF ~s.conn.open
    THEN s
    ELSE [bridge |-> Release(s.bridge, Owner),
          conn |-> [NoConnection EXCEPT !.down = s.conn.down]]

\* open: a new socket replaces the current one, whose claims are released.
OpenSocket(s) ==
  Pump([CloseSocket(s) EXCEPT !.conn = [NoConnection EXCEPT !.open = TRUE]])

-----------------------------------------------------------------------------
(***************************************************************************)
(* The ledger's methods, with the notifyRequestAvailable each ends with.   *)
(***************************************************************************)

\* Only a new request of a registered peer is announced.
Submit(s, x, p) ==
  LET t == [s EXCEPT !.bridge = Admit(@, x, p)]
      admitted == x \in t.bridge.pending \ s.bridge.pending
  IN  IF admitted /\ p \in t.bridge.peers THEN Pump(t) ELSE t

\* The end of a wait frees a slot of the window, and nobody is told.
EndWaitQuietly(s, x, state) == [s EXCEPT !.bridge = EndWaiter(@, x, state)]

\* The end of a wait is announced only with a new cancellation.
EndWait(s, x, state) ==
  LET t == [s EXCEPT !.bridge = EndWaiter(@, x, state)]
      cancels == s.bridge.op[x].via # None /\ x \notin Cancelled(s.bridge)
  IN  IF cancels THEN Pump(t) ELSE t

Arrive(s, p) ==
  LET t == [s EXCEPT !.bridge = Register(@, p)]
  IN  IF t.bridge = s.bridge /\ p \notin s.bridge.peers THEN t ELSE Pump(t)

\* The slots that requests for a peer held are not announced as free.
LeaveQuietly(s, p) ==
  LET closed == IF p = Transport THEN CloseSocket(s) ELSE s
  IN  [closed EXCEPT !.bridge = Unregister(@, p)]

\* A transport peer that leaves takes its socket with it; a freed slot of one
\* that stays is announced.
Leave(s, p) ==
  LET closed == IF p = Transport THEN CloseSocket(s) ELSE s
  IN  Pump([closed EXCEPT !.bridge = Unregister(@, p)])

-----------------------------------------------------------------------------
(***************************************************************************)
(* receive: progress is recorded; a response is recorded and then          *)
(* acknowledged, and the connection closed if too many acknowledgements    *)
(* wait already.                                                           *)
(***************************************************************************)

\* The acknowledgement is queued before the response is recorded, and says so.
AcknowledgeUnrecorded(s, x, r) ==
  LET ack == [kind |-> "ack", id |-> x, past |-> FALSE,
              disposition |-> Disposition(s.bridge, Transport, x)]
  IN  Pump([s EXCEPT !.conn.acks = SelectSeq(@, LAMBDA a : a.id # x) \o <<ack>>])

Acknowledge(s, x, r) ==
  LET ack == [kind |-> "ack", id |-> x, past |-> FALSE,
              disposition |-> Disposition(s.bridge, Transport, x)]
      t == [s EXCEPT !.bridge = Settle(@, Transport, x, r)]
      known == {i \in DOMAIN t.conn.acks : t.conn.acks[i].id = x}
  IN  CASE known # {} ->
             Pump([t EXCEPT !.conn.acks = [i \in DOMAIN @ |-> IF i \in known THEN ack ELSE @[i]]])
        [] known = {} /\ Len(t.conn.acks) >= MaxAcks -> CloseSocket(t)
        [] known = {} /\ Len(t.conn.acks) < MaxAcks ->
             Pump([t EXCEPT !.conn.acks = Append(@, ack)])

Receive(s) ==
  LET frame == Head(s.conn.up)
      rest == [s EXCEPT !.conn.up = Tail(@)]
  IN  CASE frame.kind = "executing" ->
             [rest EXCEPT !.bridge = Progress(@, Transport, frame.id, "executing", "unknown")]
        [] frame.kind = "returned" ->
             [rest EXCEPT !.bridge = Progress(@, Transport, frame.id, "response_delivery",
                                              ExecOf(frame.response))]
        [] frame.kind = "response" -> Acknowledge(rest, frame.id, frame.response)

=============================================================================
