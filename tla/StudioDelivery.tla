--------------------------- MODULE StudioDelivery ---------------------------
(***************************************************************************)
(* One Studio peer from end to end: callers, the server's ledger and       *)
(* transport (StudioTransport), a connection that may break at any moment, *)
(* and the plugin (StudioPlugin).                                          *)
(*                                                                         *)
(* attached says that the plugin's socket is the one the server's          *)
(* connection stands for.  Either end can go first: what the server wrote  *)
(* before it closed may still be read, and what the plugin sent before it  *)
(* left may still be received, until the other end notices.                *)
(*                                                                         *)
(* failures counts what goes wrong (a broken connection, a lost            *)
(* registration, a server that restarts) up to MaxFailures, and LinkFrames *)
(* bounds the frames the connection buffers.                               *)
(***************************************************************************)
EXTENDS StudioTransport, StudioPlugin

CONSTANTS
  Heartbeats,       \* the heartbeat timer runs; its frames only take turns
  LinkFrames,       \* bound: frames written and not yet read
  MaxFailures       \* bound: failures of a behaviour

ASSUME DeliveryAssumption ==
  Heartbeats \in BOOLEAN /\ LinkFrames \in Nat \ {0} /\ MaxFailures \in Nat

VARIABLES
  server,           \* the ledger and the server's end
  plugin,           \* the plugin's end
  attached,         \* the two ends are one connection
  failures,
  (*************************************************************************)
  (* What happened, which no part of the program knows: history.entered    *)
  (* are the operations whose handler was entered since they were          *)
  (* admitted, history.ran the ids some handler ever succeeded for, and    *)
  (* history.declined those some handler ever said it did nothing for.     *)
  (*************************************************************************)
  history

vars == <<server, plugin, attached, failures, history>>

Conn == server.conn

Init ==
  /\ server = InitialServer
  /\ plugin = InitialPlugin
  /\ attached = FALSE
  /\ failures = 0
  /\ history = [entered |-> {}, ran |-> {}, declined |-> {}]

\* When the steps can be taken that need no one's doing.
CanWrite == Conn.open /\ Conn.sending /\ Len(Conn.down) < LinkFrames
HasArrived == Conn.open /\ Conn.up # <<>>
ServerAbandoned == Conn.open /\ ~attached /\ Conn.up = <<>>
CanRead == plugin.phase = "open" /\ attached /\ Conn.down # <<>>
PluginAbandoned == attached /\ ~Conn.open /\ Conn.down = <<>>
Waits == plugin.phase = "waiting"
Registers == plugin.phase = "registering"
Upgrades == plugin.phase = "upgrading" /\ ~attached
Opens == plugin.phase = "upgrading" /\ attached

Failure == failures < MaxFailures /\ failures' = failures + 1

-----------------------------------------------------------------------------
(***************************************************************************)
(* The server.                                                             *)
(***************************************************************************)

\* The frames of the ids of S that the connection still holds are of operations
\* that are gone.
Outdated(frames, S) ==
  [i \in DOMAIN frames |->
     IF frames[i].kind \in {"request", "ack"} /\ frames[i].id \in S
       THEN [frames[i] EXCEPT !.past = TRUE] ELSE frames[i]]

Outdate(s, x) == [s EXCEPT !.conn.down = Outdated(@, {x}), !.conn.acks = Outdated(@, {x})]

SubmitRequest(x, p) ==
  /\ LET admitted == x \in Admit(server.bridge, x, p).pending \ server.bridge.pending
     IN  /\ server' = Submit(IF admitted THEN Outdate(server, x) ELSE server, x, p)
         /\ history' = IF admitted THEN [history EXCEPT !.entered = @ \ {x}] ELSE history
  /\ UNCHANGED <<plugin, attached, failures>>

WaiterTimesOut(x) ==
  /\ x \in server.bridge.pending
  /\ server' = EndWait(server, x, "timed_out")
  /\ UNCHANGED <<plugin, attached, failures, history>>

HeartbeatFires ==
  /\ Heartbeats /\ Conn.open /\ ~Conn.beat
  /\ server' = Heartbeat(server)
  /\ UNCHANGED <<plugin, attached, failures, history>>

WriteDone ==
  /\ CanWrite
  /\ server' = WriteCompletes(server)
  /\ UNCHANGED <<plugin, attached, failures, history>>

ServerReceives ==
  /\ HasArrived
  /\ server' = Receive(server)
  /\ UNCHANGED <<plugin, attached, failures, history>>

\* The socket fails at the server's end: an error, a missing pong, back pressure.
ServerDrops ==
  /\ Conn.open /\ Failure
  /\ server' = CloseSocket(server)
  /\ UNCHANGED <<plugin, attached, history>>

\* The plugin has left, and all it sent was received.
ServerSeesClose ==
  /\ ServerAbandoned
  /\ server' = CloseSocket(server)
  /\ UNCHANGED <<plugin, attached, failures, history>>

\* cleanupStalePeers: no socket delivers to the peer.  An upgrade under way
\* takes less than the 30 seconds this needs, unless something fails.
PeerGoesStale ==
  /\ ~Conn.open /\ Transport \in server.bridge.peers
  /\ IF plugin.phase = "upgrading" /\ ~attached THEN Failure ELSE UNCHANGED failures
  /\ server' = Leave(server, Transport)
  /\ UNCHANGED <<plugin, attached, history>>

\* The peers behind the transport come and go, by HTTP.
ClientRegisters(p) ==
  /\ p \notin server.bridge.peers /\ TransportOf[p] \in server.bridge.peers
  /\ server' = Arrive(server, p)
  /\ UNCHANGED <<plugin, attached, failures, history>>

ClientLeaves(p) ==
  /\ p \in server.bridge.peers
  /\ server' = Leave(server, p)
  /\ UNCHANGED <<plugin, attached, failures, history>>

\* Another server takes the port; what the old one wrote may still be read.
ServerRestarts ==
  /\ Failure
  /\ server' = [InitialServer EXCEPT !.conn.down = Outdated(Conn.down, Ids)]
  /\ UNCHANGED <<plugin, attached, history>>

-----------------------------------------------------------------------------
(***************************************************************************)
(* The plugin.  What it sends reaches the server while the connection is   *)
(* one, and is lost otherwise.                                             *)
(***************************************************************************)
Sent(s, frames) ==
  IF attached /\ s.conn.open THEN [s EXCEPT !.conn.up = @ \o frames] ELSE s

\* The plugin leaves its socket; it reads no more of what the server wrote.
Detach(s) == [s EXCEPT !.conn.down = <<>>]

Leaves ==
  /\ plugin' = Reconnect(plugin)
  /\ attached' = FALSE
  /\ server' = IF attached THEN Detach(server) ELSE server

\* The handler is entered, or the request comes too late for it.
StartsWork(frame, s) ==
  \/ /\ plugin' = Enter(plugin, frame.id)
     /\ server' = Sent(s, Executing(frame.id))
     /\ history' = [history EXCEPT !.entered = IF frame.past THEN @ ELSE @ \cup {frame.id}]
  \/ /\ plugin' = Retain(plugin, frame.id, "not_executed")
     /\ server' = Sent(s, Returned(frame.id, "not_executed"))
     /\ UNCHANGED history

PluginReceives ==
  /\ CanRead
  /\ UNCHANGED failures
  /\ LET frame == Head(Conn.down)
         read == [server EXCEPT !.conn.down = Tail(@)]
     IN  \/ /\ frame.kind \in {"cancel", "heartbeat"}
            /\ server' = read
            /\ UNCHANGED <<plugin, attached, history>>
         \/ /\ frame.kind = "ack"
            /\ server' = read
            /\ plugin' = IF frame.id \in Kept(plugin)
                           THEN ReleaseResponse(plugin, frame.id) ELSE plugin
            /\ UNCHANGED <<attached, history>>
         \/ /\ frame.kind = "request" /\ Known(plugin, frame.id)
            /\ server' = read
            /\ UNCHANGED <<plugin, attached, history>>
         \/ /\ frame.kind = "request" /\ ~Known(plugin, frame.id) /\ ~Full(plugin)
            /\ StartsWork(frame, read)
            /\ UNCHANGED attached
         \/ /\ frame.kind = "request" /\ ~Known(plugin, frame.id) /\ Full(plugin)
            /\ ~ReserveSpent(plugin)
            /\ plugin' = Reject(plugin, frame.id)
            /\ server' = Sent(read, Returned(frame.id, "not_executed"))
            /\ UNCHANGED <<attached, history>>
         \/ /\ frame.kind = "request" /\ ~Known(plugin, frame.id) /\ Full(plugin)
            /\ ReserveSpent(plugin)
            /\ Leaves
            /\ UNCHANGED history

\* A handler returns, whatever became of the socket meanwhile.
HandlerReturns(x, r) ==
  /\ x \in plugin.work
  /\ plugin' = Retain(plugin, x, r)
  /\ server' = IF plugin.phase = "open" THEN Sent(server, Returned(x, r)) ELSE server
  /\ history' = CASE r \in {"success", "undelivered"} -> [history EXCEPT !.ran = @ \cup {x}]
                   [] r = "not_executed" -> [history EXCEPT !.declined = @ \cup {x}]
                   [] OTHER -> history
  /\ UNCHANGED <<attached, failures>>

\* An error, a silence, a stage that times out, an acknowledgement that does
\* not come.
PluginDrops ==
  /\ plugin.phase # "waiting" /\ Failure
  /\ Leaves
  /\ UNCHANGED history

PluginSeesClose ==
  /\ PluginAbandoned
  /\ Leaves
  /\ UNCHANGED <<failures, history>>

RetryTimer ==
  /\ Waits
  /\ plugin' = [plugin EXCEPT !.phase = IF plugin.ready THEN "upgrading" ELSE "registering"]
  /\ UNCHANGED <<server, attached, failures, history>>

\* POST /ready, whose answer may be lost.
RegistersReady ==
  /\ Registers
  /\ server' = Arrive(server, Transport)
  /\ \/ /\ plugin' = [plugin EXCEPT !.phase = "upgrading", !.ready = TRUE]
        /\ UNCHANGED failures
     \/ /\ Failure
        /\ plugin' = Reconnect(plugin)
  /\ UNCHANGED <<attached, history>>

\* The upgrade of the socket is refused to a peer that is not registered.
Upgrade ==
  /\ Upgrades
  /\ IF Transport \in server.bridge.peers
       THEN /\ server' = OpenSocket(server)
            /\ attached' = TRUE
            /\ UNCHANGED plugin
       ELSE /\ plugin' = Reconnect(plugin)
            /\ UNCHANGED <<server, attached>>
  /\ UNCHANGED <<failures, history>>

\* Opened, without resumePendingResponses.
OpenedInSilence ==
  /\ Opens
  /\ plugin' = [plugin EXCEPT !.phase = "open"]
  /\ UNCHANGED <<server, attached, failures, history>>

\* Opened: everything unacknowledged is reported again, in any order.
Opened ==
  /\ Opens
  /\ plugin' = [plugin EXCEPT !.phase = "open"]
  /\ \E running \in SetToSeqs(plugin.work), kept \in SetToSeqs(Kept(plugin)) :
        server' = Sent(server, Resumed(plugin, running, kept))
  /\ UNCHANGED <<attached, failures, history>>

-----------------------------------------------------------------------------
(***************************************************************************)
(* A tick is half of the five minutes both ends keep things for: longer    *)
(* than any of the timeouts after which an end that hears nothing closes   *)
(* its socket.  So nothing is in flight when one passes.                   *)
(***************************************************************************)
TimePasses ==
  /\ Conn.down = <<>> /\ Conn.up = <<>> /\ ~Conn.sending
  /\ attached = Conn.open
  /\ plugin.phase = "upgrading" => ~attached
  /\ LET aged == Aged(plugin)
         leaves == Expiring(aged) # {} /\ plugin.phase = "open"
     IN  /\ plugin' = Expire(aged)
         /\ attached' = (attached /\ ~leaves)
  /\ server' = [server EXCEPT !.bridge = Tick(@)]
  /\ UNCHANGED <<failures, history>>

Next ==
  \/ \E x \in Ids, p \in Peers : SubmitRequest(x, p)
  \/ \E x \in Ids : WaiterTimesOut(x)
  \/ HeartbeatFires
  \/ WriteDone
  \/ ServerReceives
  \/ ServerDrops
  \/ ServerSeesClose
  \/ PeerGoesStale
  \/ \E p \in Peers \ Transports : ClientRegisters(p)
  \/ \E p \in Peers \ Transports : ClientLeaves(p)
  \/ ServerRestarts
  \/ PluginReceives
  \/ \E x \in Ids, r \in Reports : HandlerReturns(x, r)
  \/ PluginDrops
  \/ PluginSeesClose
  \/ RetryTimer
  \/ RegistersReady
  \/ Upgrade
  \/ Opened
  \/ TimePasses

Spec == Init /\ [][Next]_vars

(***************************************************************************)
(* Weak fairness of the steps that nothing outside has to take: timers     *)
(* fire, bytes that were written arrive, an end that lost its peer         *)
(* notices, an attempt that may succeed is made.  Nothing is asked of      *)
(* callers, handlers, peers or the clock.  Each of these actions is        *)
(* enabled, and changes the state, exactly when its first conjunct holds;  *)
(* so weak fairness is written with that conjunct in place of ENABLED,     *)
(* which TLC evaluates too slowly on states this large.                    *)
(***************************************************************************)
Fairness ==
  /\ ([]<>~CanWrite \/ []<><<WriteDone>>_vars)
  /\ ([]<>~HasArrived \/ []<><<ServerReceives>>_vars)
  /\ ([]<>~ServerAbandoned \/ []<><<ServerSeesClose>>_vars)
  /\ ([]<>~CanRead \/ []<><<PluginReceives>>_vars)
  /\ ([]<>~PluginAbandoned \/ []<><<PluginSeesClose>>_vars)
  /\ ([]<>~Waits \/ []<><<RetryTimer>>_vars)
  /\ ([]<>~Registers \/ []<><<RegistersReady>>_vars)
  /\ ([]<>~Upgrades \/ []<><<Upgrade>>_vars)
  /\ ([]<>~Opens \/ []<><<Opened>>_vars)

FairSpec == Spec /\ Fairness

-----------------------------------------------------------------------------
(***************************************************************************)
(* Properties.                                                             *)
(***************************************************************************)
Frames(S) == {S[i] : i \in DOMAIN S}

\* A socket that is idle has nothing left to say: whoever made a request
\* dispatchable, freed a slot of the window, or queued a cancellation or an
\* acknowledgement, also pumped (every notifyRequestAvailable of
\* bridge-service.ts, studio-transport.ts pump).
NoLostWakeup ==
  Conn.open /\ ~Conn.sending =>
    LET b == PruneCancels(server.bridge)
    IN  Conn.acks = <<>> /\ NextCancel(b, Transport) = {} /\ NextRequest(b, Transport) = {}

\* However often the connection breaks, a handler is entered at most once for
\* an admitted operation (dispatchRequest's tombstones, and releaseDeliveryClaims:
\* "Reconnect must never replay it").
EnteredAtMostOnce ==
  [][\A x \in plugin'.work \ plugin.work : x \notin history.entered]_vars

\* What the ledger says of an execution is what happened: an operation said not
\* to have executed never entered a handler, unless the handler said so itself,
\* and for one said to have succeeded a handler did (executionOutcome, from the
\* plugin's rejection and from endRequestWaiter).
OutcomeIsTrue ==
  \A x \in Recorded(server.bridge) :
    /\ server.bridge.op[x].exec = "not_executed" =>
         x \notin history.entered \/ x \in history.declined
    /\ server.bridge.op[x].exec = "success" => x \in history.ran

\* A cancellation on its way to the plugin is never for an operation somebody waits for: no
\* stale tombstone cancels a later operation of the same id
\* (prunePendingCancellations, recordResponse).
NoStrayCancel ==
  attached /\ Conn.open =>
    \A f \in Frames(Conn.down) :
      f.kind = "cancel" => server.bridge.op[f.id].state # "pending"

\* The plugin lets a response go only when the ledger has it: an operation whose
\* acknowledgement waits or is on its way is settled, unless it is forgotten or
\* the id was given to a new one (receive: "Recording must succeed before
\* acknowledging").  No more of them wait than may, one of each operation.
AcknowledgedIsRecorded ==
  /\ \A f \in Frames(Conn.acks) \cup Frames(Conn.down) :
       f.kind = "ack" /\ f.disposition # "unknown" /\ ~f.past =>
         server.bridge.op[f.id].state \in {"settled", "none"}
  /\ Len(Conn.acks) <= MaxAcks
  /\ \A i, j \in DOMAIN Conn.acks : Conn.acks[i].id = Conn.acks[j].id => i = j

\* There is a tombstone for every request the plugin ever takes on
\* (rememberTerminalResponse: "Admission reserves this tombstone before any
\* side effects can execute").
TombstonesReserved == Cardinality(Remembered(plugin)) <= MaxTerminal

\* The plugin is told that an operation is unknown, and so lets its response
\* go for good, only when the operation cannot settle any more: whoever waits
\* for it then need not wait (canStillSettle against ownedOperation).
UnknownCannotSettle ==
  \A f \in Frames(Conn.acks) :
    LET o == server.bridge.op[f.id]
        canStillSettle ==
          \/ o.state = "pending"
          \/ o.state \in EndedStates /\ o.via # None
    IN  f.disposition = "unknown" => ~canStillSettle

(***************************************************************************)
(* What a caller sees of an operation, and what is done of it at the       *)
(* Studio: the entry of OperationContract that it stands for.              *)
(***************************************************************************)
Entry(x) ==
  LET o == server.bridge.op[x]
  IN  [status   |-> CASE o.state = "none" -> "none"
                      [] o.state = "pending" -> "waiting"
                      [] o.state = "settled" -> "settled"
                      [] o.state \in EndedStates -> "ended",
       told     |-> o.exec,
       entered  |-> x \in history.entered,
       running  |-> x \in plugin.work,
       ran      |-> x \in history.ran,
       declined |-> x \in history.declined,
       lost     |-> attached /\ \E f \in Frames(Conn.down) :
                                  f.kind = "request" /\ f.id = x /\ f.past]

Contract == INSTANCE OperationContract
  WITH Operations <- Ids, ledger <- [x \in Ids |-> Entry(x)]

\* Server, connection and plugin together keep the contract with the caller:
\* the whole of what the properties above say of the ends one by one, and that
\* nothing told is ever taken back (recordResponse, endRequestWaiter and
\* updateRequestProgress against dispatchRequest and its tombstones).
ImplementsContract == Contract!Spec

Connected == plugin.phase = "open" /\ attached /\ Conn.open

\* When failures stop, the two ends find each other again, whatever state the
\* failures left them in (scheduleReconnect's use of cachedReady, upgradeStudio's
\* refusals, cleanupStalePeers).
Reconnects == []<>Connected

\* Every response the plugin keeps is let go in the end: it is acknowledged on
\* the connection it was sent on, or on a later one (resumePendingResponses,
\* receive).
ResponsesReleased == \A x \in Ids : x \in Kept(plugin) ~> x \notin Kept(plugin)

=============================================================================
