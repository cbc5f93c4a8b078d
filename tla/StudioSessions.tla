--------------------------- MODULE StudioSessions ---------------------------
(***************************************************************************)
(* Plugins that come and go around the registry of Peers: PluginSession,   *)
(* the registration of StudioWebSocket and ClientBroker                    *)
(* (src/studio-plugin/src/modules), and the multiplayer test a tool runs   *)
(* with them (src/packages/core/src/tools/index.ts).                       *)
(*                                                                         *)
(* A plugin session has a Peer id of its own and never comes back: one     *)
(* that is reloaded is another Peer of the same Instance.  It may end with *)
(* a /disconnect or without.  What the plugin of an edit session names as  *)
(* its group is in the play record of its Studio process; a runtime        *)
(* session has its group from the ticket it claimed, or none.              *)
(***************************************************************************)
EXTENDS PeerTopology

CONSTANTS
  RunsFor,          \* the group a runtime session is of, or None
  MaxFaults         \* bound: failures of sockets, and silences, of a behaviour

ASSUME SessionAssumption ==
  RunsFor \in [Peers -> Groups \cup {None}] /\ MaxFaults \in Nat

VARIABLES
  life,             \* "new", "running" or "gone", of each session
  record,           \* groupId of the ticket in the play record of each Instance
  ready,            \* sessions that hold a registration they accepted (cachedReady)
  granted,          \* role of the proxy entry of a client, None before it has one
  test,             \* where the tool is with the test of each group
  faults

sessionVars == <<life, record, ready, granted, test>>
vars == <<peers, role, groupOf, members, controller, open, quiet,
          life, record, ready, granted, test, faults>>

Running == {p \in Peers : life[p] = "running"}
EditOf(i) == {p \in Peers : KindOf[p] = "edit" /\ InstanceOf[p] = i}
PlayOf(i) == {p \in Peers : KindOf[p] # "edit" /\ InstanceOf[p] = i /\ RunsFor[p] = None}
RuntimeOf(g) == {p \in Peers : KindOf[p] # "edit" /\ RunsFor[p] = g}

Init ==
  /\ TopologyInit
  /\ life = [p \in Peers |-> "new"]
  /\ record = [i \in Instances |-> None]
  /\ ready = {}
  /\ granted = [p \in Peers |-> None]
  /\ test = [g \in Groups |-> "none"]
  /\ faults = 0

\* What happens of itself is not counted; what a running session suffers is.
Fault(ofItself) ==
  /\ ofItself \/ faults < MaxFaults
  /\ faults' = IF ofItself THEN faults ELSE faults + 1

-----------------------------------------------------------------------------
(***************************************************************************)
(* Sessions begin and end.  A client begins after its server Peer; a play  *)
(* server after the edit session that runs it; a reloaded plugin after the *)
(* one before it is gone.  Studio plays one thing at a time: no solo play  *)
(* during a test, and no test during a solo play.                          *)
(***************************************************************************)
MayBegin(p) ==
  CASE KindOf[p] = "client" -> TransportOf[p] \in Running
    [] KindOf[p] = "server" ->
         IF RunsFor[p] = None
           THEN record[InstanceOf[p]] = None /\ EditOf(InstanceOf[p]) \cap Running # {}
           ELSE \E i \in Instances : record[i] = RunsFor[p]
    [] OTHER -> EditOf(InstanceOf[p]) \cap Running = {}

Begins(p) ==
  /\ life[p] = "new" /\ MayBegin(p)
  /\ life' = [life EXCEPT ![p] = "running"]
  /\ UNCHANGED <<topologyVars, record, ready, granted, test, faults>>

\* The clients behind a play server end with it.
Ends(p) ==
  /\ p \in Running
  /\ life' = [q \in Peers |-> IF TransportOf[q] = p \/ q = p THEN "gone" ELSE life[q]]
  /\ ready' = ready \ {p}
  /\ UNCHANGED <<record, granted, test, faults>>

\* stop, suspendForShutdown, unregisterProxy: the server hears of it.
Leaves(p) ==
  /\ Ends(p)
  /\ UnregisterPeer(p) \/ (p \notin peers /\ UNCHANGED topologyVars)

\* It does not, and only the server's own clock ends the Peer.
Vanishes(p) == Ends(p) /\ IsTransport(p) /\ UNCHANGED topologyVars

-----------------------------------------------------------------------------
(***************************************************************************)
(* Registration (registerReady, registerProxyEntry).  The answer counts    *)
(* only if it names the group the plugin named; one that does not, and a   *)
(* refusal, is tried again later.                                          *)
(***************************************************************************)
Asks(p) == IF KindOf[p] = "edit" THEN record[InstanceOf[p]] ELSE RunsFor[p]

\* /ready, for a session without a registration or as a metadata refresh.
Ready(p) ==
  /\ p \in Running /\ IsTransport(p)
  /\ p \in ready => p \in open
  /\ \E g \in Groups \cup {None}, requested \in Requests(p), r \in Roles :
       /\ RegisterPeer(p, Asks(p), requested, g, r)
       /\ ready' = IF g = Asks(p) THEN ready \cup {p} ELSE ready
  /\ UNCHANGED <<life, record, granted, test, faults>>

\* A client asks for the role it was given before, if it was given one.
ReadyClient(p) ==
  /\ p \in Running /\ ~IsTransport(p) /\ TransportOf[p] \in Running
  /\ \E g \in Groups \cup {None}, r \in Roles :
       /\ RegisterPeer(p, Asks(p), granted[p], g, r)
       /\ granted' = IF g = Asks(p) THEN [granted EXCEPT ![p] = r] ELSE granted
  /\ UNCHANGED <<life, record, ready, test, faults>>

\* /studio, with the token of the registration.
Upgrade(p) ==
  /\ p \in Running \cap ready /\ p \notin open
  /\ SocketOpens(p)
  /\ UNCHANGED <<sessionVars, faults>>

\* A socket that does not open costs the registration; it does not if the Peer
\* is registered no more.
UpgradeFails(p) ==
  /\ p \in Running \cap ready /\ p \notin open
  /\ Fault(p \notin peers)
  /\ ready' = ready \ {p}
  /\ UNCHANGED <<topologyVars, life, record, granted, test>>

Drops(p) == SocketCloses(p) /\ Fault(p \notin Running) /\ UNCHANGED sessionVars

Hears(p) == p \in Running /\ UpdatePeerActivity(p) /\ UNCHANGED <<sessionVars, faults>>

Quiets(p) == GoesQuiet(p) /\ Fault(p \notin Running) /\ UNCHANGED sessionVars

CleansUp == CleanupStalePeers /\ UNCHANGED <<sessionVars, faults>>

-----------------------------------------------------------------------------
(***************************************************************************)
(* A multiplayer test.  The tool has the plugin begin it, makes its group, *)
(* and removes the group at the end if the tool is asked to end it and     *)
(* sees no runtime Peer in it.                                             *)
(***************************************************************************)

\* multiplayerTestStart, prepareMultiplayerTest
TestBegins(p, g) ==
  /\ p \in Running \cap open /\ KindOf[p] = "edit"
  /\ record[InstanceOf[p]] = None /\ test[g] = "none"
  /\ PlayOf(InstanceOf[p]) \cap Running = {}
  /\ ~\E q \in peers :
        /\ IsRuntime(role[q])
        /\ InstanceOf[q] = InstanceOf[p] \/ (groupOf[p] # None /\ groupOf[q] = groupOf[p])
  /\ record' = [record EXCEPT ![InstanceOf[p]] = g]
  /\ test' = [test EXCEPT ![g] = "begun"]
  /\ UNCHANGED <<topologyVars, life, ready, granted, faults>>

\* createMultiplayerGroupEverywhere, after the plugin answered.
TestGroups(i, g) ==
  /\ test[g] = "begun" /\ record[i] = g
  /\ CreateMultiplayerGroup(g, i)
  /\ test' = [test EXCEPT ![g] = "grouped"]
  /\ UNCHANGED <<life, record, ready, granted, faults>>

\* The plugin's answer was lost, or the group could not be made.
TestUnanswered(g) ==
  /\ test[g] = "begun"
  /\ test' = [test EXCEPT ![g] = "over"]
  /\ UNCHANGED <<topologyVars, life, record, ready, granted, faults>>

\* finishTest, when ExecuteMultiplayerTestAsync returns: the sessions of the
\* test are over.
TestReturns(i) ==
  /\ record[i] # None
  /\ RuntimeOf(record[i]) \cap Running = {}
  /\ EditOf(i) \cap Running # {}
  /\ record' = [record EXCEPT ![i] = None]
  /\ UNCHANGED <<topologyVars, life, ready, granted, test, faults>>

\* multiplayerTestEnd
TestRemoved(g) ==
  /\ test[g] = "grouped"
  /\ RemoveMultiplayerGroup(g)
  /\ test' = [test EXCEPT ![g] = "over"]
  /\ UNCHANGED <<life, record, ready, granted, faults>>

\* manage_instance closes a Studio process: its sessions are gone.
Closes(i) ==
  /\ \E p \in Running : InstanceOf[p] = i
  /\ life' = [p \in Peers |-> IF InstanceOf[p] = i \/ InstanceOf[TransportOf[p]] = i
                               THEN "gone" ELSE life[p]]
  /\ ready' = {p \in ready : InstanceOf[p] # i}
  /\ UnregisterInstanceId(i)
  /\ UNCHANGED <<record, granted, test, faults>>

Next ==
  \/ \E p \in Peers :
       \/ Begins(p) \/ Leaves(p) \/ Vanishes(p)
       \/ Ready(p) \/ ReadyClient(p) \/ Upgrade(p) \/ UpgradeFails(p)
       \/ Drops(p) \/ Hears(p) \/ Quiets(p)
       \/ \E g \in Groups : TestBegins(p, g)
  \/ \E i \in Instances :
       \/ TestReturns(i) \/ Closes(i)
       \/ \E g \in Groups : TestGroups(i, g)
  \/ \E g \in Groups : TestUnanswered(g) \/ TestRemoved(g)
  \/ CleansUp

Spec == Init /\ [][Next]_vars

\* The server closes the socket of a session that is gone and answers none of
\* its pings, hears no more of it, and cleans up every few seconds.
CleanupFairness ==
  /\ \A p \in Peers : /\ WF_vars(life[p] = "gone" /\ Drops(p))
                      /\ WF_vars(life[p] = "gone" /\ Quiets(p))
  /\ WF_vars(CleansUp)

\* Sessions try to connect as long as they run (scheduleReconnect has no limit),
\* and Studio returns from a test whose sessions are over.
SessionFairness ==
  /\ \A p \in Peers : /\ WF_vars(Ready(p)) /\ WF_vars(Upgrade(p))
                      /\ WF_vars(p \notin peers /\ UpgradeFails(p))
  /\ \A i \in Instances : WF_vars(TestReturns(i))

CleanupSpec == Spec /\ CleanupFairness
FairSpec == CleanupSpec /\ SessionFairness

-----------------------------------------------------------------------------
(***************************************************************************)
(* Properties.                                                             *)
(***************************************************************************)

\* The sessions have the form the plugin gives them, and the registry its own.
TypeOK ==
  /\ TopologyTypeOK
  /\ life \in [Peers -> {"new", "running", "gone"}]
  /\ record \in [Instances -> Groups \cup {None}]
  /\ ready \subseteq {p \in Peers : IsTransport(p)}
  /\ granted \in [Peers -> ClientRoles \cup {None}]
  /\ test \in [Groups -> {"none", "begun", "grouped", "over"}]
  /\ faults \in 0 .. MaxFaults

\* A session that is gone leaves the registry even if nobody unregistered it
\* (cleanupStalePeers; docs/configuration.md: "even when the plugin never
\* unregistered it").
GoneLeave ==
  \A p \in Peers : IsTransport(p) => (life[p] = "gone" ~> p \notin peers)

\* A plugin that runs connects, without anybody's help (docs/configuration.md:
\* "While the plugin is enabled, connection failures retry automatically").
RunningConnects ==
  \A p \in Peers :
    IsTransport(p) => (life[p] = "running" ~> (p \in open \/ life[p] = "gone"))
=============================================================================
