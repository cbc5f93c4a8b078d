---------------------------- MODULE PeerTopology ----------------------------
(***************************************************************************)
(* The server's registry of Studio Peers: BridgeService of                 *)
(* src/packages/core/src/bridge-service.ts, from registerPeer to           *)
(* cleanupStalePeers, behind the handlers of http-server.ts.               *)
(*                                                                         *)
(* A Peer is a plugin in one DataModel of one Studio process (Instance).   *)
(* An edit or server Peer has a socket of its own, a client Peer is        *)
(* reached through a server Peer.  Instances of a multiplayer test form a  *)
(* Multiplayer Group, within which a role ("edit", "server", "client-1")   *)
(* names whom a tool addresses; outside of groups it does so within one    *)
(* Instance.  A handler does not yield, so each is one step; one that      *)
(* refuses changes nothing and is not a step.                              *)
(*                                                                         *)
(* Metadata of places is left out, and so are the aliases of grouped       *)
(* runtime Peers, which the ids the plugin makes cannot collide with.      *)
(***************************************************************************)
EXTENDS Integers, FiniteSets

CONSTANTS
  Peers, Instances, Groups, None,
  InstanceOf,       \* the Instance a Peer belongs to
  TransportOf,      \* the Peer whose socket a Peer is reached through
  KindOf,           \* "edit", "server" or "client"
  MaxClient         \* bound: client ordinals

ASSUME TopologyAssumption ==
  /\ InstanceOf \in [Peers -> Instances]
  /\ TransportOf \in [Peers -> Peers]
  /\ KindOf \in [Peers -> {"edit", "server", "client"}]
  /\ \A p \in Peers : IF KindOf[p] = "client" THEN KindOf[TransportOf[p]] = "server"
                                             ELSE TransportOf[p] = p
  /\ None \notin Groups \cup Instances
  /\ MaxClient \in Nat

VARIABLES
  peers,            \* peersById: the Peers that are registered
  role, groupOf,    \* role and multiplayerGroupId of each
  members,          \* instanceIds of each group; a group without any is not there
  controller,       \* controllerInstanceId of each group
  open,             \* Peers with a socket (deliveryOwnersByTransportPeer)
  quiet             \* Peers with no activity for STALE_PEER_MS

topologyVars == <<peers, role, groupOf, members, controller, open, quiet>>

\* Roles by roleOrder: client-n is n + 1.
Edit == 0
Server == 1
ClientRoles == 2 .. MaxClient + 1
Roles == {Edit, Server} \cup ClientRoles
IsRuntime(r) == r # Edit

IsTransport(p) == TransportOf[p] = p
PeersOf(i) == {p \in peers : InstanceOf[p] = i}

TopologyInit ==
  /\ peers = {}
  /\ role = [p \in Peers |-> Edit]
  /\ groupOf = [p \in Peers |-> None]
  /\ members = [g \in Groups |-> {}]
  /\ controller = [g \in Groups |-> None]
  /\ open = {} /\ quiet = {}

-----------------------------------------------------------------------------
(***************************************************************************)
(* Multiplayer Groups.                                                     *)
(***************************************************************************)

\* groupAttachmentConflict: a role of the Instance is another's in the group.
AttachmentConflict(i, g) ==
  \E p \in PeersOf(i), q \in peers :
    InstanceOf[q] # i /\ groupOf[q] = g /\ role[q] = role[p]

\* attachInstanceToGroup, and detachInstanceFromOtherGroups with it.
AttachedMembers(i, g) ==
  [h \in Groups |-> IF h = g THEN members[h] \cup {i} ELSE members[h] \ {i}]

AttachedController(i, g) ==
  [h \in Groups |-> IF h # g /\ controller[h] = i THEN None ELSE controller[h]]

CreateMultiplayerGroup(g, i) ==
  /\ ~AttachmentConflict(i, g)
  /\ members' = AttachedMembers(i, g)
  /\ controller' = [AttachedController(i, g) EXCEPT ![g] = i]
  /\ groupOf' = [p \in Peers |-> IF p \in PeersOf(i) THEN g ELSE groupOf[p]]
  /\ UNCHANGED <<peers, role, open, quiet>>

RunsIn(S, g) == \E p \in S : groupOf[p] = g /\ IsRuntime(role[p])

RemoveMultiplayerGroupInUse(g) ==
  /\ members[g] # {}
  /\ members' = [members EXCEPT ![g] = {}]
  /\ controller' = [controller EXCEPT ![g] = None]
  /\ groupOf' = [p \in Peers |-> IF groupOf[p] = g THEN None ELSE groupOf[p]]
  /\ UNCHANGED <<peers, role, open, quiet>>

\* A group a runtime Peer is connected in is not removed (MultiplayerGroupInUseError).
RemoveMultiplayerGroup(g) ==
  /\ members[g] # {}
  /\ ~RunsIn(peers, g)
  /\ members' = [members EXCEPT ![g] = {}]
  /\ controller' = [controller EXCEPT ![g] = None]
  /\ groupOf' = [p \in Peers |-> IF groupOf[p] = g THEN None ELSE groupOf[p]]
  /\ UNCHANGED <<peers, role, open, quiet>>

-----------------------------------------------------------------------------
(***************************************************************************)
(* Registration: /ready and registerPeer.  asked is the group the plugin   *)
(* names, requested the role; a client that has none yet asks for None.    *)
(***************************************************************************)
Requests(p) ==
  CASE KindOf[p] = "edit"   -> {Edit}
    [] KindOf[p] = "server" -> {Server}
    [] OTHER                -> ClientRoles \cup {None}

\* groupIdForInstance
GroupsOf(i) == {g \in Groups : i \in members[g]}

\* The group the Peer is registered in: the one it names, else the one its
\* Instance is in, else the one it was in.
Targets(p, asked, g) ==
  IF asked # None THEN g = asked
  ELSE IF GroupsOf(InstanceOf[p]) # {} THEN g \in GroupsOf(InstanceOf[p])
  ELSE g = IF p \in peers THEN groupOf[p] ELSE None

\* A client is registered only behind a server Peer of its Instance or group.
HasTransport(p, asked) ==
  LET t == TransportOf[p]
  IN  /\ t \in peers /\ role[t] = Server
      /\ InstanceOf[t] = InstanceOf[p] \/ (asked # None /\ groupOf[t] = asked)

ScopePeersOfInstance(p, g) ==
  {q \in peers \ {p} : groupOf[q] = g /\ InstanceOf[q] = InstanceOf[p]}

\* registrationScopePeers
ScopePeers(p, g) ==
  {q \in peers \ {p} :
     groupOf[q] = g /\ (g = None => InstanceOf[q] = InstanceOf[p])}

\* A new client takes the first free ordinal, one that was known keeps its own.
Assigns(p, g, requested, r) ==
  LET used == {role[q] : q \in ScopePeers(p, g)}
  IN  IF requested # None THEN r = requested
      ELSE IF p \in peers /\ role[p] \notin used THEN r = role[p]
      ELSE r \in ClientRoles \ used /\ \A s \in ClientRoles \ used : r <= s

\* Whether the Peer may be registered in g with role r.
Admits(p, g, r) ==
  /\ g # None => ~AttachmentConflict(InstanceOf[p], g)
  /\ \A q \in ScopePeers(p, g) : role[q] # r

RegisterPeer(p, asked, requested, g, r) ==
  /\ ~IsTransport(p) => HasTransport(p, asked)
  /\ Targets(p, asked, g) /\ Assigns(p, g, requested, r) /\ Admits(p, g, r)
  /\ peers' = peers \cup {p}
  /\ role' = [role EXCEPT ![p] = r]
  /\ quiet' = quiet \ {p}
  /\ IF g = None
       THEN /\ groupOf' = [groupOf EXCEPT ![p] = None]
            /\ UNCHANGED <<members, controller>>
       ELSE /\ groupOf' = [q \in Peers |-> IF q \in PeersOf(InstanceOf[p]) \cup {p}
                                             THEN g ELSE groupOf[q]]
            /\ members' = AttachedMembers(InstanceOf[p], g)
            /\ controller' = AttachedController(InstanceOf[p], g)
  /\ UNCHANGED open

-----------------------------------------------------------------------------
(***************************************************************************)
(* The end of a Peer, and of an Instance.                                  *)
(***************************************************************************)

LeavingAlone(S) == S \cap peers

\* unregisterPeerInternal: the Peers reached through one that goes, go with it.
Leaving(S) == {q \in peers : q \in S \/ TransportOf[q] \in S \cap peers}

DisconnectedAtOnce(gone) == {InstanceOf[p] : p \in gone}

\* removeInstanceFromGroupsWhenDisconnected
Disconnected(gone) ==
  {InstanceOf[p] : p \in gone} \ {InstanceOf[p] : p \in peers \ gone}

\* The Peers and the Instances that go; the groups that are removed.
Removes(gone, lost, removed) ==
  /\ peers' = peers \ gone
  /\ role' = [p \in Peers |-> IF p \in gone THEN Edit ELSE role[p]]
  /\ groupOf' = [p \in Peers |-> IF p \in gone \/ groupOf[p] \in removed
                                  THEN None ELSE groupOf[p]]
  /\ members' = [g \in Groups |-> IF g \in removed THEN {} ELSE members[g] \ lost]
  /\ controller' = [g \in Groups |-> IF g \in removed \/ controller[g] \in lost
                                       THEN None ELSE controller[g]]
  /\ open' = open \ gone
  /\ quiet' = quiet \ gone

\* /disconnect, and a disconnect on the socket.
UnregisterPeer(p) ==
  LET gone == Leaving({p})
  IN  p \in peers /\ Removes(gone, Disconnected(gone), {})

\* The groups whose last runtime Peer was of the Instance go with it.
UnregisterInstanceId(i) ==
  LET gone == Leaving(PeersOf(i))
      departing == {groupOf[p] : p \in {q \in PeersOf(i) : IsRuntime(role[q])}} \ {None}
  IN  Removes(gone, Disconnected(gone) \cup {i},
              {g \in departing : ~RunsIn(peers \ gone, g)})

Stale == {p \in quiet : TransportOf[p] \notin open}

CleanupStalePeers ==
  LET gone == Leaving(Stale)
  IN  Stale # {} /\ Removes(gone, Disconnected(gone), {})

-----------------------------------------------------------------------------
(***************************************************************************)
(* Sockets, and the activity of Peers (setDeliveryActive,                  *)
(* updatePeerActivity): what a socket brings counts for every Peer behind  *)
(* it.                                                                     *)
(***************************************************************************)
Reached(t) == {p \in Peers : TransportOf[p] = t}

SocketOpens(t) ==
  /\ t \in peers /\ IsTransport(t)
  /\ open' = open \cup {t}
  /\ quiet' = quiet \ Reached(t)
  /\ UNCHANGED <<peers, role, groupOf, members, controller>>

SocketClosesUnnoticed(t) ==
  /\ t \in open
  /\ UNCHANGED topologyVars

SocketCloses(t) ==
  /\ t \in open
  /\ open' = open \ {t}
  /\ UNCHANGED <<peers, role, groupOf, members, controller, quiet>>

UpdatePeerActivity(t) ==
  /\ t \in open /\ quiet \cap Reached(t) # {}
  /\ quiet' = quiet \ Reached(t)
  /\ UNCHANGED <<peers, role, groupOf, members, controller, open>>

GoesQuiet(p) ==
  /\ p \in peers \ quiet
  /\ quiet' = quiet \cup {p}
  /\ UNCHANGED <<peers, role, groupOf, members, controller, open>>

TopologyNext ==
  \/ \E g \in Groups :
       \/ RemoveMultiplayerGroup(g)
       \/ \E i \in Instances : CreateMultiplayerGroup(g, i)
  \/ \E p \in Peers :
       \/ \E asked, g \in Groups \cup {None}, requested \in Requests(p), r \in Roles :
            RegisterPeer(p, asked, requested, g, r)
       \/ UnregisterPeer(p) \/ GoesQuiet(p)
       \/ SocketOpens(p) \/ SocketCloses(p) \/ UpdatePeerActivity(p)
  \/ \E i \in Instances : UnregisterInstanceId(i)
  \/ CleanupStalePeers

TopologySpec == TopologyInit /\ [][TopologyNext]_topologyVars

-----------------------------------------------------------------------------
(***************************************************************************)
(* Properties.                                                             *)
(***************************************************************************)

\* The registry has the form the code gives it (peersById,
\* multiplayerGroupsById).
TopologyTypeOK ==
  /\ peers \subseteq Peers
  /\ role \in [Peers -> Roles]
  /\ groupOf \in [Peers -> Groups \cup {None}]
  /\ members \in [Groups -> SUBSET Instances]
  /\ controller \in [Groups -> Instances \cup {None}]
  /\ open \subseteq peers /\ quiet \subseteq peers

\* The two records of a membership agree: a Peer carries a group exactly when
\* its Instance is listed in it, so an Instance with Peers is in one group at
\* most; and a group is controlled by one of its members (attachInstanceToGroup,
\* detachInstanceFromOtherGroups, unregisterPeerInternal).
GroupsAgree ==
  /\ \A p \in peers, g \in Groups : groupOf[p] = g <=> InstanceOf[p] \in members[g]
  /\ \A g \in Groups : controller[g] # None => controller[g] \in members[g]

\* Within a group no role is claimed by two Instances, however Instances move
\* between groups: a tool that addresses a role means one Studio process
\* (groupAttachmentConflict, registerPeer).
RolesBelongToOneInstance ==
  \A p, q \in peers :
    groupOf[p] # None /\ groupOf[p] = groupOf[q] /\ role[p] = role[q]
      => InstanceOf[p] = InstanceOf[q]

\* No client Peer outlives the server Peer it is reached through: a request for
\* it always has a socket to go to (unregisterPeerInternal).
ClientsHaveTransport == \A p \in peers : TransportOf[p] \in peers

\* A runtime Peer that stays registered never loses its group, whatever leaves
\* and whatever is removed; it only moves to another (removeMultiplayerGroup:
\* "Check the authoritative registry without yielding before deleting or
\* detaching").
RuntimeKeepsGroup ==
  [][\A p \in peers \cap peers' :
       groupOf[p] # None /\ IsRuntime(role[p]) => groupOf'[p] # None]_topologyVars
=============================================================================
