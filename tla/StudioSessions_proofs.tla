------------------------ MODULE StudioSessions_proofs ------------------------
(***************************************************************************)
(* The registry of Peers keeps its invariants whatever sessions do, for    *)
(* any number of Peers, Instances and Groups.  The proofs are about the    *)
(* registry alone (PeerTopology): every step of the sessions is a step of  *)
(* the registry or leaves it as it is.                                     *)
(***************************************************************************)
EXTENDS StudioSessions, TLAPS

Registry ==
  TopologyTypeOK /\ GroupsAgree /\ RolesBelongToOneInstance /\ ClientsHaveTransport

\* A Peer that is reached through another is reached through a transport.
LEMMA TransportIsTransport ==
  \A p \in Peers : TransportOf[p] \in Peers /\ TransportOf[TransportOf[p]] = TransportOf[p]
BY TopologyAssumption

\* Every role a Peer may ask for is one.
LEMMA EditIsARole == Edit \in Roles
BY DEF Edit, Server, Roles

LEMMA InitKeeps == TopologyInit => Registry
BY TopologyAssumption, EditIsARole
   DEF TopologyInit, Registry, TopologyTypeOK, GroupsAgree, RolesBelongToOneInstance,
       ClientsHaveTransport

\* S are the Peers of the Instance that enters the group.
LEMMA CreateKeeps ==
  ASSUME Registry, NEW g \in Groups, NEW i \in Instances, CreateMultiplayerGroup(g, i)
  PROVE  Registry'
<1> USE TopologyAssumption
<1> DEFINE S == PeersOf(i)
<1>0. /\ members' = [h \in Groups |-> IF h = g THEN members[h] \cup {i} ELSE members[h] \ {i}]
      /\ \A h \in Groups : controller'[h] =
           IF h = g THEN i ELSE IF controller[h] = i THEN None ELSE controller[h]
      /\ controller' \in [Groups -> Instances \cup {None}]
      /\ groupOf' = [p \in Peers |-> IF p \in S THEN g ELSE groupOf[p]]
      /\ peers' = peers /\ role' = role /\ open' = open /\ quiet' = quiet
  BY DEF CreateMultiplayerGroup, AttachedMembers, AttachedController, Registry, TopologyTypeOK
<1>1. TopologyTypeOK'
  BY <1>0 DEF Registry, TopologyTypeOK
<1>2. \A p \in peers', h \in Groups : groupOf'[p] = h <=> InstanceOf[p] \in members'[h]
  <2> TAKE p \in peers', h \in Groups
  <2>1. p \in Peers /\ p \in peers /\ (groupOf[p] = h <=> InstanceOf[p] \in members[h])
    BY <1>0 DEF Registry, TopologyTypeOK, GroupsAgree
  <2>2. CASE InstanceOf[p] = i
    BY <1>0, <2>1, <2>2 DEF PeersOf
  <2>3. CASE InstanceOf[p] # i
    BY <1>0, <2>1, <2>3 DEF PeersOf
  <2> QED BY <2>2, <2>3
<1>3. \A h \in Groups : controller'[h] # None => controller'[h] \in members'[h]
  BY <1>0 DEF Registry, TopologyTypeOK, GroupsAgree
<1>4. RolesBelongToOneInstance'
  <2> SUFFICES ASSUME NEW p \in peers, NEW q \in peers,
                      groupOf'[p] # None, groupOf'[p] = groupOf'[q], role[p] = role[q]
               PROVE  InstanceOf[p] = InstanceOf[q]
    BY <1>0 DEF RolesBelongToOneInstance
  <2>1. p \in Peers /\ q \in Peers
    BY DEF Registry, TopologyTypeOK
  <2>2. ~AttachmentConflict(i, g)
    BY DEF CreateMultiplayerGroup
  <2>3. CASE p \in S /\ q \in S
    BY <2>3 DEF PeersOf
  <2>4. CASE p \in S /\ q \notin S
    BY <1>0, <2>1, <2>2, <2>4 DEF PeersOf, AttachmentConflict
  <2>5. CASE p \notin S /\ q \in S
    BY <1>0, <2>1, <2>2, <2>5 DEF PeersOf, AttachmentConflict
  <2>6. CASE p \notin S /\ q \notin S
    BY <1>0, <2>1, <2>6 DEF Registry, RolesBelongToOneInstance
  <2> QED BY <2>3, <2>4, <2>5, <2>6
<1>5. ClientsHaveTransport'
  BY <1>0 DEF Registry, ClientsHaveTransport
<1> QED BY <1>1, <1>2, <1>3, <1>4, <1>5 DEF Registry, GroupsAgree

\* A group that is removed, and with it nothing else.
LEMMA RemoveKeeps ==
  ASSUME Registry, NEW g \in Groups, RemoveMultiplayerGroup(g)
  PROVE  Registry'
<1> USE TopologyAssumption
<1>1. TopologyTypeOK'
  BY DEF RemoveMultiplayerGroup, Registry, TopologyTypeOK
<1>2. GroupsAgree'
  BY DEF RemoveMultiplayerGroup, Registry, TopologyTypeOK, GroupsAgree
<1>3. RolesBelongToOneInstance' /\ ClientsHaveTransport'
  BY DEF RemoveMultiplayerGroup, Registry, TopologyTypeOK, RolesBelongToOneInstance,
         ClientsHaveTransport
<1> QED BY <1>1, <1>2, <1>3 DEF Registry

\* A Peer that is registered in no group was in none, and its Instance is in none.
LEMMA Ungrouped ==
  ASSUME Registry, NEW p \in Peers, NEW asked \in Groups \cup {None},
         Targets(p, asked, None)
  PROVE  /\ GroupsOf(InstanceOf[p]) = {}
         /\ p \in peers => groupOf[p] = None
<1> USE TopologyAssumption
<1>1. asked = None
  BY DEF Targets
<1>2. GroupsOf(InstanceOf[p]) = {}
  BY <1>1 DEF Targets, GroupsOf
<1>3. p \in peers => groupOf[p] = None
  BY <1>1, <1>2 DEF Targets
<1> QED BY <1>2, <1>3

\* A registration outside of groups.
LEMMA RegisterAloneKeeps ==
  ASSUME Registry, NEW p \in Peers, NEW asked \in Groups \cup {None},
         NEW requested \in Requests(p), NEW r \in Roles,
         RegisterPeer(p, asked, requested, None, r)
  PROVE  Registry'
<1> USE TopologyAssumption
<1>0. /\ peers' = peers \cup {p} /\ quiet' = quiet \ {p} /\ open' = open
      /\ role' = [role EXCEPT ![p] = r] /\ groupOf' = [groupOf EXCEPT ![p] = None]
      /\ members' = members /\ controller' = controller
      /\ ~IsTransport(p) => TransportOf[p] \in peers
  BY DEF RegisterPeer, HasTransport
<1>1. GroupsOf(InstanceOf[p]) = {}
  BY Ungrouped DEF RegisterPeer
<1>2. TopologyTypeOK'
  BY <1>0 DEF Registry, TopologyTypeOK
<1>3. GroupsAgree'
  BY <1>0, <1>1 DEF Registry, TopologyTypeOK, GroupsAgree, GroupsOf
<1>4. RolesBelongToOneInstance'
  BY <1>0 DEF Registry, TopologyTypeOK, RolesBelongToOneInstance
<1>5. ClientsHaveTransport'
  BY <1>0 DEF Registry, ClientsHaveTransport, IsTransport
<1> QED BY <1>2, <1>3, <1>4, <1>5 DEF Registry

\* A registration in a group takes the Peers of the Instance, S, there.
LEMMA RegisterInGroupKeeps ==
  ASSUME Registry, NEW p \in Peers, NEW asked \in Groups \cup {None},
         NEW requested \in Requests(p), NEW r \in Roles, NEW g \in Groups,
         RegisterPeer(p, asked, requested, g, r)
  PROVE  Registry'
<1> USE TopologyAssumption
<1> DEFINE i == InstanceOf[p]
           S == PeersOf(i) \cup {p}
<1>0. /\ peers' = peers \cup {p} /\ quiet' = quiet \ {p} /\ open' = open
      /\ role' = [role EXCEPT ![p] = r]
      /\ groupOf' = [q \in Peers |-> IF q \in S THEN g ELSE groupOf[q]]
      /\ members' = [h \in Groups |-> IF h = g THEN members[h] \cup {i} ELSE members[h] \ {i}]
      /\ controller' = [h \in Groups |-> IF h # g /\ controller[h] = i THEN None
                                                                      ELSE controller[h]]
      /\ ~IsTransport(p) => TransportOf[p] \in peers
  BY DEF RegisterPeer, HasTransport, AttachedMembers, AttachedController
<1>1. TopologyTypeOK'
  BY <1>0 DEF Registry, TopologyTypeOK
<1>2. \A q \in peers', h \in Groups : groupOf'[q] = h <=> InstanceOf[q] \in members'[h]
  <2> TAKE q \in peers', h \in Groups
  <2>1. q \in Peers /\ (q # p => q \in peers /\ (groupOf[q] = h <=> InstanceOf[q] \in members[h]))
    BY <1>0 DEF Registry, TopologyTypeOK, GroupsAgree
  <2>2. CASE InstanceOf[q] = i
    BY <1>0, <2>1, <2>2 DEF PeersOf
  <2>3. CASE InstanceOf[q] # i
    BY <1>0, <2>1, <2>3 DEF PeersOf
  <2> QED BY <2>2, <2>3
<1>3. \A h \in Groups : controller'[h] # None => controller'[h] \in members'[h]
  BY <1>0 DEF Registry, TopologyTypeOK, GroupsAgree
<1>4. RolesBelongToOneInstance'
  <2>1. \A q \in peers : q \in Peers
    BY DEF Registry, TopologyTypeOK
  <2>2. \A q \in peers : InstanceOf[q] # i /\ groupOf[q] = g => role[q] # r
    BY DEF RegisterPeer, Admits, ScopePeers
  <2>3. \A s, q \in peers : InstanceOf[s] = i /\ InstanceOf[q] # i /\ groupOf[q] = g
                              => role[q] # role[s]
    BY DEF RegisterPeer, Admits, AttachmentConflict, PeersOf
  <2>4. \A s \in peers' : InstanceOf[s] = i => s = p \/ s \in peers
    BY <1>0
  <2>5. \A s, q \in peers' : InstanceOf[s] = i /\ InstanceOf[q] # i /\ groupOf'[q] = g
                              => role'[q] # role'[s]
    <3> TAKE s \in peers', q \in peers'
    <3> HAVE InstanceOf[s] = i /\ InstanceOf[q] # i /\ groupOf'[q] = g
    <3>1. q \in peers /\ q # p /\ groupOf[q] = g /\ role'[q] = role[q]
      BY <1>0, <2>1 DEF PeersOf, Registry, TopologyTypeOK
    <3>2. CASE s = p
      BY <1>0, <2>2, <3>1, <3>2 DEF Registry, TopologyTypeOK
    <3>3. CASE s # p
      BY <1>0, <2>1, <2>3, <2>4, <3>1, <3>3 DEF Registry, TopologyTypeOK
    <3> QED BY <3>2, <3>3
  <2>6. \A s \in peers' : InstanceOf[s] = i => groupOf'[s] = g
    BY <1>0, <2>1 DEF PeersOf
  <2>7. \A s \in peers' : InstanceOf[s] # i =>
           s \in peers /\ role'[s] = role[s] /\ groupOf'[s] = groupOf[s]
    BY <1>0, <2>1 DEF PeersOf, Registry, TopologyTypeOK
  <2> SUFFICES ASSUME NEW s \in peers', NEW q \in peers', groupOf'[s] # None,
                      groupOf'[s] = groupOf'[q], role'[s] = role'[q]
               PROVE  InstanceOf[s] = InstanceOf[q]
    BY DEF RolesBelongToOneInstance
  <2>8. CASE InstanceOf[s] = i /\ InstanceOf[q] = i
    BY <2>8
  <2>9. CASE InstanceOf[s] = i /\ InstanceOf[q] # i
    BY <2>5, <2>6, <2>9
  <2>10. CASE InstanceOf[s] # i /\ InstanceOf[q] = i
    BY <2>5, <2>6, <2>10
  <2>11. CASE InstanceOf[s] # i /\ InstanceOf[q] # i
    BY <2>7, <2>11 DEF Registry, RolesBelongToOneInstance
  <2> QED BY <2>8, <2>9, <2>10, <2>11
<1>5. ClientsHaveTransport'
  BY <1>0 DEF Registry, ClientsHaveTransport, IsTransport
<1> QED BY <1>1, <1>2, <1>3, <1>4, <1>5 DEF Registry, GroupsAgree

-----------------------------------------------------------------------------
\* The Peers that go take those that are reached through them along, no Peer of
\* an Instance that is lost stays, and groups that are removed are groups.
Departure(S, gone, lost, removed) ==
  /\ gone = Leaving(S)
  /\ lost \cap {InstanceOf[p] : p \in peers \ gone} = {}
  /\ removed \subseteq Groups
  /\ Removes(gone, lost, removed)

LEMMA RemovesKeeps ==
  ASSUME Registry, NEW S \in SUBSET Peers, NEW gone, NEW lost, NEW removed,
         Departure(S, gone, lost, removed)
  PROVE  Registry'
<1> USE TopologyAssumption
<1>0. /\ peers' = peers \ gone /\ open' = open \ gone /\ quiet' = quiet \ gone
      /\ role' = [p \in Peers |-> IF p \in gone THEN Edit ELSE role[p]]
      /\ groupOf' = [p \in Peers |-> IF p \in gone \/ groupOf[p] \in removed
                                      THEN None ELSE groupOf[p]]
      /\ members' = [g \in Groups |-> IF g \in removed THEN {} ELSE members[g] \ lost]
      /\ controller' = [g \in Groups |-> IF g \in removed \/ controller[g] \in lost
                                           THEN None ELSE controller[g]]
      /\ removed \subseteq Groups
  BY DEF Departure, Removes
<1>1. TopologyTypeOK'
  BY <1>0, EditIsARole DEF Registry, TopologyTypeOK
<1>2. \A p \in peers', g \in Groups : groupOf'[p] = g <=> InstanceOf[p] \in members'[g]
  <2> TAKE p \in peers', g \in Groups
  <2>1. /\ p \in Peers /\ p \in peers /\ p \notin gone
        /\ groupOf[p] = g <=> InstanceOf[p] \in members[g]
    BY <1>0 DEF Registry, TopologyTypeOK, GroupsAgree
  <2>2. InstanceOf[p] \notin lost
    BY <2>1 DEF Departure
  <2>3. groupOf'[p] = IF groupOf[p] \in removed THEN None ELSE groupOf[p]
    BY <1>0, <2>1
  <2>4. CASE g \in removed
    BY <1>0, <2>3, <2>4
  <2>5. CASE g \notin removed
    BY <1>0, <2>1, <2>2, <2>3, <2>5
  <2> QED BY <2>4, <2>5
<1>3. \A g \in Groups : controller'[g] # None => controller'[g] \in members'[g]
  BY <1>0 DEF Registry, TopologyTypeOK, GroupsAgree
<1>4. RolesBelongToOneInstance'
  <2>1. \A p \in peers' : /\ p \in peers /\ role'[p] = role[p]
                          /\ groupOf'[p] # None => groupOf'[p] = groupOf[p]
    BY <1>0 DEF Registry, TopologyTypeOK
  <2> QED BY <2>1 DEF Registry, RolesBelongToOneInstance
<1>5. ClientsHaveTransport'
  <2> SUFFICES ASSUME NEW p \in peers' PROVE TransportOf[p] \in peers'
    BY DEF ClientsHaveTransport
  <2>1. p \in Peers /\ p \in peers /\ TransportOf[p] \in peers /\ p \notin gone
    BY <1>0 DEF Registry, TopologyTypeOK, ClientsHaveTransport
  <2>2. TransportOf[p] \notin gone
    BY <2>1, TransportIsTransport DEF Departure, Leaving
  <2> QED BY <1>0, <2>1, <2>2
<1> QED BY <1>1, <1>2, <1>3, <1>4, <1>5 DEF Registry, GroupsAgree

\* Each way in which Peers go is a departure.
LEMMA PeerDeparts ==
  ASSUME NEW p \in Peers, UnregisterPeer(p)
  PROVE  Departure({p}, Leaving({p}), Disconnected(Leaving({p})), {})
BY DEF UnregisterPeer, Departure, Disconnected

\* The groups that an Instance takes along.
Departing(i) ==
  {g \in {groupOf[p] : p \in {q \in PeersOf(i) : IsRuntime(role[q])}} \ {None} :
     ~RunsIn(peers \ Leaving(PeersOf(i)), g)}

LEMMA InstanceDeparts ==
  ASSUME Registry, NEW i \in Instances, UnregisterInstanceId(i)
  PROVE  Departure(PeersOf(i), Leaving(PeersOf(i)),
                   Disconnected(Leaving(PeersOf(i))) \cup {i}, Departing(i))
<1> DEFINE gone == Leaving(PeersOf(i))
<1>1. Removes(gone, Disconnected(gone) \cup {i}, Departing(i))
  BY DEF UnregisterInstanceId, Departing
<1>2. \A p \in peers \ gone : InstanceOf[p] # i
  BY DEF Leaving, PeersOf
<1>3. Disconnected(gone) \cap {InstanceOf[p] : p \in peers \ gone} = {}
  BY DEF Disconnected
<1>4. Departing(i) \subseteq Groups
  BY DEF Departing, PeersOf, Registry, TopologyTypeOK
<1> QED BY <1>1, <1>2, <1>3, <1>4 DEF Departure

LEMMA StaleDepart ==
  ASSUME CleanupStalePeers
  PROVE  Departure(Stale, Leaving(Stale), Disconnected(Leaving(Stale)), {})
BY DEF CleanupStalePeers, Departure, Disconnected

\* Sockets and activity touch no membership.
LEMMA SocketsKeep ==
  ASSUME Registry, NEW p \in Peers,
         SocketOpens(p) \/ SocketCloses(p) \/ UpdatePeerActivity(p) \/ GoesQuiet(p)
  PROVE  Registry'
<1>1. /\ peers' = peers /\ role' = role /\ groupOf' = groupOf /\ members' = members
      /\ controller' = controller
  BY DEF SocketOpens, SocketCloses, UpdatePeerActivity, GoesQuiet
<1>2. open' \subseteq peers /\ quiet' \subseteq peers
  BY DEF SocketOpens, SocketCloses, UpdatePeerActivity, GoesQuiet, Registry, TopologyTypeOK
<1> QED BY <1>1, <1>2 DEF Registry, TopologyTypeOK, GroupsAgree, RolesBelongToOneInstance,
                          ClientsHaveTransport

LEMMA TopologyStep == Registry /\ [TopologyNext]_topologyVars => Registry'
<1> SUFFICES ASSUME Registry, [TopologyNext]_topologyVars PROVE Registry'
  OBVIOUS
<1>1. ASSUME NEW g \in Groups, RemoveMultiplayerGroup(g) PROVE Registry'
  BY <1>1, RemoveKeeps
<1>2. ASSUME NEW g \in Groups, NEW i \in Instances, CreateMultiplayerGroup(g, i) PROVE Registry'
  BY <1>2, CreateKeeps
<1>3. ASSUME NEW p \in Peers, NEW asked \in Groups \cup {None}, NEW g \in Groups \cup {None},
             NEW requested \in Requests(p), NEW r \in Roles,
             RegisterPeer(p, asked, requested, g, r)
      PROVE  Registry'
  <2>1. CASE g = None
    BY <1>3, <2>1, RegisterAloneKeeps
  <2>2. CASE g # None
    BY <1>3, <2>2, RegisterInGroupKeeps
  <2> QED BY <2>1, <2>2
<1>4. ASSUME NEW p \in Peers, UnregisterPeer(p) PROVE Registry'
  BY <1>4, PeerDeparts, RemovesKeeps
<1>5. ASSUME NEW p \in Peers,
             SocketOpens(p) \/ SocketCloses(p) \/ UpdatePeerActivity(p) \/ GoesQuiet(p)
      PROVE  Registry'
  BY <1>5, SocketsKeep
<1>6. ASSUME NEW i \in Instances, UnregisterInstanceId(i) PROVE Registry'
  <2>1. PeersOf(i) \in SUBSET Peers
    BY DEF PeersOf, Registry, TopologyTypeOK
  <2> QED BY <1>6, <2>1, InstanceDeparts, RemovesKeeps
<1>7. ASSUME CleanupStalePeers PROVE Registry'
  <2>1. Stale \in SUBSET Peers
    BY DEF Stale, Registry, TopologyTypeOK
  <2> QED BY <1>7, <2>1, StaleDepart, RemovesKeeps
<1>8. CASE UNCHANGED topologyVars
  BY <1>8 DEF topologyVars, Registry, TopologyTypeOK, GroupsAgree, RolesBelongToOneInstance,
              ClientsHaveTransport
<1> QED BY <1>1, <1>2, <1>3, <1>4, <1>5, <1>6, <1>7, <1>8 DEF TopologyNext

-----------------------------------------------------------------------------
(***************************************************************************)
(* What stays registered keeps its group.                                  *)
(***************************************************************************)
KeepsGroup ==
  \A p \in peers \cap peers' :
    groupOf[p] # None /\ IsRuntime(role[p]) => groupOf'[p] # None

LEMMA RemovesKeepsGroup ==
  ASSUME Registry, NEW S \in SUBSET Peers, NEW gone, NEW lost, NEW removed,
         Departure(S, gone, lost, removed),
         removed = {} \/ \A g \in removed : ~RunsIn(peers \ gone, g)
  PROVE  KeepsGroup
<1> SUFFICES ASSUME NEW p \in peers \cap peers', groupOf[p] # None, IsRuntime(role[p])
             PROVE  groupOf'[p] # None
  BY DEF KeepsGroup
<1>1. p \in Peers /\ p \in peers \ gone
  BY DEF Departure, Removes, Registry, TopologyTypeOK
<1>2. groupOf[p] \notin removed
  BY <1>1 DEF RunsIn
<1>3. groupOf'[p] = groupOf[p]
  BY <1>1, <1>2 DEF Departure, Removes
<1> QED BY <1>3

LEMMA RegisterKeepsGroup ==
  ASSUME Registry, NEW p \in Peers, NEW asked \in Groups \cup {None},
         NEW g \in Groups \cup {None}, NEW requested \in Requests(p), NEW r \in Roles,
         RegisterPeer(p, asked, requested, g, r)
  PROVE  KeepsGroup
<1> USE TopologyAssumption
<1> SUFFICES ASSUME NEW q \in peers \cap peers', groupOf[q] # None
             PROVE  groupOf'[q] # None
  BY DEF KeepsGroup
<1>1. q \in Peers
  BY DEF Registry, TopologyTypeOK
<1>2. CASE g = None
  <2>1. groupOf' = [groupOf EXCEPT ![p] = None]
    BY <1>2 DEF RegisterPeer
  <2>2. q # p
    BY <1>2, Ungrouped DEF RegisterPeer
  <2> QED BY <1>1, <2>1, <2>2 DEF Registry, TopologyTypeOK
<1>3. CASE g # None
  BY <1>1, <1>3 DEF RegisterPeer
<1> QED BY <1>2, <1>3

LEMMA KeepsGroupStep == Registry /\ [TopologyNext]_topologyVars => KeepsGroup
<1> USE TopologyAssumption
<1> SUFFICES ASSUME Registry, [TopologyNext]_topologyVars PROVE KeepsGroup
  OBVIOUS
<1>0. peers \subseteq Peers
  BY DEF Registry, TopologyTypeOK
<1>1. ASSUME NEW g \in Groups, RemoveMultiplayerGroup(g) PROVE KeepsGroup
  <2>1. /\ groupOf' = [p \in Peers |-> IF groupOf[p] = g THEN None ELSE groupOf[p]]
        /\ ~\E p \in peers : groupOf[p] = g /\ IsRuntime(role[p])
    BY <1>1 DEF RemoveMultiplayerGroup, RunsIn
  <2> QED BY <1>0, <2>1 DEF KeepsGroup
<1>2. ASSUME NEW g \in Groups, NEW i \in Instances, CreateMultiplayerGroup(g, i) PROVE KeepsGroup
  <2>1. groupOf' = [p \in Peers |-> IF p \in PeersOf(i) THEN g ELSE groupOf[p]]
    BY <1>2 DEF CreateMultiplayerGroup
  <2> QED BY <1>0, <2>1 DEF KeepsGroup
<1>3. ASSUME NEW p \in Peers, NEW asked \in Groups \cup {None}, NEW g \in Groups \cup {None},
             NEW requested \in Requests(p), NEW r \in Roles,
             RegisterPeer(p, asked, requested, g, r)
      PROVE  KeepsGroup
  BY <1>3, RegisterKeepsGroup
<1>4. ASSUME NEW p \in Peers, UnregisterPeer(p) PROVE KeepsGroup
  BY <1>4, PeerDeparts, RemovesKeepsGroup
<1>5. ASSUME NEW p \in Peers,
             SocketOpens(p) \/ SocketCloses(p) \/ UpdatePeerActivity(p) \/ GoesQuiet(p)
      PROVE  KeepsGroup
  <2>1. groupOf' = groupOf
    BY <1>5 DEF SocketOpens, SocketCloses, UpdatePeerActivity, GoesQuiet
  <2> QED BY <2>1 DEF KeepsGroup
<1>6. ASSUME NEW i \in Instances, UnregisterInstanceId(i) PROVE KeepsGroup
  <2>1. PeersOf(i) \in SUBSET Peers
    BY <1>0 DEF PeersOf
  <2>2. \A g \in Departing(i) : ~RunsIn(peers \ Leaving(PeersOf(i)), g)
    BY DEF Departing
  <2> QED BY <1>6, <2>1, <2>2, InstanceDeparts, RemovesKeepsGroup
<1>7. ASSUME CleanupStalePeers PROVE KeepsGroup
  <2>1. Stale \in SUBSET Peers
    BY <1>0 DEF Stale, Registry, TopologyTypeOK
  <2> QED BY <1>7, <2>1, StaleDepart, RemovesKeepsGroup
<1>8. CASE UNCHANGED topologyVars
  BY <1>8 DEF topologyVars, KeepsGroup
<1> QED BY <1>1, <1>2, <1>3, <1>4, <1>5, <1>6, <1>7, <1>8 DEF TopologyNext

-----------------------------------------------------------------------------
(***************************************************************************)
(* The sessions work on the registry through its operations only.          *)
(***************************************************************************)
SessionTypeOK ==
  /\ life \in [Peers -> {"new", "running", "gone"}]
  /\ record \in [Instances -> Groups \cup {None}]
  /\ ready \subseteq {p \in Peers : IsTransport(p)}
  /\ granted \in [Peers -> ClientRoles \cup {None}]
  /\ test \in [Groups -> {"none", "begun", "grouped", "over"}]
  /\ faults \in 0 .. MaxFaults

\* A Peer that is reached through another has the role of a client, so that the
\* role a plugin keeps for its next registration is one.
ClientsAreClients == \A p \in peers : ~IsTransport(p) => role[p] \in ClientRoles

IInv == Registry /\ SessionTypeOK /\ ClientsAreClients

LEMMA AsksForAGroup ==
  ASSUME SessionTypeOK, NEW p \in Peers
  PROVE  Asks(p) \in Groups \cup {None}
BY TopologyAssumption, SessionAssumption DEF SessionTypeOK, Asks

LEMMA ClientRequests ==
  ASSUME NEW p \in Peers, ~IsTransport(p)
  PROVE  Requests(p) = ClientRoles \cup {None}
BY TopologyAssumption DEF Requests, IsTransport

LEMMA NextIsTopologyNext == SessionTypeOK /\ [Next]_vars => [TopologyNext]_topologyVars
<1> SUFFICES ASSUME SessionTypeOK, [Next]_vars PROVE [TopologyNext]_topologyVars
  OBVIOUS
<1>1. ASSUME NEW p \in Peers, Begins(p) PROVE UNCHANGED topologyVars
  BY <1>1 DEF Begins
<1>2. ASSUME NEW p \in Peers, Leaves(p) PROVE UnregisterPeer(p) \/ UNCHANGED topologyVars
  BY <1>2 DEF Leaves
<1>3. ASSUME NEW p \in Peers, Vanishes(p) PROVE UNCHANGED topologyVars
  BY <1>3 DEF Vanishes
<1>4. ASSUME NEW p \in Peers, Ready(p) PROVE TopologyNext
  BY <1>4, AsksForAGroup DEF Ready, TopologyNext
<1>5. ASSUME NEW p \in Peers, ReadyClient(p) PROVE TopologyNext
  <2>1. granted[p] \in Requests(p)
    BY <1>5, ClientRequests DEF ReadyClient, SessionTypeOK
  <2> QED BY <1>5, <2>1, AsksForAGroup DEF ReadyClient, TopologyNext
<1>6. ASSUME NEW p \in Peers, Upgrade(p) PROVE SocketOpens(p)
  BY <1>6 DEF Upgrade
<1>7. ASSUME NEW p \in Peers, UpgradeFails(p) PROVE UNCHANGED topologyVars
  BY <1>7 DEF UpgradeFails
<1>8. ASSUME NEW p \in Peers, Drops(p) PROVE SocketCloses(p)
  BY <1>8 DEF Drops
<1>9. ASSUME NEW p \in Peers, Hears(p) PROVE UpdatePeerActivity(p)
  BY <1>9 DEF Hears
<1>10. ASSUME NEW p \in Peers, Quiets(p) PROVE GoesQuiet(p)
  BY <1>10 DEF Quiets
<1>11. ASSUME NEW p \in Peers, NEW g \in Groups, TestBegins(p, g) PROVE UNCHANGED topologyVars
  BY <1>11 DEF TestBegins
<1>12. ASSUME NEW i \in Instances, TestReturns(i) PROVE UNCHANGED topologyVars
  BY <1>12 DEF TestReturns
<1>13. ASSUME NEW i \in Instances, Closes(i) PROVE UnregisterInstanceId(i)
  BY <1>13 DEF Closes
<1>14. ASSUME NEW i \in Instances, NEW g \in Groups, TestGroups(i, g)
       PROVE  CreateMultiplayerGroup(g, i)
  BY <1>14 DEF TestGroups
<1>15. ASSUME NEW g \in Groups, TestUnanswered(g) PROVE UNCHANGED topologyVars
  BY <1>15 DEF TestUnanswered
<1>16. ASSUME NEW g \in Groups, TestRemoved(g) PROVE RemoveMultiplayerGroup(g)
  BY <1>16 DEF TestRemoved
<1>17. ASSUME CleansUp PROVE CleanupStalePeers
  BY <1>17 DEF CleansUp
<1>18. ASSUME UNCHANGED vars PROVE UNCHANGED topologyVars
  BY <1>18 DEF vars, topologyVars
<1>19. CASE \E p \in Peers :
              \/ Begins(p) \/ Leaves(p) \/ Vanishes(p)
              \/ Ready(p) \/ ReadyClient(p) \/ Upgrade(p) \/ UpgradeFails(p)
              \/ Drops(p) \/ Hears(p) \/ Quiets(p)
              \/ \E g \in Groups : TestBegins(p, g)
  BY <1>19, <1>1, <1>2, <1>3, <1>4, <1>5, <1>6, <1>7, <1>8, <1>9, <1>10, <1>11 DEF TopologyNext
<1>20. CASE \E i \in Instances :
              TestReturns(i) \/ Closes(i) \/ \E g \in Groups : TestGroups(i, g)
  BY <1>20, <1>12, <1>13, <1>14 DEF TopologyNext
<1>21. CASE \E g \in Groups : TestUnanswered(g) \/ TestRemoved(g)
  BY <1>21, <1>15, <1>16 DEF TopologyNext
<1>22. CASE CleansUp
  BY <1>22, <1>17 DEF TopologyNext
<1> QED BY <1>18, <1>19, <1>20, <1>21, <1>22 DEF Next

-----------------------------------------------------------------------------
(***************************************************************************)
(* The sessions keep their form.  A role that a client keeps for its next  *)
(* registration is one that the registry gave to a client.                 *)
(***************************************************************************)

\* Every registration of a client gives it a client's role.
LEMMA ClientRoleAssigned ==
  ASSUME ClientsAreClients, NEW p \in Peers, ~IsTransport(p), NEW g, NEW r,
         NEW requested \in Requests(p), Assigns(p, g, requested, r)
  PROVE  r \in ClientRoles
<1>1. requested \in ClientRoles \cup {None}
  BY ClientRequests
<1>2. CASE requested # None
  BY <1>1, <1>2 DEF Assigns
<1>3. CASE requested = None
  BY <1>3 DEF Assigns, ClientsAreClients
<1> QED BY <1>2, <1>3

LEMMA ClientsStep ==
  Registry /\ ClientsAreClients /\ [TopologyNext]_topologyVars => ClientsAreClients'
<1> USE TopologyAssumption
<1> SUFFICES ASSUME Registry, ClientsAreClients, [TopologyNext]_topologyVars
             PROVE  ClientsAreClients'
  OBVIOUS
<1>0. peers \subseteq Peers /\ role \in [Peers -> Roles]
  BY DEF Registry, TopologyTypeOK
<1>1. ASSUME peers' \subseteq peers, \A p \in peers' : role'[p] = role[p]
      PROVE  ClientsAreClients'
  BY <1>1 DEF ClientsAreClients, IsTransport
<1>2. ASSUME NEW gone, NEW lost, NEW removed, Removes(gone, lost, removed)
      PROVE  ClientsAreClients'
  BY <1>0, <1>1, <1>2 DEF Removes
<1>3. ASSUME NEW p \in Peers, NEW asked \in Groups \cup {None}, NEW g \in Groups \cup {None},
             NEW requested \in Requests(p), NEW r \in Roles,
             RegisterPeer(p, asked, requested, g, r)
      PROVE  ClientsAreClients'
  <2>1. peers' = peers \cup {p} /\ role' = [role EXCEPT ![p] = r]
    BY <1>3 DEF RegisterPeer
  <2>2. ~IsTransport(p) => r \in ClientRoles
    BY <1>3, ClientRoleAssigned DEF RegisterPeer
  <2> QED BY <1>0, <2>1, <2>2 DEF ClientsAreClients, IsTransport
<1>4. ASSUME peers' = peers, role' = role PROVE ClientsAreClients'
  BY <1>1, <1>4
<1>5. CASE \E g \in Groups :
             RemoveMultiplayerGroup(g) \/ \E i \in Instances : CreateMultiplayerGroup(g, i)
  BY <1>4, <1>5 DEF RemoveMultiplayerGroup, CreateMultiplayerGroup
<1>6. CASE \E p \in Peers :
             \/ UnregisterPeer(p) \/ GoesQuiet(p)
             \/ SocketOpens(p) \/ SocketCloses(p) \/ UpdatePeerActivity(p)
  BY <1>2, <1>4, <1>6
     DEF UnregisterPeer, GoesQuiet, SocketOpens, SocketCloses, UpdatePeerActivity
<1>7. CASE \E i \in Instances : UnregisterInstanceId(i)
  BY <1>2, <1>7 DEF UnregisterInstanceId
<1>8. CASE CleanupStalePeers
  BY <1>2, <1>8 DEF CleanupStalePeers
<1>9. CASE UNCHANGED topologyVars
  BY <1>4, <1>9 DEF topologyVars
<1> QED BY <1>3, <1>5, <1>6, <1>7, <1>8, <1>9 DEF TopologyNext

LEMMA SessionTypeStep ==
  IInv /\ [Next]_vars => SessionTypeOK'
<1> USE TopologyAssumption, SessionAssumption
<1> SUFFICES ASSUME IInv, [Next]_vars PROVE SessionTypeOK'
  OBVIOUS
<1>0. SessionTypeOK /\ ClientsAreClients
  BY DEF IInv
<1>1. ASSUME NEW p \in Peers, Ends(p) PROVE SessionTypeOK'
  BY <1>0, <1>1 DEF Ends, SessionTypeOK
<1>2. ASSUME NEW p \in Peers, Begins(p) PROVE SessionTypeOK'
  BY <1>0, <1>2 DEF Begins, SessionTypeOK
<1>3. ASSUME NEW p \in Peers, Ready(p) PROVE SessionTypeOK'
  <2>1. ready' \subseteq ready \cup {p} /\ IsTransport(p)
    BY <1>3 DEF Ready
  <2>2. UNCHANGED <<life, record, granted, test, faults>>
    BY <1>3 DEF Ready
  <2> QED BY <1>0, <2>1, <2>2 DEF SessionTypeOK
<1>4. ASSUME NEW p \in Peers, ReadyClient(p) PROVE SessionTypeOK'
  <2>1. PICK g \in Groups \cup {None}, r \in Roles :
          /\ RegisterPeer(p, Asks(p), granted[p], g, r)
          /\ granted' = IF g = Asks(p) THEN [granted EXCEPT ![p] = r] ELSE granted
    BY <1>4 DEF ReadyClient
  <2>2. ~IsTransport(p) /\ UNCHANGED <<life, record, ready, test, faults>>
    BY <1>4 DEF ReadyClient
  <2>3. granted[p] \in Requests(p)
    BY <1>0, <2>2, ClientRequests DEF SessionTypeOK
  <2>4. Assigns(p, g, granted[p], r)
    BY <2>1 DEF RegisterPeer
  <2>5. r \in ClientRoles
    BY <1>0, <2>2, <2>3, <2>4, ClientRoleAssigned
  <2> QED BY <1>0, <2>1, <2>2, <2>5 DEF SessionTypeOK
<1>5. ASSUME NEW ofItself \in BOOLEAN, Fault(ofItself) PROVE faults' \in 0 .. MaxFaults
  BY <1>0, <1>5 DEF Fault, SessionTypeOK
<1>6. ASSUME NEW p \in Peers, UpgradeFails(p) PROVE SessionTypeOK'
  <2>1. faults' \in 0 .. MaxFaults
    BY <1>5, <1>6 DEF UpgradeFails
  <2> QED BY <1>0, <1>6, <2>1 DEF UpgradeFails, SessionTypeOK
<1>7. ASSUME NEW p \in Peers, Drops(p) \/ Quiets(p) PROVE SessionTypeOK'
  <2>1. faults' \in 0 .. MaxFaults /\ UNCHANGED sessionVars
    BY <1>5, <1>7 DEF Drops, Quiets
  <2> QED BY <1>0, <2>1 DEF sessionVars, SessionTypeOK
<1>8. ASSUME NEW p \in Peers, NEW g \in Groups, TestBegins(p, g) PROVE SessionTypeOK'
  BY <1>0, <1>8 DEF TestBegins, SessionTypeOK
<1>9. ASSUME NEW i \in Instances, TestReturns(i) PROVE SessionTypeOK'
  BY <1>0, <1>9 DEF TestReturns, SessionTypeOK
<1>10. ASSUME NEW i \in Instances, Closes(i) PROVE SessionTypeOK'
  <2>1. /\ life' = [p \in Peers |-> IF InstanceOf[p] = i \/ InstanceOf[TransportOf[p]] = i
                                     THEN "gone" ELSE life[p]]
        /\ ready' \subseteq ready
        /\ UNCHANGED <<record, granted, test, faults>>
    BY <1>10 DEF Closes
  <2> QED BY <1>0, <2>1 DEF SessionTypeOK
<1>11. ASSUME NEW i \in Instances, NEW g \in Groups, TestGroups(i, g) PROVE SessionTypeOK'
  BY <1>0, <1>11 DEF TestGroups, SessionTypeOK
<1>12. ASSUME NEW g \in Groups, TestUnanswered(g) \/ TestRemoved(g) PROVE SessionTypeOK'
  BY <1>0, <1>12 DEF TestUnanswered, TestRemoved, SessionTypeOK
<1>13. ASSUME UNCHANGED <<sessionVars, faults>> PROVE SessionTypeOK'
  BY <1>0, <1>13 DEF sessionVars, SessionTypeOK
<1>14. CASE \E p \in Peers : Begins(p) \/ Leaves(p) \/ Vanishes(p) \/ Ready(p) \/ ReadyClient(p)
  BY <1>1, <1>2, <1>3, <1>4, <1>14 DEF Leaves, Vanishes
<1>15. CASE \E p \in Peers :
              Upgrade(p) \/ UpgradeFails(p) \/ Drops(p) \/ Hears(p) \/ Quiets(p)
  BY <1>6, <1>7, <1>13, <1>15 DEF Upgrade, Hears
<1>16. CASE \E p \in Peers, g \in Groups : TestBegins(p, g)
  BY <1>8, <1>16
<1>17. CASE \E i \in Instances :
              TestReturns(i) \/ Closes(i) \/ \E g \in Groups : TestGroups(i, g)
  BY <1>9, <1>10, <1>11, <1>17
<1>18. CASE \E g \in Groups : TestUnanswered(g) \/ TestRemoved(g)
  BY <1>12, <1>18
<1>19. CASE CleansUp
  BY <1>13, <1>19 DEF CleansUp
<1>20. CASE UNCHANGED vars
  BY <1>13, <1>20 DEF vars, sessionVars
<1> QED BY <1>14, <1>15, <1>16, <1>17, <1>18, <1>19, <1>20 DEF Next

-----------------------------------------------------------------------------
(***************************************************************************)
(* The theorems.                                                           *)
(***************************************************************************)
LEMMA InitIInv == Init => IInv
<1> SUFFICES ASSUME Init PROVE IInv
  OBVIOUS
<1>1. Registry
  BY InitKeeps DEF Init
<1>2. SessionTypeOK
  BY SessionAssumption DEF Init, SessionTypeOK
<1>3. ClientsAreClients
  BY DEF Init, TopologyInit, ClientsAreClients
<1> QED BY <1>1, <1>2, <1>3 DEF IInv

LEMMA IInvStep == IInv /\ [Next]_vars => IInv'
<1> SUFFICES ASSUME IInv, [Next]_vars PROVE IInv'
  OBVIOUS
<1>1. [TopologyNext]_topologyVars
  BY NextIsTopologyNext DEF IInv
<1>2. Registry' /\ ClientsAreClients'
  BY <1>1, TopologyStep, ClientsStep DEF IInv
<1>3. SessionTypeOK'
  BY SessionTypeStep
<1> QED BY <1>2, <1>3 DEF IInv

\* In every behaviour the registry and the sessions satisfy the invariant that
\* the properties below follow from.
THEOREM SessionsSound == Spec => []IInv
BY InitIInv, IInvStep, PTL DEF Spec

\* The registry and the sessions keep their form.
THEOREM SessionsTypeCorrect == Spec => []TypeOK
<1>1. IInv => TypeOK
  BY DEF IInv, Registry, SessionTypeOK, TypeOK
<1> QED BY <1>1, SessionsSound, PTL

\* What a Peer says of its group, and a group of its Instances, never disagree.
THEOREM MembershipAgrees == Spec => []GroupsAgree
<1>1. IInv => GroupsAgree
  BY DEF IInv, Registry
<1> QED BY <1>1, SessionsSound, PTL

\* A role of a group is of one Studio process.
THEOREM RolesAreUnambiguous == Spec => []RolesBelongToOneInstance
<1>1. IInv => RolesBelongToOneInstance
  BY DEF IInv, Registry
<1> QED BY <1>1, SessionsSound, PTL

\* A client Peer can be reached as long as it is registered.
THEOREM ClientsAreReachable == Spec => []ClientsHaveTransport
<1>1. IInv => ClientsHaveTransport
  BY DEF IInv, Registry
<1> QED BY <1>1, SessionsSound, PTL

\* A runtime Peer that stays never loses its group.
THEOREM RuntimeStaysGrouped == Spec => RuntimeKeepsGroup
<1>1. IInv /\ [Next]_vars => [KeepsGroup]_topologyVars
  BY NextIsTopologyNext, KeepsGroupStep DEF IInv
<1>2. [][KeepsGroup]_topologyVars => RuntimeKeepsGroup
  BY PTL DEF RuntimeKeepsGroup, KeepsGroup
<1> QED BY <1>1, <1>2, SessionsSound, PTL DEF Spec

\* The sessions work on the registry through its operations: the sessions
\* implement the registry's own specification.
THEOREM SessionsImplementTopology == Spec => TopologySpec
<1>1. Init => TopologyInit
  BY DEF Init
<1>2. IInv /\ [Next]_vars => [TopologyNext]_topologyVars
  BY NextIsTopologyNext DEF IInv
<1> QED BY <1>1, <1>2, SessionsSound, PTL DEF Spec, TopologySpec
=============================================================================
