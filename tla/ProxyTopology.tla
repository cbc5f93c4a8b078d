---------------------------- MODULE ProxyTopology ----------------------------
(***************************************************************************)
(* The topology a proxy keeps of its primary                               *)
(* (src/packages/core/src/proxy-bridge-service.ts): it polls every second, *)
(* and once more whenever a tool routes a call; a poll is numbered when it *)
(* begins and may answer after a later one.  Calls that change the         *)
(* topology go to the primary, and the proxy edits its copy when the       *)
(* answer comes.                                                           *)
(*                                                                         *)
(* A topology says of each peer that it is absent, or the group of its     *)
(* Instance.  Every peer here is of an Instance of its own.                *)
(***************************************************************************)
EXTENDS Integers

CONSTANTS
  ViewPeers,        \* peers that come and go at the primary
  Groups,           \* Multiplayer Groups
  MaxPolls          \* bound: polls of a behaviour

ASSUME ViewAssumption == MaxPolls \in Nat

Absent == "absent"
Ungrouped == "ungrouped"

ASSUME GroupsAssumption == Absent \notin Groups /\ Ungrouped \notin Groups

Topology == [ViewPeers -> Groups \cup {Absent, Ungrouped}]

VARIABLES
  topology,         \* the primary's
  view,             \* cachedPeers, cachedInstances and cachedMultiplayerGroups
  generation,       \* topologyGeneration
  applied,          \* appliedTopologyGeneration
  polls,            \* where each poll is, by its generation
  snapshots,        \* what the primary answered it
  change,           \* a call that changes the topology: none, asked or answered
  gone              \* not in the program: the polls begun when each peer last left

viewVars == <<topology, view, generation, applied, polls, snapshots, change, gone>>

Nobody == [p \in ViewPeers |-> Absent]

Changes ==
  [kind : {"create"}, group : Groups, peer : ViewPeers, answered : BOOLEAN]
    \cup [kind : {"remove"}, group : Groups, answered : BOOLEAN]
    \cup [kind : {"unregister"}, peer : ViewPeers, answered : BOOLEAN]

NoChange == [kind |-> "none"]

ViewInit ==
  /\ topology = Nobody
  /\ view = Nobody
  /\ generation = 0
  /\ applied = 0
  /\ polls = [g \in 1 .. MaxPolls |-> "unused"]
  /\ snapshots = [g \in 1 .. MaxPolls |-> Nobody]
  /\ change = NoChange
  /\ gone = [p \in ViewPeers |-> 0]

\* The primary's topology becomes t; what is gone then went now.
PrimaryBecomes(t) ==
  /\ topology' = t
  /\ gone' = [p \in ViewPeers |->
                IF topology[p] # Absent /\ t[p] = Absent THEN generation ELSE gone[p]]

-----------------------------------------------------------------------------
(***************************************************************************)
(* The primary: peers register, leave and change groups on their own, and  *)
(* another server may take its place, which knows nobody.                  *)
(***************************************************************************)
PeerChanges(p, where) ==
  /\ PrimaryBecomes([topology EXCEPT ![p] = where])
  /\ UNCHANGED <<view, generation, applied, polls, snapshots, change>>

PrimaryIsReplaced ==
  /\ PrimaryBecomes(Nobody)
  /\ UNCHANGED <<view, generation, applied, polls, snapshots, change>>

-----------------------------------------------------------------------------
(***************************************************************************)
(* refreshTopology.                                                        *)
(***************************************************************************)
PollBegins ==
  /\ generation < MaxPolls
  /\ generation' = generation + 1
  /\ polls' = [polls EXCEPT ![generation + 1] = "asked"]
  /\ UNCHANGED <<topology, view, applied, snapshots, change, gone>>

PrimaryAnswers(g) ==
  /\ polls[g] = "asked"
  /\ polls' = [polls EXCEPT ![g] = "answered"]
  /\ snapshots' = [snapshots EXCEPT ![g] = topology]
  /\ UNCHANGED <<topology, view, generation, applied, change, gone>>

\* Whatever comes last is taken.
PollReturnsUnordered(g) ==
  /\ polls[g] = "answered"
  /\ polls' = [polls EXCEPT ![g] = "returned"]
  /\ applied' = g
  /\ view' = snapshots[g]
  /\ UNCHANGED <<topology, generation, snapshots, change, gone>>

\* An answer is taken unless one of a later poll was: then the call returns
\* with that.
PollReturns(g) ==
  /\ polls[g] = "answered"
  /\ polls' = [polls EXCEPT ![g] = "returned"]
  /\ IF g < applied
       THEN UNCHANGED <<applied, view>>
       ELSE applied' = g /\ view' = snapshots[g]
  /\ UNCHANGED <<topology, generation, snapshots, change, gone>>

\* A timeout, an abort, a broken connection: the view stays, and a routed call
\* fails.
PollFails(g) ==
  /\ polls[g] \in {"asked", "answered"}
  /\ polls' = [polls EXCEPT ![g] = "failed"]
  /\ UNCHANGED <<topology, view, generation, applied, snapshots, change, gone>>

-----------------------------------------------------------------------------
(***************************************************************************)
(* createMultiplayerGroupEverywhere, removeMultiplayerGroupEverywhere and  *)
(* unregisterInstanceIdEverywhere: one such call at a time is enough to    *)
(* cross the polls.                                                        *)
(***************************************************************************)
AsksChange(c) ==
  /\ change = NoChange
  /\ change' = [c EXCEPT !.answered = FALSE]
  /\ UNCHANGED <<topology, view, generation, applied, polls, snapshots, gone>>

\* What the change c makes of a topology t.  A peer that is not in t does not
\* come into it.
Edited(t, c) ==
  [p \in ViewPeers |->
     CASE c.kind = "create" ->
            IF p = c.peer /\ t[p] # Absent THEN c.group ELSE t[p]
       [] c.kind = "remove" ->
            IF t[p] = c.group THEN Ungrouped ELSE t[p]
       [] c.kind = "unregister" ->
            IF p = c.peer THEN Absent ELSE t[p]]

PrimaryMakesChange ==
  /\ change # NoChange /\ ~change.answered
  /\ PrimaryBecomes(Edited(topology, change))
  /\ change' = [change EXCEPT !.answered = TRUE]
  /\ UNCHANGED <<view, generation, applied, polls, snapshots>>

\* The answer comes; the polls under way keep their turn.
ChangeReturns ==
  /\ change # NoChange /\ change.answered
  /\ view' = Edited(view, change)
  /\ change' = NoChange
  /\ UNCHANGED <<topology, generation, applied, polls, snapshots, gone>>

\* The call is refused (a group in use, a collision), or its answer is lost.
ChangeFails ==
  /\ change # NoChange
  /\ change' = NoChange
  /\ UNCHANGED <<topology, view, generation, applied, polls, snapshots, gone>>

ViewNext ==
  \/ \E p \in ViewPeers, where \in Groups \cup {Absent, Ungrouped} : PeerChanges(p, where)
  \/ PrimaryIsReplaced
  \/ PollBegins
  \/ \E g \in 1 .. MaxPolls : PrimaryAnswers(g)
  \/ \E g \in 1 .. MaxPolls : PollReturns(g)
  \/ \E g \in 1 .. MaxPolls : PollFails(g)
  \/ \E c \in Changes : AsksChange(c)
  \/ PrimaryMakesChange
  \/ ChangeReturns
  \/ ChangeFails

ViewSpec == ViewInit /\ [][ViewNext]_viewVars

-----------------------------------------------------------------------------
(***************************************************************************)
(* Properties.                                                             *)
(***************************************************************************)
ViewTypeOK ==
  /\ topology \in Topology
  /\ view \in Topology
  /\ generation \in 0 .. MaxPolls
  /\ applied \in 0 .. generation
  /\ polls \in [1 .. MaxPolls -> {"unused", "asked", "answered", "returned", "failed"}]
  /\ snapshots \in [1 .. MaxPolls -> Topology]
  /\ change \in Changes \cup {NoChange}
  /\ gone \in [ViewPeers -> 0 .. generation]

\* A routed call never goes to a peer that was gone when its refresh began:
\* once a poll has returned, whatever older polls answer later, and whatever
\* changes the proxy makes of its copy, no peer that had left before that poll
\* began, and has not come back, is in the view (refreshTopology: "A slow
\* older poll must not resurrect peers removed by a newer snapshot").
GoneStaysGone ==
  \A g \in 1 .. MaxPolls, p \in ViewPeers :
    polls[g] = "returned" /\ topology[p] = Absent /\ gone[p] < g => view[p] = Absent

=============================================================================
