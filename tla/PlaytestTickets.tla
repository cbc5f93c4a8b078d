-------------------------- MODULE PlaytestTickets --------------------------
(***************************************************************************)
(* The tickets that tell the server of a playtest which edit window it     *)
(* belongs to (PlaytestTickets.ts, and the play records and claimTicket of *)
(* PluginSession.ts), for windows that show one place.                     *)
(*                                                                         *)
(* Board and claims are plugin settings, one store for every window, and a *)
(* window reads the board and writes it whole: what others wrote between   *)
(* is lost, and what they took away is back.  A ticket nobody publishes    *)
(* again goes stale.                                                       *)
(*                                                                         *)
(* Two facts about time are assumed: a runtime that decided to claim has   *)
(* written its claim before another one waited a poll (RESOLVE_POLL_SEC),  *)
(* for it does not yield between; and a window hears of the end of a Play  *)
(* after its runtime ended.  A Play whose test arguments carry the         *)
(* topology uses no ticket and is left out.                                *)
(***************************************************************************)
EXTENDS Naturals

CONSTANTS
  Windows,
  Runtimes,         \* Peer ids of the playtest servers
  NoRuntime,
  MaxPlays          \* bound: Plays of a window

ASSUME PlaytestTicketsAssumption ==
  Windows # {} /\ NoRuntime \notin Runtimes /\ MaxPlays \in Nat

VARIABLES
  play,             \* each window's PlayRecord, and its last ticket's number
  board,            \* MCP_PLAYTEST_TICKETS_V1
  stale,            \* tickets whose heartbeat is too old
  claim,            \* MCP_PLAYTEST_CLAIM_V1_...
  update,           \* what a window is about to write
  runtime           \* each runtime, in claimTicket

ticketVars == <<play, board, stale, claim, update, runtime>>

Tickets == Windows \X (1 .. MaxPlays)

\* A record is "armed" or "active", and its ticket is "posted", or withdrawn as
\* "claimed" or "expired", which makes no difference here.
PlayRecord == [state : {"none", "posted", "withdrawn"}, number : 0 .. MaxPlays]

Update == [pending : BOOLEAN, board : SUBSET Tickets, clears : SUBSET Tickets]
NoUpdate == [pending |-> FALSE, board |-> {}, clears |-> {}]

\* on: the ticket it settled on, if any.
Runtime ==
  [at : {"away", "looking", "writing", "waiting", "took", "ended"},
   window : Windows, on : SUBSET Tickets]
NotStarted == [at |-> "away", window |-> CHOOSE w \in Windows : TRUE, on |-> {}]

TicketsInit ==
  /\ play = [w \in Windows |-> [state |-> "none", number |-> 0]]
  /\ board = {} /\ stale = {}
  /\ claim = [t \in Tickets |-> NoRuntime]
  /\ update = [w \in Windows |-> NoUpdate]
  /\ runtime = [r \in Runtimes |-> NotStarted]

TicketOf(w) == <<w, play[w].number>>
Live(r) == runtime[r].at \notin {"away", "ended"}
HasRuntime(w) == \E r \in Runtimes : Live(r) /\ runtime[r].window = w

-----------------------------------------------------------------------------
(***************************************************************************)
(* The edit window.                                                        *)
(***************************************************************************)
\* publish and withdraw write what they read, without what is stale.
Publishing(w, t) ==
  update' = [update EXCEPT ![w] = [pending |-> TRUE, board |-> (board \ stale) \cup {t}, clears |-> {}]]
Withdrawing(w, t, clears) ==
  update' = [update EXCEPT ![w] = [pending |-> TRUE, board |-> (board \ stale) \ {t}, clears |-> clears]]

Idles(w) == ~update[w].pending

\* beginPlay without an armed record, and prepareMultiplayerTest.
PostsTicket(w) ==
  /\ Idles(w) /\ play[w].state = "none" /\ play[w].number < MaxPlays
  /\ play' = [play EXCEPT ![w] = [state |-> "posted", number |-> @.number + 1]]
  /\ Publishing(w, <<w, play[w].number + 1>>)
  /\ UNCHANGED <<board, stale, claim, runtime>>

\* refreshTicket: a ticket that was claimed, or nobody claimed for too long, is
\* withdrawn; the claim itself is kept until the Play ends.
Refreshes(w) ==
  /\ Idles(w) /\ play[w].state = "posted"
  /\ \/ play' = [play EXCEPT ![w].state = "withdrawn"] /\ Withdrawing(w, TicketOf(w), {})
     \/ /\ claim[TicketOf(w)] = NoRuntime
        /\ Publishing(w, TicketOf(w))
        /\ UNCHANGED play
  /\ UNCHANGED <<board, stale, claim, runtime>>

\* retirePlayRecord, by finishPlay, finishTest, armPlay or an armed record that
\* is too old.
Retires(w) ==
  /\ Idles(w) /\ play[w].state # "none" /\ ~HasRuntime(w)
  /\ play' = [play EXCEPT ![w].state = "none"]
  /\ Withdrawing(w, TicketOf(w), {TicketOf(w)})
  /\ UNCHANGED <<board, stale, claim, runtime>>

WritesBoard(w) ==
  /\ ~Idles(w)
  /\ board' = update[w].board
  /\ claim' = [t \in Tickets |-> IF t \in update[w].clears THEN NoRuntime ELSE claim[t]]
  /\ update' = [update EXCEPT ![w] = NoUpdate]
  /\ UNCHANGED <<play, stale, runtime>>

GoesStale(t) ==
  /\ t \in board \ stale
  /\ t = TicketOf(t[1]) => play[t[1]].state # "posted"
  /\ stale' = stale \cup {t}
  /\ UNCHANGED <<play, board, claim, update, runtime>>

-----------------------------------------------------------------------------
(***************************************************************************)
(* The playtest server.                                                    *)
(***************************************************************************)
RuntimeStarts(r, w) ==
  /\ runtime[r].at = "away" /\ play[w].state # "none" /\ ~HasRuntime(w)
  /\ runtime' = [runtime EXCEPT ![r] = [at |-> "looking", window |-> w, on |-> {}]]
  /\ UNCHANGED <<play, board, stale, claim, update>>

MatchingTickets(r) == {t \in board \ stale : claim[t] \in {NoRuntime, r}}

\* The only ticket has been the only one for TICKET_SETTLE_SEC.
Settles(r) ==
  /\ runtime[r].at = "looking"
  /\ \E t \in Tickets :
       /\ MatchingTickets(r) = {t}
       /\ runtime' = [runtime EXCEPT ![r] = [@ EXCEPT !.at = "writing", !.on = {t}]]
  /\ UNCHANGED <<play, board, stale, claim, update>>

WritesClaim(r) ==
  /\ runtime[r].at = "writing"
  /\ claim' = [t \in Tickets |-> IF t \in runtime[r].on THEN r ELSE claim[t]]
  /\ runtime' = [runtime EXCEPT ![r].at = "waiting"]
  /\ UNCHANGED <<play, board, stale, update>>

\* A poll later: whoever decided before the claim was there has written by now.
PollPassed(r) ==
  /\ runtime[r].at = "waiting"
  /\ \A q \in Runtimes \ {r} : runtime[q].at = "writing" => runtime[q].on # runtime[r].on

\* The claim is taken as written.
TrustsClaim(r) ==
  /\ PollPassed(r)
  /\ runtime' = [runtime EXCEPT ![r].at = "took"]
  /\ UNCHANGED <<play, board, stale, claim, update>>

ReadsClaim(r) ==
  /\ PollPassed(r)
  /\ runtime' = [runtime EXCEPT ![r].at =
                   IF \A t \in runtime[r].on : claim[t] = r THEN "took" ELSE "looking"]
  /\ UNCHANGED <<play, board, stale, claim, update>>

\* It ends; or it saw no ticket, or several, for too long, keeps its own identity
\* and takes no more part in this.
RuntimeEnds(r) ==
  /\ Live(r)
  /\ runtime' = [runtime EXCEPT ![r] = [NotStarted EXCEPT !.at = "ended"]]
  /\ UNCHANGED <<play, board, stale, claim, update>>

TicketsNext ==
  \/ \E w \in Windows : PostsTicket(w)
  \/ \E w \in Windows : Refreshes(w)
  \/ \E w \in Windows : Retires(w)
  \/ \E w \in Windows : WritesBoard(w)
  \/ \E t \in Tickets : GoesStale(t)
  \/ \E r \in Runtimes, w \in Windows : RuntimeStarts(r, w)
  \/ \E r \in Runtimes : Settles(r)
  \/ \E r \in Runtimes : WritesClaim(r)
  \/ \E r \in Runtimes : ReadsClaim(r)
  \/ \E r \in Runtimes : RuntimeEnds(r)

TicketsSpec == TicketsInit /\ [][TicketsNext]_ticketVars

-----------------------------------------------------------------------------
(***************************************************************************)
(* Properties.                                                             *)
(***************************************************************************)
TicketsTypeOK ==
  /\ play \in [Windows -> PlayRecord]
  /\ board \subseteq Tickets /\ stale \subseteq Tickets
  /\ claim \in [Tickets -> Runtimes \cup {NoRuntime}]
  /\ update \in [Windows -> Update]
  /\ runtime \in [Runtimes -> Runtime]

\* Two playtest servers that run at once never took the ticket of one Play that
\* is not over, although they read and write one claim in any order, a window's
\* board overwrites another's, and a ticket that was withdrawn comes back
\* (claimTicket, refreshTicket, retirePlayRecord).  A ticket of a Play that is
\* over may come back without its claim, and be taken again.
NoTicketTakenTwice ==
  \A q, r \in Runtimes, w \in Windows :
    /\ q # r /\ runtime[q].at = "took" /\ runtime[r].at = "took"
    /\ play[w].state # "none"
    => ~(TicketOf(w) \in runtime[q].on \cap runtime[r].on)

=============================================================================
