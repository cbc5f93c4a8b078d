--------------------------- MODULE ServerElection ---------------------------
(***************************************************************************)
(* Several server processes and the one port Studio connects to            *)
(* (src/packages/core/src/server.ts run): the first to bind it is the      *)
(* primary, the others forward to it as proxies and try again on a timer.  *)
(*                                                                         *)
(* An attempt makes a bridge, tools and an app of its own, awaits the      *)
(* bind, and swaps them in only when it succeeded.  The timer does not     *)
(* wait for an attempt: several of one process can be under way.  The      *)
(* kernel decides a bind at once; the process learns of it later.          *)
(*                                                                         *)
(* Tool calls go to whatever bridge is current when they come.  A bridge   *)
(* of its own that does not hold the port has no Studio behind it.         *)
(***************************************************************************)
EXTENDS Integers, FiniteSets

CONSTANTS
  Servers,          \* processes
  MaxAttempts       \* bound: attempts of one process under way at once

ASSUME ElectionAssumption == MaxAttempts \in Nat

VARIABLES
  holders,          \* the processes whose listening socket is on the port: one at most
  stage,            \* where each process is in run
  bridgeKind,       \* this.bridge: "own" is a BridgeService, "proxy" a ProxyBridgeService
  promoting,        \* promotionInterval is set
  binding           \* attempts that await their bind, by what the kernel answered

electionVars == <<holders, stage, bridgeKind, promoting, binding>>

Stages == {"new", "binding", "refused", "refreshing", "serving", "closing", "gone"}

NoAttempts == [bound |-> 0, refused |-> 0]

ElectionInit ==
  /\ holders = {}
  /\ stage = [s \in Servers |-> "new"]
  /\ bridgeKind = [s \in Servers |-> "own"]
  /\ promoting = [s \in Servers |-> FALSE]
  /\ binding = [s \in Servers |-> NoAttempts]

Serves(s) == stage[s] = "serving"

-----------------------------------------------------------------------------
(***************************************************************************)
(* The start of run.  The port is asked for before anything is served.     *)
(***************************************************************************)
Starts(s) ==
  /\ stage[s] = "new"
  /\ IF holders = {}
       THEN holders' = {s} /\ stage' = [stage EXCEPT ![s] = "binding"]
       ELSE UNCHANGED holders /\ stage' = [stage EXCEPT ![s] = "refused"]
  /\ UNCHANGED <<bridgeKind, promoting, binding>>

\* The bind succeeded: primary from the start.
ServesAsPrimary(s) ==
  /\ stage[s] = "binding"
  /\ stage' = [stage EXCEPT ![s] = "serving"]
  /\ UNCHANGED <<holders, bridgeKind, promoting, binding>>

\* The port was taken: a ProxyBridgeService, whose first refresh is awaited
\* whether or not it succeeds.
BecomesProxy(s) ==
  /\ stage[s] = "refused"
  /\ stage' = [stage EXCEPT ![s] = "refreshing"]
  /\ UNCHANGED <<holders, bridgeKind, promoting, binding>>

ServesAsProxy(s) ==
  /\ stage[s] = "refreshing"
  /\ stage' = [stage EXCEPT ![s] = "serving"]
  /\ bridgeKind' = [bridgeKind EXCEPT ![s] = "proxy"]
  /\ promoting' = [promoting EXCEPT ![s] = TRUE]
  /\ UNCHANGED <<holders, binding>>

-----------------------------------------------------------------------------
(***************************************************************************)
(* The promotion timer.                                                    *)
(***************************************************************************)
Attempts(s) == binding[s].bound + binding[s].refused

\* The bridge is swapped before the bind is known to have succeeded.
AttemptsWithSwap(s) ==
  /\ Serves(s) /\ promoting[s] /\ Attempts(s) < MaxAttempts
  /\ bridgeKind' = [bridgeKind EXCEPT ![s] = "own"]
  /\ IF holders = {}
       THEN holders' = {s} /\ binding' = [binding EXCEPT ![s].bound = @ + 1]
       ELSE UNCHANGED holders /\ binding' = [binding EXCEPT ![s].refused = @ + 1]
  /\ UNCHANGED <<stage, promoting>>

\* The timer fires; the old bridge serves on while the bind is awaited.
AttemptsPromotion(s) ==
  /\ Serves(s) /\ promoting[s] /\ Attempts(s) < MaxAttempts
  /\ IF holders = {}
       THEN holders' = {s} /\ binding' = [binding EXCEPT ![s].bound = @ + 1]
       ELSE UNCHANGED holders /\ binding' = [binding EXCEPT ![s].refused = @ + 1]
  /\ UNCHANGED <<stage, bridgeKind, promoting>>

\* The listening event: bridge and tools are swapped and the timer stopped in
\* one go.
Promotes(s) ==
  /\ Serves(s) /\ binding[s].bound > 0
  /\ binding' = [binding EXCEPT ![s].bound = @ - 1]
  /\ bridgeKind' = [bridgeKind EXCEPT ![s] = "own"]
  /\ promoting' = [promoting EXCEPT ![s] = FALSE]
  /\ UNCHANGED <<holders, stage>>

\* A refused attempt gives up promotion.
DiscardsForGood(s) ==
  /\ Serves(s) /\ binding[s].refused > 0
  /\ binding' = [binding EXCEPT ![s].refused = @ - 1]
  /\ promoting' = [promoting EXCEPT ![s] = FALSE]
  /\ UNCHANGED <<holders, stage, bridgeKind>>

\* The error event: the candidate is cleaned up, nothing else happens.
Discards(s) ==
  /\ Serves(s) /\ binding[s].refused > 0
  /\ binding' = [binding EXCEPT ![s].refused = @ - 1]
  /\ UNCHANGED <<holders, stage, bridgeKind, promoting>>

-----------------------------------------------------------------------------
(***************************************************************************)
(* The end of a process: shutdown stops the timers first and closes the    *)
(* listening socket on the way; a kill takes everything at once.           *)
(***************************************************************************)
ShutsDown(s) ==
  /\ Serves(s)
  /\ stage' = [stage EXCEPT ![s] = "closing"]
  /\ promoting' = [promoting EXCEPT ![s] = FALSE]
  /\ UNCHANGED <<holders, bridgeKind, binding>>

Exits(s) ==
  /\ stage[s] = "closing"
  /\ stage' = [stage EXCEPT ![s] = "gone"]
  /\ holders' = holders \ {s}
  /\ binding' = [binding EXCEPT ![s] = NoAttempts]
  /\ UNCHANGED <<bridgeKind, promoting>>

IsKilled(s) ==
  /\ stage[s] \notin {"new", "gone"}
  /\ stage' = [stage EXCEPT ![s] = "gone"]
  /\ holders' = holders \ {s}
  /\ promoting' = [promoting EXCEPT ![s] = FALSE]
  /\ binding' = [binding EXCEPT ![s] = NoAttempts]
  /\ UNCHANGED bridgeKind

\* The host starts it again.
StartsOver(s) ==
  /\ stage[s] = "gone"
  /\ stage' = [stage EXCEPT ![s] = "new"]
  /\ bridgeKind' = [bridgeKind EXCEPT ![s] = "own"]
  /\ UNCHANGED <<holders, promoting, binding>>

ElectionNext ==
  \E s \in Servers :
    \/ Starts(s)
    \/ ServesAsPrimary(s)
    \/ BecomesProxy(s)
    \/ ServesAsProxy(s)
    \/ AttemptsPromotion(s)
    \/ Promotes(s)
    \/ Discards(s)
    \/ ShutsDown(s)
    \/ Exits(s)
    \/ IsKilled(s)
    \/ StartsOver(s)

ElectionSpec == ElectionInit /\ [][ElectionNext]_electionVars

\* Timers fire, the kernel's answers arrive and a shutdown gets to its end.
\* Nothing makes a process start, stop or die.
ElectionFairness ==
  \A s \in Servers :
    /\ WF_electionVars(ServesAsPrimary(s))
    /\ WF_electionVars(BecomesProxy(s))
    /\ WF_electionVars(ServesAsProxy(s))
    /\ WF_electionVars(AttemptsPromotion(s))
    /\ WF_electionVars(Promotes(s))
    /\ WF_electionVars(Discards(s))
    /\ WF_electionVars(Exits(s))

-----------------------------------------------------------------------------
(***************************************************************************)
(* Properties.                                                             *)
(***************************************************************************)
ElectionTypeOK ==
  /\ holders \subseteq Servers
  /\ stage \in [Servers -> Stages]
  /\ bridgeKind \in [Servers -> {"own", "proxy"}]
  /\ promoting \in [Servers -> BOOLEAN]
  /\ binding \in [Servers -> [bound : Nat, refused : Nat]]

\* A tool call never lands on "a regular BridgeService with no downstream
\* Studio consumer": a process that serves calls from a bridge of its own holds
\* the port, also while attempts to promote it overlap (server.ts,
\* promotionInterval).
CallsHaveConsumer ==
  \A s \in Servers : Serves(s) /\ bridgeKind[s] = "own" => holders = {s}

\* When no more processes end, the port has a primary for good, if any process
\* is left to serve: whoever held it when it ended, and whatever attempts were
\* under way or refused then, another one is promoted (promotionInterval).
PortIsTaken ==
  <>[][~\E s \in Servers : ShutsDown(s) \/ IsKilled(s)]_electionVars =>
    \A s \in Servers :
      <>[](Serves(s) => \E t \in Servers : holders = {t} /\ bridgeKind[t] = "own")

=============================================================================
