--------------------------- MODULE MCPluginParts ---------------------------
(***************************************************************************)
(* The ledger of operations and the parts of the Studio plugin that each   *)
(* stand alone and promise safety alone, in one run.  A behaviour chooses  *)
(* one of them and takes the steps of that one, so every property of a     *)
(* part is checked on all behaviours of that part, and the run's states    *)
(* are the sum of theirs.                                                  *)
(***************************************************************************)
EXTENDS MCBridgeOperations, PlaytestTickets, ClientCalls, StopPlay, ScriptEdits, ScriptWrites

VARIABLE part

\* Every text of up to three characters, empty and unfinished lines among them;
\* every list of one or two edits that replace, insert or delete, anchored or not.
MCSources == UNION {[1 .. n -> {"a", LF}] : n \in 0 .. 3}
MCEdits == [old : {<<>>, <<"a">>, <<LF>>, <<"a", LF>>}, new : {<<>>, <<"x">>, <<LF>>}, line : 0 .. 3]
MCEditLists == {<<e>> : e \in MCEdits} \cup {<<e, f>> : e \in MCEdits, f \in MCEdits}

MCInit ==
  /\ part \in {"ledger", "playtest tickets", "client calls", "stop play", "script edits",
               "script writes"}
  /\ Init /\ TicketsInit /\ ClientCallsInit /\ StopInit /\ ScriptInit /\ WritesInit

MCNext ==
  \/ /\ part = "ledger" /\ Next
     /\ UNCHANGED <<part, ticketVars, clientCallVars, stopVars, scriptVars, writeVars>>
  \/ /\ part = "playtest tickets" /\ TicketsNext
     /\ UNCHANGED <<part, bridge, clientCallVars, stopVars, scriptVars, writeVars>>
  \/ /\ part = "client calls" /\ ClientCallsNext
     /\ UNCHANGED <<part, bridge, ticketVars, stopVars, scriptVars, writeVars>>
  \/ /\ part = "stop play" /\ StopNext
     /\ UNCHANGED <<part, bridge, ticketVars, clientCallVars, scriptVars, writeVars>>
  \/ /\ part = "script edits" /\ ScriptNext
     /\ UNCHANGED <<part, bridge, ticketVars, clientCallVars, stopVars, writeVars>>
  \/ /\ part = "script writes" /\ WritesNext
     /\ UNCHANGED <<part, bridge, ticketVars, clientCallVars, stopVars, scriptVars>>

MCSpec ==
  /\ MCInit
  /\ [][MCNext]_<<part, bridge, ticketVars, clientCallVars, stopVars, scriptVars, writeVars>>
=============================================================================
