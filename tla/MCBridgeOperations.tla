------------------------- MODULE MCBridgeOperations -------------------------
(***************************************************************************)
(* The ledger with one server peer that owns a socket, one client peer     *)
(* behind it, and limits small enough for every one of them to bind.       *)
(***************************************************************************)
EXTENDS BridgeOperations, TLC

CONSTANTS server, client

MCTransportOf == (server :> server) @@ (client :> server)
MCSymmetry == Permutations(Ids)
=============================================================================
