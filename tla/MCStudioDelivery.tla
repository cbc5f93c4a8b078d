-------------------------- MODULE MCStudioDelivery --------------------------
(***************************************************************************)
(* A server peer that owns the socket, a client peer behind it, and a few  *)
(* operations, with limits small enough to bind.                           *)
(***************************************************************************)
EXTENDS StudioDelivery

CONSTANTS host, client

MCTransportOf == (host :> host) @@ (client :> host)
MCHostOnly == host :> host
MCSymmetry == Permutations(Ids)
=============================================================================
