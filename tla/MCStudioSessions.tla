-------------------------- MODULE MCStudioSessions --------------------------
(***************************************************************************)
(* A Studio process x with an edit session and a play server, and a        *)
(* multiplayer test begun from it, whose server runs in a process y and    *)
(* reaches clients in processes of their own.                              *)
(***************************************************************************)
EXTENDS StudioSessions

CONSTANTS edit, play, host, guest, other, x, y, z, w, g

MCInstanceOf ==
  [p \in Peers |-> CASE p \in {edit, play} -> x
                     [] p = host -> y [] p = guest -> z [] OTHER -> w]

MCTransportOf == [p \in Peers |-> IF p \in {guest, other} THEN host ELSE p]

MCKindOf ==
  [p \in Peers |-> CASE p = edit -> "edit"
                     [] p \in {play, host} -> "server" [] OTHER -> "client"]

MCRunsFor == [p \in Peers |-> IF p \in {edit, play} THEN None ELSE g]
=============================================================================
