-------------------------- MODULE MCManagedLaunch --------------------------
(***************************************************************************)
(* One launch, the server that owns it and another one.                    *)
(***************************************************************************)
EXTENDS ManagedLaunch
=============================================================================
