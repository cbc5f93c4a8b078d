--------------------------- MODULE MCRegistryLock ---------------------------
(***************************************************************************)
(* Three operations: two of one server, one of another.                    *)
(***************************************************************************)
EXTENDS RegistryLock, TLC

CONSTANTS a, b, c, here, there

MCProcessOf == (a :> here) @@ (b :> here) @@ (c :> there)

MCSymmetry == Permutations({a, b})
=============================================================================
