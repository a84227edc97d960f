-------------------------------- MODULE MCMcs --------------------------------
(* Instances of McsGlobalLock for TLC. *)
EXTENDS McsGlobalLock, TLC

CONSTANTS a, b, c

\* One thread on each of three nodes.
OnePerNode == (a :> 0) @@ (b :> 1) @@ (c :> 2)

\* One thread on each of two nodes.
OnePerTwoNodes == (a :> 0) @@ (b :> 1)
=============================================================================
