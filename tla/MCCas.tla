-------------------------------- MODULE MCCas --------------------------------
(* Instances of CasGlobalLock for TLC. *)
EXTENDS CasGlobalLock, TLC

CONSTANTS a, b, c

\* Two threads on node 0 and one on node 1.
TwoOnNode0 == (a :> 0) @@ (b :> 0) @@ (c :> 1)

\* One thread on each of two nodes.
OnePerTwoNodes == (a :> 0) @@ (b :> 1)
=============================================================================
