----------------------------- MODULE MCLifecycle -----------------------------
(* An instance of NodeLifecycle for TLC. *)
EXTENDS NodeLifecycle, TLC

CONSTANTS a, b, c

\* One thread on node 0 and two on node 1.
TwoOnNode1 == (a :> 0) @@ (b :> 1) @@ (c :> 1)

\* One thread on each of two nodes.
OnePerNode == (a :> 0) @@ (b :> 1)
=============================================================================
