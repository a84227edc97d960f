------------------------------- MODULE MCCache -------------------------------
(* An instance of CasCacheLines for TLC. *)
EXTENDS CasCacheLines, TLC

CONSTANTS a, b, c

\* One thread on node 0, where the manager runs, and two on node 1.
TwoOnNode1 == (a :> 0) @@ (b :> 1) @@ (c :> 1)
=============================================================================
