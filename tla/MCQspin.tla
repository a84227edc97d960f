------------------------------- MODULE MCQspin -------------------------------
(* Instances of QspinGlobalLock for TLC. *)
EXTENDS QspinGlobalLock, TLC

CONSTANTS a, b

\* One thread on each of two nodes.
OnePerTwoNodes == (a :> 0) @@ (b :> 1)
=============================================================================
