------------------------------ MODULE MCRegistry ------------------------------
(* An instance of NodeRegistry for TLC. *)
EXTENDS NodeRegistry, TLC

CONSTANTS m, r

\* The member is node 1; its clock is ahead of the reader's.
Ids == m :> 1
Skew == (r :> 1) @@ (m :> 2)
=============================================================================
