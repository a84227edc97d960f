----------------------------- MODULE LockManager -----------------------------
(***************************************************************************)
(* The control of the lock manager's worker (src/src/lock_manager.cpp):    *)
(* start(), stop(), run() and run_single_scan(), which asks the algorithm  *)
(* for each lock in turn whom to grant (check_grant) and then grants       *)
(* (grant_lock).  Those two calls belong to the modules that extend this   *)
(* one; they end with CheckReturns and GrantReturns.                       *)
(***************************************************************************)
EXTENDS TwoTierLock

CONSTANTS
    NoNode,    \* INVALID_NODE_ID
    MayStop    \* may the application call stop()?

ASSUME NoNodeAssumption == NoNode \notin Nodes
ASSUME StopAssumption == MayStop \in BOOLEAN

VARIABLES
    running,         \* running_
    stop_requested,  \* stop_requested_
    mpc,             \* the worker: "off" (no thread), "top" of run()'s loop,
                     \* in "check" or "grant", "exited" and not yet joined
    mlock,           \* lid of run_single_scan
    grantee          \* what check_grant returned

managerVars == <<running, stop_requested, mpc, mlock, grantee>>

ManagerPCs == {"off", "top", "check", "grant", "exited"}

ManagerTypeOK ==
    /\ running \in BOOLEAN
    /\ stop_requested \in BOOLEAN
    /\ mpc \in ManagerPCs
    /\ mlock \in Locks
    /\ grantee \in Nodes \cup {NoNode}

ManagerInit ==
    /\ running = FALSE
    /\ stop_requested = FALSE
    /\ mpc = "off"
    /\ mlock = 0
    /\ grantee = NoNode

\* Mutant of Start: the test of running_ is dropped.
StartAgain ==
    /\ running' = TRUE
    /\ stop_requested' = FALSE
    /\ mpc' = "top"
    /\ UNCHANGED <<mlock, grantee>>

\* start(): refused while running_.
Start ==
    /\ ~running
    /\ running' = TRUE
    /\ stop_requested' = FALSE
    /\ mpc' = "top"
    /\ UNCHANGED <<mlock, grantee>>

\* stop(): refused unless running_; the caller then joins the worker.
StopRequest ==
    /\ MayStop
    /\ running
    /\ ~stop_requested
    /\ stop_requested' = TRUE
    /\ UNCHANGED <<running, mpc, mlock, grantee>>

\* The join returned and stop() clears running_.
StopReturns ==
    /\ mpc = "exited"
    /\ mpc' = "off"
    /\ running' = FALSE
    /\ UNCHANGED <<stop_requested, mlock, grantee>>

\* Mutant of RunLoop: stop_requested_ is not looked at.
RunForever ==
    /\ mpc = "top"
    /\ mpc' = "check"
    /\ UNCHANGED <<running, stop_requested, mlock, grantee>>

\* run() tests stop_requested_ and begins a scan or ends.
RunLoop ==
    /\ mpc = "top"
    /\ mpc' = IF stop_requested THEN "exited" ELSE "check"
    /\ UNCHANGED <<running, stop_requested, mlock, grantee>>

\* Mutant of NextLock: the bound of the loop is off by one.
NextLockTooFar ==
    /\ mlock' = IF mlock < LockCount THEN mlock + 1 ELSE 0
    /\ mpc' = IF mlock < LockCount THEN "check" ELSE "top"
    /\ grantee' = NoNode

\* run_single_scan goes to the next lock, or returns to run() after the last.
NextLock ==
    /\ mlock' = IF mlock + 1 < LockCount THEN mlock + 1 ELSE 0
    /\ mpc' = IF mlock + 1 < LockCount THEN "check" ELSE "top"
    /\ grantee' = NoNode

\* check_grant returns g for lock mlock.
CheckReturns(g) ==
    /\ mpc = "check"
    /\ \/ g = NoNode /\ NextLock
       \/ /\ g # NoNode
          /\ mpc' = "grant"
          /\ grantee' = g
          /\ UNCHANGED mlock
    /\ UNCHANGED <<running, stop_requested>>

\* grant_lock returns for lock mlock.
GrantReturns ==
    /\ mpc = "grant"
    /\ NextLock
    /\ UNCHANGED <<running, stop_requested>>

ManagerStep == RunLoop \/ StopReturns

\* stop() always returns: the worker finishes its scan and is joined.
StopCompletes == stop_requested ~> mpc = "off"
=============================================================================
