---------------------------- MODULE MCLockManager ----------------------------
(* A small instance of LockManager for TLC.  Clients and resources are alike, *)
(* but the run checks liveness, where symmetry is unsound.                    *)
EXTENDS LockManager

CONSTANTS c1, c2, c3, r1, r2
=============================================================================
