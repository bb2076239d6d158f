-------------------------- MODULE MCLockReplication --------------------------
(* A small instance of LockReplication for TLC. *)
EXTENDS LockReplication, TLC

CONSTANTS n1, n2, c1, c2, c3

\* Nodes and clients are alike.
Symmetry == Permutations(Nodes) \cup Permutations(Clients)
=============================================================================
