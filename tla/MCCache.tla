------------------------------- MODULE MCCache -------------------------------
(* A small instance of Cache for TLC. *)
EXTENDS Cache

CONSTANTS k1, k2

Programs == {"CacheNode", "DistributedNode"}

\* Three nodes with one key, where a read may find several copies, or two nodes
\* with two keys, where one line evicts the other and a node may be restarted.
SmallSetups ==
    [program : Programs, size : {3}, keys : {{k1}}, restarts : {0}] \cup
    [program : Programs, size : {2}, keys : {{k1, k2}}, restarts : {1}]
=============================================================================
