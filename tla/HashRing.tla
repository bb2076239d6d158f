------------------------------- MODULE HashRing -------------------------------
(***************************************************************************)
(* ConsistentHashRing (src/src/nodes/queue_node.py).  A hash is a number   *)
(* of Points; those of virtual nodes do not collide.                       *)
(***************************************************************************)
EXTENDS Integers, Sequences, SequencesExt, FiniteSetsExt, Functions

CONSTANTS
    Nodes,
    Replicas,       \* self.replicas: virtual nodes of a node
    Points          \* the hashes of virtual nodes

\* The code makes 150 virtual nodes of each; an MD5 hash is a natural number.
RingAssumption ==
    /\ IsFiniteSet(Nodes) /\ Replicas \in Nat \ {0}
    /\ IsFiniteSet(Points) /\ Points \subseteq Nat /\ Points # {}

VARIABLES
    place,          \* _hash: where the virtual nodes of a node are; never changes
    ring,           \* self._ring: the node at a point
    sortedKeys,     \* self._sorted_keys
    nodes           \* self.nodes

vars == <<place, ring, sortedKeys, nodes>>

-----------------------------------------------------------------------------
Placed(f) == \A n, o \in Nodes : n # o => f[n] \cap f[o] = {}

Init ==
    /\ place \in {f \in [Nodes -> kSubset(Replicas, Points)] : Placed(f)}
    /\ ring = <<>> /\ sortedKeys = <<>>
    /\ nodes = {}

Sorted(S) ==
    [i \in 1 .. Cardinality(S) |-> CHOOSE p \in S : Cardinality({q \in S : q < p}) = i - 1]

AddNode(n) ==
    /\ nodes' = nodes \cup {n}
    /\ ring' = [p \in DOMAIN ring \cup place[n] |-> IF p \in place[n] THEN n ELSE ring[p]]
    /\ sortedKeys' = Sorted(DOMAIN ring')
    /\ UNCHANGED place

\* Slip: one virtual node is left.
AllButOne(n) == place[n] \ {Max(place[n])}

Leaving(n) == place[n]

RemoveNode(n) ==
    /\ nodes' = nodes \ {n}
    /\ ring' = Restrict(ring, DOMAIN ring \ Leaving(n))
    /\ sortedKeys' = Sorted(DOMAIN ring')
    /\ UNCHANGED place

Next == \E n \in Nodes : AddNode(n) \/ RemoveNode(n)

Spec == Init /\ [][Next]_vars

-----------------------------------------------------------------------------
Hashes == 0 .. Max(Points) + 1      \* the hashes of keys
None == "none"

\* The index of the first virtual node at or behind h, or of the very first
FirstFrom(h) ==
    LET behind == {i \in DOMAIN sortedKeys : sortedKeys[i] >= h}
    IN IF behind = {} THEN 1 ELSE Min(behind)

\* Slip: a key at the point of a virtual node goes to the next one.
GetNodeAfter(h) == IF ring = <<>> THEN None ELSE ring[sortedKeys[FirstFrom(h + 1)]]

\* get_node
GetNode(h) == IF ring = <<>> THEN None ELSE ring[sortedKeys[FirstFrom(h)]]

\* The i-th virtual node from h on, around the ring
PointFrom(h, i) == sortedKeys[((FirstFrom(h) + i - 2) % Len(sortedKeys)) + 1]

\* The virtual nodes from h on whose node was not seen before
Unseen(h) ==
    {i \in 1 .. Len(sortedKeys) :
        \A j \in 1 .. i - 1 : ring[PointFrom(h, j)] # ring[PointFrom(h, i)]}

\* get_nodes_for_key: the nodes in the order of the ring, from h on
GetNodes(h, count) ==
    LET order == Sorted(Unseen(h))
    IN [k \in 1 .. Min({count, Len(order)}) |-> ring[PointFrom(h, order[k])]]

-----------------------------------------------------------------------------
(* Properties *)

\* Every variable has its type.
TypeOK ==
    /\ DOMAIN ring \subseteq Points
    /\ \A p \in DOMAIN ring : ring[p] \in Nodes
    /\ nodes \subseteq Nodes

\* Where a key is stored and where it is replicated fit together: as many
\* nodes as asked for, or all there are, each once, the owner first.
OwnerLeadsReplicas ==
    \A h \in Hashes, count \in 1 .. Cardinality(Nodes) :
        LET found == GetNodes(h, count)
        IN /\ IsInjective(found)
           /\ Range(found) \subseteq nodes
           /\ Len(found) = Min({count, Cardinality(nodes)})
           /\ found # <<>> => found[1] = GetNode(h)

\* A node that leaves hands its keys to the next replica of each, and no key of
\* another node moves; one that comes takes keys and moves none between others.
SuccessorTakesOver ==
    [][\A h \in Hashes :
          LET replicas == GetNodes(h, 2)
          IN IF GetNode(h) \in nodes \ nodes'
             THEN GetNode(h)' = IF Len(replicas) = 2 THEN replicas[2] ELSE None
             ELSE GetNode(h)' \in {GetNode(h)} \cup (nodes' \ nodes)]_vars

=============================================================================
