-------------------------------- MODULE Cache --------------------------------
(***************************************************************************)
(* The cache of CacheNode (src/src/nodes/cache_node.py) and the one of     *)
(* DistributedNode (src/src/main.py) on nodes 1, 2, ...: lines with the    *)
(* states of MESI, the least recently used one first, reads that ask the   *)
(* peers, writes that invalidate the peers' lines.                         *)
(*                                                                         *)
(* Each such operation is a coroutine that awaits a broadcast: a request   *)
(* to every peer, handled at any time or never, whose answer may be lost   *)
(* or come after the sender gave up.  Nobody ever makes a line EXCLUSIVE   *)
(* or sends a CACHE_UPDATE, so neither occurs below.  What a broadcast     *)
(* found is looked through in the order of the peers, which is taken to be *)
(* that of their numbers.                                                  *)
(***************************************************************************)
EXTENDS Integers, Sequences, FiniteSets, SequencesExt

CONSTANTS
    Keys,
    MaxSize,        \* LRUCache.max_size
    Setups,         \* what a cluster may be: its program, its size, the keys in use,
                    \* and a bound: how many nodes may be restarted
    MaxOps,         \* bound: operations clients start
    MaxAtOnce       \* bound: operations under way

ASSUME CacheAssumption ==
    /\ MaxSize \in Nat \ {0} /\ MaxOps \in Nat /\ MaxAtOnce \in Nat
    /\ Setups \subseteq [program : {"CacheNode", "DistributedNode"}, size : Nat,
                          keys : SUBSET Keys, restarts : Nat]

VARIABLES
    setup,          \* the cluster, which stays as it is
    lines,          \* self.cache, least recently used first
    ops,            \* operations under way
    late,           \* requests of finished operations that are still under way
    started,        \* operations so far; a write writes the number it has
    restarts        \* restarts so far

\* What has happened so far; no action reads it.
VARIABLES
    last,           \* the value of a key last written, 0 if none
    clean,          \* that write ran alone, was heard by all, and so did what followed
    kept            \* nobody evicted, invalidated or lost a valid copy since

history == <<last, clean, kept>>
vars == <<setup, lines, ops, late, started, restarts, history>>

-----------------------------------------------------------------------------
Nodes == 1 .. setup.size
Line == [key : Keys, value : 1 .. MaxOps, state : {"M", "S", "I"}]
NotFound == 0
Request == [to : Nodes, kind : {"read", "write", "invalidate"}, key : Keys]
Op == [no : 1 .. MaxOps, node : Nodes, kind : {"read", "write", "invalidate"}, key : Keys,
       unheard : SUBSET Nodes, waiting : SUBSET Nodes,
       found : [Nodes -> 0 .. MaxOps], alone : BOOLEAN]

Init ==
    /\ setup \in Setups
    /\ lines = [n \in Nodes |-> <<>>]
    /\ ops = {} /\ late = {} /\ started = 0 /\ restarts = 0
    /\ last = [k \in Keys |-> 0]
    /\ clean = [k \in Keys |-> TRUE]
    /\ kept = [k \in Keys |-> TRUE]

-----------------------------------------------------------------------------
(* LRUCache: functions from the lines before to the lines after *)

LinesOf(cache, key) == {l \in ToSet(cache) : l.key = key}
Valid(cache, key) == {l \in LinesOf(cache, key) : l.state # "I"}
Without(cache, key) ==
    IF LinesOf(cache, key) = {} THEN cache
    ELSE RemoveAt(cache, CHOOSE i \in DOMAIN cache : cache[i].key = key)

\* get: the line is now the most recently used one.
Touched(cache, key) ==
    IF LinesOf(cache, key) = {} THEN cache
    ELSE Append(Without(cache, key), CHOOSE l \in LinesOf(cache, key) : TRUE)

\* Slip: lines of full caches are not thrown out.
PutWithoutLimit(cache, line) == Append(Without(cache, line.key), line)

\* put, with the eviction of the least recently used line
Put(cache, line) ==
    LET all == Append(Without(cache, line.key), line)
    IN IF Len(all) > MaxSize THEN Tail(all) ELSE all

\* Every line of the key gets this state, in place.
InState(cache, key, state) ==
    [i \in DOMAIN cache |-> IF cache[i].key = key THEN [cache[i] EXCEPT !.state = state]
                                                  ELSE cache[i]]

\* Slip: a dirty line is left alone.
InvalidatedIfShared(cache, key) ==
    IF \E l \in LinesOf(cache, key) : l.state = "M" THEN cache ELSE InState(cache, key, "I")

\* invalidate: the line keeps its place and its value.
Invalidated(cache, key) == InState(cache, key, "I")

-----------------------------------------------------------------------------
(* Requests *)

\* Slip: the line moves to the reader.
ReadAway(cache, key) == InState(cache, key, "I")

\* _process_remote_read: a MODIFIED line becomes SHARED.
RemotelyRead(cache, key) ==
    IF Valid(cache, key) = {} THEN Touched(cache, key)
    ELSE Touched(InState(cache, key, "S"), key)

\* A node's lines after a request was handled there.
Heard(cache, kind, key) ==
    IF kind = "read" THEN RemotelyRead(cache, key) ELSE Invalidated(cache, key)

\* What the answer to a read carries.
Found(cache, kind, key) ==
    IF kind = "read" /\ Valid(cache, key) # {}
    THEN (CHOOSE l \in Valid(cache, key) : TRUE).value ELSE NotFound

\* What is left of kept when a node's line of the key is invalidated.
KeptWithout(n, key) == [kept EXCEPT ![key] = @ /\ Valid(lines[n], key) = {}]

-----------------------------------------------------------------------------
(* Operations *)

\* Operations that may disturb each other: one of them writes the key.
Disturb(kind, key, op) ==
    op.key = key /\ {kind, op.kind} \in {{"write"}, {"read", "write"}}

\* The coroutine runs to its broadcast.
Start(n, kind, key) ==
    /\ started < MaxOps /\ Cardinality(ops) < MaxAtOnce
    /\ started' = started + 1
    /\ ops' = {[op EXCEPT !.alone = @ /\ ~Disturb(kind, key, op)] : op \in ops} \cup
              {[no |-> started + 1, node |-> n, kind |-> kind, key |-> key,
                unheard |-> Nodes \ {n}, waiting |-> Nodes \ {n},
                found |-> [p \in Nodes |-> NotFound],
                alone |-> ~\E op \in ops : Disturb(kind, key, op)]}
    /\ UNCHANGED <<setup, late, restarts, last, clean>>

\* cache_read of a valid line
ReadHit(n, key) ==
    /\ Valid(lines[n], key) # {}
    /\ lines' = [lines EXCEPT ![n] = Touched(@, key)]
    /\ UNCHANGED <<setup, ops, late, started, restarts, history>>

ReadMiss(n, key) ==
    /\ Valid(lines[n], key) = {}
    /\ lines' = [lines EXCEPT ![n] = Touched(@, key)]
    /\ Start(n, "read", key)
    /\ UNCHANGED kept

Write(n, key) ==
    /\ Start(n, "write", key)
    /\ UNCHANGED <<lines, kept>>

\* CacheNode invalidates its own line after the broadcast, DistributedNode before.
Invalidate(n, key) ==
    /\ Start(n, "invalidate", key)
    /\ lines' = IF setup.program = "CacheNode" THEN lines
                ELSE [lines EXCEPT ![n] = Invalidated(@, key)]
    /\ kept' = IF setup.program = "CacheNode" THEN kept ELSE KeptWithout(n, key)

\* A peer handles the request; its answer is in time if it is waited for still.
Hear(op, p) ==
    /\ op \in ops /\ p \in op.unheard
    /\ lines' = [lines EXCEPT ![p] = Heard(@, op.kind, op.key)]
    /\ ops' = (ops \ {op}) \cup
              {[op EXCEPT !.unheard = @ \ {p}, !.waiting = @ \ {p},
                          !.found[p] = IF p \in op.waiting
                                       THEN Found(lines[p], op.kind, op.key) ELSE NotFound]}
    /\ kept' = IF op.kind = "invalidate" THEN KeptWithout(p, op.key) ELSE kept
    /\ UNCHANGED <<setup, late, started, restarts, last, clean>>

\* The sender gives up: the request, or its answer, may still be under way.
TimeOut(op, p) ==
    /\ op \in ops /\ p \in op.waiting
    /\ ops' = (ops \ {op}) \cup {[op EXCEPT !.waiting = @ \ {p}]}
    /\ UNCHANGED <<setup, lines, late, started, restarts, history>>

HearLate(r) ==
    /\ r \in late
    /\ late' = late \ {r}
    /\ lines' = [lines EXCEPT ![r.to] = Heard(@, r.kind, r.key)]
    /\ kept' = IF r.kind = "read" THEN kept ELSE KeptWithout(r.to, r.key)
    /\ UNCHANGED <<setup, ops, started, restarts, last, clean>>

LoseLate(r) ==
    /\ r \in late
    /\ late' = late \ {r}
    /\ UNCHANGED <<setup, lines, ops, started, restarts, history>>

-----------------------------------------------------------------------------
(* The end of an operation *)

\* The requests of an operation that outlive it.
Unheard(op) == [to : op.unheard, kind : {op.kind}, key : {op.key}]

Ends(op) ==
    /\ op \in ops /\ op.waiting = {}
    /\ ops' = ops \ {op}
    /\ late' = late \cup Unheard(op)
    /\ UNCHANGED <<setup, started, restarts>>

\* The node stores a line; a valid line may have to go.
Store(n, line) ==
    LET evicted(k) == Valid(lines[n], k) # {} /\ LinesOf(Put(lines[n], line), k) = {}
    IN /\ lines' = [lines EXCEPT ![n] = Put(@, line)]
       /\ kept' = [k \in Keys |-> ~evicted(k) /\ (kept[k] \/ (k = line.key /\ line.state = "M"))]

\* The peers whose answers carry the value.
Finders(op) == {p \in Nodes : op.found[p] # NotFound}

\* CacheNode takes what the last of them found, DistributedNode what the first.
Chosen(op) ==
    IF setup.program = "CacheNode" THEN CHOOSE p \in Finders(op) : \A q \in Finders(op) : q <= p
                             ELSE CHOOSE p \in Finders(op) : \A q \in Finders(op) : p <= q

EndRead(op) ==
    /\ op.kind = "read" /\ Ends(op)
    /\ IF Finders(op) = {}
       THEN UNCHANGED <<lines, kept>>
       ELSE Store(op.node, [key |-> op.key, value |-> op.found[Chosen(op)], state |-> "S"])
    /\ clean' = [clean EXCEPT ![op.key] = @ /\ (op.alone \/ Finders(op) = {})]
    /\ UNCHANGED last

EndWrite(op) ==
    /\ op.kind = "write" /\ Ends(op)
    /\ Store(op.node, [key |-> op.key, value |-> op.no, state |-> "M"])
    /\ last' = [last EXCEPT ![op.key] = op.no]
    /\ clean' = [clean EXCEPT ![op.key] = op.alone /\ op.unheard = {}]

EndInvalidate(op) ==
    /\ op.kind = "invalidate" /\ Ends(op)
    /\ lines' = IF setup.program = "CacheNode" THEN [lines EXCEPT ![op.node] = Invalidated(@, op.key)]
                ELSE lines
    /\ kept' = IF setup.program = "CacheNode" THEN KeptWithout(op.node, op.key) ELSE kept
    /\ UNCHANGED <<last, clean>>

\* A process is killed and started again: it loses its lines, and with it die the
\* operations of its clients, before or after the peers heard of them.
Restart(n) ==
    /\ restarts < setup.restarts /\ restarts' = restarts + 1
    /\ lines' = [lines EXCEPT ![n] = <<>>]
    /\ LET dying == {op \in ops : op.node = n}
       IN /\ ops' = ops \ dying
          /\ late' = late \cup UNION {Unheard(op) : op \in dying}
          /\ kept' = [k \in Keys |-> /\ kept[k] /\ Valid(lines[n], k) = {}
                                    /\ ~\E op \in dying : op.kind = "write" /\ op.key = k]
    /\ UNCHANGED <<setup, started, last, clean>>

-----------------------------------------------------------------------------
Next ==
    \/ \E n \in Nodes, key \in setup.keys :
         ReadHit(n, key) \/ ReadMiss(n, key) \/ Write(n, key) \/ Invalidate(n, key)
    \/ \E op \in ops : \E p \in Nodes : Hear(op, p) \/ TimeOut(op, p)
    \/ \E r \in late : HearLate(r) \/ LoseLate(r)
    \/ \E op \in ops : EndRead(op) \/ EndWrite(op) \/ EndInvalidate(op)
    \/ \E n \in Nodes : Restart(n)

Spec == Init /\ [][Next]_vars

-----------------------------------------------------------------------------
(* Properties *)

\* Every variable has its type; a cache has at most max_size lines, of different
\* keys.
TypeOK ==
    /\ setup \in Setups
    /\ \A n \in Nodes :
         /\ lines[n] \in Seq(Line) /\ Len(lines[n]) <= MaxSize
         /\ \A i, j \in DOMAIN lines[n] : lines[n][i].key = lines[n][j].key => i = j
    /\ ops \subseteq Op
    /\ late \subseteq Request
    /\ started \in 0 .. MaxOps /\ restarts \in 0 .. setup.restarts
    /\ last \in [Keys -> 0 .. MaxOps]
    /\ clean \in [Keys -> BOOLEAN] /\ kept \in [Keys -> BOOLEAN]

\* MESI, as far as it holds: after a write that ran alone and was heard by every
\* peer, all valid copies are of that write, and while one is MODIFIED there is
\* no other; reads, losses, late requests, evictions and restarts do not spoil this.
\* Overlapping writes, a read that overlaps a write, or a peer that missed an
\* invalidation do, until the next such write.
Coherent ==
    \A key \in Keys : clean[key] =>
        \A n \in Nodes : \A l \in Valid(lines[n], key) :
            /\ l.value = last[key]
            /\ l.state = "M" => \A m \in Nodes \ {n} : Valid(lines[m], key) = {}

\* Such a write is not lost: some node has a valid copy of it until a cache that
\* is full or an invalidation, maybe one that comes late, throws a copy out, a
\* node restarts that has a copy or is about to write the key (nothing is
\* persisted, and the copies are invalidated before the write), or the next
\* write is under way.
LastWriteKept ==
    \A key \in Keys : clean[key] /\ kept[key] /\ last[key] # 0 =>
        \/ \E n \in Nodes : Valid(lines[n], key) # {}
        \/ \E op \in ops : op.kind = "write" /\ op.key = key

=============================================================================
