---------------------------- MODULE DeadlockSearch ----------------------------
(***************************************************************************)
(* DeadlockDetector.detect_cycles (src/src/nodes/lock_manager.py): the     *)
(* depth-first search of the wait-for graph.  The recursion of dfs is a    *)
(* stack here: path, with the neighbours each client on it has still to    *)
(* look at.  Keys and neighbours come in any order.  The edges themselves  *)
(* are kept by LockTable.                                                  *)
(***************************************************************************)
EXTENDS Integers, Sequences, SequencesExt, FiniteSets

CONSTANT Clients

VARIABLES
    waitFor,        \* self.wait_for: the clients a client waits for
    visited,
    path,           \* the clients on the stack; rec_stack is the set of them
    todo,           \* for each of them, the neighbours not looked at yet
    cycles          \* what is returned; a set, as nobody reads the order

vars == <<waitFor, visited, path, todo, cycles>>

-----------------------------------------------------------------------------
\* Any graph without loops (add_wait leaves the waiter out); a client may be
\* no key, or one without edges.
Init ==
    /\ waitFor \in {g \in UNION {[K -> SUBSET Clients] : K \in SUBSET Clients} :
                        \A c \in DOMAIN g : c \notin g[c]}
    /\ visited = {} /\ path = <<>> /\ todo = <<>>
    /\ cycles = {}

WaitsFor(c) == IF c \in DOMAIN waitFor THEN waitFor[c] ELSE {}

\* Slip: a client counts as visited only when it closes a cycle.
EnterUnmarked(c, rest) ==
    /\ UNCHANGED visited
    /\ path' = Append(path, c)
    /\ todo' = Append(rest, WaitsFor(c))

\* dfs(c, path), up to its loop, with the neighbours rest left to the caller
Enter(c, rest) ==
    /\ visited' = visited \cup {c}
    /\ path' = Append(path, c)
    /\ todo' = Append(rest, WaitsFor(c))

\* The loop over the keys finds one that was not visited.
Start(c) ==
    /\ path = <<>> /\ c \in DOMAIN waitFor \ visited
    /\ Enter(c, <<>>)
    /\ UNCHANGED <<waitFor, cycles>>

\* Slip: the whole path is reported.
WholePath(c) == path

\* What closes at c is the path from c on.
Closed(c) == SubSeq(path, CHOOSE i \in DOMAIN path : path[i] = c, Len(path))

\* A neighbour that was visited: on the path it closes a cycle.
LookAt(c) ==
    /\ cycles' = IF c \in Range(path) THEN cycles \cup {Closed(c)} ELSE cycles
    /\ UNCHANGED <<visited, path>>

\* The loop over the neighbours of the last client on the path
Follow(c) ==
    /\ path # <<>> /\ c \in Last(todo)
    /\ LET rest == [todo EXCEPT ![Len(todo)] = @ \ {c}]
       IN IF c \in visited THEN LookAt(c) /\ todo' = rest
          ELSE Enter(c, rest) /\ UNCHANGED cycles
    /\ UNCHANGED waitFor

\* dfs returns.
Leave ==
    /\ path # <<>> /\ Last(todo) = {}
    /\ path' = Front(path) /\ todo' = Front(todo)
    /\ UNCHANGED <<waitFor, visited, cycles>>

Next == Leave \/ \E c \in Clients : Start(c) \/ Follow(c)

Spec == Init /\ [][Next]_vars

-----------------------------------------------------------------------------
(* Properties *)

\* Every variable has its type, and the stack has no client twice.
TypeOK ==
    /\ DOMAIN waitFor \subseteq Clients
    /\ \A c \in DOMAIN waitFor : waitFor[c] \subseteq Clients
    /\ visited \subseteq Clients
    /\ path \in Seq(visited) /\ IsInjective(path)
    /\ todo \in Seq(SUBSET Clients) /\ Len(todo) = Len(path)

Finished == path = <<>> /\ DOMAIN waitFor \subseteq visited

\* Reference: whom a client waits for, directly or through others - the least
\* set with those it waits for that nobody in it waits outside of.
Behind(c) ==
    {d \in Clients : \A S \in SUBSET Clients :
        WaitsFor(c) \subseteq S /\ (\A e \in S : WaitsFor(e) \subseteq S) => d \in S}

\* What is reported is a cycle: each client waits for the next, the last for
\* the first.
IsCycle(s) ==
    /\ IsInjective(s)
    /\ \A i \in DOMAIN s : s[(i % Len(s)) + 1] \in WaitsFor(s[i])

\* What the search is good for: what it reports is a cycle, and of clients that
\* wait for each other at least one cycle is reported, whatever the order.
DeadlocksFound ==
    /\ \A s \in cycles : IsCycle(s)
    /\ Finished => \A c \in Clients : c \in Behind(c) =>
           \E s \in cycles : \A d \in Range(s) : d \in Behind(c) /\ c \in Behind(d)

\* Reference: the cycles of the graph, and one cycle begun at another client.
Cycles ==
    {s \in UNION {[1 .. n -> Clients] : n \in 1 .. Cardinality(Clients)} : IsCycle(s)}
Rotations(s) == {[i \in DOMAIN s |-> s[((i + k) % Len(s)) + 1]] : k \in DOMAIN s}

\* All cycles in the wait-for graph are detected, as the docstring of
\* detect_cycles says (lock_manager.py:65).  The program does not: a client that
\* was visited and is no longer on the path is passed over.
AllCyclesReported == Finished => \A s \in Cycles : Rotations(s) \cap cycles # {}

=============================================================================
