------------------------------ MODULE Replicator ------------------------------
(***************************************************************************)
(* The geo replicator (src/src/geo/replicator.py): every node stores what  *)
(* it writes and sends it to its peers, each copy in a task of its own     *)
(* that sleeps for a while and then tries several times: a copy is handled *)
(* at any time, more than once if an answer was lost, or never.  What      *)
(* comes in is kept or dropped by vector clocks and, for concurrent        *)
(* writes, by the timestamps of the writers' own clocks.                   *)
(*                                                                         *)
(* _replication_loop, which is to retry pending replications and to clear  *)
(* completed ones, retries none and drops what is no longer PENDING; by    *)
(* StatusTells there is none, so it changes nothing and has no action.     *)
(***************************************************************************)
EXTENDS Integers, FiniteSets

CONSTANTS
    Nodes,
    Keys,
    Times,          \* readings of time.time()
    MaxWrites,      \* bound: writes
    MaxRepeats,     \* bound: copies handled once more
    MaxRestarts     \* bound: nodes that are restarted, each once

ReplicatorAssumption ==
    /\ Times \subseteq Nat
    /\ MaxWrites \in Nat /\ MaxRepeats \in Nat /\ MaxRestarts \in Nat

VARIABLES
    store,          \* self.data_store; None where there is nothing
    clock,          \* self.vector_clock
    sends,          \* copies that may still be handled: [to, entry]
    repeats         \* copies that were handled once more

\* What has happened so far; no action reads it but for the bounds.
VARIABLES
    written,        \* every write, as its origin made it
    handled,        \* the writes a node made or handled since it started
    restarted       \* the nodes that were restarted

history == <<written, handled, restarted>>
vars == <<store, clock, sends, repeats, history>>

-----------------------------------------------------------------------------
(* VectorClock *)

Clock == [Nodes -> Nat]
Zero == [n \in Nodes |-> 0]

AtLeast(v, w) == \A n \in Nodes : v[n] >= w[n]

Dominates(v, w) == AtLeast(v, w) /\ ~AtLeast(w, v)

Concurrent(v, w) == ~AtLeast(v, w) /\ ~AtLeast(w, v)

Incremented(v, n) == [v EXCEPT ![n] = @ + 1]

\* Slip: the other clock replaces one's own.
Replaced(v, w) == w

Merged(v, w) == [n \in Nodes |-> IF v[n] >= w[n] THEN v[n] ELSE w[n]]

-----------------------------------------------------------------------------
(* Entries; no is the number of the write, for its value *)

Entry == [no : Nat, key : Keys, clock : Clock, origin : Nodes, time : Nat,
          status : {"pending", "replicated", "conflict"}]
None == [no |-> 0]

Init ==
    /\ store = [n \in Nodes |-> [k \in Keys |-> None]]
    /\ clock = [n \in Nodes |-> Zero]
    /\ sends = {} /\ repeats = 0
    /\ written = {}
    /\ handled = [n \in Nodes |-> {}]
    /\ restarted = {}

Write(n, key, time) ==
    /\ Cardinality(written) < MaxWrites
    /\ clock' = [clock EXCEPT ![n] = Incremented(@, n)]
    /\ LET entry == [no |-> Cardinality(written) + 1, key |-> key, clock |-> clock'[n],
                     origin |-> n, time |-> time, status |-> "pending"]
       IN /\ store' = [store EXCEPT ![n][key] = entry]
          /\ sends' = sends \cup
               {[to |-> p, entry |-> entry] : p \in Nodes \ {n}}
          /\ written' = written \cup {entry}
          /\ handled' = [handled EXCEPT ![n] = @ \cup {entry.no}]
    /\ UNCHANGED <<repeats, restarted>>

\* Slip: what has a clock that is not older is taken.
WinsByClock(entry, existing) ==
    existing = None \/ ~AtLeast(existing.clock, entry.clock)

\* The entry takes the place of what is stored.
Wins(entry, existing) ==
    \/ existing = None
    \/ Dominates(entry.clock, existing.clock)
    \/ Concurrent(entry.clock, existing.clock) /\ entry.time > existing.time

\* Slip: an entry that wins a conflict keeps its status.
StatusAsSent(entry, existing) ==
    IF existing = None \/ Dominates(entry.clock, existing.clock) THEN "replicated" ELSE entry.status

StatusOf(entry, existing) ==
    IF existing = None \/ Dominates(entry.clock, existing.clock) THEN "replicated" ELSE "conflict"

\* What is stored of an entry that wins.
Stored(entry, existing) == [entry EXCEPT !.status = StatusOf(entry, existing)]

\* handle_replicate.  again: the sender tries again, or the request of an attempt
\* it gave up still comes in.
Handle(s, again) ==
    /\ s \in sends
    /\ IF again
       THEN /\ repeats < MaxRepeats /\ repeats' = repeats + 1
            /\ UNCHANGED sends
       ELSE sends' = sends \ {s} /\ UNCHANGED repeats
    /\ LET existing == store[s.to][s.entry.key]
       IN store' = IF Wins(s.entry, existing)
                   THEN [store EXCEPT ![s.to][s.entry.key] = Stored(s.entry, existing)]
                   ELSE store
    /\ clock' = [clock EXCEPT ![s.to] = Merged(@, s.entry.clock)]
    /\ handled' = [handled EXCEPT ![s.to] = @ \cup {s.entry.no}]
    /\ UNCHANGED <<written, restarted>>

\* Nothing is persisted.  The requests that were sent are still under way.
Restart(n) ==
    /\ n \notin restarted /\ Cardinality(restarted) < MaxRestarts
    /\ restarted' = restarted \cup {n}
    /\ store' = [store EXCEPT ![n] = [k \in Keys |-> None]]
    /\ clock' = [clock EXCEPT ![n] = Zero]
    /\ handled' = [handled EXCEPT ![n] = {}]
    /\ UNCHANGED <<sends, repeats, written>>

Next ==
    \/ \E n \in Nodes, key \in Keys, time \in Times : Write(n, key, time)
    \/ \E s \in sends, again \in BOOLEAN : Handle(s, again)
    \/ \E n \in Nodes : Restart(n)

Spec == Init /\ [][Next]_vars

-----------------------------------------------------------------------------
(* Properties *)

\* A write as its origin stores it, and as others do.
StoredOf(w) == {w} \cup {[w EXCEPT !.status = s] : s \in {"replicated", "conflict"}}

\* Every variable has its type, and what is stored is what some node wrote.
TypeOK ==
    /\ store \in [Nodes -> [Keys -> Entry \cup {None}]]
    /\ \A n \in Nodes, key \in Keys : store[n][key] # None =>
         \E w \in written : w.key = key /\ store[n][key] \in StoredOf(w)
    /\ clock \in [Nodes -> Clock]
    /\ sends \subseteq [to : Nodes, entry : Entry] /\ repeats \in Nat
    /\ written \subseteq Entry
    /\ handled \in [Nodes -> SUBSET (1 .. MaxWrites)]
    /\ restarted \subseteq Nodes

\* A node's clock covers all that it stores, so that its next write dominates
\* what it replaces, after restarts too.
ClockCovers ==
    \A n \in Nodes, key \in Keys :
        store[n][key] # None => AtLeast(clock[n], store[n][key].clock)

\* The status tells who wrote, and nothing about the copies: an entry is PENDING
\* at its origin, however many peers have it, and nowhere else.  The program means
\* it to tell more: "retry pending replications" and "Clear completed"
\* (replicator.py:179, :182) suppose that an entry is PENDING until it is
\* replicated, but none is ever completed where it is pending.
StatusTells ==
    \A n \in Nodes, key \in Keys : store[n][key] # None =>
        (store[n][key].status = "pending" <=> store[n][key].origin = n)

\* The nodes' clocks are good: no two writes of a key at one time, none that is
\* timed before what its writer had seen.
GoodTimes ==
    \A v, w \in written : v # w /\ v.key = w.key =>
        /\ v.time # w.time
        /\ Dominates(v.clock, w.clock) => v.time > w.time

\* Eventual consistency: nodes that have handled the same writes store the same
\* write of every key, whatever the order in which copies came in, came again or
\* were lost before - provided the clocks are good and nobody was restarted.
SameWritesSameValue ==
    GoodTimes /\ restarted = {} =>
        \A n, m \in Nodes, key \in Keys :
            {w \in written : w.no \in handled[n] /\ w.key = key}
              = {w \in written : w.no \in handled[m] /\ w.key = key}
            => store[n][key].no = store[m][key].no

\* A node never ends up with a write that happened before another write it has
\* handled: with good clocks no chain of conflicts leads back.
NeverOlder ==
    GoodTimes /\ restarted = {} =>
        \A n \in Nodes : \A w \in written :
            w.no \in handled[n] => ~Dominates(w.clock, store[n][w.key].clock)

=============================================================================
