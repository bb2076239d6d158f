----------------------------- MODULE UnifiedLocks -----------------------------
(***************************************************************************)
(* The lock commands of DistributedNode (src/src/main.py) on the node that *)
(* leads: without deadlock edges, leases or promotion.  Locks of different *)
(* resources have nothing in common here, so there is one.                 *)
(***************************************************************************)
EXTENDS Integers, Sequences, FiniteSets

CONSTANTS
    Clients,
    MaxCommands     \* bound: committed commands

VARIABLES
    lock,           \* self.locks[resource]
    calls,          \* acquires that were applied, with _handle_lock_acquire to resume
    commands        \* how many commands were applied

\* What has happened so far; no action reads it.
VARIABLES
    asked,          \* acquires that were applied, with no release of the client since
    told            \* those of them that were answered "acquired"

vars == <<lock, calls, commands, asked, told>>

-----------------------------------------------------------------------------
LockTypes == {"shared", "exclusive"}
Request == [client : Clients, type : LockTypes]

Init ==
    /\ lock = [type |-> "exclusive", holders |-> {}, token |-> 0, waiting |-> <<>>]
    /\ calls = {} /\ commands = 0
    /\ asked = {} /\ told = {}

Command == commands < MaxCommands /\ commands' = commands + 1

Joins(type) == type = "shared" /\ lock.type = "shared"

\* _apply_lock_command, acquire.  The coroutine that proposed it resumes later,
\* or it waited too long and answered "failed", or it is on another node.
Acquire(r) ==
    /\ Command
    /\ lock' = IF lock.holders = {}
               THEN [lock EXCEPT !.type = r.type, !.holders = {r.client}, !.token = @ + 1]
               ELSE IF Joins(r.type) THEN [lock EXCEPT !.holders = @ \cup {r.client}]
               ELSE [lock EXCEPT !.waiting = Append(@, r)]
    /\ asked' = asked \cup {r}
    /\ calls' \in {calls, calls \cup {r}}
    /\ UNCHANGED told

\* The answer is "acquired", whether the client holds the lock, waits or has
\* released it in the meantime.
Answer(r) ==
    /\ r \in calls /\ calls' = calls \ {r}
    /\ told' = told \cup ({r} \cap asked)
    /\ UNCHANGED <<lock, commands, asked>>

\* Slip: the lock is free after a release.
AllReleased(c) == [lock EXCEPT !.holders = {}]

\* The client's places in the queue stay, and nobody in the queue gets the lock.
Released(c) == [lock EXCEPT !.holders = @ \ {c}]

Of(c) == {r \in Request : r.client = c}

\* _apply_lock_command, release
Release(c) ==
    /\ Command
    /\ lock' = Released(c)
    /\ asked' = asked \ Of(c) /\ told' = told \ Of(c)
    /\ UNCHANGED calls

Next ==
    \/ \E r \in Request : Acquire(r) \/ Answer(r)
    \/ \E c \in Clients : Release(c)

Spec == Init /\ [][Next]_vars

-----------------------------------------------------------------------------
(* Properties *)

\* Every variable has its type.
TypeOK ==
    /\ lock \in [type : LockTypes, holders : SUBSET Clients, token : Nat,
                 waiting : Seq(Request)]
    /\ calls \subseteq Request /\ asked \subseteq Request /\ told \subseteq asked
    /\ commands \in Nat

Waiters == {lock.waiting[k].client : k \in DOMAIN lock.waiting}

\* An exclusive holder is alone, and a client whose acquire was applied has the
\* lock, or a place in the queue, until it releases the lock itself: no command
\* of another client takes it away.
KeptUntilReleased ==
    /\ \A c, d \in lock.holders : c # d => lock.type = "shared"
    /\ \A r \in asked : r.client \in lock.holders \cup Waiters

\* Two clients that were told "acquired", and have not released, share the lock.
\* The program does not keep this: main.py:293 answers "acquired" to a client
\* that was only queued, where the API (docs/api_spec.yaml:67) has "waiting".
AcquiredExcludes ==
    \A a, b \in told : a.client # b.client => a.type = "shared" /\ b.type = "shared"

=============================================================================
