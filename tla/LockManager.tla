----------------------------- MODULE LockManager -----------------------------
(***************************************************************************)
(* One replica of LockManagerNode (src/src/nodes/lock_manager.py) on the   *)
(* node that leads: the committed commands come in one after the other,    *)
(* the lease sweep runs between them, and the handlers whose proposal was  *)
(* applied answer their clients some time later.                           *)
(*                                                                         *)
(* _apply_lock_command and a pass of the lease sweep contain no await, so  *)
(* each is one step.  _handle_acquire is not: it resumes after propose in  *)
(* a later turn of the event loop and reads the lock as it is by then.     *)
(***************************************************************************)
EXTENDS LockTable

CONSTANTS
    Leases,         \* the lease timeouts clients ask for
    MaxCommands     \* bound: committed commands

ASSUME LeasesAssumption == Leases \subseteq Nat /\ MaxCommands \in Nat

VARIABLES
    locks,          \* self.locks
    waitFor,        \* the edges of deadlock_detector.wait_for
    calls,          \* _handle_acquire coroutines about to resume: [client, res]
    commands        \* how many commands were applied

\* What has happened so far; no action reads it.
VARIABLE told       \* [client, res, token, type]: the answer "acquired" went out

vars == <<locks, waitFor, calls, commands, told>>

-----------------------------------------------------------------------------
Init ==
    /\ locks = [r \in Resources |-> NewLock]
    /\ waitFor = {}
    /\ calls = {}
    /\ commands = 0
    /\ told = {}

\* A committed command is applied, and propose returns to the handler that
\* proposed it.
Command == commands < MaxCommands /\ commands' = commands + 1

Grant(c, r, type, lease) ==
    /\ Command
    /\ Grantable(locks[r])
    /\ locks' = [locks EXCEPT ![r] = Granted(@, c, type, lease)]
    /\ waitFor' = Without(waitFor, {c})
    /\ calls' = calls \cup {[client |-> c, res |-> r]}
    /\ UNCHANGED told

Join(c, r, type, lease) ==
    /\ Command
    /\ Joinable(locks[r], type)
    /\ locks' = [locks EXCEPT ![r] = Joined(@, c, lease)]
    /\ waitFor' = Without(waitFor, {c})
    /\ calls' = calls \cup {[client |-> c, res |-> r]}
    /\ UNCHANGED told

\* A client that holds the lock, or waits for it, queues up once more.
Enqueue(c, r, type) ==
    /\ Command
    /\ ~Grantable(locks[r]) /\ ~Joinable(locks[r], type)
    /\ locks' = [locks EXCEPT ![r] = Queued(@, c, type)]
    /\ waitFor' = WithWait(waitFor, c, locks[r].holders)
    /\ calls' = calls \cup {[client |-> c, res |-> r]}
    /\ UNCHANGED told

\* A release is applied, whoever sends it: a client that holds nothing loses
\* its edges and keeps its places in the queues.
Release(c, r) ==
    /\ Command
    /\ IF locks[r].token = 0
       THEN UNCHANGED <<locks, waitFor>>
       ELSE /\ locks' = [locks EXCEPT ![r] = Released(@, {c})]
            /\ waitFor' = Without(waitFor, {c} \cup Promoted(locks[r], {c}))
    /\ UNCHANGED <<calls, told>>

\* _handle_acquire resumes and answers from the lock as it is now.
Reply(call) ==
    /\ call \in calls
    /\ calls' = calls \ {call}
    /\ told' = IF call.client \in locks[call.res].holders
               THEN told \cup {[client |-> call.client, res |-> call.res,
                                token |-> locks[call.res].token,
                                type |-> locks[call.res].type]}
               ELSE told
    /\ UNCHANGED <<locks, waitFor, commands>>

-----------------------------------------------------------------------------
\* One unit of time passes.
Tick ==
    /\ \E r \in Resources : locks[r].lease >= 0 /\ locks[r].holders # {}
    /\ locks' = [r \in Resources |->
                   [locks[r] EXCEPT !.lease = IF @ >= 0 THEN @ - 1 ELSE @]]
    /\ UNCHANGED <<waitFor, calls, commands, told>>

\* Slip: the holders of an expired lock are just dropped.
Dropped(lock) == IF Expired(lock) THEN [lock EXCEPT !.holders = {}] ELSE lock

\* A lock after a pass of the lease sweep.
Swept(lock) == IF Expired(lock) THEN Released(lock, lock.holders) ELSE lock

\* The clients whose edges a pass of the sweep removes.
LosingEdges ==
    UNION {locks[r].holders \cup Promoted(locks[r], locks[r].holders) :
             r \in {s \in Resources : Expired(locks[s])}}

\* One pass of _lease_expiry_loop.
Sweep ==
    /\ \E r \in Resources : Expired(locks[r])
    /\ locks' = [r \in Resources |-> Swept(locks[r])]
    /\ waitFor' = Without(waitFor, LosingEdges)
    /\ UNCHANGED <<calls, commands, told>>

-----------------------------------------------------------------------------
Acquire(c, r, type, lease) ==
    \/ Grant(c, r, type, lease)
    \/ Join(c, r, type, lease)

Next ==
    \/ \E c \in Clients, r \in Resources, type \in LockTypes, lease \in Leases :
         Acquire(c, r, type, lease)
    \/ \E c \in Clients, r \in Resources, type \in LockTypes : Enqueue(c, r, type)
    \/ \E c \in Clients, r \in Resources : Release(c, r)
    \/ \E call \in calls : Reply(call)
    \/ Tick
    \/ Sweep

Spec == Init /\ [][Next]_vars

\* Time passes, and the sweep runs again and again.
FairSpec == Spec /\ WF_vars(Tick) /\ WF_vars(Sweep)

-----------------------------------------------------------------------------
(* Properties *)

Answers == [client : Clients, res : Resources, token : Nat, type : LockTypes]

\* Every variable has its type, and a lock that is held or waited for has been
\* granted: with its token at 0 a release would not find it.
TypeOK ==
    /\ locks \in [Resources -> Lock]
    /\ \A r \in Resources : locks[r].token = 0 =>
                             locks[r].holders = {} /\ locks[r].waiting = <<>>
    /\ waitFor \subseteq Clients \X Clients
    /\ calls \subseteq [client : Clients, res : Resources]
    /\ commands \in Nat
    /\ told \subseteq Answers

\* Only shared locks have more than one holder, through grants, shared requests
\* that join, promotions of whole batches and expired leases.
MutualExclusion ==
    \A r \in Resources : \A c, d \in locks[r].holders :
        c # d => locks[r].type = "shared"

\* Nobody waits for a lock that is free: whichever way the last holder goes,
\* the lock is handed on in the same step.
NoStrandedWaiter ==
    \A r \in Resources : locks[r].holders = {} => locks[r].waiting = <<>>

\* Every edge of the wait-for graph is a real wait, so that a cycle found by
\* /lock/deadlocks is a deadlock and not an edge left behind by a client that
\* got its lock or gave it back.  (The converse fails: see the README.)
WaitEdgesSound ==
    \A e \in waitFor :
        /\ e[1] # e[2]
        /\ \E r \in Resources : e[1] \in Waiters(locks[r]) /\ e[2] \in locks[r].holders

\* A fencing token names one tenure of a lock: two clients that were answered
\* "acquired" with the same token share the lock, however late the answers
\* were made and however the lock changed hands in between.
TokenNamesTenure ==
    \A a, b \in told :
        a.res = b.res /\ a.token = b.token =>
            a.type = b.type /\ (a.client # b.client => a.type = "shared")

\* Once the clients send nothing more, expired leases alone empty every queue:
\* nobody waits for ever behind a holder that never releases.
QueuesDrain == \A r \in Resources : []<>(locks[r].waiting = <<>>)

=============================================================================
