--------------------------- MODULE LockReplication ---------------------------
(***************************************************************************)
(* LockManagerNode (src/src/nodes/lock_manager.py) on several nodes: every *)
(* replica applies the commands of one log, as ReplicatedLog promises, and *)
(* besides takes locks away by its own clock, which no command records.    *)
(* LockManager has one replica in full; here is one lock, without the      *)
(* wait-for graph.                                                         *)
(***************************************************************************)
EXTENDS LockTable

CONSTANTS
    Nodes,
    Leases,         \* the lease timeouts clients ask for
    MaxCommands     \* bound: committed commands

VARIABLES
    log,            \* the committed commands
    leader,         \* the node that proposes
    applied,        \* how many of them a node has applied
    lock,           \* the lock in self.locks of a node
    calls           \* _handle_acquire coroutines about to resume: [client, at]

\* What has happened so far; no action reads it.
VARIABLE told       \* [client, token, type]: the answer "acquired" went out

vars == <<log, leader, applied, lock, calls, told>>

-----------------------------------------------------------------------------
Acquires == [kind : {"acquire"}, client : Clients, type : LockTypes, lease : Leases]
Releases == [kind : {"release"}, client : Clients]

Init ==
    /\ log = <<>>
    /\ leader \in Nodes
    /\ applied = [n \in Nodes |-> 0]
    /\ lock = [n \in Nodes |-> NewLock]
    /\ calls = {} /\ told = {}

\* _apply_lock_command
After(l, cmd) ==
    IF cmd.kind = "release" THEN (IF l.token = 0 THEN l ELSE Released(l, {cmd.client}))
    ELSE IF Grantable(l) THEN Granted(l, cmd.client, cmd.type, cmd.lease)
    ELSE IF Joinable(l, cmd.type) THEN Joined(l, cmd.client, cmd.lease)
    ELSE Queued(l, cmd.client, cmd.type)

\* A node applies the commands up to the k-th of cmds in one go.
CatchUp(n, cmds, k) ==
    /\ applied' = [applied EXCEPT ![n] = k]
    /\ LET state[i \in applied[n] .. k] ==
               IF i = applied[n] THEN lock[n] ELSE After(state[i - 1], cmds[i])
       IN lock' = [lock EXCEPT ![n] = state[k]]

\* The leader's command is committed, and with it all the leader had not applied.
Commit(cmd) ==
    /\ Len(log) < MaxCommands
    /\ log' = Append(log, cmd)
    /\ CatchUp(leader, log', Len(log'))
    /\ calls' = IF cmd.kind = "acquire"
                THEN calls \cup {[client |-> cmd.client, at |-> leader]} ELSE calls
    /\ UNCHANGED <<leader, told>>

\* A follower hears how much is committed.
Learn(n, k) ==
    /\ k \in applied[n] + 1 .. Len(log)
    /\ CatchUp(n, log, k)
    /\ UNCHANGED <<log, leader, calls, told>>

Elect(n) ==
    /\ n # leader /\ leader' = n
    /\ UNCHANGED <<log, applied, lock, calls, told>>

\* _handle_acquire resumes and answers from its node's lock.
Reply(call) ==
    /\ call \in calls /\ calls' = calls \ {call}
    /\ LET l == lock[call.at]
           answer == [client |-> call.client, token |-> l.token, type |-> l.type]
       IN told' = IF call.client \in l.holders THEN told \cup {answer} ELSE told
    /\ UNCHANGED <<log, leader, applied, lock>>

\* One unit of time passes, the same on all nodes; handlers resume before that.
Tick ==
    /\ calls = {}
    /\ \E n \in Nodes : lock[n].holders # {} /\ lock[n].lease >= 0
    /\ lock' = [n \in Nodes |-> [lock[n] EXCEPT !.lease = IF @ >= 0 THEN @ - 1 ELSE @]]
    /\ UNCHANGED <<log, leader, applied, calls, told>>

\* A pass of _lease_expiry_loop on a node
Sweep(n) ==
    /\ Expired(lock[n])
    /\ lock' = [lock EXCEPT ![n] = Released(@, @.holders)]
    /\ UNCHANGED <<log, leader, applied, calls, told>>

Next ==
    \/ \E cmd \in Acquires \cup Releases : Commit(cmd)
    \/ \E n \in Nodes : Elect(n) \/ Sweep(n) \/ \E k \in 1 .. Len(log) : Learn(n, k)
    \/ \E call \in calls : Reply(call)
    \/ Tick

Spec == Init /\ [][Next]_vars

-----------------------------------------------------------------------------
(* Properties *)

\* With one lock state replicated on all nodes, a fencing token would name one
\* tenure, whichever node answers: two clients with one token share the lock.
\* On one replica that is so (LockManager, TokenNamesTenure).
OneHolderPerToken ==
    \A a, b \in told : a.token = b.token /\ a.client # b.client =>
        a.type = "shared" /\ b.type = "shared"

=============================================================================
