------------------------------ MODULE LockTable ------------------------------
(***************************************************************************)
(* The lock table of a replica (LockState, DeadlockDetector and the        *)
(* commands of LockManagerNode, src/src/nodes/lock_manager.py), as         *)
(* functions from what a replica has to what it has afterwards.            *)
(*                                                                         *)
(* A lock that no command has named yet is one whose token is 0: the code  *)
(* creates a LockState only to grant it.  lease is the time the lease has  *)
(* still to run, negative once now > lease_expiry; it means something only *)
(* while the lock is held.  The wait-for graph is the set of its edges     *)
(* <<waiter, holder>>.                                                     *)
(***************************************************************************)
EXTENDS Integers, Sequences, FiniteSets

CONSTANTS
    Clients,
    Resources,
    LeaseTimeout        \* lock_lease_timeout, the lease of a promoted waiter

ASSUME LeaseAssumption == LeaseTimeout \in Nat

LockTypes == {"shared", "exclusive"}
Request == [client : Clients, type : LockTypes]
Lock == [type : LockTypes, holders : SUBSET Clients, waiting : Seq(Request),
         token : Nat, lease : Int]

NewLock == [type |-> "exclusive", holders |-> {}, waiting |-> <<>>, token |-> 0, lease |-> -1]

Waiters(lock) == {lock.waiting[k].client : k \in DOMAIN lock.waiting}

-----------------------------------------------------------------------------
\* Slip: a client's own edges go, the edges to it stay.
WithoutWaiters(edges, gone) == {e \in edges : e[1] \notin gone}

\* DeadlockDetector.remove_client, for every client of gone
Without(edges, gone) == {e \in edges : e[1] \notin gone /\ e[2] \notin gone}

\* DeadlockDetector.add_wait
WithWait(edges, waiter, holders) == edges \cup ({waiter} \X (holders \ {waiter}))

-----------------------------------------------------------------------------
(* _do_acquire: granted if the lock is free, shared with the holders if both *)
(* are shared, queued otherwise                                              *)

Grantable(lock) == lock.holders = {}

\* Slip: a shared request joins whoever holds the lock.
JoinsAnyone(lock, type) == lock.holders # {} /\ type = "shared"

Joinable(lock, type) == lock.holders # {} /\ type = "shared" /\ lock.type = "shared"

\* Slip: only promotions count.
GrantedUncounted(lock, client, type, lease) ==
    [lock EXCEPT !.type = type, !.holders = {client}, !.lease = lease]

Granted(lock, client, type, lease) ==
    [lock EXCEPT !.type = type, !.holders = {client}, !.token = @ + 1, !.lease = lease]

Joined(lock, client, lease) ==
    [lock EXCEPT !.holders = @ \cup {client}, !.lease = IF lease > @ THEN lease ELSE @]

Queued(lock, client, type) ==
    [lock EXCEPT !.waiting = Append(@, [client |-> client, type |-> type])]

-----------------------------------------------------------------------------
(* _do_release *)

\* The places in the queue of those that get the lock together: the first
\* request and, if it is shared, the shared ones right behind it.
Batch(lock) ==
    {k \in DOMAIN lock.waiting :
        \A j \in 1 .. k : k = 1 \/ lock.waiting[j].type = "shared"}

\* Slip: the lock is handed on only when the queue has got long.
LongQueuesHandOn(lock, gone) == lock.holders \subseteq gone /\ Len(lock.waiting) > 1

\* The holders that go are the last ones and somebody waits.
HandsOn(lock, gone) == lock.holders \subseteq gone /\ lock.waiting # <<>>

\* Who gets the lock when the clients of gone give it up.
Promoted(lock, gone) ==
    IF HandsOn(lock, gone) THEN {lock.waiting[k].client : k \in Batch(lock)} ELSE {}

Released(lock, gone) ==
    IF HandsOn(lock, gone)
    THEN [type    |-> lock.waiting[1].type,
          holders |-> Promoted(lock, gone),
          waiting |-> SubSeq(lock.waiting, Cardinality(Batch(lock)) + 1, Len(lock.waiting)),
          token   |-> lock.token + 1,
          lease   |-> LeaseTimeout]
    ELSE [lock EXCEPT !.holders = @ \ gone]

\* One pass of _lease_expiry_loop takes this lock from its holders.
Expired(lock) == lock.holders # {} /\ lock.lease < 0

=============================================================================
