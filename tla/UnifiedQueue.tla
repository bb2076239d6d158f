----------------------------- MODULE UnifiedQueue -----------------------------
(***************************************************************************)
(* The queue of DistributedNode (src/src/main.py), without Redis and       *)
(* without timeouts, at the node that is sent a message and at the one it  *)
(* is copied to.                                                           *)
(***************************************************************************)
EXTENDS Integers, Sequences, FiniteSets

CONSTANTS
    Ids,            \* the message ids (uuids)
    Attempts        \* MessagePassing.max_retries

AttemptsAssumption == Attempts \in Nat \ {0}

VARIABLES
    state,          \* the state of a message at a node, in self.queue_messages
    pending,        \* self.pending_queue
    left            \* the attempts that send has left for the copy of a message

\* What has happened so far; no action reads it.
VARIABLES came, went    \* how often a node queued a message, and handed it out

vars == <<state, pending, left, came, went>>

-----------------------------------------------------------------------------
Sites == {"origin", "replica"}
States == {"absent", "pending", "processing", "completed"}

Init ==
    /\ state = [n \in Sites |-> [id \in Ids |-> "absent"]]
    /\ pending = [n \in Sites |-> <<>>]
    /\ left = [id \in Ids |-> 0]
    /\ came = [n \in Sites |-> [id \in Ids |-> 0]] /\ went = came

\* self.queue_messages[id] = a pending message; self.pending_queue.append(id)
Put(n, id) ==
    /\ state' = [state EXCEPT ![n][id] = "pending"]
    /\ pending' = [pending EXCEPT ![n] = Append(@, id)]
    /\ came' = [came EXCEPT ![n][id] = @ + 1]

\* _handle_queue_enqueue; the copy goes out in a task of its own.
Enqueue(id) ==
    /\ state["origin"][id] = "absent"
    /\ Put("origin", id)
    /\ left' = [left EXCEPT ![id] = Attempts]
    /\ UNCHANGED went

\* Slip: an attempt whose answer is late is not counted.
AfterAnswer(id) == left' \in {[left EXCEPT ![id] = 0], left}

\* The attempt is answered, or the answer is late and the copy is sent again.
AfterAttempt(id) == left' \in {[left EXCEPT ![id] = 0], [left EXCEPT ![id] = @ - 1]}

\* _handle_rpc takes a copy for what it was when it was sent, whatever has
\* become of the message here.
HandleCopy(id) ==
    /\ left[id] > 0
    /\ Put("replica", id)
    /\ AfterAttempt(id)
    /\ UNCHANGED went

LoseCopy(id) ==
    /\ left[id] > 0 /\ left' = [left EXCEPT ![id] = @ - 1]
    /\ UNCHANGED <<state, pending, came, went>>

\* _handle_queue_dequeue, whatever the state of the message
Dequeue(n) ==
    /\ pending[n] # <<>>
    /\ state' = [state EXCEPT ![n][Head(pending[n])] = "processing"]
    /\ pending' = [pending EXCEPT ![n] = Tail(@)]
    /\ went' = [went EXCEPT ![n][Head(pending[n])] = @ + 1]
    /\ UNCHANGED <<left, came>>

\* _handle_queue_ack, whatever the state of the message
Ack(n, id) ==
    /\ state[n][id] # "absent"
    /\ state' = [state EXCEPT ![n][id] = "completed"]
    /\ UNCHANGED <<pending, left, came, went>>

Next ==
    \/ \E id \in Ids : Enqueue(id) \/ HandleCopy(id) \/ LoseCopy(id)
    \/ \E n \in Sites : Dequeue(n)
    \/ \E n \in Sites, id \in Ids : Ack(n, id)

Spec == Init /\ [][Next]_vars

-----------------------------------------------------------------------------
(* Properties *)

\* Every variable has its type.
TypeOK ==
    /\ state \in [Sites -> [Ids -> States]]
    /\ pending \in [Sites -> Seq(Ids)]
    /\ left \in [Ids -> 0 .. Attempts]
    /\ came \in [Sites -> [Ids -> Nat]] /\ went \in [Sites -> [Ids -> Nat]]

Places(n, id) == {k \in DOMAIN pending[n] : pending[n][k] = id}

\* A node hands a message out as often as it came, whether or not it was
\* acknowledged in between: once at the node it was sent to, and at the replica
\* at most once for each attempt to copy it.
HandedOutAsItCame ==
    \A n \in Sites : \A id \in Ids :
        /\ came[n][id] = went[n][id] + Cardinality(Places(n, id))
        /\ came["origin"][id] <= 1 /\ came["replica"][id] <= Attempts
        /\ state[n][id] = "pending" => Places(n, id) # {}

=============================================================================
