-------------------------------- MODULE Queue --------------------------------
(***************************************************************************)
(* QueueNode (src/src/nodes/queue_node.py) on a set of nodes, each with    *)
(* its messages in memory, its queue of pending ids and its own keys in    *)
(* Redis.  Handlers run to their next await in one step.  The await that   *)
(* counts is the write to Redis: the handler goes on when it ended, other  *)
(* handlers run meanwhile, and writes of one key may land in any order     *)
(* (they go out on different connections of the pool) or not at all.       *)
(*                                                                         *)
(* Coroutines keep references to message objects: the pass of the timeout  *)
(* loop to those it listed, _handle_enqueue to the one it made.  When the  *)
(* object of an id is replaced, who still holds the old one is given it in *)
(* the field old.                                                          *)
(***************************************************************************)
EXTENDS Integers, Sequences, FiniteSets, SequencesExt

CONSTANTS
    Nodes,
    Consumers,      \* bound: the nodes the consumers ask for messages
    Ids,            \* the message ids (uuids)
    CopiesTo,       \* peers[:replication_factor - 1] of every node
    MaxRetries,     \* QueueMessage.max_retries
    Attempts,       \* MessagePassing.max_retries
    MaxWrites,      \* bound: writes to Redis under way at a node
    Budgets         \* bounds, per behaviour: restarts and new ids of each node, acknowledgements

ASSUME QueueAssumption ==
    /\ Consumers \subseteq Nodes
    /\ CopiesTo \in [Nodes -> SUBSET Nodes]
    /\ MaxRetries \in Nat \ {0} /\ Attempts \in Nat \ {0}
    /\ MaxWrites \in [Nodes -> Nat]
    /\ Budgets \subseteq [lives : [Nodes -> Nat], fresh : [Nodes -> SUBSET Ids], acks : Nat]
    \* uuids: no id is given twice
    /\ \A b \in Budgets : \A m, n \in Nodes : m # n => b.fresh[m] \cap b.fresh[n] = {}

VARIABLES
    messages,       \* self.messages; Absent where there is none
    pending,        \* self.pending_queue
    redis,          \* the node's keys in Redis
    writes,         \* writes under way: [id, msg, by, old]
    scan,           \* what the pass of the timeout loop has still to look at: [id, old]
    recovering,     \* ids _recover_from_redis may still load
    sends,          \* copies under way: [from, to, id, msg, left]
    fresh,          \* ids the requests at a node will get
    acks,           \* acknowledgements the clients have left
    lives           \* restarts the nodes have left

\* What has happened so far; no action reads it.
VARIABLES
    promised,       \* <<node, id>>: written to Redis, then answered "enqueued"
    credit          \* deliveries a node's message objects are good for

history == <<promised, credit>>
vars == <<messages, pending, redis, writes, scan, recovering, sends, fresh, acks, lives, history>>

-----------------------------------------------------------------------------
States == {"pending", "processing", "completed", "dead_letter"}
Message == [state : States, retries : Nat]

Absent == [state |-> "absent", retries |-> 0]
NewMessage == [state |-> "pending", retries |-> 0]

Known(n) == {id \in Ids : messages[n][id] # Absent}

\* The nodes have started for the first time, over an empty Redis.
Init ==
    /\ messages = [n \in Nodes |-> [id \in Ids |-> Absent]]
    /\ pending = [n \in Nodes |-> <<>>]
    /\ redis = [n \in Nodes |-> [id \in Ids |-> Absent]]
    /\ writes = [n \in Nodes |-> {}]
    /\ scan = [n \in Nodes |-> {}]
    /\ recovering = [n \in Nodes |-> {}]
    /\ sends = {}
    /\ \E b \in Budgets : lives = b.lives /\ fresh = b.fresh /\ acks = b.acks
    /\ promised = {}
    /\ credit = [n \in Nodes |-> [id \in Ids |-> 0]]

\* _persist_message: the message as it is now is on its way to Redis.
Persist(held, id, msg, by) ==
    held \cup {[id |-> id, msg |-> msg, by |-> by, old |-> Absent]}

CanPersist(n) == Cardinality(writes[n]) < MaxWrites[n]

\* References to the object of an id that is being replaced keep the old one.
Keeping(refs, n, id) ==
    {IF e.id = id /\ e.old = Absent THEN [e EXCEPT !.old = messages[n][id]] ELSE e : e \in refs}

\* Slip: only messages that were never tried are queued.
AppendIfUntried(q, id, msg) ==
    IF msg.state = "pending" /\ msg.retries = 0 THEN Append(q, id) ELSE q

\* Only pending messages are queued.
AppendIfPending(q, id, msg) == IF msg.state = "pending" THEN Append(q, id) ELSE q

\* self.messages[id] = msg, for a msg that came from elsewhere
Overwrite(n, id, msg) ==
    /\ messages' = [messages EXCEPT ![n][id] = msg]
    /\ pending' = [pending EXCEPT ![n] = AppendIfPending(@, id, msg)]
    /\ scan' = [scan EXCEPT ![n] = Keeping(@, n, id)]
    /\ credit' = [credit EXCEPT ![n][id] = @ + MaxRetries]

-----------------------------------------------------------------------------
(* Handlers *)

\* _handle_enqueue up to its await
Enqueue(n, id) ==
    /\ CanPersist(n)
    /\ id \in fresh[n] /\ fresh' = [fresh EXCEPT ![n] = @ \ {id}]
    /\ messages' = [messages EXCEPT ![n][id] = NewMessage]
    /\ pending' = [pending EXCEPT ![n] = Append(@, id)]
    /\ credit' = [credit EXCEPT ![n][id] = MaxRetries]
    /\ writes' = [writes EXCEPT ![n] = Persist(@, id, NewMessage, "enqueue")]
    /\ UNCHANGED <<redis, scan, recovering, sends, acks, lives, promised>>

\* The state of a message once it is taken off the queue, whatever it was.
Taken(msg) == [msg EXCEPT !.state = "processing"]

Dequeue(n) ==
    /\ pending[n] # <<>> /\ CanPersist(n)
    /\ LET id == Head(pending[n])
           msg == Taken(messages[n][id])
       IN /\ messages' = [messages EXCEPT ![n][id] = msg]
          /\ writes' = [writes EXCEPT ![n] = Persist(@, id, msg, "handler")]
          \* processing_started is now later than the time the pass goes by
          /\ scan' = [scan EXCEPT ![n] = @ \ {[id |-> id, old |-> Absent]}]
          /\ credit' = [credit EXCEPT ![n][id] = @ - 1]
    /\ pending' = [pending EXCEPT ![n] = Tail(@)]
    /\ UNCHANGED <<redis, recovering, sends, fresh, acks, lives, promised>>

\* Any client may acknowledge, whatever the state of the message.
Ack(n, id) ==
    /\ id \in Known(n) /\ CanPersist(n)
    /\ acks > 0 /\ acks' = acks - 1
    /\ LET msg == [messages[n][id] EXCEPT !.state = "completed"]
       IN /\ messages' = [messages EXCEPT ![n][id] = msg]
          /\ writes' = [writes EXCEPT ![n] = Persist(@, id, msg, "handler")]
    /\ UNCHANGED <<pending, redis, scan, recovering, sends, fresh, lives, history>>

-----------------------------------------------------------------------------
(* The end of a write; the handler that waited for it goes on *)

\* _handle_enqueue sends the message as it is by now and answers; the others
\* only answer.
Resume(n, w) ==
    /\ writes' = [writes EXCEPT ![n] = @ \ {w}]
    /\ sends' = IF w.by = "enqueue"
                THEN sends \cup
                     {[from |-> n, to |-> p, id |-> w.id, left |-> Attempts,
                       msg |-> IF w.old = Absent THEN messages[n][w.id] ELSE w.old] :
                         p \in CopiesTo[n]}
                ELSE sends
    /\ UNCHANGED <<messages, pending, scan, recovering, fresh, acks, lives, credit>>

\* Only recovery reads Redis: what it holds at a node that no recovery will run
\* at any more is not kept.
MayRecover(n) == lives[n] > 0 \/ recovering[n] # {}

Written(n, w) ==
    /\ w \in writes[n]
    /\ redis' = IF MayRecover(n) THEN [redis EXCEPT ![n][w.id] = w.msg] ELSE redis
    /\ promised' = IF w.by = "enqueue" THEN promised \cup {<<n, w.id>>} ELSE promised
    /\ Resume(n, w)

\* The error is logged and swallowed.
WriteFails(n, w) ==
    /\ w \in writes[n]
    /\ Resume(n, w)
    /\ UNCHANGED <<redis, promised>>

-----------------------------------------------------------------------------
(* Replication *)

\* A copy is handled.  Its sender may try again if it gets no answer, and the
\* request of an attempt that was given up may still come in: a copy is
\* handled any number of times up to the number of attempts.
HandleCopy(s, again) ==
    /\ s \in sends /\ CanPersist(s.to)
    /\ again => s.left > 1
    /\ Overwrite(s.to, s.id, s.msg)
    /\ writes' = [writes EXCEPT ![s.to] =
                    Persist(Keeping(@, s.to, s.id), s.id, s.msg, "handler")]
    /\ sends' = (sends \ {s}) \cup (IF again THEN {[s EXCEPT !.left = @ - 1]} ELSE {})
    /\ UNCHANGED <<redis, recovering, fresh, acks, lives, promised>>

\* Every attempt that is left fails before the peer handles it.
LoseCopy(s) ==
    /\ s \in sends
    /\ sends' = sends \ {s}
    /\ UNCHANGED <<messages, pending, redis, writes, scan, recovering, fresh, acks, lives, history>>

-----------------------------------------------------------------------------
(* The timeout loop *)

\* Slip: retries are left as they are.
TimedOutUncounted(msg) == [msg EXCEPT !.state = "pending"]

TimedOut(msg) ==
    [state |-> IF msg.retries + 1 >= MaxRetries THEN "dead_letter" ELSE "pending",
     retries |-> msg.retries + 1]

\* The pass comes to e, whose message has been processed for too long, and
\* waits for its write.
TimeOut(n, e) ==
    LET current == e.old = Absent
        msg == TimedOut(IF current THEN messages[n][e.id] ELSE e.old)
    IN /\ messages' = IF current THEN [messages EXCEPT ![n][e.id] = msg] ELSE messages
       /\ pending' = [pending EXCEPT ![n] = AppendIfPending(@, e.id, msg)]
       /\ writes' = [writes EXCEPT ![n] = Persist(@, e.id, msg, "loop")]

LoopWaits(n) == recovering[n] # {} \/ \E w \in writes[n] : w.by = "loop"

\* Slip: only first tries time out.
BeginFirstPass(n, late) ==
    /\ ~LoopWaits(n) /\ scan[n] = {} /\ CanPersist(n)
    /\ \E id \in late :
         /\ messages[n][id] = Taken(NewMessage)
         /\ TimeOut(n, [id |-> id, old |-> Absent])
    /\ UNCHANGED <<redis, scan, recovering, sends, fresh, acks, lives, history>>

\* A pass begins: the messages of late have been processed for too long by now.
BeginPass(n, late) ==
    /\ ~LoopWaits(n) /\ scan[n] = {} /\ CanPersist(n)
    /\ late # {}
    /\ \A id \in late : messages[n][id].state = "processing"
    /\ \E id \in late :
         /\ TimeOut(n, [id |-> id, old |-> Absent])
         /\ scan' = [scan EXCEPT ![n] = {[id |-> i, old |-> Absent] : i \in late \ {id}}]
    /\ UNCHANGED <<redis, recovering, sends, fresh, acks, lives, history>>

\* The pass goes on with the next message it listed, and looks at its state
\* only now.
ContinuePass(n, e) ==
    /\ ~LoopWaits(n) /\ CanPersist(n)
    /\ e \in scan[n]
    /\ IF (IF e.old = Absent THEN messages[n][e.id] ELSE e.old).state = "processing"
       THEN TimeOut(n, e)
       ELSE UNCHANGED <<messages, pending, writes>>
    /\ scan' = [scan EXCEPT ![n] = @ \ {e}]
    /\ UNCHANGED <<redis, recovering, sends, fresh, acks, lives, history>>

-----------------------------------------------------------------------------
(* Restarts *)

\* What Redis may hold after the writes under way landed, or did not.
Landed(n) ==
    {f \in [Ids -> {w.msg : w \in writes[n]} \cup {redis[n][id] : id \in Ids}] :
        \A id \in Ids : f[id] \in {redis[n][id]} \cup {w.msg : w \in {x \in writes[n] : x.id = id}}}

\* Memory is lost.  Requests that were sent are still under way.
Restart(n) ==
    /\ lives[n] > 0
    /\ lives' = [lives EXCEPT ![n] = @ - 1]
    /\ messages' = [messages EXCEPT ![n] = [id \in Ids |-> Absent]]
    /\ pending' = [pending EXCEPT ![n] = <<>>]
    /\ \E f \in Landed(n) : redis' = [redis EXCEPT ![n] = f]
    /\ writes' = [writes EXCEPT ![n] = {}]
    /\ scan' = [scan EXCEPT ![n] = {}]
    /\ recovering' = [recovering EXCEPT ![n] = Ids]
    /\ sends' = {IF s.from = n THEN [s EXCEPT !.left = 1] ELSE s : s \in sends}
    /\ UNCHANGED <<fresh, acks, history>>

\* Slip: what is not pending is left in Redis.
LoadPending(n, id) ==
    /\ id \in recovering[n] /\ redis[n][id] # Absent
    /\ recovering' = [recovering EXCEPT ![n] = @ \ {id}]
    /\ IF redis[n][id].state = "pending"
       THEN Overwrite(n, id, redis[n][id])
       ELSE UNCHANGED <<messages, pending, scan, credit>>
    /\ UNCHANGED <<redis, writes, sends, fresh, acks, lives, promised>>

\* Slip: the id is queued and the message not stored.
LoadId(n, id) ==
    /\ id \in recovering[n] /\ redis[n][id] # Absent
    /\ recovering' = [recovering EXCEPT ![n] = @ \ {id}]
    /\ pending' = [pending EXCEPT ![n] = AppendIfPending(@, id, redis[n][id])]
    /\ UNCHANGED <<messages, scan, redis, writes, sends, fresh, acks, lives, history>>

\* Recovery loads a message; the handlers serve requests already.
Load(n, id) ==
    /\ id \in recovering[n] /\ redis[n][id] # Absent
    /\ recovering' = [recovering EXCEPT ![n] = @ \ {id}]
    /\ Overwrite(n, id, redis[n][id])
    /\ writes' = [writes EXCEPT ![n] = Keeping(@, n, id)]
    /\ UNCHANGED <<redis, sends, fresh, acks, lives, promised>>

\* Recovery ends: the other keys were not there when it looked, or have
\* expired, or an error was logged and swallowed.
RecoveryEnds(n) ==
    /\ recovering[n] # {}
    /\ recovering' = [recovering EXCEPT ![n] = {}]
    /\ promised' = promised \ ({n} \X recovering[n])
    /\ UNCHANGED <<messages, pending, redis, writes, scan, sends, fresh, acks, lives, credit>>

-----------------------------------------------------------------------------
Next ==
    \/ \E n \in Nodes, id \in Ids : Enqueue(n, id) \/ Load(n, id)
    \/ \E n \in Consumers : Dequeue(n) \/ \E id \in Ids : Ack(n, id)
    \/ \E n \in Nodes : Restart(n) \/ RecoveryEnds(n)
    \/ \E n \in Nodes : \E w \in writes[n] : Written(n, w) \/ WriteFails(n, w)
    \/ \E s \in sends : LoseCopy(s) \/ \E again \in BOOLEAN : HandleCopy(s, again)
    \/ \E n \in Nodes, late \in SUBSET Ids : BeginPass(n, late)
    \/ \E n \in Nodes : \E e \in scan[n] : ContinuePass(n, e)

Spec == Init /\ [][Next]_vars

\* Recovery and writes to Redis end, the loop runs again and again, and some
\* consumer takes what is queued; nobody has to acknowledge.
FairSpec ==
    /\ Spec
    /\ \A n \in Consumers : WF_vars(Dequeue(n))
    /\ \A n \in Nodes :
         /\ WF_vars(RecoveryEnds(n))
         /\ WF_vars(\E w \in writes[n] : Written(n, w) \/ WriteFails(n, w))
         /\ WF_vars(\E e \in scan[n] : ContinuePass(n, e))
         /\ \A id \in Ids : WF_vars(\E late \in SUBSET Ids : id \in late /\ BeginPass(n, late))

-----------------------------------------------------------------------------
(* Properties *)

\* Every variable has its type; what is queued is stored.
TypeOK ==
    /\ messages \in [Nodes -> [Ids -> Message \cup {Absent}]]
    /\ \A n \in Nodes : pending[n] \in Seq(Known(n))
    /\ redis \in [Nodes -> [Ids -> Message \cup {Absent}]]
    /\ \A n \in Nodes : writes[n] \subseteq
         [id : Ids, msg : Message, by : {"enqueue", "loop", "handler"},
          old : Message \cup {Absent}]
    /\ \A n \in Nodes : scan[n] \subseteq [id : Ids, old : Message \cup {Absent}]
    /\ recovering \in [Nodes -> SUBSET Ids]
    /\ sends \subseteq [from : Nodes, to : Nodes, id : Ids, msg : Message, left : 1 .. Attempts]
    /\ fresh \in [Nodes -> SUBSET Ids] /\ acks \in Nat /\ lives \in [Nodes -> Nat]

\* A message that waits to be delivered is on the queue: no interleaving of
\* deliveries, timeouts, copies and recovery leaves it pending for ever.
NoMessageForgotten ==
    \A n \in Nodes, id \in Ids :
        messages[n][id].state = "pending" => Contains(pending[n], id)

\* A node delivers a message at most max_retries times for every object it made
\* of it (one for the client's request, one for every copy that comes in and one
\* for every time it is recovered), whatever the order of timeouts and late
\* acknowledgements: credit gains max_retries with an object and loses one with
\* a delivery.
DeliveriesBounded == \A n \in Nodes, id \in Ids : credit[n][id] >= 0

\* A message that was written to Redis before its sender was told "enqueued" is
\* still known to that node, restarted or not, unless a recovery that failed or
\* came too late left it out.
AnsweredSurvives ==
    \A p \in promised : p[2] \in Known(p[1]) \cup recovering[p[1]]

\* Every message is delivered until it is completed or a dead letter, at every
\* node that has a copy, and at last nothing is queued any more.
EventuallySettled ==
    <>[](\A n \in Consumers :
           /\ pending[n] = <<>>
           /\ \A id \in Known(n) : messages[n][id].state \in {"completed", "dead_letter"})

=============================================================================
