----------------------------- MODULE QueueProofs -----------------------------
(***************************************************************************)
(* Theorems about Queue, for every set of nodes and ids, and any number of *)
(* copies, attempts, writes, restarts and acknowledgements: variables keep *)
(* their types, what is pending is queued, deliveries are bounded, and     *)
(* what was answered stays known.                                          *)
(***************************************************************************)
EXTENDS Queue, CountingFacts

USE QueueAssumption

-----------------------------------------------------------------------------
(* The inductive invariants *)

Writes == [id : Ids, msg : Message, by : {"enqueue", "loop", "handler"}, old : Message \cup {Absent}]
Looks == [id : Ids, old : Message \cup {Absent}]

\* Coroutines only hold on to ids that are stored, and a pass looks at each of
\* them once.
RefsKnown ==
    \A n \in Nodes :
        /\ \A w \in writes[n] : w.id \in Known(n)
        /\ \A e \in scan[n] : e.id \in Known(n)
        /\ \A e, f \in scan[n] : e.id = f.id => e = f

TypeInv ==
    /\ TypeOK /\ RefsKnown
    /\ pending \in [Nodes -> Seq(Ids)]
    /\ writes \in [Nodes -> SUBSET Writes] /\ scan \in [Nodes -> SUBSET Looks]
    /\ credit \in [Nodes -> [Ids -> Int]] /\ promised \subseteq Nodes \X Ids

\* An id that no request got yet is nowhere.
Unseen(id) ==
    /\ \A n \in Nodes : messages[n][id] = Absent /\ redis[n][id] = Absent
    /\ \A s \in sends : s.id # id

FreshUnseen ==
    /\ \A m, n \in Nodes : m # n => fresh[m] \cap fresh[n] = {}
    /\ \A n \in Nodes : \A id \in fresh[n] : Unseen(id)

\* How often the timeout loop may still queue an object.
TriesLeft(msg) ==
    IF msg # Absent /\ msg.retries + 1 < MaxRetries THEN MaxRetries - 1 - msg.retries ELSE 0

\* Whether the pass may still queue an object of an id that was replaced.
Strays(n, id) ==
    IF \E e \in scan[n] : e.id = id /\ e.old # Absent /\ TriesLeft(e.old) > 0 THEN 1 ELSE 0

CreditCovers ==
    \A n \in Nodes, id \in Ids :
        Cardinality(PlacesIn(pending[n], id)) + TriesLeft(messages[n][id]) + Strays(n, id)
            <= credit[n][id]

-----------------------------------------------------------------------------
(* Messages *)

\* Absent is no message, and a message is stored under an id if it is not Absent.
LEMMA AbsentNoMessage ==
    /\ Absent \notin Message
    /\ NewMessage \in Message
    /\ \A msg \in Message : TimedOut(msg) \in Message
    /\ \A msg \in Message : \A st \in States : [msg EXCEPT !.state = st] \in Message
<1>1. Absent \notin Message
  BY DEF Absent, Message, States
<1>2. NewMessage \in Message
  BY DEF NewMessage, Message, States
<1>3. \A msg \in Message : TimedOut(msg) \in Message
  BY DEF TimedOut, Message, States
<1> QED BY <1>1, <1>2, <1>3 DEF Message

\* Storing a message adds its id to what the node knows and nothing else.
LEMMA StoreKnows ==
    ASSUME messages \in [Nodes -> [Ids -> Message \cup {Absent}]],
           NEW n \in Nodes, NEW id \in Ids, NEW msg \in Message,
           messages' = [messages EXCEPT ![n][id] = msg]
    PROVE  /\ messages' \in [Nodes -> [Ids -> Message \cup {Absent}]]
           /\ messages'[n][id] = msg
           /\ \A m \in Nodes, i \in Ids : m # n \/ i # id => messages'[m][i] = messages[m][i]
           /\ \A m \in Nodes : Known(m) \subseteq Known(m)'
           /\ id \in Known(n)'
<1>1. /\ messages' \in [Nodes -> [Ids -> Message \cup {Absent}]]
      /\ messages'[n][id] = msg
      /\ \A m \in Nodes, i \in Ids : m # n \/ i # id => messages'[m][i] = messages[m][i]
  OBVIOUS
<1> QED BY <1>1, AbsentNoMessage DEF Known

-----------------------------------------------------------------------------
(* Types *)

\* What a handler leaves of the lists of its node: all ids known.
Lists(n, q, ws, sc, known) ==
    /\ q \in Seq(known)
    /\ ws \subseteq Writes /\ \A w \in ws : w.id \in known
    /\ sc \subseteq Looks /\ \A e \in sc : e.id \in known
    /\ \A e, f \in sc : e.id = f.id => e = f

\* The lists of a node as they are.
LEMMA ListsNow ==
    ASSUME TypeInv, NEW n \in Nodes
    PROVE  Lists(n, pending[n], writes[n], scan[n], Known(n))
BY DEF TypeInv, TypeOK, RefsKnown, Lists

\* What the types of the variables are that no list is among.
OtherTypes ==
    /\ redis \in [Nodes -> [Ids -> Message \cup {Absent}]]
    /\ recovering \in [Nodes -> SUBSET Ids]
    /\ sends \subseteq [from : Nodes, to : Nodes, id : Ids, msg : Message, left : 1 .. Attempts]
    /\ fresh \in [Nodes -> SUBSET Ids] /\ acks \in Nat /\ lives \in [Nodes -> Nat]
    /\ credit \in [Nodes -> [Ids -> Int]] /\ promised \subseteq Nodes \X Ids

\* A step of one node keeps the types if its lists and the other variables have theirs.
LEMMA NodeStepTyped ==
    ASSUME TypeInv, NEW n \in Nodes, NEW q, NEW ws, NEW sc,
           messages' \in [Nodes -> [Ids -> Message \cup {Absent}]],
           \A m \in Nodes \ {n} : Known(m) \subseteq Known(m)',
           pending' = [pending EXCEPT ![n] = q],
           writes' = [writes EXCEPT ![n] = ws],
           scan' = [scan EXCEPT ![n] = sc],
           Lists(n, q, ws, sc, Known(n)'),
           OtherTypes'
    PROVE  TypeInv'
<1>1. Known(n)' \subseteq Ids
  BY DEF Known
<1>2. q \in Seq(Ids) /\ ws \in SUBSET Writes /\ sc \in SUBSET Looks
  BY <1>1, SeqMonotonic DEF Lists
<1>3. /\ pending' \in [Nodes -> Seq(Ids)]
      /\ writes' \in [Nodes -> SUBSET Writes] /\ scan' \in [Nodes -> SUBSET Looks]
  BY <1>2 DEF TypeInv
<1>4. /\ pending'[n] = q /\ writes'[n] = ws /\ scan'[n] = sc
      /\ \A m \in Nodes \ {n} : /\ pending'[m] = pending[m]
                                /\ writes'[m] = writes[m] /\ scan'[m] = scan[m]
  BY DEF TypeInv
<1>5. \A m \in Nodes : pending'[m] \in Seq(Known(m)')
  <2> SUFFICES ASSUME NEW m \in Nodes PROVE pending'[m] \in Seq(Known(m)')
    OBVIOUS
  <2>1. CASE m = n
    BY <1>4, <2>1 DEF Lists
  <2>2. CASE m # n
    <3>1. Known(m) \subseteq Known(m)' /\ pending[m] \in Seq(Known(m))
      BY <2>2 DEF TypeInv, TypeOK
    <3> QED BY <1>4, <2>2, <3>1, SeqMonotonic
  <2> QED BY <2>1, <2>2
<1>6. RefsKnown'
  <2> SUFFICES ASSUME NEW m \in Nodes
               PROVE  /\ \A w \in writes'[m] : w.id \in Known(m)'
                      /\ \A e \in scan'[m] : e.id \in Known(m)'
                      /\ \A e, f \in scan'[m] : e.id = f.id => e = f
    BY DEF RefsKnown
  <2>1. CASE m = n
    BY <1>4, <2>1 DEF Lists
  <2>2. CASE m # n
    BY <1>4, <2>2 DEF TypeInv, RefsKnown
  <2> QED BY <2>1, <2>2
<1>7. TypeOK'
  BY <1>3, <1>5 DEF TypeOK, OtherTypes, Writes, Looks
<1> QED BY <1>3, <1>6, <1>7 DEF TypeInv, OtherTypes

\* A write that begins is added to those under way.
LEMMA PersistListed ==
    ASSUME NEW n, NEW q, NEW ws, NEW sc, NEW known, Lists(n, q, ws, sc, known),
           NEW id \in Ids \cap known, NEW msg \in Message,
           NEW by \in {"enqueue", "loop", "handler"}
    PROVE  Lists(n, q, Persist(ws, id, msg, by), sc, known)
<1> DEFINE w == [id |-> id, msg |-> msg, by |-> by, old |-> Absent]
<1>1. w \in Writes /\ w.id = id
  BY DEF Writes
<1> HIDE DEF w
<1>2. Persist(ws, id, msg, by) = ws \cup {w}
  BY DEF Persist, w
<1> QED BY <1>1, <1>2 DEF Lists

\* Lists of known ids are that of any larger set of ids.
LEMMA ListsGrow ==
    ASSUME NEW n, NEW q, NEW ws, NEW sc, NEW known, NEW more,
           Lists(n, q, ws, sc, known), known \subseteq more
    PROVE  Lists(n, q, ws, sc, more)
BY SeqMonotonic DEF Lists

\* What becomes of a reference when the object of an id is replaced.
Kept(e, n, id) ==
    IF e.id = id /\ e.old = Absent THEN [e EXCEPT !.old = messages[n][id]] ELSE e

\* Replacing an object changes what is held of it, and no id.
LEMMA KeepingKeeps ==
    ASSUME messages \in [Nodes -> [Ids -> Message \cup {Absent}]],
           NEW n \in Nodes, NEW id \in Ids, NEW refs,
           refs \subseteq Writes \/ refs \subseteq Looks
    PROVE  /\ refs \subseteq Writes => Keeping(refs, n, id) \subseteq Writes
           /\ refs \subseteq Looks => Keeping(refs, n, id) \subseteq Looks
           /\ \A e \in Keeping(refs, n, id) : \E f \in refs :
                  /\ e.id = f.id
                  /\ e = Kept(f, n, id)
<1>1. messages[n][id] \in Message \cup {Absent}
  OBVIOUS
<1>2. Keeping(refs, n, id) = {Kept(e, n, id) : e \in refs}
  BY DEF Keeping, Kept
<1>3. \A e \in Writes : Kept(e, n, id) \in Writes /\ Kept(e, n, id).id = e.id
  BY <1>1 DEF Writes, Kept
<1>4. \A e \in Looks : Kept(e, n, id) \in Looks /\ Kept(e, n, id).id = e.id
  BY <1>1 DEF Looks, Kept
<1>5. \A e \in Keeping(refs, n, id) : \E f \in refs :
          e.id = f.id /\ e = Kept(f, n, id)
  BY <1>2, <1>3, <1>4
<1> QED BY <1>2, <1>3, <1>4, <1>5

\* An object that is replaced is kept in the lists, under the same ids.
LEMMA KeepingListed ==
    ASSUME messages \in [Nodes -> [Ids -> Message \cup {Absent}]],
           NEW n \in Nodes, NEW id \in Ids, NEW q, NEW ws, NEW sc, NEW known,
           Lists(n, q, ws, sc, known)
    PROVE  /\ Lists(n, q, Keeping(ws, n, id), sc, known)
           /\ Lists(n, q, ws, Keeping(sc, n, id), known)
<1>0. ws \subseteq Writes /\ sc \subseteq Looks
  BY DEF Lists
<1>1. Keeping(ws, n, id) \subseteq Writes /\ Keeping(sc, n, id) \subseteq Looks
  BY <1>0, KeepingKeeps
<1>2. /\ \A e \in Keeping(ws, n, id) : \E f \in ws : e.id = f.id /\ e = Kept(f, n, id)
      /\ \A e \in Keeping(sc, n, id) : \E f \in sc : e.id = f.id /\ e = Kept(f, n, id)
  BY <1>0, KeepingKeeps
<1>3. \A e \in Keeping(ws, n, id) : e.id \in known
  BY <1>2 DEF Lists
<1>4. \A e \in Keeping(sc, n, id) : e.id \in known
  BY <1>2 DEF Lists
<1>5. \A e, f \in Keeping(sc, n, id) : e.id = f.id => e = f
  <2> SUFFICES ASSUME NEW e \in Keeping(sc, n, id), NEW f \in Keeping(sc, n, id), e.id = f.id
               PROVE  e = f
    OBVIOUS
  <2>1. PICK d \in sc : e.id = d.id /\ e = Kept(d, n, id)
    BY <1>2
  <2>2. PICK g \in sc : f.id = g.id /\ f = Kept(g, n, id)
    BY <1>2
  <2>3. d = g
    BY <2>1, <2>2 DEF Lists
  <2> QED BY <2>1, <2>2, <2>3
<1> QED BY <1>1, <1>2, <1>3, <1>4, <1>5 DEF Lists

\* Queueing a known id, or not.
LEMMA AppendListed ==
    ASSUME NEW n, NEW q, NEW ws, NEW sc, NEW known, Lists(n, q, ws, sc, known),
           NEW id \in known, NEW msg
    PROVE  Lists(n, AppendIfPending(q, id, msg), ws, sc, known)
<1>1. Append(q, id) \in Seq(known)
  BY AppendProperties DEF Lists
<1> QED BY <1>1 DEF Lists, AppendIfPending

-----------------------------------------------------------------------------
(* Types are kept by every step *)

LEMMA InitTyped == Init => TypeInv
<1> SUFFICES ASSUME Init PROVE TypeInv
  OBVIOUS
<1>1. PICK b \in Budgets : lives = b.lives /\ fresh = b.fresh /\ acks = b.acks
  BY DEF Init
<1>2. fresh \in [Nodes -> SUBSET Ids] /\ acks \in Nat /\ lives \in [Nodes -> Nat]
  BY <1>1
<1>3. \A n \in Nodes : pending[n] \in Seq(Known(n))
  BY EmptySeq DEF Init
<1>4. pending \in [Nodes -> Seq(Ids)]
  BY EmptySeq DEF Init
<1>5. TypeOK
  BY <1>2, <1>3 DEF Init, TypeOK
<1> QED BY <1>4, <1>5 DEF Init, TypeInv, RefsKnown

LEMMA EnqueueTyped ==
    ASSUME TypeInv, NEW n \in Nodes, NEW id \in Ids, Enqueue(n, id)
    PROVE  TypeInv'
<1> DEFINE q == Append(pending[n], id)
           ws == Persist(writes[n], id, NewMessage, "enqueue")
<1>1. /\ messages' = [messages EXCEPT ![n][id] = NewMessage]
      /\ pending' = [pending EXCEPT ![n] = q]
      /\ writes' = [writes EXCEPT ![n] = ws]
      /\ scan' = [scan EXCEPT ![n] = scan[n]]
      /\ fresh' = [fresh EXCEPT ![n] = @ \ {id}]
      /\ credit' = [credit EXCEPT ![n][id] = MaxRetries]
      /\ UNCHANGED <<redis, recovering, sends, acks, lives, promised>>
  BY DEF Enqueue, TypeInv
<1>2. OtherTypes'
  BY <1>1 DEF TypeInv, TypeOK, OtherTypes
<1>3. /\ messages' \in [Nodes -> [Ids -> Message \cup {Absent}]]
      /\ \A m \in Nodes : Known(m) \subseteq Known(m)'
      /\ id \in Known(n)'
  BY <1>1, AbsentNoMessage, StoreKnows DEF TypeInv, TypeOK
<1>4. Lists(n, pending[n], writes[n], scan[n], Known(n)')
  BY <1>3, ListsNow, ListsGrow
<1>5. Lists(n, q, writes[n], scan[n], Known(n)')
  BY <1>3, <1>4, AppendProperties DEF Lists
<1>6. Lists(n, q, ws, scan[n], Known(n)')
  BY <1>3, <1>5, AbsentNoMessage, PersistListed
<1> HIDE DEF q, ws
<1> QED BY <1>1, <1>2, <1>3, <1>6, NodeStepTyped

LEMMA DequeueTyped ==
    ASSUME TypeInv, NEW n \in Nodes, Dequeue(n)
    PROVE  TypeInv'
<1> DEFINE id == Head(pending[n])
           msg == Taken(messages[n][id])
           q == Tail(pending[n])
           ws == Persist(writes[n], id, msg, "handler")
           sc == scan[n] \ {[id |-> id, old |-> Absent]}
<1>1. /\ messages' = [messages EXCEPT ![n][id] = msg]
      /\ pending' = [pending EXCEPT ![n] = q]
      /\ writes' = [writes EXCEPT ![n] = ws]
      /\ scan' = [scan EXCEPT ![n] = sc]
      /\ credit' = [credit EXCEPT ![n][id] = @ - 1]
      /\ UNCHANGED <<redis, recovering, sends, fresh, acks, lives, promised>>
  BY DEF Dequeue
<1>2. id \in Known(n) /\ q \in Seq(Known(n))
  BY HeadTailProperties DEF TypeInv, TypeOK, Dequeue
<1>3. id \in Ids /\ messages[n][id] \in Message
  BY <1>2 DEF Known, TypeInv, TypeOK
<1>4. msg \in Message
  BY <1>3, AbsentNoMessage DEF Taken, States
<1> HIDE DEF id, msg
<1>5. OtherTypes'
  <2>1. credit' \in [Nodes -> [Ids -> Int]]
    BY <1>1, <1>3 DEF TypeInv
  <2> QED BY <1>1, <2>1 DEF TypeInv, TypeOK, OtherTypes
<1>6. /\ messages' \in [Nodes -> [Ids -> Message \cup {Absent}]]
      /\ \A m \in Nodes : Known(m) \subseteq Known(m)'
      /\ id \in Known(n)'
  BY <1>1, <1>3, <1>4, StoreKnows DEF TypeInv, TypeOK
<1>7. Lists(n, q, writes[n], sc, Known(n))
  BY <1>2, ListsNow DEF Lists
<1>8. Lists(n, q, writes[n], sc, Known(n)')
  BY <1>6, <1>7, ListsGrow
<1>9. Lists(n, q, ws, sc, Known(n)')
  BY <1>3, <1>4, <1>6, <1>8, PersistListed
<1> HIDE DEF q, ws, sc
<1> QED BY <1>1, <1>5, <1>6, <1>9, NodeStepTyped

LEMMA AckTyped ==
    ASSUME TypeInv, NEW n \in Nodes, NEW id \in Ids, Ack(n, id)
    PROVE  TypeInv'
<1> DEFINE msg == [messages[n][id] EXCEPT !.state = "completed"]
           ws == Persist(writes[n], id, msg, "handler")
<1>1. /\ messages' = [messages EXCEPT ![n][id] = msg]
      /\ pending' = [pending EXCEPT ![n] = pending[n]]
      /\ writes' = [writes EXCEPT ![n] = ws]
      /\ scan' = [scan EXCEPT ![n] = scan[n]]
      /\ acks > 0 /\ acks' = acks - 1
      /\ UNCHANGED <<redis, recovering, sends, fresh, lives, promised, credit>>
  BY DEF Ack, TypeInv, history
<1>2. messages[n][id] \in Message
  BY DEF Ack, Known, TypeInv, TypeOK
<1>3. msg \in Message
  BY <1>2, AbsentNoMessage DEF States
<1> HIDE DEF msg
<1>4. OtherTypes'
  BY <1>1 DEF TypeInv, TypeOK, OtherTypes
<1>5. /\ messages' \in [Nodes -> [Ids -> Message \cup {Absent}]]
      /\ \A m \in Nodes : Known(m) \subseteq Known(m)'
      /\ id \in Known(n)'
  BY <1>1, <1>3, StoreKnows DEF TypeInv, TypeOK
<1>6. Lists(n, pending[n], writes[n], scan[n], Known(n)')
  BY <1>5, ListsNow, ListsGrow
<1>7. Lists(n, pending[n], ws, scan[n], Known(n)')
  BY <1>3, <1>5, <1>6, PersistListed
<1> HIDE DEF ws
<1> QED BY <1>1, <1>4, <1>5, <1>7, NodeStepTyped

\* The copies that a handler sends after its write are of its message.
LEMMA ResumeTyped ==
    ASSUME TypeInv, NEW n \in Nodes, NEW w \in writes[n], Resume(n, w),
           redis' \in [Nodes -> [Ids -> Message \cup {Absent}]],
           promised' \subseteq Nodes \X Ids
    PROVE  TypeInv'
<1> DEFINE msg == IF w.old = Absent THEN messages[n][w.id] ELSE w.old
           ws == writes[n] \ {w}
           copies == {[from |-> n, to |-> p, id |-> w.id, left |-> Attempts, msg |-> msg] :
                          p \in CopiesTo[n]}
<1>1. /\ messages' = messages
      /\ pending' = [pending EXCEPT ![n] = pending[n]]
      /\ writes' = [writes EXCEPT ![n] = ws]
      /\ scan' = [scan EXCEPT ![n] = scan[n]]
      /\ sends' \in {sends, sends \cup copies}
      /\ UNCHANGED <<recovering, fresh, acks, lives, credit>>
  BY DEF Resume, TypeInv
<1>2. w \in Writes /\ w.id \in Known(n)
  BY DEF TypeInv, RefsKnown
<1>3. w.id \in Ids /\ msg \in Message
  BY <1>2 DEF Writes, Known, TypeInv, TypeOK
<1> HIDE DEF msg
<1>4. copies \subseteq [from : Nodes, to : Nodes, id : Ids, msg : Message, left : 1 .. Attempts]
  BY <1>3
<1> HIDE DEF copies
<1>5. OtherTypes'
  BY <1>1, <1>4 DEF TypeInv, TypeOK, OtherTypes
<1>6. \A m \in Nodes : Known(m)' = Known(m)
  BY <1>1 DEF Known
<1>7. Lists(n, pending[n], ws, scan[n], Known(n)')
  BY <1>6, ListsNow DEF Lists
<1> HIDE DEF ws
<1>8. messages' \in [Nodes -> [Ids -> Message \cup {Absent}]]
  BY <1>1 DEF TypeInv, TypeOK
<1> QED BY <1>1, <1>5, <1>6, <1>7, <1>8, NodeStepTyped

LEMMA WriteEndsTyped ==
    ASSUME TypeInv, NEW n \in Nodes, NEW w \in writes[n], Written(n, w) \/ WriteFails(n, w)
    PROVE  TypeInv'
<1>1. w \in Writes /\ w.id \in Ids /\ w.msg \in Message
  BY DEF TypeInv, Writes
<1>2. redis' \in [Nodes -> [Ids -> Message \cup {Absent}]]
  <2>1. redis' \in {redis, [redis EXCEPT ![n][w.id] = w.msg]}
    BY DEF Written, WriteFails
  <2>2. redis \in [Nodes -> [Ids -> Message \cup {Absent}]]
    BY DEF TypeInv, TypeOK
  <2> QED BY <1>1, <2>1, <2>2
<1>3. promised' \subseteq Nodes \X Ids
  BY <1>1 DEF Written, WriteFails, TypeInv
<1> QED BY <1>2, <1>3, ResumeTyped DEF Written, WriteFails

\* A message from elsewhere.
LEMMA OverwriteTyped ==
    ASSUME TypeInv, NEW n \in Nodes, NEW id \in Ids, NEW msg \in Message, Overwrite(n, id, msg)
    PROVE  /\ messages' \in [Nodes -> [Ids -> Message \cup {Absent}]]
           /\ \A m \in Nodes : Known(m) \subseteq Known(m)'
           /\ id \in Known(n)'
           /\ pending' = [pending EXCEPT ![n] = AppendIfPending(pending[n], id, msg)]
           /\ scan' = [scan EXCEPT ![n] = Keeping(scan[n], n, id)]
           /\ credit' \in [Nodes -> [Ids -> Int]]
           /\ Lists(n, AppendIfPending(pending[n], id, msg), Keeping(writes[n], n, id),
                    Keeping(scan[n], n, id), Known(n)')
<1>1. /\ messages' = [messages EXCEPT ![n][id] = msg]
      /\ pending' = [pending EXCEPT ![n] = AppendIfPending(pending[n], id, msg)]
      /\ scan' = [scan EXCEPT ![n] = Keeping(scan[n], n, id)]
      /\ credit' = [credit EXCEPT ![n][id] = @ + MaxRetries]
  BY DEF Overwrite, TypeInv
<1>2. /\ messages' \in [Nodes -> [Ids -> Message \cup {Absent}]]
      /\ \A m \in Nodes : Known(m) \subseteq Known(m)'
      /\ id \in Known(n)'
  BY <1>1, StoreKnows DEF TypeInv, TypeOK
<1>3. credit' \in [Nodes -> [Ids -> Int]]
  BY <1>1 DEF TypeInv
<1>4. Lists(n, pending[n], writes[n], scan[n], Known(n)')
  BY <1>2, ListsNow, ListsGrow
<1>5. Lists(n, pending[n], Keeping(writes[n], n, id), Keeping(scan[n], n, id), Known(n)')
  BY <1>4, KeepingListed DEF TypeInv, TypeOK
<1> QED BY <1>1, <1>2, <1>3, <1>5, AppendListed

LEMMA HandleCopyTyped ==
    ASSUME TypeInv, NEW s \in sends, NEW again \in BOOLEAN, HandleCopy(s, again)
    PROVE  TypeInv'
<1> DEFINE n == s.to
           held == Keeping(writes[n], n, s.id)
<1>1. /\ s \in [from : Nodes, to : Nodes, id : Ids, msg : Message, left : 1 .. Attempts]
      /\ Overwrite(n, s.id, s.msg)
      /\ writes' = [writes EXCEPT ![n] = Persist(held, s.id, s.msg, "handler")]
      /\ sends' \subseteq sends \cup {[s EXCEPT !.left = @ - 1]}
      /\ again => s.left > 1
      /\ again \/ sends' \subseteq sends
      /\ UNCHANGED <<redis, recovering, fresh, acks, lives, promised>>
  BY DEF HandleCopy, TypeInv, TypeOK
<1>2. n \in Nodes /\ s.id \in Ids /\ s.msg \in Message
  BY <1>1
<1> HIDE DEF n
<1>3. /\ messages' \in [Nodes -> [Ids -> Message \cup {Absent}]]
      /\ \A m \in Nodes : Known(m) \subseteq Known(m)'
      /\ s.id \in Known(n)'
      /\ pending' = [pending EXCEPT ![n] = AppendIfPending(pending[n], s.id, s.msg)]
      /\ scan' = [scan EXCEPT ![n] = Keeping(scan[n], n, s.id)]
      /\ credit' \in [Nodes -> [Ids -> Int]]
      /\ Lists(n, AppendIfPending(pending[n], s.id, s.msg), held,
               Keeping(scan[n], n, s.id), Known(n)')
  BY <1>1, <1>2, OverwriteTyped
<1> HIDE DEF held
<1>4. Lists(n, AppendIfPending(pending[n], s.id, s.msg), Persist(held, s.id, s.msg, "handler"),
            Keeping(scan[n], n, s.id), Known(n)')
  BY <1>2, <1>3, PersistListed
<1>5. again => [s EXCEPT !.left = @ - 1] \in
                   [from : Nodes, to : Nodes, id : Ids, msg : Message, left : 1 .. Attempts]
  BY <1>1
<1>6. sends' \subseteq [from : Nodes, to : Nodes, id : Ids, msg : Message, left : 1 .. Attempts]
  BY <1>1, <1>5 DEF TypeInv, TypeOK
<1>7. OtherTypes'
  BY <1>1, <1>3, <1>6 DEF TypeInv, TypeOK, OtherTypes
<1> QED BY <1>1, <1>2, <1>3, <1>4, <1>7, NodeStepTyped

LEMMA LoseCopyTyped ==
    ASSUME TypeInv, NEW s \in sends, LoseCopy(s)
    PROVE  TypeInv'
<1>1. /\ sends' \subseteq sends
      /\ UNCHANGED <<messages, pending, redis, writes, scan, recovering, fresh, acks, lives,
                     promised, credit>>
  BY DEF LoseCopy, history
<1>2. \A n \in Nodes : Known(n)' = Known(n)
  BY <1>1 DEF Known
<1>3. TypeOK'
  BY <1>1, <1>2 DEF TypeInv, TypeOK
<1>4. RefsKnown'
  BY <1>1, <1>2 DEF TypeInv, RefsKnown
<1> QED BY <1>1, <1>3, <1>4 DEF TypeInv

LEMMA TimeOutTyped ==
    ASSUME TypeInv, NEW n \in Nodes, NEW e \in Looks, e.id \in Known(n), TimeOut(n, e),
           (IF e.old = Absent THEN messages[n][e.id] ELSE e.old) \in Message,
           NEW sc, scan' = [scan EXCEPT ![n] = sc], Lists(n, pending[n], writes[n], sc, Known(n)),
           UNCHANGED <<redis, recovering, sends, fresh, acks, lives, promised, credit>>
    PROVE  TypeInv'
<1> DEFINE msg == TimedOut(IF e.old = Absent THEN messages[n][e.id] ELSE e.old)
           q == AppendIfPending(pending[n], e.id, msg)
           ws == Persist(writes[n], e.id, msg, "loop")
<1>1. /\ messages' = IF e.old = Absent THEN [messages EXCEPT ![n][e.id] = msg] ELSE messages
      /\ pending' = [pending EXCEPT ![n] = q]
      /\ writes' = [writes EXCEPT ![n] = ws]
  BY DEF TimeOut
<1>2. msg \in Message
  BY AbsentNoMessage
<1>3. e.id \in Ids
  BY DEF Looks
<1> HIDE DEF msg
<1>4. /\ messages' \in [Nodes -> [Ids -> Message \cup {Absent}]]
      /\ \A m \in Nodes : Known(m) \subseteq Known(m)'
  <2>1. CASE e.old = Absent
    BY <1>1, <1>2, <1>3, <2>1, StoreKnows DEF TypeInv, TypeOK
  <2>2. CASE e.old # Absent
    BY <1>1, <2>2 DEF TypeInv, TypeOK, Known
  <2> QED BY <2>1, <2>2
<1>5. e.id \in Known(n)' /\ Lists(n, pending[n], writes[n], sc, Known(n)')
  BY <1>4, ListsGrow
<1>6. Lists(n, q, writes[n], sc, Known(n)')
  BY <1>5, AppendListed
<1>7. Lists(n, q, ws, sc, Known(n)')
  BY <1>2, <1>3, <1>5, <1>6, PersistListed
<1>8. OtherTypes'
  BY DEF TypeInv, TypeOK, OtherTypes
<1> HIDE DEF q, ws
<1> QED BY <1>1, <1>4, <1>7, <1>8, NodeStepTyped

LEMMA BeginPassTyped ==
    ASSUME TypeInv, NEW n \in Nodes, NEW late \in SUBSET Ids, BeginPass(n, late)
    PROVE  TypeInv'
<1>1. PICK id \in late :
          /\ TimeOut(n, [id |-> id, old |-> Absent])
          /\ scan' = [scan EXCEPT ![n] = {[id |-> i, old |-> Absent] : i \in late \ {id}}]
  BY DEF BeginPass
<1> DEFINE e == [id |-> id, old |-> Absent]
           sc == {[id |-> i, old |-> Absent] : i \in late \ {id}}
<1>2. \A i \in late : i \in Known(n) /\ messages[n][i] \in Message
  BY DEF BeginPass, Known, Absent, TypeInv, TypeOK
<1>3. e \in Looks /\ e.id = id /\ e.old = Absent
  BY DEF Looks
<1>4. Lists(n, pending[n], writes[n], sc, Known(n))
  <2>1. \A f \in sc : f \in Looks /\ f.id \in late /\ f.old = Absent
    BY DEF Looks
  <2>2. \A f, g \in sc : f.id = g.id => f = g
    OBVIOUS
  <2> HIDE DEF sc
  <2> QED BY <1>2, <2>1, <2>2, ListsNow DEF Lists
<1> HIDE DEF e, sc
<1>5. TimeOut(n, e) /\ scan' = [scan EXCEPT ![n] = sc]
  BY <1>1 DEF e, sc
<1>6. (IF e.old = Absent THEN messages[n][e.id] ELSE e.old) \in Message /\ e.id \in Known(n)
  BY <1>2, <1>3
<1>7. UNCHANGED <<redis, recovering, sends, fresh, acks, lives, promised, credit>>
  BY DEF BeginPass, history
<1> QED BY <1>3, <1>4, <1>5, <1>6, <1>7, TimeOutTyped

LEMMA ContinuePassTyped ==
    ASSUME TypeInv, NEW n \in Nodes, NEW e \in scan[n], ContinuePass(n, e)
    PROVE  TypeInv'
<1> DEFINE msg == IF e.old = Absent THEN messages[n][e.id] ELSE e.old
           sc == scan[n] \ {e}
<1>1. /\ IF msg.state = "processing" THEN TimeOut(n, e)
         ELSE UNCHANGED <<messages, pending, writes>>
      /\ scan' = [scan EXCEPT ![n] = sc]
      /\ UNCHANGED <<redis, recovering, sends, fresh, acks, lives, promised, credit>>
  BY DEF ContinuePass, history
<1>2. e \in Looks /\ e.id \in Known(n)
  BY DEF TypeInv, RefsKnown
<1>3. msg \in Message
  BY <1>2 DEF Looks, Known, TypeInv, TypeOK
<1>4. Lists(n, pending[n], writes[n], sc, Known(n))
  BY ListsNow DEF Lists
<1> HIDE DEF sc
<1>5. CASE msg.state = "processing"
  BY <1>1, <1>2, <1>3, <1>4, <1>5, TimeOutTyped
<1>6. CASE msg.state # "processing"
  <2>1. UNCHANGED <<messages, pending, writes>>
    BY <1>1, <1>6
  <2>2. \A m \in Nodes : Known(m)' = Known(m)
    BY <2>1 DEF Known
  <2>3. /\ messages' \in [Nodes -> [Ids -> Message \cup {Absent}]]
        /\ pending' = [pending EXCEPT ![n] = pending[n]]
        /\ writes' = [writes EXCEPT ![n] = writes[n]]
    BY <2>1 DEF TypeInv, TypeOK
  <2>4. OtherTypes'
    BY <1>1 DEF TypeInv, TypeOK, OtherTypes
  <2> QED BY <1>1, <1>4, <2>2, <2>3, <2>4, NodeStepTyped
<1> QED BY <1>5, <1>6

LEMMA RestartTyped ==
    ASSUME TypeInv, NEW n \in Nodes, Restart(n)
    PROVE  TypeInv'
<1> DEFINE Blank == [id \in Ids |-> Absent]
           Once(s) == IF s.from = n THEN [s EXCEPT !.left = 1] ELSE s
<1>1. /\ lives[n] > 0 /\ lives' = [lives EXCEPT ![n] = @ - 1]
      /\ messages' = [messages EXCEPT ![n] = Blank]
      /\ pending' = [pending EXCEPT ![n] = <<>>]
      /\ writes' = [writes EXCEPT ![n] = {}]
      /\ scan' = [scan EXCEPT ![n] = {}]
      /\ recovering' = [recovering EXCEPT ![n] = Ids]
      /\ sends' = {Once(s) : s \in sends}
      /\ UNCHANGED <<fresh, acks, promised, credit>>
  BY DEF Restart, history
<1>2. redis' \in [Nodes -> [Ids -> Message \cup {Absent}]]
  <2>1. PICK f \in Landed(n) : redis' = [redis EXCEPT ![n] = f]
    BY DEF Restart
  <2>2. f \in [Ids -> Message \cup {Absent}]
    <3>1. {w.msg : w \in writes[n]} \subseteq Message
      BY DEF TypeInv, Writes
    <3>2. {redis[n][id] : id \in Ids} \subseteq Message \cup {Absent}
      BY DEF TypeInv, TypeOK
    <3>3. f \in [Ids -> {w.msg : w \in writes[n]} \cup {redis[n][id] : id \in Ids}]
      BY DEF Landed
    <3> QED BY <3>1, <3>2, <3>3
  <2> QED BY <2>1, <2>2 DEF TypeInv, TypeOK
<1>3. sends' \subseteq [from : Nodes, to : Nodes, id : Ids, msg : Message, left : 1 .. Attempts]
  <2>1. 1 \in 1 .. Attempts
    OBVIOUS
  <2>2. \A s \in [from : Nodes, to : Nodes, id : Ids, msg : Message, left : 1 .. Attempts] :
          [s EXCEPT !.left = 1] \in
              [from : Nodes, to : Nodes, id : Ids, msg : Message, left : 1 .. Attempts]
    BY <2>1
  <2>3. \A s \in sends :
          Once(s) \in [from : Nodes, to : Nodes, id : Ids, msg : Message, left : 1 .. Attempts]
    BY <2>2 DEF TypeInv, TypeOK
  <2> QED BY <1>1, <2>3
<1> HIDE DEF Once
<1>4. OtherTypes'
  <2>1. lives' \in [Nodes -> Nat] /\ recovering' \in [Nodes -> SUBSET Ids]
    BY <1>1 DEF TypeInv, TypeOK
  <2> QED BY <1>1, <1>2, <1>3, <2>1 DEF TypeInv, TypeOK, OtherTypes
<1>5. /\ messages' \in [Nodes -> [Ids -> Message \cup {Absent}]]
      /\ \A m \in Nodes \ {n} : messages'[m] = messages[m]
  BY <1>1 DEF TypeInv, TypeOK
<1>6. \A m \in Nodes \ {n} : Known(m) \subseteq Known(m)'
  BY <1>5 DEF Known
<1>7. Lists(n, <<>>, {}, {}, Known(n)')
  BY EmptySeq DEF Lists
<1> QED BY <1>1, <1>4, <1>5, <1>6, <1>7, NodeStepTyped

LEMMA LoadTyped ==
    ASSUME TypeInv, NEW n \in Nodes, NEW id \in Ids, Load(n, id)
    PROVE  TypeInv'
<1> DEFINE msg == redis[n][id]
<1>1. /\ recovering' = [recovering EXCEPT ![n] = @ \ {id}]
      /\ Overwrite(n, id, msg)
      /\ writes' = [writes EXCEPT ![n] = Keeping(writes[n], n, id)]
      /\ UNCHANGED <<redis, sends, fresh, acks, lives, promised>>
  BY DEF Load, TypeInv
<1>2. msg \in Message
  BY DEF Load, TypeInv, TypeOK
<1> HIDE DEF msg
<1>3. /\ messages' \in [Nodes -> [Ids -> Message \cup {Absent}]]
      /\ \A m \in Nodes : Known(m) \subseteq Known(m)'
      /\ pending' = [pending EXCEPT ![n] = AppendIfPending(pending[n], id, msg)]
      /\ scan' = [scan EXCEPT ![n] = Keeping(scan[n], n, id)]
      /\ credit' \in [Nodes -> [Ids -> Int]]
      /\ Lists(n, AppendIfPending(pending[n], id, msg), Keeping(writes[n], n, id),
               Keeping(scan[n], n, id), Known(n)')
  BY <1>1, <1>2, OverwriteTyped
<1>4. OtherTypes'
  BY <1>1, <1>3 DEF TypeInv, TypeOK, OtherTypes
<1> QED BY <1>1, <1>3, <1>4, NodeStepTyped

LEMMA RecoveryEndsTyped ==
    ASSUME TypeInv, NEW n \in Nodes, RecoveryEnds(n)
    PROVE  TypeInv'
<1>1. /\ recovering' = [recovering EXCEPT ![n] = {}]
      /\ promised' \subseteq promised
      /\ UNCHANGED <<messages, pending, redis, writes, scan, sends, fresh, acks, lives, credit>>
  BY DEF RecoveryEnds
<1>2. \A m \in Nodes : Known(m)' = Known(m)
  BY <1>1 DEF Known
<1>3. TypeOK'
  BY <1>1, <1>2 DEF TypeInv, TypeOK
<1>4. RefsKnown'
  BY <1>1, <1>2 DEF TypeInv, RefsKnown
<1> QED BY <1>1, <1>3, <1>4 DEF TypeInv

LEMMA StutterTyped ==
    ASSUME TypeInv, UNCHANGED vars
    PROVE  TypeInv'
BY DEF vars, history, TypeInv, TypeOK, RefsKnown, Known

LEMMA StepTyped ==
    ASSUME TypeInv, [Next]_vars
    PROVE  TypeInv'
<1>1. ASSUME NEW n \in Nodes, NEW id \in Ids, Enqueue(n, id) \/ Load(n, id)
      PROVE  TypeInv'
  BY <1>1, EnqueueTyped, LoadTyped
<1>2. ASSUME NEW n \in Consumers, Dequeue(n) \/ \E id \in Ids : Ack(n, id)
      PROVE  TypeInv'
  BY <1>2, DequeueTyped, AckTyped
<1>3. ASSUME NEW n \in Nodes, Restart(n) \/ RecoveryEnds(n)
      PROVE  TypeInv'
  BY <1>3, RestartTyped, RecoveryEndsTyped
<1>4. ASSUME NEW n \in Nodes, NEW w \in writes[n], Written(n, w) \/ WriteFails(n, w)
      PROVE  TypeInv'
  BY <1>4, WriteEndsTyped
<1>5. ASSUME NEW s \in sends, LoseCopy(s) \/ \E again \in BOOLEAN : HandleCopy(s, again)
      PROVE  TypeInv'
  BY <1>5, LoseCopyTyped, HandleCopyTyped
<1>6. ASSUME NEW n \in Nodes, NEW late \in SUBSET Ids, BeginPass(n, late)
      PROVE  TypeInv'
  BY <1>6, BeginPassTyped
<1>7. ASSUME NEW n \in Nodes, NEW e \in scan[n], ContinuePass(n, e)
      PROVE  TypeInv'
  BY <1>7, ContinuePassTyped
<1> QED BY <1>1, <1>2, <1>3, <1>4, <1>5, <1>6, <1>7, StutterTyped DEF Next

\* Every variable keeps its type, and what is queued is stored: a dequeue never
\* finds an id without its message, whatever comes between the two.
THEOREM QueueTypeCorrect == Spec => []TypeOK
<1>1. TypeInv => TypeOK
  BY DEF TypeInv
<1> QED BY <1>1, InitTyped, StepTyped, PTL DEF Spec

-----------------------------------------------------------------------------
(* What is pending is queued *)

\* A queue that a message is appended to, if it is pending.
LEMMA AppendContains ==
    ASSUME NEW q \in Seq(Ids), NEW id \in Ids, NEW msg, NEW i \in Ids,
           Contains(q, i) \/ (i = id /\ msg.state = "pending")
    PROVE  Contains(AppendIfPending(q, id, msg), i)
<1>1. /\ Len(Append(q, id)) = Len(q) + 1 /\ Len(q) \in Nat
      /\ Append(q, id)[Len(q) + 1] = id
      /\ \A k \in 1 .. Len(q) : Append(q, id)[k] = q[k]
  BY AppendProperties, LenProperties
<1> QED BY <1>1 DEF Contains, AppendIfPending

\* Storing a message and queueing it if it is pending forgets none.
LEMMA StoreForgetsNone ==
    ASSUME TypeInv, NoMessageForgotten, NEW n \in Nodes, NEW id \in Ids, NEW msg \in Message,
           messages' = [messages EXCEPT ![n][id] = msg],
           pending' = [pending EXCEPT ![n] = AppendIfPending(pending[n], id, msg)]
    PROVE  NoMessageForgotten'
<1> SUFFICES ASSUME NEW m \in Nodes, NEW i \in Ids, messages'[m][i].state = "pending"
             PROVE  Contains(pending'[m], i)
  BY DEF NoMessageForgotten
<1>1. /\ messages'[n][id] = msg
      /\ \A o \in Nodes, j \in Ids : o # n \/ j # id => messages'[o][j] = messages[o][j]
  BY StoreKnows DEF TypeInv, TypeOK
<1>2. /\ pending'[n] = AppendIfPending(pending[n], id, msg) /\ pending[n] \in Seq(Ids)
      /\ \A o \in Nodes \ {n} : pending'[o] = pending[o]
  BY DEF TypeInv
<1>3. CASE m # n
  BY <1>1, <1>2, <1>3 DEF NoMessageForgotten
<1>4. CASE m = n
  BY <1>1, <1>2, <1>4, AppendContains DEF NoMessageForgotten
<1> QED BY <1>3, <1>4

\* A pass queues the message it looks at with its new state, or an old object of it.
LEMMA TimeOutForgetsNone ==
    ASSUME TypeInv, NoMessageForgotten, NEW n \in Nodes, NEW e \in Looks, TimeOut(n, e),
           (IF e.old = Absent THEN messages[n][e.id] ELSE e.old) \in Message
    PROVE  NoMessageForgotten'
<1> DEFINE msg == TimedOut(IF e.old = Absent THEN messages[n][e.id] ELSE e.old)
<1>1. /\ messages' = IF e.old = Absent THEN [messages EXCEPT ![n][e.id] = msg] ELSE messages
      /\ pending' = [pending EXCEPT ![n] = AppendIfPending(pending[n], e.id, msg)]
  BY DEF TimeOut
<1>2. msg \in Message /\ e.id \in Ids
  BY AbsentNoMessage DEF Looks
<1> HIDE DEF msg
<1>3. CASE e.old = Absent
  BY <1>1, <1>2, <1>3, StoreForgetsNone
<1>4. CASE e.old # Absent
  <2>1. \A m \in Nodes, i \in Ids : Contains(pending[m], i) => Contains(pending'[m], i)
    BY <1>1, <1>2, AppendContains DEF TypeInv
  <2> QED BY <1>1, <1>4, <2>1 DEF NoMessageForgotten
<1> QED BY <1>3, <1>4

LEMMA DequeueForgetsNone ==
    ASSUME TypeInv, NoMessageForgotten, NEW n \in Nodes, Dequeue(n)
    PROVE  NoMessageForgotten'
<1> DEFINE id == Head(pending[n])
           msg == Taken(messages[n][id])
<1>1. /\ messages' = [messages EXCEPT ![n][id] = msg]
      /\ pending' = [pending EXCEPT ![n] = Tail(pending[n])]
      /\ pending[n] # <<>> /\ pending[n] \in Seq(Ids)
  BY DEF Dequeue, TypeInv
<1>2. pending[n] \in Seq(Known(n))
  BY DEF TypeInv, TypeOK
<1>3. id \in Known(n)
  BY <1>1, <1>2, HeadTailProperties
<1>4. id \in Ids /\ messages[n][id] \in Message
  BY <1>3 DEF Known, TypeInv, TypeOK
<1>5. msg \in Message /\ msg.state # "pending"
  BY <1>4, AbsentNoMessage DEF Taken, States, Message
<1> HIDE DEF msg
<1>6. /\ messages'[n][id] = msg
      /\ \A o \in Nodes, j \in Ids : o # n \/ j # id => messages'[o][j] = messages[o][j]
  BY <1>1, <1>4, <1>5, StoreKnows DEF TypeInv, TypeOK
<1>7. /\ pending'[n] = Tail(pending[n])
      /\ \A o \in Nodes \ {n} : pending'[o] = pending[o]
  BY <1>1 DEF TypeInv
<1> SUFFICES ASSUME NEW m \in Nodes, NEW i \in Ids, messages'[m][i].state = "pending"
             PROVE  Contains(pending'[m], i)
  BY DEF NoMessageForgotten
<1>8. CASE m # n
  BY <1>6, <1>7, <1>8 DEF NoMessageForgotten
<1>9. CASE m = n
  <2>1. i # id
    BY <1>5, <1>6, <1>9
  <2>2. Contains(pending[n], i)
    BY <1>6, <1>9, <2>1 DEF NoMessageForgotten
  <2>3. \E k \in 1 .. Len(Tail(pending[n])) : Tail(pending[n])[k] = i
    BY <1>1, <2>1, <2>2, TailKeepsOthers DEF Contains
  <2> QED BY <1>7, <1>9, <2>3 DEF Contains
<1> QED BY <1>8, <1>9

LEMMA StepForgetsNone ==
    ASSUME TypeInv, NoMessageForgotten, [Next]_vars
    PROVE  NoMessageForgotten'
<1>1. ASSUME NEW n \in Nodes, NEW id \in Ids, Enqueue(n, id)
      PROVE  NoMessageForgotten'
  <2>1. AppendIfPending(pending[n], id, NewMessage) = Append(pending[n], id)
    BY DEF AppendIfPending, NewMessage
  <2>2. /\ messages' = [messages EXCEPT ![n][id] = NewMessage]
        /\ pending' = [pending EXCEPT ![n] = AppendIfPending(pending[n], id, NewMessage)]
    BY <1>1, <2>1 DEF Enqueue
  <2> QED BY <2>2, AbsentNoMessage, StoreForgetsNone
<1>2. ASSUME NEW n \in Nodes, NEW id \in Ids, NEW msg \in Message, Overwrite(n, id, msg)
      PROVE  NoMessageForgotten'
  <2>1. /\ messages' = [messages EXCEPT ![n][id] = msg]
        /\ pending' = [pending EXCEPT ![n] = AppendIfPending(pending[n], id, msg)]
    BY <1>2 DEF Overwrite
  <2> QED BY <2>1, StoreForgetsNone
<1>3. ASSUME NEW n \in Nodes, NEW id \in Ids, Load(n, id)
      PROVE  NoMessageForgotten'
  <2>1. redis[n][id] \in Message /\ Overwrite(n, id, redis[n][id])
    BY <1>3 DEF Load, TypeInv, TypeOK
  <2> QED BY <1>2, <2>1
<1>4. ASSUME NEW s \in sends, NEW again \in BOOLEAN, HandleCopy(s, again)
      PROVE  NoMessageForgotten'
  <2>1. s.to \in Nodes /\ s.id \in Ids /\ s.msg \in Message /\ Overwrite(s.to, s.id, s.msg)
    BY <1>4 DEF HandleCopy, TypeInv, TypeOK
  <2> QED BY <1>2, <2>1
<1>5. ASSUME NEW n \in Nodes, NEW id \in Ids, Ack(n, id)
      PROVE  NoMessageForgotten'
  <2> DEFINE msg == [messages[n][id] EXCEPT !.state = "completed"]
  <2>1. messages[n][id] \in Message
    BY <1>5 DEF Ack, Known, TypeInv, TypeOK
  <2>2. msg \in Message /\ msg.state # "pending"
    BY <2>1, AbsentNoMessage DEF States, Message
  <2>3. messages' = [messages EXCEPT ![n][id] = msg] /\ pending' = pending
    BY <1>5 DEF Ack
  <2> HIDE DEF msg
  <2>4. pending' = [pending EXCEPT ![n] = AppendIfPending(pending[n], id, msg)]
    BY <2>2, <2>3 DEF AppendIfPending, TypeInv
  <2> QED BY <2>2, <2>3, <2>4, StoreForgetsNone
<1>6. ASSUME NEW n \in Nodes, Restart(n)
      PROVE  NoMessageForgotten'
  BY <1>6 DEF Restart, Absent, NoMessageForgotten, TypeInv, TypeOK
<1>7. ASSUME NEW n \in Nodes, NEW late \in SUBSET Ids, BeginPass(n, late)
      PROVE  NoMessageForgotten'
  <2>1. PICK id \in late : TimeOut(n, [id |-> id, old |-> Absent])
    BY <1>7 DEF BeginPass
  <2> DEFINE e == [id |-> id, old |-> Absent]
  <2>2. e \in Looks /\ e.old = Absent /\ e.id = id /\ TimeOut(n, e)
    BY <2>1 DEF Looks
  <2>3. messages[n][id] \in Message
    BY <1>7 DEF BeginPass, Absent, TypeInv, TypeOK
  <2> HIDE DEF e
  <2> QED BY <2>2, <2>3, TimeOutForgetsNone
<1>8. ASSUME NEW n \in Nodes, NEW e \in scan[n], ContinuePass(n, e)
      PROVE  NoMessageForgotten'
  <2> DEFINE msg == IF e.old = Absent THEN messages[n][e.id] ELSE e.old
  <2>1. e \in Looks /\ e.id \in Known(n)
    BY DEF TypeInv, RefsKnown
  <2>2. msg \in Message
    BY <2>1 DEF Looks, Known, TypeInv, TypeOK
  <2>3. TimeOut(n, e) \/ UNCHANGED <<messages, pending>>
    BY <1>8 DEF ContinuePass
  <2> QED BY <2>1, <2>2, <2>3, TimeOutForgetsNone DEF NoMessageForgotten
<1>9. ASSUME UNCHANGED <<messages, pending>>
      PROVE  NoMessageForgotten'
  BY <1>9 DEF NoMessageForgotten
<1> QED BY <1>1, <1>3, <1>4, <1>5, <1>6, <1>7, <1>8, <1>9, DequeueForgetsNone
        DEF Next, vars, RecoveryEnds, Written, WriteFails, Resume, LoseCopy

\* At every node a message that is pending is on the queue, whatever timeouts,
\* copies, late writes and recoveries come between.
THEOREM NothingForgotten == Spec => []NoMessageForgotten
<1>1. Init => NoMessageForgotten
  BY DEF Init, Absent, NoMessageForgotten
<1> QED BY <1>1, InitTyped, StepTyped, StepForgetsNone, PTL DEF Spec

-----------------------------------------------------------------------------
(* What was answered stays known *)

\* Only a restart makes a node forget.
LEMMA KnownGrows ==
    ASSUME TypeInv, [Next]_vars, NEW n \in Nodes, ~Restart(n)
    PROVE  Known(n) \subseteq Known(n)'
<1>1. ASSUME NEW m \in Nodes, NEW id \in Ids, NEW msg \in Message,
             messages' = [messages EXCEPT ![m][id] = msg]
      PROVE  Known(n) \subseteq Known(n)'
  BY <1>1, StoreKnows DEF TypeInv, TypeOK
<1>2. ASSUME UNCHANGED messages
      PROVE  Known(n) \subseteq Known(n)'
  BY <1>2 DEF Known
<1>3. ASSUME NEW m \in Nodes, NEW id \in Ids, Enqueue(m, id)
      PROVE  Known(n) \subseteq Known(n)'
  BY <1>1, <1>3, AbsentNoMessage DEF Enqueue
<1>4. ASSUME NEW m \in Nodes, NEW id \in Ids, Load(m, id)
      PROVE  Known(n) \subseteq Known(n)'
  <2>1. redis[m][id] \in Message /\ messages' = [messages EXCEPT ![m][id] = redis[m][id]]
    BY <1>4 DEF Load, Overwrite, TypeInv, TypeOK
  <2> QED BY <1>1, <2>1
<1>5. ASSUME NEW s \in sends, NEW again \in BOOLEAN, HandleCopy(s, again)
      PROVE  Known(n) \subseteq Known(n)'
  <2>1. s.to \in Nodes /\ s.id \in Ids /\ s.msg \in Message
    BY DEF TypeInv, TypeOK
  <2>2. messages' = [messages EXCEPT ![s.to][s.id] = s.msg]
    BY <1>5 DEF HandleCopy, Overwrite
  <2> QED BY <1>1, <2>1, <2>2
<1>6. ASSUME NEW m \in Nodes, Dequeue(m)
      PROVE  Known(n) \subseteq Known(n)'
  <2> DEFINE id == Head(pending[m])
             msg == Taken(messages[m][id])
  <2>1. id \in Known(m)
    BY <1>6, HeadTailProperties DEF Dequeue, TypeInv, TypeOK
  <2>2. id \in Ids /\ messages[m][id] \in Message
    BY <2>1 DEF Known, TypeInv, TypeOK
  <2>3. msg \in Message
    BY <2>2, AbsentNoMessage DEF Taken, States
  <2>4. messages' = [messages EXCEPT ![m][id] = msg]
    BY <1>6 DEF Dequeue
  <2> HIDE DEF id, msg
  <2> QED BY <1>1, <2>2, <2>3, <2>4
<1>7. ASSUME NEW m \in Nodes, NEW id \in Ids, Ack(m, id)
      PROVE  Known(n) \subseteq Known(n)'
  <2> DEFINE msg == [messages[m][id] EXCEPT !.state = "completed"]
  <2>1. messages[m][id] \in Message
    BY <1>7 DEF Ack, Known, TypeInv, TypeOK
  <2>2. msg \in Message
    BY <2>1, AbsentNoMessage DEF States
  <2>3. messages' = [messages EXCEPT ![m][id] = msg]
    BY <1>7 DEF Ack
  <2> HIDE DEF msg
  <2> QED BY <1>1, <2>2, <2>3
<1>8. ASSUME NEW m \in Nodes, NEW e \in Looks, TimeOut(m, e),
             (IF e.old = Absent THEN messages[m][e.id] ELSE e.old) \in Message
      PROVE  Known(n) \subseteq Known(n)'
  <2> DEFINE msg == TimedOut(IF e.old = Absent THEN messages[m][e.id] ELSE e.old)
  <2>1. msg \in Message /\ e.id \in Ids
    BY <1>8, AbsentNoMessage DEF Looks
  <2>2. messages' \in {messages, [messages EXCEPT ![m][e.id] = msg]}
    BY <1>8 DEF TimeOut
  <2> HIDE DEF msg
  <2> QED BY <1>1, <1>2, <2>1, <2>2
<1>9. ASSUME NEW m \in Nodes, NEW late \in SUBSET Ids, BeginPass(m, late)
      PROVE  Known(n) \subseteq Known(n)'
  <2>1. PICK id \in late : TimeOut(m, [id |-> id, old |-> Absent])
    BY <1>9 DEF BeginPass
  <2> DEFINE e == [id |-> id, old |-> Absent]
  <2>2. e \in Looks /\ e.old = Absent /\ e.id = id /\ TimeOut(m, e)
    BY <2>1 DEF Looks
  <2>3. messages[m][id] \in Message
    BY <1>9 DEF BeginPass, Absent, TypeInv, TypeOK
  <2> HIDE DEF e
  <2> QED BY <1>8, <2>2, <2>3
<1>10. ASSUME NEW m \in Nodes, NEW e \in scan[m], ContinuePass(m, e)
       PROVE  Known(n) \subseteq Known(n)'
  <2>1. e \in Looks /\ e.id \in Known(m)
    BY DEF TypeInv, RefsKnown
  <2>2. (IF e.old = Absent THEN messages[m][e.id] ELSE e.old) \in Message
    BY <2>1 DEF Looks, Known, TypeInv, TypeOK
  <2>3. TimeOut(m, e) \/ UNCHANGED messages
    BY <1>10 DEF ContinuePass
  <2> QED BY <1>2, <1>8, <2>1, <2>2, <2>3
<1>11. ASSUME NEW m \in Nodes, Restart(m)
       PROVE  Known(n) \subseteq Known(n)'
  <2>1. m # n
    BY <1>11
  <2>2. messages'[n] = messages[n]
    BY <1>11, <2>1 DEF Restart, TypeInv, TypeOK
  <2> QED BY <2>2 DEF Known
<1> QED BY <1>2, <1>3, <1>4, <1>5, <1>6, <1>7, <1>9, <1>10, <1>11
        DEF Next, vars, RecoveryEnds, Written, WriteFails, Resume, LoseCopy

LEMMA StepSurvives ==
    ASSUME TypeInv, AnsweredSurvives, [Next]_vars
    PROVE  AnsweredSurvives'
<1> SUFFICES ASSUME NEW p \in promised'
             PROVE  p[2] \in Known(p[1])' \cup recovering'[p[1]]
  BY DEF AnsweredSurvives
<1>1. p \in Nodes \X Ids
  BY StepTyped DEF TypeInv
<1> DEFINE n == p[1]
           id == p[2]
<1>2. n \in Nodes /\ id \in Ids
  BY <1>1
<1>3. CASE Restart(n)
  BY <1>2, <1>3 DEF Restart, TypeInv, TypeOK
<1>4. CASE ~Restart(n)
  <2>1. Known(n) \subseteq Known(n)'
    BY <1>2, <1>4, KnownGrows
  <2>2. ASSUME p \in promised, recovering[n] \subseteq recovering'[n]
        PROVE  id \in Known(n)' \cup recovering'[n]
    BY <2>1, <2>2 DEF AnsweredSurvives
  <2>3. ASSUME NEW m \in Nodes, NEW w \in writes[m], Written(m, w)
        PROVE  id \in Known(n)' \cup recovering'[n]
    <3>1. recovering' = recovering /\ (p \in promised \/ p = <<m, w.id>>)
      BY <2>3 DEF Written, Resume
    <3>2. CASE p = <<m, w.id>>
      BY <2>1, <3>2 DEF TypeInv, RefsKnown
    <3> QED BY <2>2, <3>1, <3>2
  <2>4. ASSUME NEW m \in Nodes, NEW i \in Ids, Load(m, i)
        PROVE  id \in Known(n)' \cup recovering'[n]
    <3>1. promised' = promised /\ recovering' = [recovering EXCEPT ![m] = @ \ {i}]
      BY <2>4 DEF Load
    <3>2. i \in Known(m)'
      <4>1. redis[m][i] \in Message /\ messages' = [messages EXCEPT ![m][i] = redis[m][i]]
        BY <2>4 DEF Load, Overwrite, TypeInv, TypeOK
      <4> QED BY <4>1, StoreKnows DEF TypeInv, TypeOK
    <3>3. CASE m = n /\ i = id
      BY <3>2, <3>3
    <3>4. CASE ~(m = n /\ i = id)
      <4>1. id \in recovering[n] => id \in recovering'[n]
        BY <1>2, <3>1, <3>4 DEF TypeInv, TypeOK
      <4> QED BY <2>1, <3>1, <4>1 DEF AnsweredSurvives
    <3> QED BY <3>3, <3>4
  <2>5. ASSUME NEW m \in Nodes, RecoveryEnds(m)
        PROVE  id \in Known(n)' \cup recovering'[n]
    <3>1. /\ promised' = promised \ ({m} \X recovering[m])
          /\ recovering' = [recovering EXCEPT ![m] = {}]
      BY <2>5 DEF RecoveryEnds
    <3>2. CASE m = n
      <4>1. id \notin recovering[n]
        BY <1>1, <3>1, <3>2
      <4> QED BY <2>1, <3>1, <4>1 DEF AnsweredSurvives
    <3>3. CASE m # n
      BY <1>2, <2>2, <3>1, <3>3 DEF TypeInv, TypeOK
    <3> QED BY <3>2, <3>3
  <2>6. ASSUME NEW m \in Nodes, Restart(m)
        PROVE  id \in Known(n)' \cup recovering'[n]
    <3>1. m # n
      BY <1>4, <2>6
    <3> QED BY <1>2, <2>2, <2>6, <3>1 DEF Restart, history, TypeInv, TypeOK
  <2>7. ASSUME UNCHANGED <<promised, recovering>>
        PROVE  id \in Known(n)' \cup recovering'[n]
    BY <2>2, <2>7
  <2>8. \/ \E m \in Nodes : \E w \in writes[m] : Written(m, w)
        \/ \E m \in Nodes, i \in Ids : Load(m, i)
        \/ \E m \in Nodes : RecoveryEnds(m) \/ Restart(m)
        \/ UNCHANGED <<promised, recovering>>
    BY DEF Next, vars, history, Enqueue, Dequeue, Ack, WriteFails, Resume, HandleCopy, LoseCopy,
           BeginPass, ContinuePass
  <2> QED BY <2>3, <2>4, <2>5, <2>6, <2>7, <2>8
<1> QED BY <1>3, <1>4

\* What was written to Redis and answered is known to its node, in memory or as
\* one of the keys recovery has still to load, unless a recovery left it out.
THEOREM AnswersSurvive == Spec => []AnsweredSurvives
<1>1. Init => AnsweredSurvives
  BY DEF Init, AnsweredSurvives
<1> QED BY <1>1, InitTyped, StepTyped, StepSurvives, PTL DEF Spec

-----------------------------------------------------------------------------
(* Fresh ids *)

\* An id comes up nowhere before a request gets it.
LEMMA UnseenStays ==
    ASSUME TypeInv, NEW i \in Ids, Unseen(i), [Next]_vars, \A m \in Nodes : ~Enqueue(m, i)
    PROVE  Unseen(i)'
<1>1. \A m \in Nodes : i \notin Known(m)
  BY DEF Unseen, Known
<1>2. \A m \in Nodes : \A w \in writes[m] : w \in Writes /\ w.id # i
  BY <1>1 DEF TypeInv, RefsKnown
<1>3. ASSUME NEW m \in Nodes, NEW j \in Ids \ {i}, NEW msg,
             messages' = [messages EXCEPT ![m][j] = msg]
      PROVE  \A n \in Nodes : messages'[n][i] = Absent
  BY <1>3 DEF Unseen, TypeInv, TypeOK
<1>4. ASSUME UNCHANGED <<redis, sends>>, \A n \in Nodes : messages'[n][i] = Absent
      PROVE  Unseen(i)'
  BY <1>4 DEF Unseen
<1>5. ASSUME NEW m \in Nodes, NEW j \in Ids, Enqueue(m, j)
      PROVE  Unseen(i)'
  <2>1. j \in Ids \ {i} /\ UNCHANGED <<redis, sends>>
    BY <1>5 DEF Enqueue
  <2> QED BY <1>3, <1>4, <1>5, <2>1 DEF Enqueue
<1>6. ASSUME NEW m \in Nodes, NEW j \in Ids, Load(m, j)
      PROVE  Unseen(i)'
  <2>1. j \in Ids \ {i} /\ UNCHANGED <<redis, sends>>
    BY <1>6 DEF Load, Unseen
  <2> QED BY <1>3, <1>4, <1>6, <2>1 DEF Load, Overwrite
<1>7. ASSUME NEW m \in Nodes, Dequeue(m)
      PROVE  Unseen(i)'
  <2>1. Head(pending[m]) \in Known(m)
    BY <1>7, HeadTailProperties DEF Dequeue, TypeInv, TypeOK
  <2>2. Head(pending[m]) \in Ids \ {i}
    BY <1>1, <2>1 DEF Known
  <2>3. /\ messages' = [messages EXCEPT ![m][Head(pending[m])] =
                            Taken(messages[m][Head(pending[m])])]
        /\ UNCHANGED <<redis, sends>>
    BY <1>7 DEF Dequeue
  <2> QED BY <1>3, <1>4, <2>2, <2>3
<1>8. ASSUME NEW m \in Nodes, NEW j \in Ids, Ack(m, j)
      PROVE  Unseen(i)'
  <2>1. j \in Ids \ {i} /\ UNCHANGED <<redis, sends>>
    BY <1>1, <1>8 DEF Ack
  <2> QED BY <1>3, <1>4, <1>8, <2>1 DEF Ack
<1>9. ASSUME NEW m \in Nodes, NEW w \in writes[m], Written(m, w) \/ WriteFails(m, w)
      PROVE  Unseen(i)'
  <2>1. w \in Writes /\ w.id \in Ids \ {i} /\ messages' = messages
    BY <1>2, <1>9 DEF Writes, Written, WriteFails, Resume
  <2>2. \A s \in sends' : s \in sends \/ s.id = w.id
    BY <1>9 DEF Written, WriteFails, Resume
  <2>3. redis' \in {redis, [redis EXCEPT ![m][w.id] = w.msg]}
    BY <1>9 DEF Written, WriteFails
  <2>4. \A n \in Nodes : redis'[n][i] = redis[n][i]
    <3>1. \A j \in Ids \ {i} : \A n \in Nodes : [redis EXCEPT ![m][j] = w.msg][n][i] = redis[n][i]
      BY DEF TypeInv, TypeOK
    <3> QED BY <2>1, <2>3, <3>1
  <2> QED BY <2>1, <2>2, <2>4 DEF Unseen
<1>10. ASSUME NEW s \in sends, NEW again \in BOOLEAN, HandleCopy(s, again)
       PROVE  Unseen(i)'
  <2>1. s.to \in Nodes /\ s.id \in Ids \ {i} /\ redis' = redis
    BY <1>10 DEF HandleCopy, Unseen, TypeInv, TypeOK
  <2>2. \A t \in sends' : t.id # i
    BY <1>10, <2>1 DEF HandleCopy, Unseen, TypeInv, TypeOK
  <2>3. messages' = [messages EXCEPT ![s.to][s.id] = s.msg]
    BY <1>10 DEF HandleCopy, Overwrite
  <2>4. \A n \in Nodes : messages'[n][i] = Absent
    BY <1>3, <2>1, <2>3
  <2> QED BY <2>1, <2>2, <2>4 DEF Unseen
<1>11. ASSUME NEW m \in Nodes, NEW e, e.id \in Ids \ {i}, TimeOut(m, e), UNCHANGED <<redis, sends>>
       PROVE  Unseen(i)'
  BY <1>3, <1>4, <1>11 DEF TimeOut, Unseen
<1>12. ASSUME NEW m \in Nodes, NEW late \in SUBSET Ids, BeginPass(m, late)
       PROVE  Unseen(i)'
  <2>1. PICK id \in late : TimeOut(m, [id |-> id, old |-> Absent])
    BY <1>12 DEF BeginPass
  <2>2. id \in Ids \ {i} /\ UNCHANGED <<redis, sends>>
    BY <1>12 DEF BeginPass, Unseen, Absent
  <2> QED BY <1>11, <2>1, <2>2
<1>13. ASSUME NEW m \in Nodes, NEW e \in scan[m], ContinuePass(m, e)
       PROVE  Unseen(i)'
  <2>1. e.id \in Ids \ {i} /\ UNCHANGED <<redis, sends>>
    BY <1>1, <1>13 DEF ContinuePass, TypeInv, RefsKnown, Known
  <2>2. TimeOut(m, e) \/ UNCHANGED messages
    BY <1>13 DEF ContinuePass
  <2> QED BY <1>11, <2>1, <2>2 DEF Unseen
<1>14. ASSUME NEW m \in Nodes, Restart(m)
       PROVE  Unseen(i)'
  <2>1. PICK f \in Landed(m) : redis' = [redis EXCEPT ![m] = f]
    BY <1>14 DEF Restart
  <2>2. {x \in writes[m] : x.id = i} = {}
    BY <1>2
  <2>3. f[i] = redis[m][i]
    BY <2>2 DEF Landed
  <2>4. \A n \in Nodes : redis'[n][i] = Absent
    BY <2>1, <2>3 DEF Unseen, TypeInv, TypeOK
  <2>5. \A n \in Nodes : messages'[n][i] = Absent
    BY <1>14 DEF Restart, Unseen, TypeInv, TypeOK
  <2>6. \A s \in sends' : s.id # i
    <3>1. \A s \in sends : (IF s.from = m THEN [s EXCEPT !.left = 1] ELSE s).id = s.id
      BY DEF TypeInv, TypeOK
    <3> QED BY <1>14, <3>1 DEF Restart, Unseen
  <2> QED BY <2>4, <2>5, <2>6 DEF Unseen
<1>15. ASSUME UNCHANGED <<messages, redis>>, sends' \subseteq sends
       PROVE  Unseen(i)'
  BY <1>15 DEF Unseen
<1> QED BY <1>5, <1>6, <1>7, <1>8, <1>9, <1>10, <1>12, <1>13, <1>14, <1>15
        DEF Next, vars, RecoveryEnds, LoseCopy

LEMMA StepFresh ==
    ASSUME TypeInv, FreshUnseen, [Next]_vars
    PROVE  FreshUnseen'
<1>1. \A n \in Nodes : fresh'[n] \subseteq fresh[n]
  <2>1. ASSUME NEW m \in Nodes, NEW id \in Ids, Enqueue(m, id)
        PROVE  \A n \in Nodes : fresh'[n] \subseteq fresh[n]
    BY <2>1 DEF Enqueue, TypeInv, TypeOK
  <2>2. (\E m \in Nodes, id \in Ids : Enqueue(m, id)) \/ fresh' = fresh
    BY DEF Next, vars, Load, Dequeue, Ack, Restart, RecoveryEnds, Written, WriteFails, Resume,
           LoseCopy, HandleCopy, BeginPass, ContinuePass
  <2> QED BY <2>1, <2>2
<1>2. ASSUME NEW n \in Nodes, NEW i \in fresh'[n]
      PROVE  Unseen(i)'
  <2>1. i \in fresh[n] /\ i \in Ids /\ Unseen(i)
    BY <1>1 DEF FreshUnseen, TypeInv, TypeOK
  <2>2. ASSUME NEW m \in Nodes, Enqueue(m, i)
        PROVE  FALSE
    <3>1. i \in fresh[m] /\ i \notin fresh'[m]
      BY <2>2 DEF Enqueue, TypeInv, TypeOK
    <3> QED BY <2>1, <3>1 DEF FreshUnseen
  <2> QED BY <2>1, <2>2, UnseenStays
<1> QED BY <1>1, <1>2 DEF FreshUnseen

-----------------------------------------------------------------------------
(* Deliveries are bounded *)

\* The deliveries a node may still make of what it holds of an id.
Owed(n, id) ==
    Cardinality(PlacesIn(pending[n], id)) + TriesLeft(messages[n][id]) + Strays(n, id)

LEMMA OwedNat ==
    ASSUME TypeInv, NEW n \in Nodes, NEW id \in Ids
    PROVE  /\ Cardinality(PlacesIn(pending[n], id)) \in Nat
           /\ TriesLeft(messages[n][id]) \in 0 .. MaxRetries - 1
           /\ Strays(n, id) \in {0, 1}
           /\ credit[n][id] \in Int
<1>1. Cardinality(PlacesIn(pending[n], id)) \in Nat
  BY PlacesFinite DEF TypeInv
<1>2. messages[n][id] \in Message \cup {Absent}
  BY DEF TypeInv, TypeOK
<1>3. TriesLeft(messages[n][id]) \in 0 .. MaxRetries - 1
  BY <1>2 DEF TriesLeft, Message, Absent
<1> QED BY <1>1, <1>3 DEF Strays, TypeInv

\* Queueing a message gives its id one more place if it is pending.
LEMMA PlacesQueued ==
    ASSUME NEW q \in Seq(Ids), NEW id \in Ids, NEW msg, NEW i \in Ids
    PROVE  Cardinality(PlacesIn(AppendIfPending(q, id, msg), i)) =
               Cardinality(PlacesIn(q, i)) + IF i = id /\ msg.state = "pending" THEN 1 ELSE 0
<1>1. Cardinality(PlacesIn(q, i)) \in Nat
  BY PlacesFinite
<1> QED BY <1>1, PlacesAppended DEF AppendIfPending

\* No object turns into a stray one if none is replaced.
LEMMA NoNewStray ==
    ASSUME NEW n \in Nodes, NEW id \in Ids,
           \A e \in scan'[n] : e.id = id /\ e.old # Absent => e \in scan[n]
    PROVE  Strays(n, id)' <= Strays(n, id)
BY DEF Strays

\* An object that is replaced takes its tries with it, where a pass still holds it.
LEMMA ReplacedStrays ==
    ASSUME TypeInv, NEW n \in Nodes, NEW id \in Ids,
           scan' = [scan EXCEPT ![n] = Keeping(scan[n], n, id)],
           NEW m \in Nodes, NEW i \in Ids
    PROVE  Strays(m, i)' <= Strays(m, i)
                + IF m = n /\ i = id /\ TriesLeft(messages[n][id]) > 0 THEN 1 ELSE 0
<1>1. /\ scan'[n] = Keeping(scan[n], n, id)
      /\ \A o \in Nodes \ {n} : scan'[o] = scan[o]
  BY DEF TypeInv
<1>2. \A e \in scan'[n] : \E f \in scan[n] : e.id = f.id /\ e = Kept(f, n, id)
  <2>1. scan[n] \subseteq Looks /\ messages \in [Nodes -> [Ids -> Message \cup {Absent}]]
    BY DEF TypeInv, TypeOK
  <2> QED BY <1>1, <2>1, KeepingKeeps
<1>3. CASE m # n
  BY <1>1, <1>3, NoNewStray, OwedNat
<1>4. CASE m = n /\ i # id
  <2>1. \A e \in scan'[n] : e.id = i => e \in scan[n]
    BY <1>2, <1>4 DEF Kept
  <2> QED BY <1>4, <2>1, NoNewStray, OwedNat
<1>5. CASE m = n /\ i = id /\ TriesLeft(messages[n][id]) > 0
  BY <1>5, OwedNat DEF Strays
<1>6. CASE m = n /\ i = id /\ ~(TriesLeft(messages[n][id]) > 0)
  <2>1. ASSUME NEW e \in scan'[n], e.id = id, e.old # Absent, TriesLeft(e.old) > 0
        PROVE  e \in scan[n]
    <3>1. PICK f \in scan[n] : e.id = f.id /\ e = Kept(f, n, id)
      BY <1>2
    <3>2. CASE f.id = id /\ f.old = Absent
      <4>1. f \in Looks
        BY DEF TypeInv
      <4>2. e.old = messages[n][id]
        BY <3>1, <3>2, <4>1 DEF Kept, Looks
      <4> QED BY <1>6, <2>1, <4>2
    <3>3. CASE ~(f.id = id /\ f.old = Absent)
      BY <3>1, <3>3 DEF Kept
    <3> QED BY <3>2, <3>3
  <2> QED BY <1>6, <2>1, OwedNat DEF Strays
<1> QED BY <1>3, <1>4, <1>5, <1>6

\* A message that comes from elsewhere brings as many deliveries as it may use.
LEMMA OverwriteCovered ==
    ASSUME TypeInv, CreditCovers, NEW n \in Nodes, NEW id \in Ids, NEW msg \in Message,
           Overwrite(n, id, msg)
    PROVE  CreditCovers'
<1> SUFFICES ASSUME NEW m \in Nodes, NEW i \in Ids
             PROVE  Owed(m, i)' <= credit'[m][i]
  BY DEF CreditCovers, Owed
<1> DEFINE here == m = n /\ i = id
<1>1. /\ messages' = [messages EXCEPT ![n][id] = msg]
      /\ pending' = [pending EXCEPT ![n] = AppendIfPending(pending[n], id, msg)]
      /\ scan' = [scan EXCEPT ![n] = Keeping(scan[n], n, id)]
      /\ credit' = [credit EXCEPT ![n][id] = @ + MaxRetries]
  BY DEF Overwrite
<1>2. Cardinality(PlacesIn(pending'[m], i)) =
          Cardinality(PlacesIn(pending[m], i)) + IF here /\ msg.state = "pending" THEN 1 ELSE 0
  <2>1. pending[n] \in Seq(Ids) /\ Cardinality(PlacesIn(pending[m], i)) \in Nat
    BY OwedNat DEF TypeInv
  <2>2. CASE m = n
    <3>1. pending'[m] = AppendIfPending(pending[n], id, msg)
      BY <1>1, <2>2 DEF TypeInv
    <3> QED BY <2>1, <2>2, <3>1, PlacesQueued
  <2>3. CASE m # n
    <3>1. pending'[m] = pending[m]
      BY <1>1, <2>3 DEF TypeInv
    <3> QED BY <2>1, <2>3, <3>1
  <2> QED BY <2>2, <2>3
<1>4. messages'[m][i] = IF here THEN msg ELSE messages[m][i]
  BY <1>1 DEF TypeInv, TypeOK
<1>5. TriesLeft(msg) \in 0 .. MaxRetries - 1
  BY DEF TriesLeft, Message
<1>6. Strays(m, i)' \in {0, 1} /\
      Strays(m, i)' <= Strays(m, i)
          + IF here /\ TriesLeft(messages[n][id]) > 0 THEN 1 ELSE 0
  BY <1>1, ReplacedStrays DEF Strays
<1>7. credit'[m][i] = IF here THEN credit[m][i] + MaxRetries ELSE credit[m][i]
  BY <1>1 DEF TypeInv
<1>8. Owed(m, i) <= credit[m][i]
  BY DEF CreditCovers, Owed
<1> USE OwedNat
<1>9. CASE here
  BY <1>2, <1>4, <1>5, <1>6, <1>7, <1>8, <1>9 DEF Owed
<1>10. CASE ~here
  BY <1>2, <1>4, <1>6, <1>7, <1>8, <1>10 DEF Owed
<1> QED BY <1>9, <1>10

\* A step that adds no place, no try, no stray object and takes no credit.
LEMMA NothingAdded ==
    ASSUME TypeInv, CreditCovers, NEW m \in Nodes, NEW i \in Ids,
           Cardinality(PlacesIn(pending'[m], i)) = Cardinality(PlacesIn(pending[m], i)),
           TriesLeft(messages'[m][i]) = TriesLeft(messages[m][i]),
           \A e \in scan'[m] : e.id = i /\ e.old # Absent => e \in scan[m],
           credit'[m][i] = credit[m][i]
    PROVE  Owed(m, i)' <= credit'[m][i]
<1>1. Strays(m, i)' \in {0, 1} /\ Strays(m, i)' <= Strays(m, i)
  BY NoNewStray DEF Strays
<1>2. Owed(m, i) <= credit[m][i]
  BY DEF CreditCovers, Owed
<1> QED BY <1>1, <1>2, OwedNat DEF Owed

LEMMA EnqueueCovered ==
    ASSUME TypeInv, CreditCovers, FreshUnseen, NEW n \in Nodes, NEW id \in Ids, Enqueue(n, id)
    PROVE  CreditCovers'
<1> SUFFICES ASSUME NEW m \in Nodes, NEW i \in Ids
             PROVE  Owed(m, i)' <= credit'[m][i]
  BY DEF CreditCovers, Owed
<1>1. /\ messages' = [messages EXCEPT ![n][id] = NewMessage]
      /\ pending' = [pending EXCEPT ![n] = Append(pending[n], id)]
      /\ credit' = [credit EXCEPT ![n][id] = MaxRetries]
      /\ scan' = scan
  BY DEF Enqueue
<1>2. id \notin Known(n)
  BY DEF Enqueue, FreshUnseen, Unseen, Known
<1>3. pending[n] \in Seq(Known(n)) /\ pending[n] \in Seq(Ids)
  BY DEF TypeInv, TypeOK
<1>4. CASE m = n /\ i = id
  <2>1. Cardinality(PlacesIn(pending[n], id)) = 0
    BY <1>2, <1>3, PlacesFinite, ElementOfSeq
  <2>2. Cardinality(PlacesIn(pending'[n], id)) = 1
    BY <1>1, <1>3, <2>1, PlacesAppended DEF TypeInv
  <2>3. messages'[n][id] = NewMessage /\ credit'[n][id] = MaxRetries
    BY <1>1 DEF TypeInv, TypeOK
  <2>4. TriesLeft(NewMessage) = MaxRetries - 1
    BY DEF TriesLeft, NewMessage, Absent
  <2>5. Strays(n, id)' = 0
    BY <1>1, <1>2 DEF Strays, TypeInv, RefsKnown
  <2> QED BY <1>4, <2>2, <2>3, <2>4, <2>5 DEF Owed
<1>5. CASE ~(m = n /\ i = id)
  <2>1. Cardinality(PlacesIn(pending'[m], i)) = Cardinality(PlacesIn(pending[m], i))
    <3>1. CASE m = n
      <4>1. i # id /\ pending'[m] = Append(pending[m], id)
        BY <1>1, <1>5, <3>1 DEF TypeInv
      <4> QED BY <1>3, <3>1, <4>1, PlacesAppended, OwedNat
    <3>2. CASE m # n
      BY <1>1, <3>2 DEF TypeInv
    <3> QED BY <3>1, <3>2
  <2>2. messages'[m][i] = messages[m][i] /\ credit'[m][i] = credit[m][i]
    BY <1>1, <1>5 DEF TypeInv, TypeOK
  <2> QED BY <1>1, <2>1, <2>2, NothingAdded
<1> QED BY <1>4, <1>5

LEMMA DequeueCovered ==
    ASSUME TypeInv, CreditCovers, NEW n \in Nodes, Dequeue(n)
    PROVE  CreditCovers'
<1> SUFFICES ASSUME NEW m \in Nodes, NEW i \in Ids
             PROVE  Owed(m, i)' <= credit'[m][i]
  BY DEF CreditCovers, Owed
<1> DEFINE id == Head(pending[n])
           msg == Taken(messages[n][id])
<1>1. /\ messages' = [messages EXCEPT ![n][id] = msg]
      /\ pending' = [pending EXCEPT ![n] = Tail(pending[n])]
      /\ pending[n] # <<>> /\ pending[n] \in Seq(Ids)
      /\ scan' = [scan EXCEPT ![n] = scan[n] \ {[id |-> id, old |-> Absent]}]
      /\ credit' = [credit EXCEPT ![n][id] = @ - 1]
  BY DEF Dequeue, TypeInv
<1>2. pending[n] \in Seq(Known(n))
  BY DEF TypeInv, TypeOK
<1>3. id \in Known(n)
  BY <1>1, <1>2, HeadTailProperties
<1>4. id \in Ids /\ messages[n][id] \in Message
  BY <1>3 DEF Known, TypeInv, TypeOK
<1>5. TriesLeft(msg) = TriesLeft(messages[n][id])
  BY <1>4, AbsentNoMessage DEF Taken, States, TriesLeft, Message
<1>6. Cardinality(PlacesIn(Tail(pending[n]), i)) =
          Cardinality(PlacesIn(pending[n], i)) - IF i = id THEN 1 ELSE 0
  BY <1>1, PlacesOfTail
<1> HIDE DEF id, msg
<1>7. messages'[m][i] = IF m = n /\ i = id THEN msg ELSE messages[m][i]
  BY <1>1, <1>4 DEF TypeInv, TypeOK
<1>8. credit'[m][i] = IF m = n /\ i = id THEN credit[m][i] - 1 ELSE credit[m][i]
  BY <1>1, <1>4 DEF TypeInv
<1>9. pending'[m] = IF m = n THEN Tail(pending[n]) ELSE pending[m]
  BY <1>1 DEF TypeInv
<1>10. scan'[m] \subseteq scan[m]
  BY <1>1 DEF TypeInv
<1>11. CASE m = n /\ i = id
  <2>1. Strays(m, i)' \in {0, 1} /\ Strays(m, i)' <= Strays(m, i)
    BY <1>10, NoNewStray DEF Strays
  <2>2. Owed(m, i) <= credit[m][i]
    BY DEF CreditCovers, Owed
  <2> QED BY <1>5, <1>6, <1>7, <1>8, <1>9, <1>11, <2>1, <2>2, OwedNat DEF Owed
<1>12. CASE ~(m = n /\ i = id)
  <2>1. Cardinality(PlacesIn(pending'[m], i)) = Cardinality(PlacesIn(pending[m], i))
    BY <1>6, <1>9, <1>12, OwedNat
  <2> QED BY <1>7, <1>8, <1>10, <1>12, <2>1, NothingAdded
<1> QED BY <1>11, <1>12

\* Other handlers leave the retries, the queue and the references as they are.
LEMMA AckCovered ==
    ASSUME TypeInv, CreditCovers, NEW n \in Nodes, NEW id \in Ids, Ack(n, id)
    PROVE  CreditCovers'
<1> SUFFICES ASSUME NEW m \in Nodes, NEW i \in Ids
             PROVE  Owed(m, i)' <= credit'[m][i]
  BY DEF CreditCovers, Owed
<1>1. messages[n][id] \in Message
  BY DEF Ack, Known, TypeInv, TypeOK
<1>2. /\ messages' = [messages EXCEPT ![n][id] = [messages[n][id] EXCEPT !.state = "completed"]]
      /\ UNCHANGED <<pending, scan, credit>>
  BY DEF Ack, history
<1>3. TriesLeft([messages[n][id] EXCEPT !.state = "completed"]) = TriesLeft(messages[n][id])
  BY <1>1, AbsentNoMessage DEF States, TriesLeft, Message
<1>4. TriesLeft(messages'[m][i]) = TriesLeft(messages[m][i])
  BY <1>2, <1>3 DEF TypeInv, TypeOK
<1> QED BY <1>2, <1>4, NothingAdded

\* A timeout uses up a try for the place it makes.
LEMMA TimedOutTries ==
    ASSUME NEW msg \in Message
    PROVE  /\ TriesLeft(TimedOut(msg)) + (IF TimedOut(msg).state = "pending" THEN 1 ELSE 0)
                  <= TriesLeft(msg)
           /\ TimedOut(msg).state = "pending" => TriesLeft(msg) > 0
           /\ TriesLeft(TimedOut(msg)) \in Nat /\ TriesLeft(msg) \in Nat
<1>1. /\ msg.retries \in Nat /\ msg # Absent
      /\ TimedOut(msg) \in Message /\ TimedOut(msg) # Absent
  BY AbsentNoMessage DEF Message
<1>2. /\ TimedOut(msg).retries = msg.retries + 1
      /\ TimedOut(msg).state = "pending" <=> msg.retries + 1 < MaxRetries
  BY <1>1 DEF TimedOut
<1> QED BY <1>1, <1>2 DEF TriesLeft

LEMMA TimeOutCovered ==
    ASSUME TypeInv, CreditCovers, NEW n \in Nodes, NEW e \in Looks, TimeOut(n, e),
           (IF e.old = Absent THEN messages[n][e.id] ELSE e.old) \in Message,
           \A f \in scan'[n] : f.old # Absent => f \in scan[n] \ {e},
           e.old # Absent => e \in scan[n],
           \A m \in Nodes \ {n} : scan'[m] = scan[m],
           UNCHANGED credit
    PROVE  CreditCovers'
<1> SUFFICES ASSUME NEW m \in Nodes, NEW i \in Ids
             PROVE  Owed(m, i)' <= credit'[m][i]
  BY DEF CreditCovers, Owed
<1> DEFINE id == e.id
           was == IF e.old = Absent THEN messages[n][e.id] ELSE e.old
           msg == TimedOut(was)
           here == m = n /\ i = id
<1>1. /\ messages' = IF e.old = Absent THEN [messages EXCEPT ![n][id] = msg] ELSE messages
      /\ pending' = [pending EXCEPT ![n] = AppendIfPending(pending[n], id, msg)]
  BY DEF TimeOut
<1>2. was \in Message /\ id \in Ids
  BY DEF Looks
<1>3. /\ TriesLeft(msg) + (IF msg.state = "pending" THEN 1 ELSE 0) <= TriesLeft(was)
      /\ msg.state = "pending" => TriesLeft(was) > 0
      /\ TriesLeft(msg) \in Nat /\ TriesLeft(was) \in Nat
  BY <1>2, TimedOutTries
<1>4. e.old = Absent => was = messages[n][id]
  OBVIOUS
<1>5. e.old # Absent => was = e.old
  OBVIOUS
<1> HIDE DEF id, was, msg
<1>6. Cardinality(PlacesIn(pending'[m], i)) =
          Cardinality(PlacesIn(pending[m], i)) + IF here /\ msg.state = "pending" THEN 1 ELSE 0
  <2>1. pending[n] \in Seq(Ids) /\ Cardinality(PlacesIn(pending[m], i)) \in Nat
    BY OwedNat DEF TypeInv
  <2>2. CASE m = n
    <3>1. pending'[m] = AppendIfPending(pending[n], id, msg)
      BY <1>1, <2>2 DEF TypeInv
    <3> QED BY <1>2, <2>1, <2>2, <3>1, PlacesQueued
  <2>3. CASE m # n
    <3>1. pending'[m] = pending[m]
      BY <1>1, <2>3 DEF TypeInv
    <3> QED BY <2>1, <2>3, <3>1
  <2> QED BY <2>2, <2>3
<1>7. messages'[m][i] = IF here /\ e.old = Absent THEN msg ELSE messages[m][i]
  BY <1>1, <1>2 DEF TypeInv, TypeOK
<1>8. Strays(m, i)' \in {0, 1} /\ Strays(m, i)' <= Strays(m, i)
  BY NoNewStray DEF Strays
<1>9. Owed(m, i) <= credit[m][i] /\ credit'[m][i] = credit[m][i]
  BY DEF CreditCovers, Owed
<1>10. CASE ~here
  BY <1>6, <1>7, <1>8, <1>9, <1>10, OwedNat DEF Owed
<1>11. CASE here /\ e.old = Absent
  BY <1>3, <1>4, <1>6, <1>7, <1>8, <1>9, <1>11, OwedNat DEF Owed
<1>12. CASE here /\ e.old # Absent
  <2>1. Strays(n, id)' = 0
    <3>1. \A f \in scan'[n] : ~(f.id = id /\ f.old # Absent)
      BY <1>12 DEF id, TypeInv, RefsKnown
    <3> QED BY <3>1 DEF Strays
  <2>2. msg.state = "pending" => Strays(n, id) = 1
    BY <1>3, <1>5, <1>12 DEF Strays, id
  <2>3. Owed(m, i)' = Cardinality(PlacesIn(pending[m], i))
                      + (IF msg.state = "pending" THEN 1 ELSE 0) + TriesLeft(messages[m][i])
    BY <1>6, <1>7, <1>12, <2>1, OwedNat DEF Owed
  <2> QED BY <1>9, <1>12, <2>2, <2>3, OwedNat DEF Owed
<1> QED BY <1>10, <1>11, <1>12

LEMMA RestartCovered ==
    ASSUME TypeInv, CreditCovers, NEW n \in Nodes, Restart(n)
    PROVE  CreditCovers'
<1> SUFFICES ASSUME NEW m \in Nodes, NEW i \in Ids
             PROVE  Owed(m, i)' <= credit'[m][i]
  BY DEF CreditCovers, Owed
<1>1. /\ messages' = [messages EXCEPT ![n] = [id \in Ids |-> Absent]]
      /\ pending' = [pending EXCEPT ![n] = <<>>]
      /\ scan' = [scan EXCEPT ![n] = {}]
      /\ credit' = credit
  BY DEF Restart, history
<1>2. CASE m = n
  <2>1. pending'[m] = <<>> /\ messages'[m][i] = Absent /\ scan'[m] = {}
    BY <1>1, <1>2 DEF TypeInv, TypeOK
  <2>2. Owed(m, i)' = 0
    BY <2>1, PlacesInEmpty DEF Owed, TriesLeft, Strays
  <2>3. credit[m][i] >= 0
    BY OwedNat DEF CreditCovers
  <2> QED BY <1>1, <2>2, <2>3, OwedNat
<1>3. CASE m # n
  <2>1. pending'[m] = pending[m] /\ messages'[m] = messages[m] /\ scan'[m] = scan[m]
    BY <1>1, <1>3 DEF TypeInv, TypeOK
  <2> QED BY <1>1, <2>1, NothingAdded
<1> QED BY <1>2, <1>3

LEMMA StepCovered ==
    ASSUME TypeInv, FreshUnseen, CreditCovers, [Next]_vars
    PROVE  CreditCovers'
<1>1. ASSUME NEW n \in Nodes, NEW id \in Ids, Load(n, id)
      PROVE  CreditCovers'
  <2>1. redis[n][id] \in Message /\ Overwrite(n, id, redis[n][id])
    BY <1>1 DEF Load, TypeInv, TypeOK
  <2> QED BY <2>1, OverwriteCovered
<1>2. ASSUME NEW s \in sends, NEW again \in BOOLEAN, HandleCopy(s, again)
      PROVE  CreditCovers'
  <2>1. s.to \in Nodes /\ s.id \in Ids /\ s.msg \in Message /\ Overwrite(s.to, s.id, s.msg)
    BY <1>2 DEF HandleCopy, TypeInv, TypeOK
  <2> QED BY <2>1, OverwriteCovered
<1>3. ASSUME NEW n \in Nodes, NEW late \in SUBSET Ids, BeginPass(n, late)
      PROVE  CreditCovers'
  <2>1. PICK id \in late :
            /\ TimeOut(n, [id |-> id, old |-> Absent])
            /\ scan' = [scan EXCEPT ![n] = {[id |-> i, old |-> Absent] : i \in late \ {id}}]
    BY <1>3 DEF BeginPass
  <2> DEFINE e == [id |-> id, old |-> Absent]
  <2>2. e \in Looks /\ e.old = Absent /\ e.id = id /\ TimeOut(n, e)
    BY <2>1 DEF Looks
  <2>3. messages[n][id] \in Message
    BY <1>3 DEF BeginPass, Absent, TypeInv, TypeOK
  <2>4. /\ \A f \in scan'[n] : f.old = Absent
        /\ \A m \in Nodes \ {n} : scan'[m] = scan[m]
    BY <2>1 DEF TypeInv
  <2>5. UNCHANGED credit
    BY <1>3 DEF BeginPass, history
  <2> HIDE DEF e
  <2> QED BY <2>2, <2>3, <2>4, <2>5, TimeOutCovered
<1>4. ASSUME UNCHANGED <<messages, pending, credit>>, \A m \in Nodes : scan'[m] \subseteq scan[m]
      PROVE  CreditCovers'
  <2> SUFFICES ASSUME NEW m \in Nodes, NEW i \in Ids
               PROVE  Owed(m, i)' <= credit'[m][i]
    BY DEF CreditCovers, Owed
  <2> QED BY <1>4, NothingAdded
<1>5. ASSUME NEW n \in Nodes, NEW e \in scan[n], ContinuePass(n, e)
      PROVE  CreditCovers'
  <2>1. e \in Looks /\ e.id \in Known(n)
    BY DEF TypeInv, RefsKnown
  <2>2. (IF e.old = Absent THEN messages[n][e.id] ELSE e.old) \in Message
    BY <2>1 DEF Looks, Known, TypeInv, TypeOK
  <2>3. /\ scan'[n] = scan[n] \ {e}
        /\ \A m \in Nodes \ {n} : scan'[m] = scan[m]
        /\ UNCHANGED credit
        /\ TimeOut(n, e) \/ UNCHANGED <<messages, pending>>
    BY <1>5 DEF ContinuePass, history, TypeInv
  <2>4. CASE TimeOut(n, e)
    BY <2>1, <2>2, <2>3, <2>4, TimeOutCovered
  <2>5. CASE UNCHANGED <<messages, pending>>
    BY <1>4, <2>3, <2>5
  <2> QED BY <2>3, <2>4, <2>5
<1>6. UNCHANGED <<messages, pending, credit, scan>> => CreditCovers'
  BY <1>4
<1> QED BY <1>1, <1>2, <1>3, <1>5, <1>6,
           EnqueueCovered, DequeueCovered, AckCovered, RestartCovered
        DEF Next, vars, history, RecoveryEnds, Written, WriteFails, Resume, LoseCopy

\* A node delivers a message at most max_retries times for every object it made
\* of it, with any number of copies, retries, restarts and late acknowledgements:
\* what its objects may still be queued for is never more than what is left.
THEOREM DeliveriesStayBounded == Spec => []DeliveriesBounded
<1>1. Init => FreshUnseen /\ CreditCovers
  <2> SUFFICES ASSUME Init PROVE FreshUnseen /\ CreditCovers
    OBVIOUS
  <2>1. PICK b \in Budgets : fresh = b.fresh
    BY DEF Init
  <2>2. FreshUnseen
    BY <2>1 DEF Init, FreshUnseen, Unseen
  <2>3. CreditCovers
    BY PlacesInEmpty DEF Init, CreditCovers, TriesLeft, Strays
  <2> QED BY <2>2, <2>3
<1>2. TypeInv /\ CreditCovers => DeliveriesBounded
  BY OwedNat DEF CreditCovers, DeliveriesBounded
<1> QED BY <1>1, <1>2, InitTyped, StepTyped, StepFresh, StepCovered, PTL DEF Spec

=============================================================================
