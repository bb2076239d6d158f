-------------------------- MODULE LockManagerProofs --------------------------
(***************************************************************************)
(* Theorems about LockManager, for every set of clients and resources and  *)
(* every bound: every variable keeps its type, only shared locks have      *)
(* several holders, nobody waits for a free lock, every edge of the        *)
(* wait-for graph is a real wait, and a fencing token names one tenure.    *)
(* Below them, LockReplication: without sweeps tokens fence on any number  *)
(* of replicas.                                                            *)
(***************************************************************************)
EXTENDS LockManager, CountingFacts

USE LeaseAssumption, LeasesAssumption

-----------------------------------------------------------------------------
(* Lemmas about the lock table *)

\* The batch at the head of a queue: a set of its places, the first among them,
\* and nothing but the first if that one is exclusive.
LEMMA BatchOfQueue ==
    ASSUME NEW lock \in Lock, lock.waiting # <<>>
    PROVE  /\ Batch(lock) \subseteq 1 .. Len(lock.waiting)
           /\ 1 \in Batch(lock)
           /\ \A k \in Batch(lock) : k = 1 \/ lock.waiting[1].type = "shared"
           /\ Cardinality(Batch(lock)) \in Nat
<1>1. lock.waiting \in Seq(Request) /\ Len(lock.waiting) \in Nat
  BY DEF Lock
<1>2. DOMAIN lock.waiting = 1 .. Len(lock.waiting) /\ 1 \in 1 .. Len(lock.waiting)
  BY <1>1, EmptySeq
<1>3. Batch(lock) \subseteq 1 .. Len(lock.waiting) /\ 1 \in Batch(lock)
  BY <1>2 DEF Batch
<1>4. ASSUME NEW k \in Batch(lock), k # 1 PROVE lock.waiting[1].type = "shared"
  <2>1. 1 \in 1 .. k
    BY <1>1, <1>3
  <2> QED BY <1>4, <2>1 DEF Batch
<1>5. Cardinality(Batch(lock)) \in Nat
  <2>1. IsFiniteSet(1 .. Len(lock.waiting))
    BY <1>1, FS_Interval
  <2> QED BY <1>3, <2>1, FS_Subset, FS_CardinalityType
<1> QED BY <1>3, <1>4, <1>5

\* The commands keep a lock a lock.
LEMMA NewLockTyped == NewLock \in Lock
BY DEF NewLock, Lock, LockTypes, Request

LEMMA GrantedTyped ==
    ASSUME NEW lock \in Lock, NEW c \in Clients, NEW type \in LockTypes, NEW lease \in Nat
    PROVE  /\ Granted(lock, c, type, lease) \in Lock
           /\ Joined(lock, c, lease) \in Lock
           /\ Queued(lock, c, type) \in Lock
<1>1. Granted(lock, c, type, lease) \in Lock
  <2>1. lock.token + 1 \in Nat /\ {c} \in SUBSET Clients /\ lease \in Int
    BY DEF Lock
  <2> QED BY <2>1 DEF Granted, Lock
<1>2. Joined(lock, c, lease) \in Lock
  <2> DEFINE longer == IF lease > lock.lease THEN lease ELSE lock.lease
  <2>1. longer \in Int /\ lock.holders \cup {c} \in SUBSET Clients
    BY DEF Lock
  <2>2. Joined(lock, c, lease) = [lock EXCEPT !.holders = lock.holders \cup {c}, !.lease = longer]
    BY DEF Joined, Lock
  <2> HIDE DEF longer
  <2> QED BY <2>1, <2>2 DEF Lock
<1>3. Queued(lock, c, type) \in Lock
  <2>1. [client |-> c, type |-> type] \in Request
    BY DEF Request
  <2>2. Append(lock.waiting, [client |-> c, type |-> type]) \in Seq(Request)
    BY <2>1 DEF Lock
  <2> QED BY <2>2 DEF Queued, Lock
<1> QED BY <1>1, <1>2, <1>3

LEMMA ReleasedTyped ==
    ASSUME NEW lock \in Lock, NEW gone \in SUBSET Clients
    PROVE  Released(lock, gone) \in Lock /\ Promoted(lock, gone) \subseteq Clients
<1>1. CASE HandsOn(lock, gone)
  <2> DEFINE w == lock.waiting
             n == Cardinality(Batch(lock))
  <2>1. w \in Seq(Request) /\ w # <<>> /\ lock.token \in Nat
    BY <1>1 DEF HandsOn, Lock
  <2>2. /\ Batch(lock) \subseteq 1 .. Len(w) /\ 1 \in Batch(lock) /\ n \in Nat
    BY <2>1, BatchOfQueue
  <2>3. \A k \in 1 .. Len(w) : w[k] \in Request
    BY <2>1
  <2>4. \A k \in Batch(lock) : w[k].client \in Clients /\ w[k].type \in LockTypes
    BY <2>2, <2>3 DEF Request
  <2>5. Promoted(lock, gone) \subseteq Clients
    BY <1>1, <2>4 DEF Promoted
  <2>6. SubSeq(w, n + 1, Len(w)) \in Seq(Request)
    <3>1. Len(w) \in Nat /\ n + 1 \in Nat \ {0}
      BY <2>1, <2>2
    <3>2. CASE n + 1 > Len(w)
      BY <2>1, <3>1, <3>2
    <3>3. CASE n + 1 <= Len(w)
      BY <2>1, <3>1, <3>3, SubSeqProperties
    <3> QED BY <3>1, <3>2, <3>3
  <2>7. Released(lock, gone) = [type |-> w[1].type, holders |-> Promoted(lock, gone),
                                waiting |-> SubSeq(w, n + 1, Len(w)),
                                token |-> lock.token + 1, lease |-> LeaseTimeout]
    BY <1>1 DEF Released
  <2>8. w[1].type \in LockTypes /\ lock.token + 1 \in Nat /\ LeaseTimeout \in Int
    BY <2>1, <2>2, <2>4
  <2> HIDE DEF w, n
  <2> QED BY <2>5, <2>6, <2>7, <2>8 DEF Lock
<1>2. CASE ~HandsOn(lock, gone)
  BY <1>2 DEF Released, Promoted, Lock
<1> QED BY <1>1, <1>2

-----------------------------------------------------------------------------
(* A lock that is as it should be *)

LockOK(lock) ==
    /\ lock.token = 0 => lock.holders = {} /\ lock.waiting = <<>>
    /\ \A c, d \in lock.holders : c # d => lock.type = "shared"
    /\ lock.holders = {} => lock.waiting = <<>>

LEMMA NewLockOK == LockOK(NewLock)
BY DEF LockOK, NewLock

LEMMA GrantedOK ==
    ASSUME NEW lock \in Lock, LockOK(lock),
           NEW c \in Clients, NEW type \in LockTypes, NEW lease \in Nat
    PROVE  /\ Grantable(lock) => LockOK(Granted(lock, c, type, lease))
           /\ Joinable(lock, type) => LockOK(Joined(lock, c, lease))
           /\ ~Grantable(lock) => LockOK(Queued(lock, c, type))
<1>1. ASSUME Grantable(lock) PROVE LockOK(Granted(lock, c, type, lease))
  <2>1. /\ Granted(lock, c, type, lease).holders = {c}
        /\ Granted(lock, c, type, lease).token # 0
    BY DEF Granted, Lock
  <2> QED BY <2>1 DEF LockOK
<1>2. ASSUME Joinable(lock, type) PROVE LockOK(Joined(lock, c, lease))
  <2>1. /\ Joined(lock, c, lease).holders = lock.holders \cup {c}
        /\ Joined(lock, c, lease).token = lock.token
        /\ Joined(lock, c, lease).type = "shared"
    BY <1>2 DEF Joined, Joinable, Lock
  <2>2. lock.token # 0
    BY <1>2 DEF LockOK, Joinable
  <2> QED BY <2>1, <2>2 DEF LockOK
<1>3. ASSUME ~Grantable(lock) PROVE LockOK(Queued(lock, c, type))
  <2>1. /\ Queued(lock, c, type).holders = lock.holders
        /\ Queued(lock, c, type).token = lock.token
        /\ Queued(lock, c, type).type = lock.type
    BY DEF Queued, Lock
  <2>2. lock.token # 0 /\ lock.holders # {}
    BY <1>3 DEF LockOK, Grantable
  <2> QED BY <2>1, <2>2 DEF LockOK
<1> QED BY <1>1, <1>2, <1>3

\* Whoever goes, a lock is handed on if somebody waits, to one client unless the
\* batch is shared.
LEMMA ReleasedOK ==
    ASSUME NEW lock \in Lock, LockOK(lock), NEW gone \in SUBSET Clients
    PROVE  LockOK(Released(lock, gone))
<1>1. CASE HandsOn(lock, gone)
  <2>1. lock.waiting # <<>> /\ lock.token \in Nat
    BY <1>1 DEF HandsOn, Lock
  <2>2. /\ 1 \in Batch(lock)
        /\ \A k \in Batch(lock) : k = 1 \/ lock.waiting[1].type = "shared"
    BY <2>1, BatchOfQueue
  <2>3. /\ Released(lock, gone).type = lock.waiting[1].type
        /\ Released(lock, gone).holders = {lock.waiting[k].client : k \in Batch(lock)}
        /\ Released(lock, gone).token = lock.token + 1
    BY <1>1 DEF Released, Promoted
  <2>4. lock.waiting[1].client \in Released(lock, gone).holders /\ Released(lock, gone).token # 0
    BY <2>1, <2>2, <2>3
  <2>5. ASSUME NEW c \in Released(lock, gone).holders, NEW d \in Released(lock, gone).holders,
               c # d
        PROVE  Released(lock, gone).type = "shared"
    <3>1. PICK k \in Batch(lock), l \in Batch(lock) :
            c = lock.waiting[k].client /\ d = lock.waiting[l].client
      BY <2>3
    <3>2. k # 1 \/ l # 1
      BY <2>5, <3>1
    <3> QED BY <2>2, <2>3, <3>1, <3>2
  <2> QED BY <2>4, <2>5 DEF LockOK
<1>2. CASE ~HandsOn(lock, gone)
  <2>1. /\ Released(lock, gone).type = lock.type
        /\ Released(lock, gone).holders = lock.holders \ gone
        /\ Released(lock, gone).waiting = lock.waiting
        /\ Released(lock, gone).token = lock.token
    BY <1>2 DEF Released, Lock
  <2>2. lock.holders \subseteq gone => lock.waiting = <<>>
    BY <1>2 DEF HandsOn
  <2> QED BY <2>1, <2>2 DEF LockOK
<1> QED BY <1>1, <1>2

-----------------------------------------------------------------------------
(* The inductive invariant *)

LockInv == TypeOK /\ WaitEdgesSound /\ \A r \in Resources : LockOK(locks[r])

LEMMA LockInvImplies == LockInv => MutualExclusion /\ NoStrandedWaiter
BY DEF LockInv, LockOK, MutualExclusion, NoStrandedWaiter

LEMMA InitLocks == Init => LockInv
<1> SUFFICES ASSUME Init PROVE LockInv
  OBVIOUS
<1>1. TypeOK
  BY NewLockTyped, NewLockOK DEF Init, TypeOK, LockOK
<1>2. WaitEdgesSound
  BY DEF Init, WaitEdgesSound
<1>3. \A r \in Resources : LockOK(locks[r])
  BY NewLockOK DEF Init
<1> QED BY <1>1, <1>2, <1>3 DEF LockInv

\* A real wait stays one while the lock keeps its holders and its queue only
\* grows.
LEMMA EdgesStay ==
    ASSUME LockInv, waitFor' \subseteq waitFor,
           \A r \in Resources : \A e \in waitFor' :
             e[1] \in Waiters(locks[r]) /\ e[2] \in locks[r].holders =>
               e[1] \in Waiters(locks'[r]) /\ e[2] \in locks'[r].holders
    PROVE  WaitEdgesSound'
BY DEF LockInv, WaitEdgesSound, Waiters

\* What a release leaves of a wait for somebody who does not go.
LEMMA WaitOutlastsRelease ==
    ASSUME NEW lock \in Lock, NEW gone, NEW w, NEW h,
           w \in Waiters(lock), h \in lock.holders, h \notin gone
    PROVE  w \in Waiters(Released(lock, gone)) /\ h \in Released(lock, gone).holders
<1>1. ~HandsOn(lock, gone)
  BY DEF HandsOn
<1>2. /\ Released(lock, gone).holders = lock.holders \ gone
      /\ Released(lock, gone).waiting = lock.waiting
  BY <1>1 DEF Released, Lock
<1> QED BY <1>2 DEF Waiters

LEMMA NextLocks == LockInv /\ [Next]_vars => LockInv'
<1> SUFFICES ASSUME LockInv, [Next]_vars PROVE LockInv'
  OBVIOUS
<1>0. /\ locks \in [Resources -> Lock] /\ waitFor \subseteq Clients \X Clients
      /\ calls \subseteq [client : Clients, res : Resources]
      /\ commands \in Nat /\ told \subseteq Answers
      /\ \A r \in Resources : locks[r] \in Lock /\ LockOK(locks[r])
  BY DEF LockInv, TypeOK
<1>a. ASSUME locks' \in [Resources -> Lock], \A r \in Resources : LockOK(locks'[r]),
             waitFor' \subseteq Clients \X Clients, WaitEdgesSound',
             calls' \subseteq [client : Clients, res : Resources],
             commands' \in Nat, told' \subseteq Answers
      PROVE  LockInv'
  BY <1>a DEF LockInv, TypeOK, LockOK
<1>1. ASSUME NEW c \in Clients, NEW r \in Resources, NEW type \in LockTypes,
             NEW lease \in Leases, Grant(c, r, type, lease)
      PROVE  LockInv'
  <2>1. /\ Grantable(locks[r])
        /\ locks' = [locks EXCEPT ![r] = Granted(locks[r], c, type, lease)]
        /\ waitFor' = Without(waitFor, {c})
        /\ calls' = calls \cup {[client |-> c, res |-> r]}
        /\ commands' = commands + 1 /\ told' = told
    BY <1>1 DEF Grant, Command
  <2>2. /\ Granted(locks[r], c, type, lease) \in Lock
        /\ LockOK(Granted(locks[r], c, type, lease))
    BY <1>0, <2>1, GrantedTyped, GrantedOK
  <2>3. WaitEdgesSound'
    BY <1>0, <2>1, EdgesStay DEF Without, Grantable
  <2> QED BY <1>0, <1>a, <2>1, <2>2, <2>3 DEF Without
<1>2. ASSUME NEW c \in Clients, NEW r \in Resources, NEW type \in LockTypes,
             NEW lease \in Leases, Join(c, r, type, lease)
      PROVE  LockInv'
  <2>1. /\ Joinable(locks[r], type)
        /\ locks' = [locks EXCEPT ![r] = Joined(locks[r], c, lease)]
        /\ waitFor' = Without(waitFor, {c})
        /\ calls' = calls \cup {[client |-> c, res |-> r]}
        /\ commands' = commands + 1 /\ told' = told
    BY <1>2 DEF Join, Command
  <2>2. Joined(locks[r], c, lease) \in Lock /\ LockOK(Joined(locks[r], c, lease))
    BY <1>0, <2>1, GrantedTyped, GrantedOK
  <2>3. /\ Joined(locks[r], c, lease).holders = locks[r].holders \cup {c}
        /\ Joined(locks[r], c, lease).waiting = locks[r].waiting
    BY <1>0 DEF Joined, Lock
  <2>4. WaitEdgesSound'
    BY <1>0, <2>1, <2>3, EdgesStay DEF Without, Waiters
  <2> QED BY <1>0, <1>a, <2>1, <2>2, <2>4 DEF Without
<1>3. ASSUME NEW c \in Clients, NEW r \in Resources, NEW type \in LockTypes, Enqueue(c, r, type)
      PROVE  LockInv'
  <2>1. /\ ~Grantable(locks[r])
        /\ locks' = [locks EXCEPT ![r] = Queued(locks[r], c, type)]
        /\ waitFor' = waitFor \cup ({c} \X (locks[r].holders \ {c}))
        /\ calls' = calls \cup {[client |-> c, res |-> r]}
        /\ commands' = commands + 1 /\ told' = told
    BY <1>3 DEF Enqueue, Command, WithWait
  <2>2. Queued(locks[r], c, type) \in Lock /\ LockOK(Queued(locks[r], c, type))
    <3>1. 0 \in Nat
      OBVIOUS
    <3> QED BY <1>0, <2>1, <3>1, GrantedTyped, GrantedOK
  <2>3. /\ Queued(locks[r], c, type).holders = locks[r].holders
        /\ Waiters(locks[r]) \cup {c} \subseteq Waiters(Queued(locks[r], c, type))
    <3> DEFINE w == locks[r].waiting
               q == [client |-> c, type |-> type]
    <3>1. w \in Seq(Request) /\ q \in Request
      BY <1>0 DEF Lock, Request
    <3>2. /\ Queued(locks[r], c, type).holders = locks[r].holders
          /\ Queued(locks[r], c, type).waiting = Append(w, q)
      BY <1>0 DEF Queued, Lock
    <3>3. /\ DOMAIN Append(w, q) = 1 .. Len(w) + 1 /\ DOMAIN w = 1 .. Len(w) /\ Len(w) \in Nat
          /\ Append(w, q)[Len(w) + 1] = q
          /\ \A k \in 1 .. Len(w) : Append(w, q)[k] = w[k]
      BY <3>1
    <3>4. q.client = c
      OBVIOUS
    <3> HIDE DEF w, q
    <3> QED BY <3>2, <3>3, <3>4 DEF Waiters, w
  <2>4. WaitEdgesSound'
    <3> SUFFICES ASSUME NEW e \in waitFor'
                 PROVE  /\ e[1] # e[2]
                        /\ \E s \in Resources : e[1] \in Waiters(locks'[s])
                                               /\ e[2] \in locks'[s].holders
      BY DEF WaitEdgesSound, Waiters
    <3>1. CASE e \in waitFor
      <4>1. e[1] # e[2]
            /\ \E s \in Resources : e[1] \in Waiters(locks[s]) /\ e[2] \in locks[s].holders
        BY <3>1 DEF LockInv, WaitEdgesSound
      <4> QED BY <1>0, <2>1, <2>3, <4>1
    <3>2. CASE e \notin waitFor
      <4>1. e[1] = c /\ e[2] \in locks[r].holders \ {c}
        BY <2>1, <3>2
      <4> QED BY <1>0, <2>1, <2>3, <4>1
    <3> QED BY <3>1, <3>2
  <2>5. waitFor' \subseteq Clients \X Clients
    <3>1. locks[r].holders \subseteq Clients
      BY <1>0 DEF Lock
    <3> QED BY <1>0, <2>1, <3>1
  <2> QED BY <1>0, <1>a, <2>1, <2>2, <2>4, <2>5
<1>4. ASSUME NEW c \in Clients, NEW r \in Resources, Release(c, r) PROVE LockInv'
  <2>1. commands' = commands + 1 /\ UNCHANGED <<calls, told>>
    BY <1>4 DEF Release, Command
  <2>2. CASE locks[r].token = 0
    <3>1. UNCHANGED <<locks, waitFor>>
      BY <1>4, <2>2 DEF Release
    <3>2. WaitEdgesSound'
      BY <3>1, EdgesStay
    <3> QED BY <1>0, <1>a, <2>1, <3>1, <3>2
  <2>3. CASE locks[r].token # 0
    <3>1. /\ locks' = [locks EXCEPT ![r] = Released(locks[r], {c})]
          /\ waitFor' = Without(waitFor, {c} \cup Promoted(locks[r], {c}))
      BY <1>4, <2>3 DEF Release
    <3>2. Released(locks[r], {c}) \in Lock /\ LockOK(Released(locks[r], {c}))
      BY <1>0, ReleasedTyped, ReleasedOK
    <3>3. waitFor' \subseteq waitFor /\ \A e \in waitFor' : e[2] \notin {c}
      BY <3>1 DEF Without
    <3>4. WaitEdgesSound'
      <4> SUFFICES ASSUME NEW s \in Resources, NEW e \in waitFor',
                          e[1] \in Waiters(locks[s]), e[2] \in locks[s].holders
                   PROVE  e[1] \in Waiters(locks'[s]) /\ e[2] \in locks'[s].holders
        BY <3>3, EdgesStay
      <4>1. CASE s = r
        BY <1>0, <3>1, <3>3, <4>1, WaitOutlastsRelease
      <4>2. CASE s # r
        BY <1>0, <3>1, <4>2
      <4> QED BY <4>1, <4>2
    <3>5. locks' \in [Resources -> Lock] /\ \A s \in Resources : LockOK(locks'[s])
      BY <1>0, <3>1, <3>2
    <3>6. waitFor' \subseteq Clients \X Clients /\ commands' \in Nat
      BY <1>0, <2>1, <3>3
    <3> QED BY <1>0, <1>a, <2>1, <3>4, <3>5, <3>6
  <2> QED BY <2>2, <2>3
<1>5. ASSUME NEW call \in calls, Reply(call) PROVE LockInv'
  <2>1. UNCHANGED <<locks, waitFor, commands>> /\ calls' \subseteq calls
    BY <1>5 DEF Reply
  <2>2. told' \subseteq Answers
    <3> DEFINE answer == [client |-> call.client, res |-> call.res,
                          token |-> locks[call.res].token, type |-> locks[call.res].type]
    <3>1. call.client \in Clients /\ call.res \in Resources
      BY <1>0
    <3>2. locks[call.res].token \in Nat /\ locks[call.res].type \in LockTypes
      BY <1>0, <3>1 DEF Lock
    <3>3. answer \in Answers
      BY <3>1, <3>2 DEF Answers
    <3>4. told' \subseteq told \cup {answer}
      BY <1>5 DEF Reply
    <3> QED BY <1>0, <3>3, <3>4
  <2>3. WaitEdgesSound'
    BY <2>1, EdgesStay
  <2> QED BY <1>0, <1>a, <2>1, <2>2, <2>3
<1>6. ASSUME Tick PROVE LockInv'
  <2>1. /\ locks' = [r \in Resources |->
                      [locks[r] EXCEPT !.lease = IF @ >= 0 THEN @ - 1 ELSE @]]
        /\ UNCHANGED <<waitFor, calls, commands, told>>
    BY <1>6 DEF Tick
  <2>2. ASSUME NEW r \in Resources
        PROVE  /\ locks'[r] \in Lock
               /\ locks'[r].type = locks[r].type /\ locks'[r].holders = locks[r].holders
               /\ locks'[r].waiting = locks[r].waiting /\ locks'[r].token = locks[r].token
    <3> DEFINE lease == IF locks[r].lease >= 0 THEN locks[r].lease - 1 ELSE locks[r].lease
    <3>1. lease \in Int /\ locks[r] \in Lock
      BY <1>0 DEF Lock
    <3>2. locks'[r] = [locks[r] EXCEPT !.lease = lease]
      BY <2>1, <3>1 DEF Lock
    <3> HIDE DEF lease
    <3> QED BY <3>1, <3>2 DEF Lock
  <2>3. locks' \in [Resources -> Lock]
    BY <2>1, <2>2
  <2>4. \A r \in Resources : LockOK(locks'[r])
    BY <1>0, <2>2 DEF LockOK
  <2>5. WaitEdgesSound'
    BY <2>1, <2>2, EdgesStay DEF Waiters
  <2> QED BY <1>0, <1>a, <2>1, <2>3, <2>4, <2>5
<1>7. ASSUME Sweep PROVE LockInv'
  <2>1. /\ locks' = [r \in Resources |-> Swept(locks[r])]
        /\ waitFor' = Without(waitFor, LosingEdges)
        /\ UNCHANGED <<calls, commands, told>>
    BY <1>7 DEF Sweep
  <2>2. ASSUME NEW r \in Resources PROVE locks'[r] \in Lock /\ LockOK(locks'[r])
    <3>1. locks[r].holders \in SUBSET Clients
      BY <1>0 DEF Lock
    <3> QED BY <1>0, <2>1, <3>1, ReleasedTyped, ReleasedOK DEF Swept
  <2>3. waitFor' \subseteq waitFor /\ \A e \in waitFor' : e[2] \notin LosingEdges
    BY <2>1 DEF Without
  <2>4. WaitEdgesSound'
    <3> SUFFICES ASSUME NEW r \in Resources, NEW e \in waitFor',
                        e[1] \in Waiters(locks[r]), e[2] \in locks[r].holders
                 PROVE  e[1] \in Waiters(locks'[r]) /\ e[2] \in locks'[r].holders
      BY <2>3, EdgesStay
    <3>1. ~Expired(locks[r])
      BY <2>3 DEF LosingEdges
    <3> QED BY <2>1, <3>1 DEF Swept
  <2>5. locks' \in [Resources -> Lock]
    BY <2>1, <2>2
  <2> QED BY <1>0, <1>a, <2>1, <2>2, <2>3, <2>4, <2>5
<1>8. CASE UNCHANGED vars
  BY <1>8 DEF vars, LockInv, TypeOK, WaitEdgesSound
<1> QED BY <1>1, <1>2, <1>3, <1>4, <1>5, <1>6, <1>7, <1>8 DEF Next, Acquire

LEMMA LocksInvariant == Spec => []LockInv
<1> QED BY InitLocks, NextLocks, PTL DEF Spec

\* The type invariant, and that a lock somebody holds or waits for has a token.
THEOREM LockTypeCorrect == Spec => []TypeOK
<1>1. LockInv => TypeOK
  BY DEF LockInv
<1> QED BY <1>1, LocksInvariant, PTL

\* Only shared locks have more than one holder.
THEOREM LocksExclude == Spec => []MutualExclusion
<1> QED BY LockInvImplies, LocksInvariant, PTL

\* Nobody waits for a free lock.
THEOREM NobodyStranded == Spec => []NoStrandedWaiter
<1> QED BY LockInvImplies, LocksInvariant, PTL

\* Every edge of the wait-for graph is a real wait: no deadlock is reported that
\* is none.
THEOREM EdgesSound == Spec => []WaitEdgesSound
<1>1. LockInv => WaitEdgesSound
  BY DEF LockInv
<1> QED BY <1>1, LocksInvariant, PTL

-----------------------------------------------------------------------------
(* Fencing tokens *)

\* A lock goes on to a new tenure, or stays in the one it is in: then its type
\* stays, and an exclusive one gets no new holder.
Advances(lock, next) ==
    \/ next.token > lock.token
    \/ /\ next.token = lock.token /\ next.type = lock.type
       /\ lock.type = "exclusive" => next.holders \subseteq lock.holders

LEMMA CommandsAdvance ==
    ASSUME NEW lock \in Lock, NEW c \in Clients, NEW type \in LockTypes, NEW lease \in Nat
    PROVE  /\ Advances(lock, Granted(lock, c, type, lease))
           /\ Joinable(lock, type) => Advances(lock, Joined(lock, c, lease))
           /\ Advances(lock, Queued(lock, c, type))
BY DEF Advances, Granted, Joinable, Joined, Queued, Lock

LEMMA ReleaseAdvances ==
    ASSUME NEW lock \in Lock, NEW gone \in SUBSET Clients
    PROVE  Advances(lock, Released(lock, gone))
BY DEF Advances, Released, Lock

LEMMA TimeAdvances ==
    ASSUME NEW lock \in Lock, NEW lease \in Int
    PROVE  Advances(lock, lock) /\ Advances(lock, [lock EXCEPT !.lease = lease])
BY DEF Advances, Lock

\* Every step makes every lock advance, or is an answer.
LEMMA LocksAdvance ==
    ASSUME LockInv, [Next]_vars, NEW r \in Resources
    PROVE  Advances(locks[r], locks'[r])
<1>1. locks[r] \in Lock /\ locks \in [Resources -> Lock]
  BY DEF LockInv, TypeOK
<1>2. Advances(locks[r], locks[r])
  BY <1>1, TimeAdvances DEF Lock
<1>3. ASSUME NEW c \in Clients, NEW q \in Resources, NEW type \in LockTypes, NEW lease \in Leases,
             Acquire(c, q, type, lease)
      PROVE  Advances(locks[r], locks'[r])
  <2>1. lease \in Nat
    OBVIOUS
  <2>2. CASE q # r
    <3>1. locks'[r] = locks[r]
      BY <1>1, <1>3, <2>2 DEF Acquire, Grant, Join
    <3> QED BY <1>2, <3>1
  <2>3. CASE q = r
    <3>1. \/ locks'[r] = Granted(locks[r], c, type, lease)
          \/ Joinable(locks[r], type) /\ locks'[r] = Joined(locks[r], c, lease)
      BY <1>1, <1>3, <2>3 DEF Acquire, Grant, Join
    <3> QED BY <1>1, <2>1, <3>1, CommandsAdvance
  <2> QED BY <2>2, <2>3
<1>4. ASSUME NEW c \in Clients, NEW q \in Resources, NEW type \in LockTypes, Enqueue(c, q, type)
      PROVE  Advances(locks[r], locks'[r])
  <2>1. locks'[r] = IF q = r THEN Queued(locks[r], c, type) ELSE locks[r]
    BY <1>1, <1>4 DEF Enqueue
  <2>2. 0 \in Nat
    OBVIOUS
  <2> QED BY <1>1, <1>2, <2>1, <2>2, CommandsAdvance
<1>5. ASSUME NEW c \in Clients, NEW q \in Resources, Release(c, q)
      PROVE  Advances(locks[r], locks'[r])
  <2>1. locks'[r] = locks[r] \/ locks'[r] = Released(locks[r], {c})
    BY <1>1, <1>5 DEF Release
  <2> QED BY <1>1, <1>2, <2>1, ReleaseAdvances
<1>6. ASSUME Tick PROVE Advances(locks[r], locks'[r])
  <2> DEFINE lease == IF locks[r].lease >= 0 THEN locks[r].lease - 1 ELSE locks[r].lease
  <2>1. locks'[r] = [locks[r] EXCEPT !.lease = lease]
    BY <1>1, <1>6 DEF Tick, Lock
  <2>2. lease \in Int
    BY <1>1 DEF Lock
  <2> HIDE DEF lease
  <2> QED BY <1>1, <2>1, <2>2, TimeAdvances
<1>7. ASSUME Sweep PROVE Advances(locks[r], locks'[r])
  <2>1. locks'[r] = locks[r] \/ locks'[r] = Released(locks[r], locks[r].holders)
    BY <1>7 DEF Sweep, Swept
  <2>2. locks[r].holders \in SUBSET Clients
    BY <1>1 DEF Lock
  <2> QED BY <1>1, <1>2, <2>1, <2>2, ReleaseAdvances
<1>8. ASSUME NEW call \in calls, Reply(call) PROVE Advances(locks[r], locks'[r])
  BY <1>2, <1>8 DEF Reply
<1>9. CASE UNCHANGED vars
  BY <1>2, <1>9 DEF vars
<1> QED BY <1>3, <1>4, <1>5, <1>6, <1>7, <1>8, <1>9 DEF Next

\* No answer has a token of the future, and one with the token of now agrees
\* with the lock.
AnswersAgree ==
    \A a \in told :
        LET lock == locks[a.res]
        IN /\ a.token <= lock.token
           /\ a.token = lock.token =>
                /\ a.type = lock.type
                /\ a.type = "exclusive" => lock.holders \subseteq {a.client}

\* Answers that went out agree with their locks for as long as these advance.
LEMMA AnswersStay ==
    ASSUME LockInv, AnswersAgree, [Next]_vars, NEW a \in told
    PROVE  /\ a.token <= locks'[a.res].token
           /\ a.token = locks'[a.res].token =>
                /\ a.type = locks'[a.res].type
                /\ a.type = "exclusive" => locks'[a.res].holders \subseteq {a.client}
<1>1. a.res \in Resources /\ a.token \in Nat
  BY DEF LockInv, TypeOK, Answers
<1>2. locks[a.res].token \in Nat /\ locks'[a.res].token \in Nat
  BY <1>1, NextLocks DEF LockInv, TypeOK, Lock
<1>3. Advances(locks[a.res], locks'[a.res])
  BY <1>1, LocksAdvance
<1> QED BY <1>1, <1>2, <1>3 DEF AnswersAgree, Advances

\* Of the answers only the one a handler makes now is new.
LEMMA ToldGrows ==
    ASSUME LockInv, [Next]_vars, told' # told
    PROVE  \E call \in calls :
             LET lock == locks[call.res]
             IN /\ call.res \in Resources /\ call.client \in lock.holders
                /\ told' = told \cup {[client |-> call.client, res |-> call.res,
                                       token |-> lock.token, type |-> lock.type]}
                /\ locks' = locks
<1>1. PICK call \in calls : Reply(call)
  BY DEF Next, vars, Acquire, Grant, Join, Enqueue, Release, Tick, Sweep
<1>2. call.res \in Resources
  BY DEF LockInv, TypeOK
<1> QED BY <1>1, <1>2 DEF Reply

LEMMA NextAnswers ==
    LockInv /\ AnswersAgree /\ TokenNamesTenure /\ [Next]_vars
      => AnswersAgree' /\ TokenNamesTenure'
<1> SUFFICES ASSUME LockInv, AnswersAgree, TokenNamesTenure, [Next]_vars
             PROVE  AnswersAgree' /\ TokenNamesTenure'
  OBVIOUS
<1>1. CASE told' = told
  BY <1>1, AnswersStay DEF AnswersAgree, TokenNamesTenure
<1>2. CASE told' # told
  <2>1. PICK call \in calls :
             LET lock == locks[call.res]
             IN /\ call.res \in Resources /\ call.client \in lock.holders
                /\ told' = told \cup {[client |-> call.client, res |-> call.res,
                                       token |-> lock.token, type |-> lock.type]}
                /\ locks' = locks
    BY <1>2, ToldGrows
  <2> DEFINE lock == locks[call.res]
             answer == [client |-> call.client, res |-> call.res,
                        token |-> lock.token, type |-> lock.type]
  <2>2. lock.token \in Nat /\ LockOK(lock)
    BY <2>1 DEF LockInv, TypeOK, Lock
  <2>3. lock.type = "exclusive" => lock.holders \subseteq {call.client}
    BY <2>1, <2>2 DEF LockOK
  <2>4. told' = told \cup {answer} /\ locks' = locks /\ call.client \in lock.holders
    BY <2>1
  <2>5. /\ answer.client = call.client /\ answer.res = call.res
        /\ answer.token = lock.token /\ answer.type = lock.type
    OBVIOUS
  <2>6. lock.type \in LockTypes
    BY <2>1 DEF LockInv, TypeOK, Lock
  <2> HIDE DEF answer
  <2>7. AnswersAgree'
    <3> SUFFICES ASSUME NEW a \in told'
                 PROVE  /\ a.token <= locks[a.res].token
                        /\ a.token = locks[a.res].token =>
                             /\ a.type = locks[a.res].type
                             /\ a.type = "exclusive" => locks[a.res].holders \subseteq {a.client}
      BY <2>4 DEF AnswersAgree
    <3>1. CASE a \in told
      BY <3>1 DEF AnswersAgree
    <3>2. CASE a = answer
      BY <2>2, <2>3, <2>5, <3>2
    <3> QED BY <2>4, <3>1, <3>2
  <2>8. TokenNamesTenure'
    <3>1. ASSUME NEW a \in told, a.res = answer.res, a.token = answer.token
          PROVE  a.type = answer.type /\ (a.client # answer.client => a.type = "shared")
      <4>1. /\ a.type = lock.type
            /\ a.type = "exclusive" => lock.holders \subseteq {a.client}
        BY <2>5, <3>1 DEF AnswersAgree
      <4> QED BY <2>4, <2>5, <2>6, <4>1 DEF LockTypes
    <3> HIDE DEF lock
    <3> QED BY <2>4, <3>1 DEF TokenNamesTenure
  <2> QED BY <2>7, <2>8
<1> QED BY <1>1, <1>2

\* A fencing token names one tenure: two clients told "acquired" with one token
\* share the lock, for any clients, resources, leases and delays of the answers.
THEOREM TokensNameTenures == Spec => []TokenNamesTenure
<1>1. Init => AnswersAgree /\ TokenNamesTenure
  BY DEF Init, AnswersAgree, TokenNamesTenure
<1>2. Init => LockInv
  BY InitLocks
<1>3. LockInv /\ [Next]_vars => LockInv'
  BY NextLocks
<1> QED BY <1>1, <1>2, <1>3, NextAnswers, PTL DEF Spec

-----------------------------------------------------------------------------
(* One lock on several replicas *)

CONSTANT Nodes
VARIABLES log, leader, applied, copies, resumed, answers
Replicas == INSTANCE LockReplication
    WITH lock <- copies, calls <- resumed, told <- answers

repVars == <<log, leader, applied, copies, resumed, answers>>

Commands == Replicas!Acquires \cup Replicas!Releases

\* The same lock but for the time that is left of the lease
Alike(l, m) ==
    l.type = m.type /\ l.holders = m.holders /\ l.waiting = m.waiting /\ l.token = m.token

\* A tenure goes on: the type stays, and an exclusive lock gets no new holder.
SameTenure(l, m) ==
    l.token = m.token /\ l.token # 0 =>
        m.type = l.type /\ (l.type # "shared" => m.holders \subseteq l.holders)

\* LockReplication has the lock table of this module.
LEMMA TableAlike ==
    /\ Replicas!LockTypes = LockTypes /\ Replicas!Lock = Lock /\ Replicas!NewLock = NewLock
    /\ \A l : Replicas!Grantable(l) <=> Grantable(l)
    /\ \A l, type : Replicas!Joinable(l, type) <=> Joinable(l, type)
    /\ \A l, c, type, lease : Replicas!Granted(l, c, type, lease) = Granted(l, c, type, lease)
    /\ \A l, c, lease : Replicas!Joined(l, c, lease) = Joined(l, c, lease)
    /\ \A l, c, type : Replicas!Queued(l, c, type) = Queued(l, c, type)
    /\ \A l, gone : Replicas!Released(l, gone) = Released(l, gone)
<1>1. Replicas!LockTypes = LockTypes /\ Replicas!NewLock = NewLock
  BY DEF Replicas!LockTypes, LockTypes, Replicas!NewLock, NewLock
<1>2. Replicas!Lock = Lock
  BY DEF Replicas!Lock, Lock, Replicas!LockTypes, LockTypes, Replicas!Request, Request
<1>3. /\ \A l : Replicas!Grantable(l) <=> Grantable(l)
      /\ \A l, type : Replicas!Joinable(l, type) <=> Joinable(l, type)
  BY DEF Replicas!Grantable, Grantable, Replicas!Joinable, Joinable
<1>4. \A l, c, type, lease : Replicas!Granted(l, c, type, lease) = Granted(l, c, type, lease)
  BY DEF Replicas!Granted, Granted
<1>5. \A l, c, lease : Replicas!Joined(l, c, lease) = Joined(l, c, lease)
  BY DEF Replicas!Joined, Joined
<1>6. \A l, c, type : Replicas!Queued(l, c, type) = Queued(l, c, type)
  BY DEF Replicas!Queued, Queued
<1>7. ASSUME NEW l, NEW gone
      PROVE  Replicas!Released(l, gone) = Released(l, gone)
  <2>1. Replicas!HandsOn(l, gone) <=> HandsOn(l, gone)
    BY DEF Replicas!HandsOn, HandsOn
  <2>2. Replicas!Batch(l) = Batch(l)
    BY DEF Replicas!Batch, Batch
  <2>3. Replicas!Promoted(l, gone) = Promoted(l, gone)
    BY <2>1, <2>2 DEF Replicas!Promoted, Promoted
  <2>4. Replicas!Cardinality(Replicas!Batch(l)) = Cardinality(Batch(l))
    <3>1. Replicas!Cardinality(Batch(l)) = Cardinality(Batch(l))
      BY DEF Replicas!Cardinality, Cardinality
    <3> QED BY <2>2, <3>1
  <2> QED BY <2>1, <2>3, <2>4 DEF Replicas!Released, Released
<1> QED BY <1>1, <1>2, <1>3, <1>4, <1>5, <1>6, <1>7

\* What a command does to a lock.
LEMMA CommandApplied ==
    ASSUME NEW l, NEW cmd \in Commands
    PROVE  \/ /\ cmd.client \in Clients
              /\ Replicas!After(l, cmd) = l \/ Replicas!After(l, cmd) = Released(l, {cmd.client})
              /\ Replicas!After(l, cmd) = IF l.token = 0 THEN l ELSE Released(l, {cmd.client})
              /\ cmd.kind = "release"
           \/ /\ cmd.client \in Clients /\ cmd.type \in LockTypes /\ cmd.lease \in Nat
              /\ cmd.kind = "acquire"
              /\ Replicas!After(l, cmd) =
                     IF Grantable(l) THEN Granted(l, cmd.client, cmd.type, cmd.lease)
                     ELSE IF Joinable(l, cmd.type) THEN Joined(l, cmd.client, cmd.lease)
                     ELSE Queued(l, cmd.client, cmd.type)
<1>1. CASE cmd \in Replicas!Acquires
  <2>1. /\ cmd.kind = "acquire" /\ cmd.client \in Clients /\ cmd.type \in LockTypes
        /\ cmd.lease \in Nat
    BY <1>1, TableAlike, LeasesAssumption DEF Replicas!Acquires
  <2> QED BY <2>1, TableAlike DEF Replicas!After
<1>2. CASE cmd \in Replicas!Releases
  <2>1. cmd.kind = "release" /\ cmd.client \in Clients
    BY <1>2 DEF Replicas!Releases
  <2> QED BY <2>1, TableAlike DEF Replicas!After
<1> QED BY <1>1, <1>2 DEF Commands

LEMMA AfterTyped ==
    ASSUME NEW l \in Lock, NEW cmd \in Commands
    PROVE  Replicas!After(l, cmd) \in Lock /\ (LockOK(l) => LockOK(Replicas!After(l, cmd)))
<1>1. CASE cmd.kind = "release"
  <2>1. /\ cmd.client \in Clients /\ {cmd.client} \in SUBSET Clients
        /\ Replicas!After(l, cmd) = l \/ Replicas!After(l, cmd) = Released(l, {cmd.client})
    BY <1>1, CommandApplied
  <2> QED BY <2>1, ReleasedTyped, ReleasedOK
<1>2. CASE cmd.kind # "release"
  <2>1. /\ cmd.client \in Clients /\ cmd.type \in LockTypes /\ cmd.lease \in Nat
        /\ Replicas!After(l, cmd) =
               IF Grantable(l) THEN Granted(l, cmd.client, cmd.type, cmd.lease)
               ELSE IF Joinable(l, cmd.type) THEN Joined(l, cmd.client, cmd.lease)
               ELSE Queued(l, cmd.client, cmd.type)
    BY <1>2, CommandApplied
  <2> QED BY <2>1, GrantedTyped, GrantedOK
<1> QED BY <1>1, <1>2

\* A command changes locks that are alike into locks that are alike.
LEMMA AfterAlike ==
    ASSUME NEW l \in Lock, NEW m \in Lock, Alike(l, m), NEW cmd \in Commands
    PROVE  Alike(Replicas!After(l, cmd), Replicas!After(m, cmd))
<1>0. l.type = m.type /\ l.holders = m.holders /\ l.waiting = m.waiting /\ l.token = m.token
  BY DEF Alike
<1>1. ASSUME NEW gone PROVE Alike(Released(l, gone), Released(m, gone))
  <2>1. /\ HandsOn(l, gone) <=> HandsOn(m, gone)
        /\ Batch(l) = Batch(m)
    BY <1>0 DEF HandsOn, Batch
  <2>2. Promoted(l, gone) = Promoted(m, gone)
    BY <1>0, <2>1 DEF Promoted
  <2>3. CASE HandsOn(l, gone)
    <3>1. Released(l, gone) = Released(m, gone)
      BY <1>0, <2>1, <2>2, <2>3 DEF Released
    <3> QED BY <3>1 DEF Alike
  <2>4. CASE ~HandsOn(l, gone)
    BY <1>0, <2>1, <2>4 DEF Released, Alike, Lock
  <2> QED BY <2>3, <2>4
<1>2. CASE cmd.kind = "release"
  <2>1. /\ Replicas!After(l, cmd) = IF l.token = 0 THEN l ELSE Released(l, {cmd.client})
        /\ Replicas!After(m, cmd) = IF m.token = 0 THEN m ELSE Released(m, {cmd.client})
    BY <1>2, CommandApplied
  <2> QED BY <1>0, <1>1, <2>1
<1>3. CASE cmd.kind # "release"
  <2> DEFINE c == cmd.client
             type == cmd.type
             lease == cmd.lease
  <2>1. /\ Replicas!After(l, cmd) = (IF Grantable(l) THEN Granted(l, c, type, lease)
                                     ELSE IF Joinable(l, type) THEN Joined(l, c, lease)
                                     ELSE Queued(l, c, type))
        /\ Replicas!After(m, cmd) = (IF Grantable(m) THEN Granted(m, c, type, lease)
                                     ELSE IF Joinable(m, type) THEN Joined(m, c, lease)
                                     ELSE Queued(m, c, type))
    BY <1>3, CommandApplied
  <2> HIDE DEF c, type, lease
  <2>2. (Grantable(l) <=> Grantable(m)) /\ (Joinable(l, type) <=> Joinable(m, type))
    BY <1>0 DEF Grantable, Joinable
  <2>3. Alike(Granted(l, c, type, lease), Granted(m, c, type, lease))
    BY <1>0 DEF Granted, Alike, Lock
  <2>4. Alike(Joined(l, c, lease), Joined(m, c, lease))
    BY <1>0 DEF Joined, Alike, Lock
  <2>5. Alike(Queued(l, c, type), Queued(m, c, type))
    BY <1>0 DEF Queued, Alike, Lock
  <2> QED BY <2>1, <2>2, <2>3, <2>4, <2>5
<1> QED BY <1>2, <1>3

\* A command begins a new tenure, with a higher token, or lets the old one go on.
LEMMA AfterTenure ==
    ASSUME NEW l \in Lock, LockOK(l), NEW cmd \in Commands
    PROVE  Replicas!After(l, cmd).token >= l.token /\ SameTenure(l, Replicas!After(l, cmd))
<1>1. ASSUME NEW gone \in SUBSET Clients
      PROVE  Released(l, gone).token >= l.token /\ SameTenure(l, Released(l, gone))
  <2>1. CASE HandsOn(l, gone)
    <3>1. Released(l, gone).token = l.token + 1 /\ l.token \in Nat
      BY <2>1 DEF Released, Lock
    <3>2. l.token + 1 >= l.token /\ l.token # l.token + 1
      BY <3>1
    <3> QED BY <3>1, <3>2 DEF SameTenure
  <2>2. CASE ~HandsOn(l, gone)
    BY <2>2 DEF Released, Lock, SameTenure
  <2> QED BY <2>1, <2>2
<1>2. CASE cmd.kind = "release"
  <2>1. /\ {cmd.client} \in SUBSET Clients
        /\ Replicas!After(l, cmd) = l \/ Replicas!After(l, cmd) = Released(l, {cmd.client})
    BY <1>2, CommandApplied
  <2>2. l.token >= l.token /\ SameTenure(l, l)
    BY DEF Lock, SameTenure
  <2> QED BY <1>1, <2>1, <2>2
<1>3. CASE cmd.kind # "release"
  <2> DEFINE c == cmd.client
             type == cmd.type
             lease == cmd.lease
  <2>1. Replicas!After(l, cmd) = (IF Grantable(l) THEN Granted(l, c, type, lease)
                                  ELSE IF Joinable(l, type) THEN Joined(l, c, lease)
                                  ELSE Queued(l, c, type))
    BY <1>3, CommandApplied
  <2> HIDE DEF c, type, lease
  <2>2. Granted(l, c, type, lease).token >= l.token /\ SameTenure(l, Granted(l, c, type, lease))
    <3>1. Granted(l, c, type, lease).token = l.token + 1 /\ l.token \in Nat
      BY DEF Granted, Lock
    <3>2. l.token + 1 >= l.token /\ l.token # l.token + 1
      BY <3>1
    <3> QED BY <3>1, <3>2 DEF SameTenure
  <2>3. Joinable(l, type) =>
            Joined(l, c, lease).token >= l.token /\ SameTenure(l, Joined(l, c, lease))
    BY DEF Joined, Joinable, Lock, SameTenure
  <2>4. Queued(l, c, type).token >= l.token /\ SameTenure(l, Queued(l, c, type))
    BY DEF Queued, Lock, SameTenure
  <2> QED BY <2>1, <2>2, <2>3, <2>4
<1> QED BY <1>2, <1>3
\* The states of a node that catches up from the a-th command to the k-th
Goes(g, base, a, k, cmds) ==
    /\ g = [i \in a .. k |-> g[i]]
    /\ \A i \in a .. k : g[i] = IF i = a THEN base ELSE Replicas!After(g[i - 1], cmds[i])

LEMMA StatesExist ==
    ASSUME NEW base \in Lock, NEW a \in Nat, NEW k \in Nat, a <= k, NEW cmds
    PROVE  \E g : Goes(g, base, a, k, cmds)
<1> DEFINE Reach(m, g) ==
             /\ g = [i \in a .. m |-> g[i]]
             /\ \A i \in a .. m : g[i] = IF i = a THEN base ELSE Replicas!After(g[i - 1], cmds[i])
           Bad == {m \in a .. k : ~ \E g : Reach(m, g)}
<1>1. Bad = {}
  <2> SUFFICES ASSUME Bad # {} PROVE FALSE
    OBVIOUS
  <2>1. Bad \in SUBSET Nat
    OBVIOUS
  <2>2. PICK m \in Bad : \A x \in Bad : m <= x
    BY <2>1, LeastExists
  <2>3. m \in a .. k /\ m \in Nat /\ ~ \E g : Reach(m, g)
    OBVIOUS
  <2>4. CASE m = a
    <3> DEFINE g == [i \in a .. m |-> base]
    <3>1. \A i \in a .. m : i = a /\ g[i] = base
      BY <2>4
    <3>2. Reach(m, g)
      BY <3>1
    <3> HIDE DEF g
    <3> QED BY <2>3, <3>2
  <2>5. CASE m # a
    <3>1. m - 1 \in a .. k /\ m - 1 \notin Bad
      BY <2>2, <2>3, <2>5
    <3>2. PICK h : Reach(m - 1, h)
      BY <3>1
    <3> DEFINE g == [i \in a .. m |-> IF i = m THEN Replicas!After(h[m - 1], cmds[m]) ELSE h[i]]
    <3>3. /\ \A i \in a .. m : i = m \/ i \in a .. m - 1
          /\ \A i \in a .. m - 1 : i \in a .. m /\ i # m
          /\ m \in a .. m /\ m - 1 \in a .. m - 1
      BY <2>3, <2>5
    <3>4. g[m] = Replicas!After(h[m - 1], cmds[m]) /\ \A i \in a .. m - 1 : g[i] = h[i]
      BY <3>3
    <3>5. g = [i \in a .. m |-> g[i]]
      OBVIOUS
    <3> HIDE DEF g
    <3>6. ASSUME NEW i \in a .. m - 1
          PROVE  g[i] = IF i = a THEN base ELSE Replicas!After(g[i - 1], cmds[i])
      <4>1. g[i] = IF i = a THEN base ELSE Replicas!After(h[i - 1], cmds[i])
        BY <3>2, <3>4
      <4>2. i # a => i - 1 \in a .. m - 1
        BY <2>3
      <4> QED BY <3>4, <4>1, <4>2
    <3>7. Reach(m, g)
      BY <2>5, <3>3, <3>4, <3>5, <3>6
    <3> QED BY <2>3, <3>7
  <2> QED BY <2>4, <2>5
<1>2. k \in a .. k /\ k \notin Bad
  BY <1>1
<1>3. PICK g : Reach(k, g)
  BY <1>2
<1> QED BY <1>3 DEF Goes

\* A node that catches up goes through the states of the log.
LEMMA StatesAlike ==
    ASSUME NEW base \in Lock, NEW a \in Nat, NEW k \in Nat, a <= k,
           NEW cmds, \A i \in a + 1 .. k : cmds[i] \in Commands,
           NEW f, \A i \in a .. k : f[i] \in Lock,
           \A i \in a + 1 .. k : f[i] = Replicas!After(f[i - 1], cmds[i]),
           Alike(base, f[a]),
           NEW g, Goes(g, base, a, k, cmds)
    PROVE  g[k] \in Lock /\ Alike(g[k], f[k])
<1> DEFINE Bad == {m \in a .. k : ~ (g[m] \in Lock /\ Alike(g[m], f[m]))}
<1>1. \A i \in a .. k : g[i] = IF i = a THEN base ELSE Replicas!After(g[i - 1], cmds[i])
  BY DEF Goes
<1>2. Bad = {}
  <2> SUFFICES ASSUME Bad # {} PROVE FALSE
    OBVIOUS
  <2>1. Bad \in SUBSET Nat
    OBVIOUS
  <2>2. PICK m \in Bad : \A x \in Bad : m <= x
    BY <2>1, LeastExists
  <2>3. m \in a .. k /\ m \in Nat /\ ~ (g[m] \in Lock /\ Alike(g[m], f[m]))
    OBVIOUS
  <2>4. CASE m = a
    BY <1>1, <2>3, <2>4
  <2>5. CASE m # a
    <3>1. m - 1 \in a .. k /\ m - 1 \notin Bad /\ m \in a + 1 .. k
      BY <2>2, <2>3, <2>5
    <3>2. g[m - 1] \in Lock /\ Alike(g[m - 1], f[m - 1]) /\ f[m - 1] \in Lock /\ cmds[m] \in Commands
      BY <3>1
    <3>3. g[m] = Replicas!After(g[m - 1], cmds[m]) /\ f[m] = Replicas!After(f[m - 1], cmds[m])
      BY <1>1, <2>3, <2>5, <3>1
    <3> QED BY <2>3, <3>2, <3>3, AfterTyped, AfterAlike
  <2> QED BY <2>4, <2>5
<1>3. k \in a .. k
  OBVIOUS
<1>4. k \notin Bad
  BY <1>2, Zenon
<1> QED BY <1>3, <1>4

\* The states of the lock that the log stands for, from its first command on
IsHistory(f, n, cmds) ==
    /\ f[0] = NewLock
    /\ \A i \in 0 .. n : f[i] \in Lock
    /\ \A i \in 1 .. n : f[i] = Replicas!After(f[i - 1], cmds[i])

\* Along them tokens only grow, and states with one token are of one tenure.
LEMMA HistoryTenures ==
    ASSUME NEW n \in Nat, NEW cmds, \A i \in 1 .. n : cmds[i] \in Commands,
           NEW f, IsHistory(f, n, cmds), NEW i \in 0 .. n, NEW j \in 0 .. n, i <= j
    PROVE  /\ LockOK(f[i]) /\ LockOK(f[j])
           /\ f[j].token >= f[i].token /\ SameTenure(f[i], f[j])
<1>1. /\ f[0] = NewLock /\ \A m \in 0 .. n : f[m] \in Lock
      /\ \A m \in 1 .. n : f[m] = Replicas!After(f[m - 1], cmds[m])
  BY DEF IsHistory
<1>2. ASSUME NEW m \in 0 .. n PROVE LockOK(f[m])
  <2> DEFINE Bad == {x \in 0 .. n : ~LockOK(f[x])}
  <2> SUFFICES ASSUME m \in Bad PROVE FALSE
    OBVIOUS
  <2>1. Bad \in SUBSET Nat /\ Bad # {}
    OBVIOUS
  <2>2. PICK x \in Bad : \A y \in Bad : x <= y
    BY <2>1, LeastExists
  <2>3. x \in 0 .. n /\ x \in Nat /\ ~LockOK(f[x])
    OBVIOUS
  <2>4. x # 0
    BY <1>1, <2>3, NewLockOK
  <2>5. x - 1 \in 0 .. n /\ x - 1 \notin Bad /\ x \in 1 .. n
    BY <2>2, <2>3, <2>4
  <2>6. LockOK(f[x - 1]) /\ f[x - 1] \in Lock /\ f[x] = Replicas!After(f[x - 1], cmds[x])
    BY <1>1, <2>5
  <2> QED BY <2>3, <2>5, <2>6, AfterTyped
<1>3. f[j].token >= f[i].token /\ SameTenure(f[i], f[j])
  <2> DEFINE Good(x) == f[x].token >= f[i].token /\ SameTenure(f[i], f[x])
             Bad == {x \in i .. n : ~Good(x)}
  <2>1. Bad = {}
    <3> SUFFICES ASSUME Bad # {} PROVE FALSE
      OBVIOUS
    <3>1. Bad \in SUBSET Nat
      OBVIOUS
    <3>2. PICK x \in Bad : \A y \in Bad : x <= y
      BY <3>1, LeastExists
    <3>3. x \in i .. n /\ x \in Nat /\ ~Good(x)
      OBVIOUS
    <3>4. x # i
      <4>1. f[i] \in Lock
        BY <1>1
      <4>2. f[i].token >= f[i].token /\ SameTenure(f[i], f[i])
        BY <4>1 DEF Lock, SameTenure
      <4> QED BY <3>3, <4>2
    <3>5. x - 1 \in i .. n /\ x - 1 \notin Bad /\ x \in 1 .. n /\ x - 1 \in 0 .. n /\ x \in 0 .. n
      BY <3>2, <3>3, <3>4
    <3>6. Good(x - 1)
      BY <3>5
    <3>7. f[x].token >= f[x - 1].token /\ SameTenure(f[x - 1], f[x])
      BY <1>1, <1>2, <3>5, AfterTenure
    <3>8. f[i] \in Lock /\ f[x - 1] \in Lock /\ f[x] \in Lock
      BY <1>1, <3>5
    <3>9. f[i].token \in Nat /\ f[x - 1].token \in Nat /\ f[x].token \in Nat
      BY <3>8 DEF Lock
    <3>10. f[x].token >= f[i].token
      BY <3>6, <3>7, <3>9
    <3>11. SameTenure(f[i], f[x])
      <4> SUFFICES ASSUME f[i].token = f[x].token, f[i].token # 0
                   PROVE  f[x].type = f[i].type /\ (f[i].type # "shared" => f[x].holders \subseteq f[i].holders)
        BY DEF SameTenure
      <4>1. f[x - 1].token = f[i].token
        BY <3>6, <3>7, <3>9
      <4> QED BY <3>6, <3>7, <4>1 DEF SameTenure
    <3> QED BY <3>3, <3>10, <3>11
  <2>2. j \in i .. n /\ j \notin Bad
    BY <2>1
  <2> QED BY <2>2
<1> QED BY <1>2, <1>3

\* Clients that hold the lock with one token, at whatever points of the log,
\* share it.
LEMMA HistoryShares ==
    ASSUME NEW n \in Nat, NEW cmds, \A i \in 1 .. n : cmds[i] \in Commands,
           NEW f, IsHistory(f, n, cmds), NEW i \in 0 .. n, NEW j \in 0 .. n,
           NEW c \in f[i].holders, NEW d \in f[j].holders, c # d, f[i].token = f[j].token
    PROVE  f[i].type = "shared" /\ f[j].type = "shared"
<1>1. ASSUME NEW x \in 0 .. n, NEW y \in 0 .. n, x <= y,
             NEW u \in f[x].holders, NEW v \in f[y].holders, u # v, f[x].token = f[y].token
      PROVE  f[x].type = "shared" /\ f[y].type = "shared"
  <2>1. LockOK(f[x]) /\ SameTenure(f[x], f[y])
    BY <1>1, HistoryTenures
  <2>2. f[x].token # 0
    BY <2>1 DEF LockOK
  <2>3. f[y].type = f[x].type /\ (f[x].type # "shared" => f[y].holders \subseteq f[x].holders)
    BY <1>1, <2>1, <2>2 DEF SameTenure
  <2> QED BY <1>1, <2>1, <2>3 DEF LockOK
<1>2. i <= j \/ j <= i
  OBVIOUS
<1> QED BY <1>1, <1>2
\* Every copy is as the log makes it after the commands its node has applied, but
\* for the lease; every answer is from a state of the log.
RepShape(f, cmds, done, locked, said) ==
    /\ IsHistory(f, Len(cmds), cmds)
    /\ \A n \in Nodes : Alike(locked[n], f[done[n]])
    /\ \A a \in said : \E i \in 0 .. Len(cmds) :
           a.client \in f[i].holders /\ a.token = f[i].token /\ a.type = f[i].type

\* The types, and that such a history of the log exists
RepInv ==
    /\ log \in Seq(Commands) /\ leader \in Nodes
    /\ applied \in [Nodes -> Nat] /\ \A n \in Nodes : applied[n] <= Len(log)
    /\ copies \in [Nodes -> Lock] /\ \A call \in resumed : call.at \in Nodes
    /\ \E f : RepShape(f, log, applied, copies, answers)

LEMMA RepInvInit == Replicas!Init => RepInv
<1> SUFFICES ASSUME Replicas!Init PROVE RepInv
  OBVIOUS
<1>1. /\ log = <<>> /\ leader \in Nodes /\ applied = [n \in Nodes |-> 0]
      /\ copies = [n \in Nodes |-> NewLock] /\ resumed = {} /\ answers = {}
  BY TableAlike DEF Replicas!Init
<1> DEFINE f == [i \in 0 .. 0 |-> NewLock]
<1>2. /\ f[0] = NewLock /\ \A i \in 0 .. 0 : f[i] \in Lock
      /\ Len(log) = 0
  BY <1>1, NewLockTyped
<1>3. \A i \in 1 .. 0 : FALSE
  OBVIOUS
<1> HIDE DEF f
<1>4. RepShape(f, log, applied, copies, answers)
  BY <1>1, <1>2, <1>3 DEF RepShape, IsHistory, Alike
<1>5. log \in Seq(Commands) /\ applied \in [Nodes -> Nat] /\ \A n \in Nodes : applied[n] <= Len(log)
  BY <1>1
<1>6. copies \in [Nodes -> Lock]
  BY <1>1, NewLockTyped
<1> QED BY <1>1, <1>4, <1>5, <1>6 DEF RepInv

\* A node that has caught up has the lock as the log makes it.
LEMMA CaughtUp ==
    ASSUME NEW n \in Nodes, NEW cmds, NEW size \in Nat, NEW k \in Nat,
           \A i \in 1 .. size : cmds[i] \in Commands, k <= size,
           applied \in [Nodes -> Nat], applied[n] <= k, copies \in [Nodes -> Lock],
           NEW f, IsHistory(f, size, cmds),
           \A m \in Nodes : Alike(copies[m], f[applied[m]]),
           Replicas!CatchUp(n, cmds, k)
    PROVE  /\ applied' \in [Nodes -> Nat] /\ copies' \in [Nodes -> Lock]
           /\ applied' = [applied EXCEPT ![n] = k]
           /\ \A m \in Nodes : Alike(copies'[m], f[applied'[m]])
<1>1. PICK a \in Nat, base \in Lock : a = applied[n] /\ base = copies[n]
  OBVIOUS
<1> DEFINE e(h, i) == IF i = a THEN base ELSE Replicas!After(h[i - 1], cmds[i])
           P(h) == h = [i \in a .. k |-> e(h, i)]
           g == CHOOSE h : P(h)
<1>2. applied' = [applied EXCEPT ![n] = k] /\ copies' = [copies EXCEPT ![n] = g[k]]
  BY <1>1 DEF Replicas!CatchUp
<1>3. /\ \A i \in a .. k : f[i] \in Lock
      /\ \A i \in a + 1 .. k : cmds[i] \in Commands
      /\ \A i \in a + 1 .. k : f[i] = Replicas!After(f[i - 1], cmds[i])
      /\ Alike(base, f[a]) /\ a <= k
  BY <1>1 DEF IsHistory
<1>4. \E h : P(h)
  <2>1. PICK h : Goes(h, base, a, k, cmds)
    BY <1>3, StatesExist
  <2>2. h = [i \in a .. k |-> h[i]] /\ \A i \in a .. k : h[i] = e(h, i)
    BY <2>1 DEF Goes
  <2> HIDE DEF e
  <2> QED BY <2>2
<1> HIDE DEF P, g
<1>5. P(g)
  BY <1>4 DEF g
<1>6. Goes(g, base, a, k, cmds)
  <2> HIDE DEF e
  <2>1. g = [i \in a .. k |-> e(g, i)]
    BY <1>5 DEF P
  <2>2. g = [i \in a .. k |-> g[i]] /\ \A i \in a .. k : g[i] = e(g, i)
    BY <2>1
  <2> QED BY <2>2 DEF Goes, e
<1>7. g[k] \in Lock /\ Alike(g[k], f[k])
  BY <1>3, <1>6, StatesAlike
<1>8. ASSUME NEW m \in Nodes PROVE Alike(copies'[m], f[applied'[m]])
  <2>1. CASE m = n
    BY <1>2, <1>7, <2>1
  <2>2. CASE m # n
    BY <1>2, <2>2
  <2> QED BY <2>1, <2>2
<1>9. applied' \in [Nodes -> Nat] /\ copies' \in [Nodes -> Lock]
  BY <1>2, <1>7
<1> QED BY <1>2, <1>8, <1>9

LEMMA RepInvStep ==
    ASSUME RepInv, [Replicas!Next]_repVars, [\A n \in Nodes : ~Replicas!Sweep(n)]_repVars
    PROVE  RepInv'
<1>1. /\ log \in Seq(Commands) /\ leader \in Nodes
      /\ applied \in [Nodes -> Nat] /\ \A n \in Nodes : applied[n] <= Len(log)
      /\ copies \in [Nodes -> Lock] /\ \A call \in resumed : call.at \in Nodes
  BY DEF RepInv
<1>2. PICK f : RepShape(f, log, applied, copies, answers)
  BY DEF RepInv
<1> DEFINE N == Len(log)
<1>3. /\ N \in Nat /\ IsHistory(f, N, log)
      /\ \A i \in 1 .. N : log[i] \in Commands
      /\ \A n \in Nodes : Alike(copies[n], f[applied[n]])
      /\ \A a \in answers : \E i \in 0 .. N :
             a.client \in f[i].holders /\ a.token = f[i].token /\ a.type = f[i].type
  BY <1>1, <1>2 DEF RepShape
<1>4. ASSUME NEW cmd \in Commands, Replicas!Commit(cmd)
      PROVE  RepInv'
  <2> DEFINE g == [i \in 0 .. N + 1 |-> IF i = N + 1 THEN Replicas!After(f[N], cmd) ELSE f[i]]
  <2>1. /\ log' = Append(log, cmd) /\ Replicas!CatchUp(leader, log', Len(log'))
        /\ leader' = leader /\ answers' = answers
        /\ \A call \in resumed' : call \in resumed \/ call = [client |-> cmd.client, at |-> leader]
    BY <1>4 DEF Replicas!Commit
  <2>2. /\ log' \in Seq(Commands) /\ Len(log') = N + 1 /\ log'[N + 1] = cmd
        /\ \A i \in 1 .. N : log'[i] = log[i]
    BY <1>1, <2>1, AppendProperties
  <2>3. g[N + 1] = Replicas!After(f[N], cmd) /\ \A i \in 0 .. N : g[i] = f[i]
    BY <1>3
  <2> HIDE DEF g, N
  <2>4. \A i \in 1 .. N + 1 : log'[i] \in Commands /\ (i = N + 1 \/ i \in 1 .. N)
    BY <1>3, <2>2
  <2>5. IsHistory(g, N + 1, log')
    <3>1. g[0] = NewLock
      BY <1>3, <2>3 DEF IsHistory
    <3>2. f[N] \in Lock
      BY <1>3 DEF IsHistory
    <3>3. ASSUME NEW i \in 0 .. N + 1 PROVE g[i] \in Lock
      <4>1. i = N + 1 \/ i \in 0 .. N
        BY <1>3
      <4> QED BY <1>3, <2>3, <3>2, <4>1, AfterTyped DEF IsHistory
    <3>4. ASSUME NEW i \in 1 .. N + 1 PROVE g[i] = Replicas!After(g[i - 1], log'[i])
      <4>1. CASE i = N + 1
        <5>1. i - 1 = N /\ N \in 0 .. N
          BY <1>3, <4>1
        <5> QED BY <2>2, <2>3, <4>1, <5>1
      <4>2. CASE i \in 1 .. N
        <5>1. i - 1 \in 0 .. N /\ i \in 0 .. N
          BY <1>3, <4>2
        <5> QED BY <1>3, <2>2, <2>3, <4>2, <5>1 DEF IsHistory
      <4> QED BY <2>4, <4>1, <4>2
    <3> QED BY <3>1, <3>3, <3>4 DEF IsHistory
  <2>6. \A n \in Nodes : Alike(copies[n], g[applied[n]])
    <3>1. \A n \in Nodes : applied[n] \in 0 .. N
      BY <1>1, <1>3 DEF N
    <3> QED BY <1>3, <2>3, <3>1
  <2>7. /\ applied' \in [Nodes -> Nat] /\ copies' \in [Nodes -> Lock]
        /\ applied' = [applied EXCEPT ![leader] = N + 1]
        /\ \A n \in Nodes : Alike(copies'[n], g[applied'[n]])
    <3>1. N + 1 \in Nat /\ N + 1 <= N + 1 /\ applied[leader] <= N + 1
      BY <1>1, <1>3 DEF N
    <3>2. Replicas!CatchUp(leader, log', N + 1)
      BY <2>1, <2>2
    <3>3. \A i \in 1 .. N + 1 : log'[i] \in Commands
      BY <2>4
    <3> HIDE DEF g
    <3> QED BY <1>1, <2>5, <2>6, <3>1, <3>2, <3>3, CaughtUp
  <2>8. \A n \in Nodes : applied'[n] <= Len(log')
    BY <1>1, <1>3, <2>2, <2>7 DEF N
  <2>9. \A a \in answers' : \E i \in 0 .. Len(log') :
            a.client \in g[i].holders /\ a.token = g[i].token /\ a.type = g[i].type
    <3>1. \A i \in 0 .. N : i \in 0 .. Len(log')
      BY <1>3, <2>2
    <3> QED BY <1>3, <2>1, <2>3, <3>1
  <2>10. RepShape(g, log', applied', copies', answers')
    BY <2>2, <2>5, <2>7, <2>9 DEF RepShape
  <2>11. \A call \in resumed' : call.at \in Nodes
    BY <1>1, <2>1
  <2> QED BY <1>1, <2>1, <2>2, <2>7, <2>8, <2>10, <2>11 DEF RepInv
<1>5. ASSUME NEW n \in Nodes, NEW k \in 1 .. Len(log), Replicas!Learn(n, k)
      PROVE  RepInv'
  <2>1. /\ k \in applied[n] + 1 .. N /\ Replicas!CatchUp(n, log, k)
        /\ UNCHANGED <<log, leader, resumed, answers>>
    BY <1>5 DEF Replicas!Learn
  <2>2. k \in Nat /\ k <= N /\ applied[n] <= k
    BY <1>1, <1>3, <2>1
  <2>3. /\ applied' \in [Nodes -> Nat] /\ copies' \in [Nodes -> Lock]
        /\ applied' = [applied EXCEPT ![n] = k]
        /\ \A m \in Nodes : Alike(copies'[m], f[applied'[m]])
    <3> HIDE DEF N
    <3> QED BY <1>1, <1>3, <2>1, <2>2, CaughtUp
  <2>4. \A m \in Nodes : applied'[m] <= Len(log')
    BY <1>1, <2>1, <2>2, <2>3
  <2>5. RepShape(f, log', applied', copies', answers')
    BY <1>2, <2>1, <2>3 DEF RepShape
  <2> QED BY <1>1, <2>1, <2>3, <2>4, <2>5 DEF RepInv
<1>6. ASSUME NEW n \in Nodes, Replicas!Elect(n)
      PROVE  RepInv'
  <2>1. leader' = n /\ UNCHANGED <<log, applied, copies, resumed, answers>>
    BY <1>6 DEF Replicas!Elect
  <2>2. RepShape(f, log', applied', copies', answers')
    BY <1>2, <2>1
  <2> QED BY <1>1, <2>1, <2>2 DEF RepInv
<1>7. ASSUME NEW call \in resumed, Replicas!Reply(call)
      PROVE  RepInv'
  <2> DEFINE l == copies[call.at]
             answer == [client |-> call.client, token |-> l.token, type |-> l.type]
  <2>1. /\ resumed' = resumed \ {call} /\ UNCHANGED <<log, leader, applied, copies>>
        /\ answers' = IF call.client \in l.holders THEN answers \cup {answer} ELSE answers
    BY <1>7 DEF Replicas!Reply
  <2>2. applied[call.at] \in 0 .. N /\ Alike(l, f[applied[call.at]])
    BY <1>1, <1>3
  <2>3. ASSUME NEW a \in answers'
        PROVE  \E i \in 0 .. N : a.client \in f[i].holders /\ a.token = f[i].token /\ a.type = f[i].type
    <3>1. CASE a \in answers
      BY <1>3, <3>1
    <3>2. CASE a \notin answers
      <4>1. call.client \in l.holders /\ a = answer
        BY <2>1, <2>3, <3>2
      <4>2. a.client = call.client /\ a.token = l.token /\ a.type = l.type
        BY <4>1
      <4> QED BY <2>2, <4>1, <4>2 DEF Alike
    <3> QED BY <3>1, <3>2
  <2>4. RepShape(f, log', applied', copies', answers')
    BY <1>3, <2>1, <2>3 DEF RepShape
  <2> QED BY <1>1, <2>1, <2>4 DEF RepInv
<1>8. ASSUME Replicas!Tick
      PROVE  RepInv'
  <2>1. /\ UNCHANGED <<log, leader, applied, resumed, answers>>
        /\ copies' = [n \in Nodes |-> [copies[n] EXCEPT !.lease = IF @ >= 0 THEN @ - 1 ELSE @]]
    BY <1>8 DEF Replicas!Tick
  <2>2. ASSUME NEW n \in Nodes
        PROVE  copies'[n] \in Lock /\ Alike(copies'[n], copies[n])
    <3> DEFINE less == IF copies[n].lease >= 0 THEN copies[n].lease - 1 ELSE copies[n].lease
    <3>1. copies[n] \in Lock
      BY <1>1
    <3>2. less \in Int
      BY <3>1 DEF Lock
    <3>3. copies'[n] = [copies[n] EXCEPT !.lease = less]
      BY <2>1
    <3> HIDE DEF less
    <3> QED BY <3>1, <3>2, <3>3 DEF Lock, Alike
  <2>3. \A n \in Nodes : Alike(copies'[n], f[applied'[n]])
    BY <1>3, <2>1, <2>2 DEF Alike
  <2>4. copies' \in [Nodes -> Lock]
    BY <2>1, <2>2
  <2>5. RepShape(f, log', applied', copies', answers')
    BY <1>3, <2>1, <2>3 DEF RepShape
  <2> QED BY <1>1, <2>1, <2>4, <2>5 DEF RepInv
<1>9. CASE UNCHANGED repVars
  <2>1. UNCHANGED <<log, leader, applied, copies, resumed, answers>>
    BY <1>9 DEF repVars
  <2>2. RepShape(f, log', applied', copies', answers')
    BY <1>2, <2>1
  <2> QED BY <1>1, <2>1, <2>2 DEF RepInv
<1>10. CASE Replicas!Next /\ \A n \in Nodes : ~Replicas!Sweep(n)
  BY <1>4, <1>5, <1>6, <1>7, <1>8, <1>10 DEF Replicas!Next, Commands
<1> QED BY <1>9, <1>10

\* OneHolderPerToken of LockReplication (_lease_expiry_loop and _handle_acquire,
\* src/src/nodes/lock_manager.py): on any number of replicas, while no pass of the
\* lease sweep takes a lock away, two clients that were told of one lock with one
\* fencing token share it - whichever nodes answered, however far behind each was
\* and whoever led.  The sweeps, which no command records, are what breaks it.
THEOREM TokensFenceWithoutSweeps ==
    Replicas!Spec /\ [][\A n \in Nodes : ~Replicas!Sweep(n)]_repVars
        => []Replicas!OneHolderPerToken
<1>1. Replicas!Init => RepInv
  BY RepInvInit
<1>2. RepInv /\ [Replicas!Next]_repVars /\ [\A n \in Nodes : ~Replicas!Sweep(n)]_repVars => RepInv'
  BY RepInvStep
<1>3. RepInv => Replicas!OneHolderPerToken
  <2> SUFFICES ASSUME RepInv, NEW a \in answers, NEW b \in answers,
                      a.token = b.token, a.client # b.client
               PROVE  a.type = "shared" /\ b.type = "shared"
    BY DEF Replicas!OneHolderPerToken
  <2>1. PICK f : RepShape(f, log, applied, copies, answers)
    BY DEF RepInv
  <2>2. /\ IsHistory(f, Len(log), log) /\ Len(log) \in Nat
        /\ \A i \in 1 .. Len(log) : log[i] \in Commands
    BY <2>1 DEF RepShape, RepInv
  <2>3. PICK i \in 0 .. Len(log) :
            a.client \in f[i].holders /\ a.token = f[i].token /\ a.type = f[i].type
    BY <2>1 DEF RepShape
  <2>4. PICK j \in 0 .. Len(log) :
            b.client \in f[j].holders /\ b.token = f[j].token /\ b.type = f[j].type
    BY <2>1 DEF RepShape
  <2>5. /\ a.client \in f[i].holders /\ b.client \in f[j].holders /\ a.client # b.client
        /\ f[i].token = f[j].token
    BY <2>3, <2>4
  <2> DEFINE size == Len(log)
  <2>6. /\ IsHistory(f, size, log) /\ size \in Nat /\ \A k \in 1 .. size : log[k] \in Commands
        /\ i \in 0 .. size /\ j \in 0 .. size
    BY <2>2
  <2> HIDE DEF size
  <2>7. f[i].type = "shared" /\ f[j].type = "shared"
    BY ONLY <2>5, <2>6, HistoryShares
  <2> QED BY <2>3, <2>4, <2>7
<1>4. Replicas!vars = repVars
  BY DEF Replicas!vars, repVars
<1>5. Replicas!Spec => Replicas!Init /\ [][Replicas!Next]_repVars
  BY <1>4 DEF Replicas!Spec, Replicas!vars, repVars
<1> QED BY <1>1, <1>2, <1>3, <1>5, PTL

=============================================================================
