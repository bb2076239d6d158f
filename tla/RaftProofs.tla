----------------------------- MODULE RaftProofs -----------------------------
(***************************************************************************)
(* Theorems about Raft, for every set of nodes and commands and every      *)
(* bound.                                                                  *)
(*   Elections: every variable keeps its type, a leader has a quorum of    *)
(* votes for its term, a node votes twice in one term only after it        *)
(* accepted an AppendEntries of that term or was restarted, and two        *)
(* leaders of one term therefore share such a voter.                       *)
(*   Logs: every entry of every log, and of every request under way, is a  *)
(* link (the entry with the index and the term before it) that one node    *)
(* wrote. As long as nobody writes in a term another was elected for,      *)
(* logs match, and a leader only appends to its own.                       *)
(*   Answers: a node that never accepted a request applies what it told    *)
(* its callers was committed.                                              *)
(*   One leader: while one node leads and runs, every node applies a       *)
(* prefix of what it committed, so Raft implements ReplicatedLog.          *)
(***************************************************************************)
EXTENDS Raft, FiniteSetTheorems, SequenceTheorems, WellFoundedInduction, TLAPS

-----------------------------------------------------------------------------
(* Lemmas about the operators of the model *)

\* Max and Min of two numbers.
LEMMA MaxOfTwo ==
    ASSUME NEW a \in Int, NEW b \in Int
    PROVE  Max({a, b}) \in {a, b} /\ Max({a, b}) >= a /\ Max({a, b}) >= b
<1>1. \E x \in {a, b} : \A y \in {a, b} : x >= y
  OBVIOUS
<1> QED BY <1>1 DEF Max

LEMMA MinOfTwo ==
    ASSUME NEW a \in Int, NEW b \in Int
    PROVE  Min({a, b}) \in {a, b} /\ Min({a, b}) <= a /\ Min({a, b}) <= b
<1>1. \E x \in {a, b} : \A y \in {a, b} : x =< y
  OBVIOUS
<1> QED BY <1>1 DEF Min

\* The greatest of a nonempty set of natural numbers with an upper bound.
LEMMA MaxOfBounded ==
    ASSUME NEW n \in Nat, NEW S \in SUBSET (1 .. n), S # {}
    PROVE  Max(S) \in S /\ \A x \in S : Max(S) >= x
<1> DEFINE Gaps == {n - x : x \in S}
<1>1. Gaps \subseteq Nat /\ Gaps # {}
  <2>1. \A x \in S : n - x \in Nat /\ n - x \in Gaps
    OBVIOUS
  <2>2. PICK x \in S : TRUE
    OBVIOUS
  <2> QED BY <2>1, <2>2
<1>2. PICK g \in Gaps : \A h \in Gaps : <<h, g>> \notin OpToRel(<, Nat)
  BY <1>1, NatLessThanWellFounded, WFMin, Zenon
<1>3. \A h \in Gaps : g <= h
  <2>1. SUFFICES ASSUME NEW h \in Gaps PROVE ~ (h < g)
    BY <1>1
  <2>2. g \in Nat /\ h \in Nat
    BY <1>1
  <2> QED BY <1>2, <2>1, <2>2, Zenon DEF OpToRel
<1>4. PICK m \in S : g = n - m
  OBVIOUS
<1>5. \A y \in S : m >= y
  BY <1>3, <1>4
<1> QED BY <1>4, <1>5 DEF Max

\* What is on the wire after something was put on it or taken from it.
LEMMA DomainOfPut == ASSUME NEW bag, NEW S PROVE DOMAIN Put(bag, S) = DOMAIN bag \cup S
BY DEF Put, (+), SetToBag

LEMMA DomainOfTake == ASSUME NEW bag, NEW m PROVE DOMAIN Take(bag, m) \subseteq DOMAIN bag
BY DEF Take, (-), SetToBag

LEMMA PutKeepsWireOK ==
    ASSUME NEW bag, WireOK(bag), NEW S \in SUBSET Message
    PROVE  WireOK(Put(bag, S))
BY DEF WireOK, Put, (+), SetToBag

LEMMA TakeKeepsWireOK ==
    ASSUME NEW bag, WireOK(bag), NEW m
    PROVE  WireOK(Take(bag, m))
BY DEF WireOK, Take, (-), SetToBag

LEMMA RestrictKeepsWireOK ==
    ASSUME NEW bag, WireOK(bag), NEW S \in SUBSET DOMAIN bag
    PROVE  WireOK(Restrict(bag, S))
BY DEF WireOK, Restrict

\* An answer is delivered or lost; what is on the wire stays well-formed.
LEMMA DomainOfAnswer ==
    ASSUME NEW m, NEW a, net' = Answer(m, a)
    PROVE  DOMAIN net' \subseteq DOMAIN net \cup {a}
<1>1. DOMAIN Take(net, m) \subseteq DOMAIN net
  BY DomainOfTake
<1>2. DOMAIN Put(Take(net, m), {a}) = DOMAIN Take(net, m) \cup {a}
  BY DomainOfPut
<1> QED BY <1>1, <1>2 DEF Answer

LEMMA AnswerKeepsWireOK ==
    ASSUME WireOK(net), NEW m, NEW a \in Message
    PROVE  WireOK(Answer(m, a)) /\ DOMAIN Answer(m, a) \subseteq DOMAIN net \cup {a}
<1>1. WireOK(Take(net, m)) /\ DOMAIN Take(net, m) \subseteq DOMAIN net
  BY TakeKeepsWireOK, DomainOfTake
<1>2. WireOK(Put(Take(net, m), {a}))
  BY <1>1, PutKeepsWireOK
<1>3. DOMAIN Put(Take(net, m), {a}) = DOMAIN Take(net, m) \cup {a}
  BY DomainOfPut
<1> QED BY <1>1, <1>2, <1>3 DEF Answer

LEMMA SubSeqIsSeq ==
    ASSUME NEW S, NEW s \in Seq(S), NEW m \in Nat \ {0}, NEW n \in Int, n <= Len(s)
    PROVE  SubSeq(s, m, n) \in Seq(S)
<1>1. CASE m > n
  BY <1>1
<1>2. CASE m <= n
  BY <1>2, SubSeqProperties
<1> QED BY <1>1, <1>2

-----------------------------------------------------------------------------
(* Types *)

\* A log with entries of the right type stays one under _apply_committed and
\* _handle_append_entries.
LEMMA LogTypes ==
    ASSUME NEW lg \in Seq(Entry)
    PROVE  /\ LastTerm(lg) \in Nat
           /\ \A c \in Commands, t \in Nat : Append(lg, [term |-> t, cmd |-> c]) \in Seq(Entry)
           /\ \A m \in Message : m.type = "Append" /\ Consistent(m, lg) => LogAfter(m, lg) \in Seq(Entry)
<1>1. LastTerm(lg) \in Nat
  <2>1. CASE lg = <<>>
    BY <2>1 DEF LastTerm
  <2>2. CASE lg # <<>>
    <3>1. Len(lg) \in 1 .. Len(lg)
      BY <2>2, EmptySeq
    <3>2. lg[Len(lg)] \in Entry
      BY <3>1
    <3> QED BY <2>2, <3>2 DEF LastTerm, Entry
  <2> QED BY <2>1, <2>2
<1>2. \A c \in Commands, t \in Nat : Append(lg, [term |-> t, cmd |-> c]) \in Seq(Entry)
  BY DEF Entry
<1>3. ASSUME NEW m \in Message, m.type = "Append", Consistent(m, lg)
      PROVE  LogAfter(m, lg) \in Seq(Entry)
  <2>1. m.prev \in Nat /\ m.prev <= Len(lg) /\ m.entries \in Seq(Entry)
    BY <1>3 DEF Message, Consistent, VoteRequests, VoteAnswers, Appends, AppendAnswers
  <2>2. SubSeq(lg, 1, m.prev) \in Seq(Entry)
    BY <2>1, SubSeqIsSeq
  <2> QED BY <2>1, <2>2 DEF LogAfter
<1> QED BY <1>1, <1>2, <1>3

LEMMA AppendRequestsTyped ==
    ASSUME TypeOK, NEW i \in Nodes, NEW lg \in Seq(Entry)
    PROVE  AppendRequests(i, lg) \subseteq Message
<1> DEFINE prev(j) == nextIndex[i][j] - 1
<1>1. ASSUME NEW j \in Nodes
      PROVE  /\ prev(j) \in Nat
             /\ SubSeq(lg, prev(j) + 1, Len(lg)) \in Seq(Entry)
             /\ prev(j) \in 1 .. Len(lg) => lg[prev(j)].term \in Nat
  <2>1. nextIndex[i][j] \in Nat \ {0}
    BY DEF TypeOK
  <2>2. prev(j) \in Nat /\ prev(j) + 1 = nextIndex[i][j]
    BY <2>1
  <2>3. SubSeq(lg, prev(j) + 1, Len(lg)) \in Seq(Entry)
    BY <2>1, <2>2, SubSeqIsSeq
  <2>4. ASSUME prev(j) \in 1 .. Len(lg) PROVE lg[prev(j)].term \in Nat
    <3>1. lg[prev(j)] \in Entry
      BY <2>4
    <3> QED BY <3>1 DEF Entry
  <2> QED BY <2>2, <2>3, <2>4
<1>2. currentTerm[i] \in Nat /\ life[i] \in Nat /\ commitIndex[i] \in Nat
  BY DEF TypeOK
<1> DEFINE prevTerm(j) == IF prev(j) \in 1 .. Len(lg) THEN lg[prev(j)].term ELSE 0
           request(j) == [type |-> "Append", from |-> i, to |-> j, term |-> currentTerm[i],
                          life |-> life[i], prev |-> prev(j), prevTerm |-> prevTerm(j),
                          entries |-> SubSeq(lg, prev(j) + 1, Len(lg)),
                          commit |-> commitIndex[i]]
<1>3. ASSUME NEW j \in Nodes PROVE request(j) \in Appends
  <2>1. prevTerm(j) \in Nat
    BY <1>1
  <2> HIDE DEF prev, prevTerm
  <2> QED BY <1>1, <1>2, <2>1 DEF Appends
<1>4. AppendRequests(i, lg) = {request(j) : j \in Peers(i)}
  BY DEF AppendRequests
<1> QED BY <1>3, <1>4 DEF Message, Peers

\* What _apply_committed does to the callbacks, the futures and the callers.
LEMMA ApplyCommittedTyped ==
    ASSUME TypeOK, NEW i \in Nodes, NEW lg \in Seq(Entry), NEW commit \in Nat,
           commit <= Len(lg), ApplyCommitted(i, lg, commit)
    PROVE  /\ applied' \in [Nodes -> Seq(Entry)]
           /\ DOMAIN pending' = Nodes
           /\ \A j \in Nodes : \A n \in DOMAIN pending'[j] : n \in Nat /\ pending'[j][n] \in Commands
           /\ calls' \in [Nodes -> SUBSET [index : Nat, cmd : Commands]]
           /\ acked' \subseteq [node : Nodes, cmd : Commands]
<1>1. SubSeq(lg, Len(applied[i]) + 1, commit) \in Seq(Entry)
  BY SubSeqIsSeq DEF TypeOK
<1>2. applied' \in [Nodes -> Seq(Entry)]
  BY <1>1 DEF ApplyCommitted, TypeOK
<1>3. FuturesAt(i, commit) \subseteq DOMAIN pending[i]
  BY DEF FuturesAt
<1>4. /\ DOMAIN pending' = Nodes
      /\ \A j \in Nodes : \A n \in DOMAIN pending'[j] : n \in Nat /\ pending'[j][n] \in Commands
  BY DEF ApplyCommitted, TypeOK, Restrict
<1>5. calls' \in [Nodes -> SUBSET [index : Nat, cmd : Commands]]
  BY DEF ApplyCommitted, TypeOK
<1>6. acked' \subseteq [node : Nodes, cmd : Commands]
  BY <1>3 DEF ApplyCommitted, TypeOK
<1> QED BY <1>2, <1>4, <1>5, <1>6

LEMMA InitTyped == Init => TypeOK
<1> SUFFICES ASSUME Init PROVE TypeOK
  OBVIOUS
<1>1. WireOK(net)
  BY DEF Init, WireOK, EmptyBag, SetToBag
<1>2. election \in [Nodes -> ElectionRecord]
  BY DEF Init, NoElection, ElectionRecord
<1>3. log \in [Nodes -> Seq(Entry)] /\ applied \in [Nodes -> Seq(Entry)]
  BY DEF Init
<1>4. nextIndex \in [Nodes -> [Nodes -> Nat \ {0}]] /\ matchIndex \in [Nodes -> [Nodes -> Nat]]
  BY DEF Init
<1>5. \A i \in Nodes : DOMAIN pending[i] = {}
  BY DEF Init
<1> QED BY <1>1, <1>2, <1>3, <1>4, <1>5 DEF Init, TypeOK

\* The fields of a message on the wire.
LEMMA MessageFields ==
    ASSUME NEW m \in Message
    PROVE  /\ m.from \in Nodes /\ m.to \in Nodes /\ m.term \in Nat /\ m.life \in Nat
           /\ m.type = "VoteRequest" => m.lastIndex \in Nat /\ m.lastTerm \in Nat
           /\ m.type = "VoteAnswer" => m.granted \in BOOLEAN
           /\ m.type = "Append" => /\ m.prev \in Nat /\ m.prevTerm \in Nat /\ m.commit \in Nat
                                   /\ m.entries \in Seq(Entry)
           /\ m.type = "AppendAnswer" => /\ m.success \in BOOLEAN
                                         /\ m.prev \in Nat /\ m.count \in Nat
BY DEF Message, VoteRequests, VoteAnswers, Appends, AppendAnswers

LEMMA AdoptTermTyped ==
    ASSUME TypeOK, NEW m \in Message
    PROVE  /\ AdoptTerm(m).term \in Nat
           /\ AdoptTerm(m).state \in {"follower", "candidate", "leader"}
           /\ AdoptTerm(m).vote \in Nodes \cup {None}
           /\ AdoptTerm(m).leader \in Nodes \cup {None}
           /\ AdoptTerm(m).term >= currentTerm[m.to]
<1>1. m.to \in Nodes /\ m.term \in Nat /\ currentTerm[m.to] \in Nat
  BY MessageFields DEF TypeOK
<1>2. /\ Max({m.term, currentTerm[m.to]}) \in {m.term, currentTerm[m.to]}
      /\ Max({m.term, currentTerm[m.to]}) >= currentTerm[m.to]
  <2>1. m.term \in Int /\ currentTerm[m.to] \in Int
    BY <1>1
  <2> QED BY <2>1, MaxOfTwo, Zenon
<1> QED BY <1>1, <1>2 DEF AdoptTerm, TypeOK

LEMMA DeliverTyped ==
    ASSUME TypeOK, NEW m \in Message, Deliver(m)
    PROVE  TypeOK'
<1> USE DEF nodeVars, logVars, peerVars, callVars, pastVars
<1> DEFINE i == m.to
<1>0. i \in Nodes /\ m.from \in Nodes /\ m.term \in Nat /\ m.life \in Nat
  BY MessageFields
<1>1. CASE HandleVoteRequest(m)
  <2> DEFINE base  == AdoptTerm(m)
             grant == Grants(m, base.vote)
             answer == [type |-> "VoteAnswer", from |-> i, to |-> m.from, term |-> m.term,
                        life |-> m.life, granted |-> grant]
  <2>1. grant \in BOOLEAN
    BY DEF Grants
  <2>2. answer \in Message
    BY <1>0, <2>1 DEF Message, VoteAnswers
  <2>3. WireOK(net')
    BY <1>1, <2>2, AnswerKeepsWireOK DEF HandleVoteRequest, TypeOK
  <2>4. grants' \subseteq [voter : Nodes, cand : Nodes, term : Nat]
    <3>1. [voter |-> i, cand |-> m.from, term |-> m.term]
            \in [voter : Nodes, cand : Nodes, term : Nat]
      BY <1>0
    <3> QED BY <1>1, <3>1 DEF HandleVoteRequest, TypeOK
  <2>5. /\ state' \in [Nodes -> {"follower", "candidate", "leader"}]
        /\ currentTerm' \in [Nodes -> Nat]
        /\ votedFor' \in [Nodes -> Nodes \cup {None}]
        /\ leaderId' \in [Nodes -> Nodes \cup {None}]
    BY <1>0, <1>1, AdoptTermTyped DEF HandleVoteRequest, TypeOK
  <2> QED BY <1>1, <2>3, <2>4, <2>5 DEF HandleVoteRequest, TypeOK
<1>2. CASE ReceiveVote(m)
  <2> DEFINE e == election[i]
             votes == IF m.granted THEN e.votes \cup {m.from} ELSE e.votes
             after == [e EXCEPT !.awaiting = @ \ {m.from}, !.votes = votes]
  <2>1. WireOK(net')
    BY <1>2, TakeKeepsWireOK DEF ReceiveVote, TypeOK
  <2>2. e \in ElectionRecord
    BY <1>0 DEF TypeOK
  <2>3. after \in ElectionRecord
    BY <1>0, <2>2 DEF ElectionRecord
  <2>4. election' = [election EXCEPT ![i] = after]
    BY <1>0, <1>2, <2>2 DEF ReceiveVote, TypeOK, ElectionRecord
  <2>5. election' \in [Nodes -> ElectionRecord]
    BY <2>3, <2>4 DEF TypeOK
  <2> QED BY <1>2, <2>1, <2>5 DEF ReceiveVote, TypeOK
<1>3. CASE RefuseAppend(m)
  <2>1. AppendAnswer(m, currentTerm[i], FALSE) \in Message
    <3>1. m.prev \in Nat /\ Len(m.entries) \in Nat /\ currentTerm[i] \in Nat
      <4>1. m.prev \in Nat /\ m.entries \in Seq(Entry)
        BY <1>3, MessageFields DEF RefuseAppend
      <4>2. currentTerm[i] \in Nat
        BY <1>0 DEF TypeOK
      <4> QED BY <4>1, <4>2
    <3> QED BY <1>0, <3>1 DEF AppendAnswer, Message, AppendAnswers
  <2>2. WireOK(net')
    BY <1>3, <2>1, AnswerKeepsWireOK DEF RefuseAppend, TypeOK
  <2> QED BY <1>3, <2>2 DEF RefuseAppend, TypeOK
<1>4. CASE HandleAppend(m)
  <2> DEFINE success == Consistent(m, log[i])
             lg == IF success THEN LogAfter(m, log[i]) ELSE log[i]
             advances == success /\ m.commit > commitIndex[i]
             commit == IF advances THEN Min({m.commit, Len(lg)}) ELSE commitIndex[i]
  <2>1. /\ m.type = "Append" /\ m.prev \in Nat /\ m.commit \in Nat /\ m.entries \in Seq(Entry)
        /\ log[i] \in Seq(Entry) /\ commitIndex[i] \in Nat
    BY <1>0, <1>4, MessageFields DEF HandleAppend, TypeOK
  <2>2. success \in BOOLEAN
    BY DEF Consistent
  <2>3. lg \in Seq(Entry)
    BY <2>1, LogTypes
  <2>4. commit \in Nat /\ (advances => commit <= Len(lg))
    <3>1. m.commit \in Int /\ Len(lg) \in Int /\ Len(lg) \in Nat
      BY <2>1, <2>3
    <3>2. Min({m.commit, Len(lg)}) \in {m.commit, Len(lg)} /\ Min({m.commit, Len(lg)}) <= Len(lg)
      BY <3>1, MinOfTwo, Zenon
    <3> QED BY <2>1, <3>1, <3>2
  <2>5. AppendAnswer(m, m.term, success) \in Message
    BY <1>0, <2>1, <2>2 DEF AppendAnswer, Message, AppendAnswers
  <2>6. WireOK(net')
    BY <1>4, <2>5, AnswerKeepsWireOK DEF HandleAppend, TypeOK
  <2>7. log' \in [Nodes -> Seq(Entry)] /\ commitIndex' \in [Nodes -> Nat]
    BY <1>0, <1>4, <2>3, <2>4 DEF HandleAppend, TypeOK
  <2>8. IF advances THEN ApplyCommitted(i, lg, commit) ELSE UNCHANGED <<applied, callVars>>
    BY <1>4 DEF HandleAppend
  <2>9. /\ applied' \in [Nodes -> Seq(Entry)]
        /\ DOMAIN pending' = Nodes
        /\ \A j \in Nodes : \A n \in DOMAIN pending'[j] : n \in Nat /\ pending'[j][n] \in Commands
        /\ calls' \in [Nodes -> SUBSET [index : Nat, cmd : Commands]]
        /\ acked' \subseteq [node : Nodes, cmd : Commands]
    <3>1. CASE advances
      BY <1>0, <2>3, <2>4, <2>8, <3>1, ApplyCommittedTyped
    <3>2. CASE ~advances
      BY <2>8, <3>2 DEF TypeOK
    <3> QED BY <3>1, <3>2
  <2>10. accepted' \subseteq [node : Nodes, term : Nat]
    <3>1. [node |-> i, term |-> m.term] \in [node : Nodes, term : Nat]
      BY <1>0
    <3> QED BY <1>4, <3>1 DEF HandleAppend, TypeOK
  <2>11. /\ state' \in [Nodes -> {"follower", "candidate", "leader"}]
         /\ currentTerm' \in [Nodes -> Nat]
         /\ votedFor' \in [Nodes -> Nodes \cup {None}]
         /\ leaderId' \in [Nodes -> Nodes \cup {None}]
    BY <1>0, <1>4 DEF HandleAppend, RoleAfterAppend, TypeOK
  <2> QED BY <1>4, <2>6, <2>7, <2>9, <2>10, <2>11 DEF HandleAppend, TypeOK
<1>5. CASE StepDown(m)
  BY <1>0, <1>5, TakeKeepsWireOK DEF StepDown, TypeOK
<1>6. CASE AppendSucceeded(m)
  <2> DEFINE upTo == m.prev + m.count
             match == IF m.count > 0 THEN [matchIndex[i] EXCEPT ![m.from] = upTo]
                                     ELSE matchIndex[i]
             ready == IF state[i] = "leader" THEN Committable(i, match) ELSE {}
  <2>1. m.prev \in Nat /\ m.count \in Nat /\ upTo \in Nat /\ upTo + 1 \in Nat \ {0}
    BY <1>6, MessageFields DEF AppendSucceeded
  <2>2. WireOK(net')
    BY <1>6, TakeKeepsWireOK DEF AppendSucceeded, TypeOK
  <2>3. matchIndex' \in [Nodes -> [Nodes -> Nat]]
    BY <1>0, <1>6, <2>1 DEF AppendSucceeded, TypeOK
  <2>4. nextIndex' \in [Nodes -> [Nodes -> Nat \ {0}]]
    BY <1>0, <1>6, <2>1 DEF AppendSucceeded, TypeOK
  <2>5. log[i] \in Seq(Entry) /\ Len(log[i]) \in Nat /\ ready \subseteq 1 .. Len(log[i])
    <3>1. log[i] \in Seq(Entry) /\ commitIndex[i] \in Nat
      BY <1>0 DEF TypeOK
    <3>2. Committable(i, match) \subseteq commitIndex[i] + 1 .. Len(log[i])
      BY DEF Committable
    <3> QED BY <3>1, <3>2
  <2>6. CASE ready = {}
    <3>1. UNCHANGED <<commitIndex, applied, callVars>>
      BY <1>6, <2>6 DEF AppendSucceeded
    <3> QED BY <1>6, <2>2, <2>3, <2>4, <3>1 DEF AppendSucceeded, TypeOK
  <2>7. CASE ready # {}
    <3>1. Max(ready) \in 1 .. Len(log[i])
      BY <2>5, <2>7, MaxOfBounded
    <3>2. /\ commitIndex' = [commitIndex EXCEPT ![i] = Max(ready)]
          /\ ApplyCommitted(i, log[i], Max(ready))
      BY <1>6, <2>7 DEF AppendSucceeded
    <3>3. /\ applied' \in [Nodes -> Seq(Entry)]
          /\ DOMAIN pending' = Nodes
          /\ \A j \in Nodes : \A n \in DOMAIN pending'[j] : n \in Nat /\ pending'[j][n] \in Commands
          /\ calls' \in [Nodes -> SUBSET [index : Nat, cmd : Commands]]
          /\ acked' \subseteq [node : Nodes, cmd : Commands]
      BY <1>0, <2>5, <3>1, <3>2, ApplyCommittedTyped
    <3>4. commitIndex' \in [Nodes -> Nat]
      <4>1. Max(ready) \in Nat
        BY <3>1, <2>5
      <4> QED BY <3>2, <4>1 DEF TypeOK
    <3> QED BY <1>6, <2>2, <2>3, <2>4, <3>3, <3>4 DEF AppendSucceeded, TypeOK
  <2> QED BY <2>6, <2>7
<1>7. CASE AppendFailed(m)
  <2>1. \A k \in Nat \ {0} : NextAfterRefusal(k) \in Nat \ {0}
    <3> SUFFICES ASSUME NEW k \in Nat \ {0} PROVE NextAfterRefusal(k) \in Nat \ {0}
      OBVIOUS
    <3>1. 1 \in Int /\ k - 1 \in Int
      OBVIOUS
    <3>2. Max({1, k - 1}) \in {1, k - 1} /\ Max({1, k - 1}) >= 1
      BY <3>1, MaxOfTwo, Zenon
    <3> QED BY <3>1, <3>2 DEF NextAfterRefusal
  <2>2. nextIndex' \in [Nodes -> [Nodes -> Nat \ {0}]]
    <3>1. nextIndex \in [Nodes -> [Nodes -> Nat \ {0}]] /\ nextIndex[i][m.from] \in Nat \ {0}
      <4>1. nextIndex \in [Nodes -> [Nodes -> Nat \ {0}]]
        BY DEF TypeOK
      <4>2. nextIndex[i] \in [Nodes -> Nat \ {0}]
        BY <1>0, <4>1
      <4> QED BY <1>0, <4>1, <4>2
    <3>2. nextIndex' = [nextIndex EXCEPT ![i][m.from] = NextAfterRefusal(nextIndex[i][m.from])]
      BY <1>7 DEF AppendFailed
    <3> HIDE DEF i
    <3> QED BY <1>0, <2>1, <3>1, <3>2
  <2> QED BY <1>7, <2>2, TakeKeepsWireOK DEF AppendFailed, TypeOK
<1> QED BY <1>1, <1>2, <1>3, <1>4, <1>5, <1>6, <1>7 DEF Deliver

LEMMA NextTyped == TypeOK /\ [Next]_vars => TypeOK'
<1> SUFFICES ASSUME TypeOK, [Next]_vars PROVE TypeOK'
  OBVIOUS
<1> USE DEF nodeVars, logVars, peerVars, callVars, pastVars
<1>1. ASSUME NEW i \in Nodes, StartElection(i) PROVE TypeOK'
  <2> DEFINE request(j) ==
        [type |-> "VoteRequest", from |-> i, to |-> j, term |-> currentTerm[i] + 1,
         life |-> life[i], lastIndex |-> Len(log[i]), lastTerm |-> LastTerm(log[i])]
  <2>1. currentTerm[i] + 1 \in Nat /\ life[i] \in Nat /\ Len(log[i]) \in Nat
        /\ LastTerm(log[i]) \in Nat
    BY LogTypes DEF TypeOK
  <2>2. \A j \in Peers(i) : request(j) \in VoteRequests
    BY <2>1 DEF VoteRequests, Peers
  <2>3. WireOK(Put(net, {request(j) : j \in Peers(i)}))
    BY <2>2, PutKeepsWireOK DEF TypeOK, Message
  <2>4. WireOK(net')
    BY <1>1, <2>3 DEF StartElection
  <2>5. election' \in [Nodes -> ElectionRecord]
    BY <1>1, <2>1 DEF StartElection, TypeOK, ElectionRecord, Peers
  <2>6. grants' \subseteq [voter : Nodes, cand : Nodes, term : Nat]
    BY <1>1, <2>1 DEF StartElection, TypeOK
  <2> QED BY <1>1, <2>1, <2>4, <2>5, <2>6 DEF StartElection, TypeOK
<1>2. ASSUME NEW i \in Nodes, NEW j \in Peers(i), VoteTimeout(i, j) PROVE TypeOK'
  <2>1. WireOK(net')
    BY <1>2, RestrictKeepsWireOK DEF VoteTimeout, TypeOK
  <2>2. election[i] \in ElectionRecord
    BY DEF TypeOK
  <2>3. [election[i] EXCEPT !.awaiting = @ \ {j}] \in ElectionRecord
    BY <2>2 DEF ElectionRecord
  <2>4. election' = [election EXCEPT ![i] = [election[i] EXCEPT !.awaiting = @ \ {j}]]
    BY <1>2 DEF VoteTimeout, TypeOK
  <2>5. election' \in [Nodes -> ElectionRecord]
    BY <2>3, <2>4 DEF TypeOK
  <2> QED BY <1>2, <2>1, <2>5 DEF VoteTimeout, TypeOK
<1>3. ASSUME NEW i \in Nodes, FinishElection(i) PROVE TypeOK'
  <2>1. election' \in [Nodes -> ElectionRecord]
    BY <1>3 DEF FinishElection, TypeOK, NoElection, ElectionRecord
  <2>2. CASE Wins(i)
    <3>1. Len(log[i]) + 1 \in Nat \ {0} /\ currentTerm[i] \in Nat
      BY DEF TypeOK
    <3>2. elected' \subseteq [node : Nodes, term : Nat]
      BY <1>3, <2>2, <3>1 DEF FinishElection, TypeOK
    <3>3. nextIndex' \in [Nodes -> [Nodes -> Nat \ {0}]] /\ matchIndex' \in [Nodes -> [Nodes -> Nat]]
      <4>1. /\ nextIndex' = [nextIndex EXCEPT ![i] = [j \in Nodes |-> Len(log[i]) + 1]]
            /\ matchIndex' = [matchIndex EXCEPT ![i] = [j \in Nodes |-> 0]]
        BY <1>3, <2>2 DEF FinishElection
      <4>2. nextIndex \in [Nodes -> [Nodes -> Nat \ {0}]] /\ matchIndex \in [Nodes -> [Nodes -> Nat]]
        BY DEF TypeOK
      <4> QED BY <3>1, <4>1, <4>2
    <3>4. state' = [state EXCEPT ![i] = "leader"] /\ leaderId' = [leaderId EXCEPT ![i] = i]
      BY <1>3, <2>2 DEF FinishElection
    <3>5. UNCHANGED <<currentTerm, votedFor, logVars, callVars, grants, accepted, proposed, life, net>>
      BY <1>3 DEF FinishElection
    <3> QED BY <2>1, <3>2, <3>3, <3>4, <3>5 DEF TypeOK
  <2>3. CASE ~Wins(i)
    BY <1>3, <2>1, <2>3 DEF FinishElection, TypeOK
  <2> QED BY <2>2, <2>3
<1>4. ASSUME NEW i \in Nodes, Heartbeat(i) PROVE TypeOK'
  <2>1. WireOK(net')
    BY <1>4, AppendRequestsTyped, PutKeepsWireOK DEF Heartbeat, TypeOK
  <2> QED BY <1>4, <2>1 DEF Heartbeat, TypeOK
<1>5. ASSUME NEW i \in Nodes, NEW c \in Commands, Propose(i, c) PROVE TypeOK'
  <2> DEFINE lg == Append(log[i], [term |-> currentTerm[i], cmd |-> c])
  <2>1. lg \in Seq(Entry) /\ Len(lg) \in Nat
    BY LogTypes DEF TypeOK
  <2>2. WireOK(net')
    BY <1>5, <2>1, AppendRequestsTyped, PutKeepsWireOK DEF Propose, TypeOK
  <2>3. log' \in [Nodes -> Seq(Entry)]
    BY <1>5, <2>1 DEF Propose, TypeOK
  <2>4. /\ DOMAIN pending' = Nodes
        /\ \A k \in Nodes : \A n \in DOMAIN pending'[k] : n \in Nat /\ pending'[k][n] \in Commands
    BY <1>5, <2>1 DEF Propose, TypeOK
  <2>5. calls' \in [Nodes -> SUBSET [index : Nat, cmd : Commands]]
    BY <1>5, <2>1 DEF Propose, TypeOK
  <2> QED BY <1>5, <2>2, <2>3, <2>4, <2>5 DEF Propose, TypeOK
<1>6. ASSUME NEW i \in Nodes, NEW call \in calls[i], ProposeTimeout(i, call) PROVE TypeOK'
  BY <1>6 DEF ProposeTimeout, TypeOK, Restrict
<1>7. ASSUME NEW i \in Nodes, Restart(i) PROVE TypeOK'
  <2>1. WireOK(net')
    BY <1>7, RestrictKeepsWireOK DEF Restart, TypeOK
  <2>2. election' \in [Nodes -> ElectionRecord]
    BY <1>7 DEF Restart, TypeOK, NoElection, ElectionRecord
  <2>3. /\ DOMAIN pending' = Nodes
        /\ \A k \in Nodes : \A n \in DOMAIN pending'[k] : n \in Nat /\ pending'[k][n] \in Commands
    BY <1>7 DEF Restart, TypeOK
  <2>4. log' \in [Nodes -> Seq(Entry)] /\ applied' \in [Nodes -> Seq(Entry)]
    BY <1>7 DEF Restart, TypeOK
  <2>5. nextIndex' \in [Nodes -> [Nodes -> Nat \ {0}]] /\ matchIndex' \in [Nodes -> [Nodes -> Nat]]
    BY <1>7 DEF Restart, TypeOK
  <2>6. /\ state' \in [Nodes -> {"follower", "candidate", "leader"}]
        /\ currentTerm' \in [Nodes -> Nat] /\ commitIndex' \in [Nodes -> Nat]
        /\ votedFor' \in [Nodes -> Nodes \cup {None}]
        /\ leaderId' \in [Nodes -> Nodes \cup {None}]
        /\ life' \in [Nodes -> Nat]
    BY <1>7 DEF Restart, TypeOK
  <2>7. calls' \in [Nodes -> SUBSET [index : Nat, cmd : Commands]]
    BY <1>7 DEF Restart, TypeOK
  <2>8. UNCHANGED <<acked, pastVars>>
    BY <1>7 DEF Restart
  <2> QED BY <2>1, <2>2, <2>3, <2>4, <2>5, <2>6, <2>7, <2>8 DEF TypeOK
<1>8. ASSUME NEW m \in DOMAIN net, Deliver(m) PROVE TypeOK'
  <2>1. m \in Message
    BY DEF TypeOK, WireOK
  <2> QED BY <1>8, <2>1, DeliverTyped
<1>9. ASSUME NEW m \in DOMAIN net, Lose(m) PROVE TypeOK'
  BY <1>9, TakeKeepsWireOK DEF Lose, TypeOK
<1>10. CASE UNCHANGED vars
  BY <1>10 DEF vars, TypeOK
<1> QED BY <1>1, <1>2, <1>3, <1>4, <1>5, <1>6, <1>7, <1>8, <1>9, <1>10 DEF Next

\* The type invariant: whatever is lost, delayed, reordered or restarted, every
\* variable of every node and everything on the wire has its type.
THEOREM TypeCorrect == Spec => []TypeOK
<1> QED BY InitTyped, NextTyped, PTL DEF Spec

-----------------------------------------------------------------------------
(* Votes *)

\* A running election asks the other nodes, for a term that is the node's own as
\* long as it is a candidate, and the votes it has counted were given for it.
VotesCounted ==
    \A i \in Nodes : election[i].open =>
        /\ state[i] = "candidate" => election[i].term = currentTerm[i]
        /\ election[i].awaiting \subseteq Peers(i)
        /\ election[i].votes \subseteq Peers(i)
        /\ \A v \in election[i].votes \cup {i} : Voted(v, i, election[i].term)

\* A granting answer on the wire reports a vote that was given.
AnswersGranted ==
    \A m \in DOMAIN net :
        m.type = "VoteAnswer" /\ m.granted => Voted(m.from, m.to, m.term)

AcceptedIn(v, t) == [node |-> v, term |-> t] \in accepted

\* A node that was never restarted has voted in no term beyond its own, and of
\* its own term it remembers the vote unless an AppendEntries made it forget.
VotesHeld ==
    \A g \in grants : life[g.voter] = 0 =>
        /\ g.term <= currentTerm[g.voter]
        /\ g.term = currentTerm[g.voter] =>
             votedFor[g.voter] = g.cand \/ AcceptedIn(g.voter, g.term)

VoteInv ==
    /\ TypeOK
    /\ VotesCounted
    /\ AnswersGranted
    /\ VotesHeld
    /\ LeaderElectedByQuorum
    /\ SecondVoteExplained

\* Votes once given stay given.
LEMMA GrantsGrow == TypeOK /\ [Next]_vars => grants \subseteq grants'
BY ZenonT(60) DEF Next, vars, StartElection, VoteTimeout, FinishElection, Heartbeat, Propose, ProposeTimeout,
       Restart, Deliver, Lose, HandleVoteRequest, ReceiveVote, RefuseAppend, HandleAppend,
       StepDown, AppendSucceeded, AppendFailed, pastVars

LEMMA InitVotes == Init => VoteInv
<1> SUFFICES ASSUME Init PROVE VoteInv
  OBVIOUS
<1>1. TypeOK
  BY InitTyped
<1>2. grants = {} /\ elected = {} /\ DOMAIN net = {} /\ \A i \in Nodes : ~election[i].open
  BY DEF Init, EmptyBag, SetToBag, NoElection
<1> QED BY <1>1, <1>2 DEF VoteInv, VotesCounted, AnswersGranted, VotesHeld,
          LeaderElectedByQuorum, SecondVoteExplained

\* A leader elected with more votes than before has a quorum all the same.
LEMMA QuorumStays ==
    ASSUME LeaderElectedByQuorum, grants \subseteq grants', UNCHANGED elected
    PROVE  LeaderElectedByQuorum'
<1> SUFFICES ASSUME NEW e \in elected
             PROVE  Cardinality({v \in Nodes : Voted(v, e.node, e.term)'}) >= QuorumSize
  BY DEF LeaderElectedByQuorum, QuorumSize
<1> DEFINE before == {v \in Nodes : Voted(v, e.node, e.term)}
           after == {v \in Nodes : Voted(v, e.node, e.term)'}
<1>1. before \subseteq after /\ IsFiniteSet(after)
  BY NodesAssumption, FS_Subset DEF Voted
<1>2. Cardinality(before) <= Cardinality(after) /\ Cardinality(before) \in Nat
      /\ Cardinality(after) \in Nat
  BY <1>1, FS_Subset, FS_CardinalityType
<1>3. Cardinality(before) >= QuorumSize /\ QuorumSize \in Int
  BY NodesAssumption, FS_CardinalityType DEF LeaderElectedByQuorum, QuorumSize
<1> QED BY <1>2, <1>3

\* FinishElection makes a leader only of a node that a quorum voted for.
LEMMA WinnerHasQuorum ==
    ASSUME VoteInv, NEW i \in Nodes, election[i].open, Wins(i)
    PROVE  Cardinality({v \in Nodes : Voted(v, i, currentTerm[i])}) >= QuorumSize
<1> DEFINE S == election[i].votes
           voters == {v \in Nodes : Voted(v, i, currentTerm[i])}
<1>1. S \subseteq Nodes /\ i \notin S /\ S \cup {i} \subseteq voters
  BY DEF VoteInv, VotesCounted, Wins, Peers
<1>2. IsFiniteSet(S) /\ IsFiniteSet(voters)
  BY <1>1, NodesAssumption, FS_Subset
<1>3. Cardinality(S \cup {i}) = Cardinality(S) + 1
  BY <1>1, <1>2, FS_AddElement
<1>4. Cardinality(S \cup {i}) <= Cardinality(voters)
  BY <1>1, <1>2, FS_Subset
<1>5. Cardinality(S) + 1 >= QuorumSize
  BY DEF Wins
<1>6. Cardinality(S) \in Nat /\ Cardinality(voters) \in Nat /\ Cardinality(Nodes) \in Nat
  BY <1>2, NodesAssumption, FS_CardinalityType
<1>7. QuorumSize \in Int
  BY <1>6 DEF QuorumSize
<1> QED BY <1>3, <1>4, <1>5, <1>6, <1>7

\* Two leaders of one term share a voter, since two quorums intersect.
LEMMA QuorumsShareVoter ==
    TypeOK /\ LeaderElectedByQuorum /\ SecondVoteExplained => SplitTermExplained
<1> SUFFICES ASSUME TypeOK, LeaderElectedByQuorum, SecondVoteExplained,
                    NEW d \in elected, NEW e \in elected,
                    d.term = e.term, d.node # e.node
             PROVE  \E v \in Nodes :
                      /\ Voted(v, d.node, d.term) /\ Voted(v, e.node, d.term)
                      /\ [node |-> v, term |-> d.term] \in accepted \/ life[v] > 0
  BY DEF SplitTermExplained
<1> DEFINE S == {v \in Nodes : Voted(v, d.node, d.term)}
           T == {v \in Nodes : Voted(v, e.node, d.term)}
<1>1. IsFiniteSet(S) /\ IsFiniteSet(T)
  BY NodesAssumption, FS_Subset
<1>2. Cardinality(S) \in Nat /\ Cardinality(T) \in Nat /\ Cardinality(Nodes) \in Nat
  BY <1>1, NodesAssumption, FS_CardinalityType
<1>3. Cardinality(S) >= QuorumSize /\ Cardinality(T) >= QuorumSize
  BY DEF LeaderElectedByQuorum
<1>4. Cardinality(S) + Cardinality(T) > Cardinality(Nodes)
  BY <1>2, <1>3 DEF QuorumSize
<1>5. PICK v \in S \cap T : TRUE
  BY <1>4, NodesAssumption, FS_MajoritiesIntersect
<1>6. [node |-> v, term |-> d.term] \in accepted \/ life[v] > 0
  <2> DEFINE g == [voter |-> v, cand |-> d.node, term |-> d.term]
  <2>1. g \in grants /\ g.term = d.term
    BY <1>5 DEF Voted
  <2>2. v \in Nodes /\ d.node \in Nodes /\ e.node \in Nodes
    BY <1>5 DEF TypeOK
  <2>3. Voted(v, d.node, g.term) /\ Voted(v, e.node, g.term)
    BY <1>5, <2>1
  <2>4. [node |-> v, term |-> g.term] \in accepted \/ life[v] > 0
    BY <2>1, <2>2, <2>3 DEF SecondVoteExplained
  <2> QED BY <2>1, <2>4
<1> QED BY <1>5, <1>6

\* Nothing but an election, a vote or a restart touches what VoteInv says of
\* elections and votes.
LEMMA VotesUntouched ==
    ASSUME VoteInv, TypeOK',
           UNCHANGED <<currentTerm, votedFor, election, life, grants, accepted, elected>>,
           \A i \in Nodes : state'[i] = "candidate" => state[i] = "candidate",
           \A m \in DOMAIN net' : m.type = "VoteAnswer" => m \in DOMAIN net
    PROVE  VoteInv'
<1>1. VotesCounted'
  BY DEF VoteInv, VotesCounted, Voted
<1>2. AnswersGranted'
  BY DEF VoteInv, AnswersGranted, Voted
<1>3. VotesHeld'
  BY DEF VoteInv, VotesHeld, AcceptedIn
<1>4. LeaderElectedByQuorum'
  BY QuorumStays DEF VoteInv
<1>5. SecondVoteExplained'
  BY DEF VoteInv, SecondVoteExplained, Voted
<1> QED BY <1>1, <1>2, <1>3, <1>4, <1>5 DEF VoteInv

LEMMA VoteFields ==
    ASSUME TypeOK
    PROVE  /\ \A g \in grants : g.voter \in Nodes /\ g.cand \in Nodes /\ g.term \in Nat
           /\ \A v \in Nodes : currentTerm[v] \in Nat /\ life[v] \in Nat
BY DEF TypeOK

\* A node i goes to term t, not older than its own, with a vote that agrees with
\* what it has granted in t: what nodes remember of their votes stays right.
LEMMA HeldAfter ==
    ASSUME TypeOK, VotesHeld, UNCHANGED life, accepted \subseteq accepted',
           NEW i \in Nodes, NEW t \in Nat, NEW vote, currentTerm[i] <= t,
           currentTerm' = [currentTerm EXCEPT ![i] = t],
           votedFor' = [votedFor EXCEPT ![i] = vote],
           grants' \subseteq grants \cup {[voter |-> i, cand |-> vote, term |-> t]},
           life[i] = 0 => \A g \in grants : g.voter = i /\ g.term = t =>
                            vote = g.cand \/ AcceptedIn(i, t)'
    PROVE  VotesHeld'
<1> SUFFICES ASSUME NEW g \in grants', life[g.voter] = 0
             PROVE  /\ g.term <= currentTerm'[g.voter]
                    /\ g.term = currentTerm'[g.voter] =>
                         votedFor'[g.voter] = g.cand \/ AcceptedIn(g.voter, g.term)'
  BY DEF VotesHeld
<1>1. currentTerm'[i] = t /\ votedFor'[i] = vote /\ currentTerm[i] \in Nat
  BY DEF TypeOK
<1>2. CASE g \notin grants
  <2>1. g = [voter |-> i, cand |-> vote, term |-> t]
    BY <1>2
  <2>2. g.voter = i /\ g.cand = vote /\ g.term = t
    BY <2>1
  <2> QED BY <1>1, <2>2
<1>3. CASE g \in grants
  <2>1. g.voter \in Nodes /\ g.term \in Nat
    BY <1>3, VoteFields
  <2>2. /\ g.term <= currentTerm[g.voter]
        /\ g.term = currentTerm[g.voter] =>
             votedFor[g.voter] = g.cand \/ AcceptedIn(g.voter, g.term)
    BY <1>3 DEF VotesHeld
  <2>3. CASE g.voter # i
    <3>1. currentTerm'[g.voter] = currentTerm[g.voter] /\ votedFor'[g.voter] = votedFor[g.voter]
      BY <2>1, <2>3 DEF TypeOK
    <3> QED BY <2>2, <3>1 DEF AcceptedIn
  <2>4. CASE g.voter = i
    <3>1. g.term <= t
      BY <1>1, <2>1, <2>2, <2>4
    <3>2. g.term = t => vote = g.cand \/ AcceptedIn(i, t)'
      BY <1>3, <2>4
    <3> QED BY <1>1, <2>4, <3>1, <3>2
  <2> QED BY <2>3, <2>4
<1> QED BY <1>2, <1>3

\* Only answers and requests to vote are votes: appends are none.
LEMMA NoVoteAmongRequests ==
    ASSUME NEW i \in Nodes, NEW lg, NEW r \in AppendRequests(i, lg)
    PROVE  r.type # "VoteAnswer"
<1>1. r.type = "Append"
  BY DEF AppendRequests
<1> QED BY <1>1

\* A new vote, of voter v for c in term t, is the first of its term or is
\* explained.
LEMMA NewVoteExplained ==
    ASSUME VoteInv, NEW v \in Nodes, NEW c \in Nodes, NEW t \in Nat,
           grants' = grants \cup {[voter |-> v, cand |-> c, term |-> t]},
           UNCHANGED <<accepted, life>>,
           life[v] = 0 =>
             \A g \in grants : g.voter = v /\ g.term = t => g.cand = c \/ AcceptedIn(v, t)
    PROVE  SecondVoteExplained'
<1> DEFINE new == [voter |-> v, cand |-> c, term |-> t]
<1>1. ASSUME NEW w \in Nodes, NEW a \in Nodes, NEW b \in Nodes, NEW g \in grants',
             Voted(w, a, g.term)', Voted(w, b, g.term)', a # b, life[w] = 0
      PROVE  AcceptedIn(w, g.term)
  <2>1. CASE Voted(w, a, g.term) /\ Voted(w, b, g.term)
    <3>1. [voter |-> w, cand |-> a, term |-> g.term] \in grants
      BY <2>1 DEF Voted
    <3>2. PICK h \in grants : h = [voter |-> w, cand |-> a, term |-> g.term]
      BY <3>1
    <3>3. h.term = g.term
      BY <3>2
    <3>4. [node |-> w, term |-> h.term] \in accepted \/ life[w] > 0
      BY <1>1, <2>1, <3>2, <3>3 DEF VoteInv, SecondVoteExplained
    <3> QED BY <1>1, <3>3, <3>4 DEF AcceptedIn
  <2>2. CASE ~Voted(w, a, g.term)
    <3>1. w = v /\ a = c /\ g.term = t
      BY <1>1, <2>2 DEF Voted
    <3>2. [voter |-> v, cand |-> b, term |-> t] \in grants
      BY <1>1, <3>1 DEF Voted
    <3> QED BY <1>1, <3>1, <3>2
  <2>3. CASE ~Voted(w, b, g.term)
    <3>1. w = v /\ b = c /\ g.term = t
      BY <1>1, <2>3 DEF Voted
    <3>2. [voter |-> v, cand |-> a, term |-> t] \in grants
      BY <1>1, <3>1 DEF Voted
    <3> QED BY <1>1, <3>1, <3>2
  <2> QED BY <2>1, <2>2, <2>3
<1>2. \A w \in Nodes : life[w] \in Nat
  BY DEF VoteInv, TypeOK
<1> QED BY <1>1, <1>2 DEF SecondVoteExplained, AcceptedIn

LEMMA DeliverVotes ==
    ASSUME VoteInv, TypeOK, TypeOK', grants \subseteq grants',
           NEW m \in Message, m \in DOMAIN net, Deliver(m)
    PROVE  VoteInv'
<1> USE DEF nodeVars, logVars, peerVars, callVars, pastVars
<1> DEFINE i == m.to
<1>0. i \in Nodes /\ m.from \in Nodes /\ m.term \in Nat /\ currentTerm[i] \in Nat
  BY MessageFields DEF TypeOK
<1>1. CASE HandleVoteRequest(m)
  <2> DEFINE base  == AdoptTerm(m)
             grant == Grants(m, base.vote)
             new   == [voter |-> i, cand |-> m.from, term |-> m.term]
             answer == [type |-> "VoteAnswer", from |-> i, to |-> m.from, term |-> m.term,
                        life |-> m.life, granted |-> grant]
  <2>1. /\ currentTerm' = [currentTerm EXCEPT ![i] = base.term]
        /\ state' = [state EXCEPT ![i] = base.state]
        /\ votedFor' = [votedFor EXCEPT ![i] = IF grant THEN m.from ELSE base.vote]
        /\ grants' = IF grant THEN grants \cup {new} ELSE grants
        /\ UNCHANGED <<accepted, elected, election, life>>
    BY <1>1 DEF HandleVoteRequest
  <2>2. /\ m.term > currentTerm[i] =>
             base.term = m.term /\ base.state = "follower" /\ base.vote = None
        /\ ~(m.term > currentTerm[i]) =>
             base.term = currentTerm[i] /\ base.state = state[i] /\ base.vote = votedFor[i]
    <3>1. m.term \in Int /\ currentTerm[i] \in Int
      BY <1>0
    <3>2. /\ Max({m.term, currentTerm[i]}) \in {m.term, currentTerm[i]}
          /\ Max({m.term, currentTerm[i]}) >= m.term
          /\ Max({m.term, currentTerm[i]}) >= currentTerm[i]
      BY <3>1, MaxOfTwo, Zenon
    <3>3. base.term = Max({m.term, currentTerm[i]})
      BY DEF AdoptTerm
    <3> QED BY <1>0, <3>2, <3>3 DEF AdoptTerm
  <2>3. grant => m.term >= currentTerm[i] /\ base.vote \in {None, m.from}
    BY DEF Grants
  <2>4. VotesCounted'
    BY <1>0, <2>1, <2>2 DEF VoteInv, VotesCounted, Voted, TypeOK
  <2>5. DOMAIN net' \subseteq DOMAIN net \cup {answer}
    <3>1. answer \in Message
      BY <1>0, MessageFields DEF Message, VoteAnswers, Grants
    <3> QED BY <1>1, <3>1, AnswerKeepsWireOK DEF HandleVoteRequest, TypeOK
  <2>6. AnswersGranted'
    BY <2>1, <2>5 DEF VoteInv, AnswersGranted, Voted
  <2>7. ASSUME grant, life[i] = 0, NEW g \in grants, g.voter = i, g.term = m.term
        PROVE  g.cand = m.from \/ AcceptedIn(i, m.term)
    <3>1. g.term <= currentTerm[i]
      BY <2>7 DEF VoteInv, VotesHeld
    <3>2. m.term = currentTerm[i] /\ votedFor[i] \in {None, m.from}
      BY <1>0, <2>2, <2>3, <2>7, <3>1
    <3>3. votedFor[i] = g.cand \/ AcceptedIn(i, m.term)
      BY <2>7, <3>2 DEF VoteInv, VotesHeld
    <3>4. g.cand \in Nodes
      BY DEF TypeOK
    <3> QED BY <3>2, <3>3, <3>4, NodesAssumption
  <2>8. SecondVoteExplained'
    <3>1. CASE grant
      BY <1>0, <2>1, <2>7, <3>1, NewVoteExplained
    <3>2. CASE ~grant
      BY <2>1, <3>2 DEF VoteInv, SecondVoteExplained, Voted
    <3> QED BY <3>1, <3>2
  <2>9. VotesHeld'
    <3>1. CASE grant
      <4>1. base.term = m.term
        BY <1>0, <2>2, <2>3, <3>1
      <4>2. currentTerm' = [currentTerm EXCEPT ![i] = m.term]
            /\ votedFor' = [votedFor EXCEPT ![i] = m.from] /\ grants' = grants \cup {new}
        BY <2>1, <3>1, <4>1
      <4>3. life[i] = 0 => \A g \in grants : g.voter = i /\ g.term = m.term =>
                             m.from = g.cand \/ AcceptedIn(i, m.term)'
        BY <2>1, <2>7, <3>1 DEF AcceptedIn
      <4> HIDE DEF i
      <4> QED BY <1>0, <2>1, <2>3, <3>1, <4>2, <4>3, HeldAfter DEF VoteInv
    <3>2. CASE ~grant
      <4>1. PICK t \in Nat, vote \in {votedFor[i], None} :
              /\ t = base.term /\ vote = base.vote
              /\ currentTerm[i] <= t /\ (t = currentTerm[i] => vote = votedFor[i])
        BY <1>0, <2>2
      <4>2. /\ currentTerm' = [currentTerm EXCEPT ![i] = t]
            /\ votedFor' = [votedFor EXCEPT ![i] = vote]
            /\ grants' = grants
        BY <2>1, <3>2, <4>1
      <4>3. ASSUME life[i] = 0, NEW g \in grants, g.voter = i, g.term = t
            PROVE  vote = g.cand \/ AcceptedIn(i, t)'
        <5>1. /\ g.term <= currentTerm[i]
              /\ g.term = currentTerm[i] => votedFor[i] = g.cand \/ AcceptedIn(i, g.term)
          BY <4>3 DEF VoteInv, VotesHeld
        <5>2. t = currentTerm[i]
          BY <1>0, <4>1, <4>3, <5>1
        <5> QED BY <2>1, <4>1, <4>3, <5>1, <5>2 DEF AcceptedIn
      <4>4. grants' \subseteq grants \cup {[voter |-> i, cand |-> vote, term |-> t]}
            /\ accepted \subseteq accepted' /\ TypeOK /\ VotesHeld /\ UNCHANGED life
        BY <2>1, <4>2 DEF VoteInv
      <4> HIDE DEF i, base
      <4> QED BY <1>0, <4>1, <4>2, <4>3, <4>4, HeldAfter
    <3> QED BY <3>1, <3>2
  <2>10. LeaderElectedByQuorum'
    BY <2>1, QuorumStays DEF VoteInv
  <2> QED BY <2>4, <2>6, <2>8, <2>9, <2>10 DEF VoteInv
<1>2. CASE ReceiveVote(m)
  <2>1. election[i].open /\ election[i].term = m.term /\ m.from \in election[i].awaiting
    BY <1>2 DEF ReceiveVote, Awaits
  <2>2. /\ \A k \in Nodes \ {i} : election'[k] = election[k]
        /\ election'[i].open = election[i].open
        /\ election'[i].term = election[i].term
        /\ election'[i].awaiting = election[i].awaiting \ {m.from}
        /\ election'[i].votes =
             IF m.granted THEN election[i].votes \cup {m.from} ELSE election[i].votes
    <3> DEFINE votes == IF m.granted THEN election[i].votes \cup {m.from} ELSE election[i].votes
               after == [election[i] EXCEPT !.awaiting = @ \ {m.from}, !.votes = votes]
    <3>1. election[i] \in ElectionRecord /\ election \in [Nodes -> ElectionRecord]
      BY <1>0 DEF TypeOK
    <3>2. election' = [election EXCEPT ![i] = after]
      BY <1>0, <1>2, <3>1 DEF ReceiveVote, ElectionRecord
    <3>3. /\ after.open = election[i].open /\ after.term = election[i].term
          /\ after.awaiting = election[i].awaiting \ {m.from} /\ after.votes = votes
      BY <3>1 DEF ElectionRecord
    <3> HIDE DEF after
    <3>4. election'[i] = after /\ \A k \in Nodes \ {i} : election'[k] = election[k]
      BY <1>0, <3>1, <3>2
    <3> QED BY <3>3, <3>4
  <2>3. UNCHANGED <<state, currentTerm, votedFor, grants, accepted, elected, life>>
        /\ DOMAIN net' \subseteq DOMAIN net
    BY <1>2, DomainOfTake DEF ReceiveVote
  <2>4. m.granted => Voted(m.from, i, election[i].term)
    BY <1>2, <2>1 DEF ReceiveVote, VoteInv, AnswersGranted
  <2>5. VotesCounted'
    <3> SUFFICES ASSUME NEW k \in Nodes, election'[k].open
                 PROVE  /\ state[k] = "candidate" => election'[k].term = currentTerm[k]
                        /\ election'[k].awaiting \subseteq Peers(k)
                        /\ election'[k].votes \subseteq Peers(k)
                        /\ \A v \in election'[k].votes \cup {k} : Voted(v, k, election'[k].term)
      BY <2>3 DEF VotesCounted, Voted
    <3>1. CASE k # i
      BY <2>2, <3>1 DEF VoteInv, VotesCounted
    <3>2. CASE k = i
      BY <1>0, <2>1, <2>2, <2>4, <3>2 DEF VoteInv, VotesCounted
    <3> QED BY <3>1, <3>2
  <2>6. AnswersGranted' /\ VotesHeld' /\ SecondVoteExplained'
    BY <2>3 DEF VoteInv, AnswersGranted, VotesHeld, SecondVoteExplained, Voted, AcceptedIn
  <2>7. LeaderElectedByQuorum'
    BY <2>3, QuorumStays DEF VoteInv
  <2> QED BY <2>5, <2>6, <2>7 DEF VoteInv
<1>3. CASE RefuseAppend(m)
  <2>1. DOMAIN net' \subseteq DOMAIN net \cup {AppendAnswer(m, currentTerm[i], FALSE)}
    <3> DEFINE answer == AppendAnswer(m, currentTerm[i], FALSE)
    <3>1. net' = Answer(m, answer)
      BY <1>3 DEF RefuseAppend
    <3> HIDE DEF answer
    <3>2. DOMAIN net' \subseteq DOMAIN net \cup {answer}
      BY <3>1, DomainOfAnswer
    <3> QED BY <3>2 DEF answer
  <2>2. \A r \in DOMAIN net' : r.type = "VoteAnswer" => r \in DOMAIN net
    BY <2>1 DEF AppendAnswer
  <2> QED BY <1>3, <2>2, VotesUntouched DEF RefuseAppend
<1>4. CASE HandleAppend(m)
  <2>1. /\ m.term >= currentTerm[i]
        /\ currentTerm' = [currentTerm EXCEPT ![i] = m.term]
        /\ state' = [state EXCEPT ![i] = "follower"]
        /\ votedFor' = [votedFor EXCEPT ![i] = None]
        /\ accepted' = accepted \cup {[node |-> i, term |-> m.term]}
        /\ UNCHANGED <<grants, elected, election, life>>
    BY <1>4 DEF HandleAppend, RoleAfterAppend
  <2>2. VotesCounted'
    BY <1>0, <2>1 DEF VoteInv, VotesCounted, Voted, TypeOK
  <2>3. DOMAIN net' \subseteq DOMAIN net \cup {AppendAnswer(m, m.term, Consistent(m, log[i]))}
    <3>1. net' = Answer(m, AppendAnswer(m, m.term, Consistent(m, log[i])))
      BY <1>4 DEF HandleAppend
    <3> QED BY <3>1, DomainOfAnswer
  <2>4. \A r \in DOMAIN net' : r.type = "VoteAnswer" => r \in DOMAIN net
    BY <2>3 DEF AppendAnswer
  <2>5. AnswersGranted'
    BY <2>1, <2>4 DEF VoteInv, AnswersGranted, Voted
  <2>6. VotesHeld'
    <3>1. accepted \subseteq accepted' /\ AcceptedIn(i, m.term)'
      BY <2>1 DEF AcceptedIn
    <3> HIDE DEF i
    <3> QED BY <1>0, <2>1, <3>1, HeldAfter DEF VoteInv
  <2>7. SecondVoteExplained' /\ LeaderElectedByQuorum'
    BY <2>1, QuorumStays DEF VoteInv, SecondVoteExplained, Voted
  <2> QED BY <2>2, <2>5, <2>6, <2>7 DEF VoteInv
<1>5. CASE StepDown(m)
  <2>1. /\ m.term > currentTerm[i]
        /\ currentTerm' = [currentTerm EXCEPT ![i] = m.term]
        /\ state' = [state EXCEPT ![i] = "follower"]
        /\ votedFor' = [votedFor EXCEPT ![i] = None]
        /\ UNCHANGED <<grants, accepted, elected, election, life>>
        /\ DOMAIN net' \subseteq DOMAIN net
    BY <1>5, DomainOfTake DEF StepDown
  <2>2. VotesCounted'
    BY <1>0, <2>1 DEF VoteInv, VotesCounted, Voted, TypeOK
  <2>3. VotesHeld'
    <3>1. \A g \in grants : g.voter = i /\ life[i] = 0 => g.term # m.term
      BY <1>0, <2>1, VoteFields DEF VoteInv, VotesHeld
    <3>2. currentTerm[i] <= m.term /\ accepted \subseteq accepted' /\ UNCHANGED life
          /\ grants' \subseteq grants \cup {[voter |-> i, cand |-> None, term |-> m.term]}
      BY <1>0, <2>1
    <3>3. \A g \in grants : life[i] = 0 /\ g.voter = i /\ g.term = m.term =>
            None = g.cand \/ AcceptedIn(i, m.term)'
      BY <3>1
    <3> HIDE DEF i
    <3> QED BY <1>0, <2>1, <3>2, <3>3, HeldAfter DEF VoteInv
  <2>4. AnswersGranted' /\ SecondVoteExplained' /\ LeaderElectedByQuorum'
    BY <2>1, QuorumStays DEF VoteInv, AnswersGranted, SecondVoteExplained, Voted
  <2> QED BY <2>2, <2>3, <2>4 DEF VoteInv
<1>6. CASE AppendSucceeded(m)
  BY <1>6, DomainOfTake, VotesUntouched DEF AppendSucceeded
<1>7. CASE AppendFailed(m)
  BY <1>7, DomainOfTake, VotesUntouched DEF AppendFailed
<1> QED BY <1>1, <1>2, <1>3, <1>4, <1>5, <1>6, <1>7 DEF Deliver

LEMMA NextVotes == VoteInv /\ [Next]_vars => VoteInv'
<1> SUFFICES ASSUME VoteInv, [Next]_vars PROVE VoteInv'
  OBVIOUS
<1> USE DEF nodeVars, logVars, peerVars, callVars, pastVars
<1>0. TypeOK /\ TypeOK' /\ grants \subseteq grants'
  BY NextTyped, GrantsGrow DEF VoteInv
<1>1. ASSUME NEW i \in Nodes, StartElection(i) PROVE VoteInv'
  <2> DEFINE t == currentTerm[i] + 1
  <2>1. /\ currentTerm[i] \in Nat /\ t \in Nat
        /\ currentTerm' = [currentTerm EXCEPT ![i] = t]
        /\ state' = [state EXCEPT ![i] = "candidate"]
        /\ votedFor' = [votedFor EXCEPT ![i] = i]
        /\ election' = [election EXCEPT ![i] =
                          [open |-> TRUE, term |-> t, awaiting |-> Peers(i), votes |-> {}]]
        /\ grants' = grants \cup {[voter |-> i, cand |-> i, term |-> t]}
        /\ UNCHANGED <<accepted, elected, life>>
    BY <1>0, <1>1 DEF StartElection, TypeOK
  <2>2. VotesCounted'
    BY <1>0, <2>1 DEF VoteInv, VotesCounted, Voted, TypeOK, Peers
  <2>3. \A m \in DOMAIN net' : m.type = "VoteAnswer" => m \in DOMAIN net
    <3> DEFINE request(j) == [type |-> "VoteRequest", from |-> i, to |-> j, term |-> t,
                              life |-> life[i], lastIndex |-> Len(log[i]),
                              lastTerm |-> LastTerm(log[i])]
    <3>1. net' = Put(net, {request(j) : j \in Peers(i)})
      BY <1>1 DEF StartElection
    <3>2. \A r \in {request(j) : j \in Peers(i)} : r.type = "VoteRequest"
      OBVIOUS
    <3>3. DOMAIN net' = DOMAIN net \cup {request(j) : j \in Peers(i)}
      BY <3>1, DomainOfPut
    <3> QED BY <3>2, <3>3
  <2>4. AnswersGranted'
    BY <1>0, <2>3 DEF VoteInv, AnswersGranted, Voted
  <2>5. \A g \in grants : g.voter = i /\ life[i] = 0 => g.term < t
    BY <1>0, <2>1, VoteFields DEF VoteInv, VotesHeld
  <2>6. VotesHeld'
    <3>1. \A g \in grants : g.voter = i /\ life[i] = 0 => g.term # t
      BY <1>0, <2>1, <2>5, VoteFields
    <3>2. currentTerm[i] <= t
      BY <2>1
    <3> HIDE DEF t
    <3> QED BY <1>0, <2>1, <3>1, <3>2, HeldAfter DEF VoteInv
  <2>7. SecondVoteExplained'
    <3>1. \A g \in grants : g.voter = i /\ life[i] = 0 => g.term # t
      BY <1>0, <2>1, <2>5, VoteFields
    <3> HIDE DEF t
    <3> QED BY <2>1, <3>1, NewVoteExplained
  <2>8. LeaderElectedByQuorum'
    BY <1>0, <2>1, QuorumStays DEF VoteInv
  <2> QED BY <1>0, <2>2, <2>4, <2>6, <2>7, <2>8 DEF VoteInv
<1>2. ASSUME NEW i \in Nodes, NEW j \in Peers(i), VoteTimeout(i, j) PROVE VoteInv'
  <2>1. /\ \A k \in Nodes : /\ election'[k].open = election[k].open
                            /\ election'[k].term = election[k].term
                            /\ election'[k].votes = election[k].votes
                            /\ election'[k].awaiting \subseteq election[k].awaiting
        /\ UNCHANGED <<state, currentTerm, votedFor, grants, accepted, elected, life>>
        /\ DOMAIN net' \subseteq DOMAIN net
    <3>1. election[i] \in ElectionRecord /\ election \in [Nodes -> ElectionRecord]
      BY <1>0 DEF TypeOK
    <3> DEFINE after == [election[i] EXCEPT !.awaiting = @ \ {j}]
    <3>2. election' = [election EXCEPT ![i] = after]
      BY <1>2, <3>1 DEF VoteTimeout
    <3>3. /\ after.open = election[i].open /\ after.term = election[i].term
          /\ after.awaiting = election[i].awaiting \ {j} /\ after.votes = election[i].votes
      BY <3>1 DEF ElectionRecord
    <3> HIDE DEF after
    <3>7. election'[i] = after /\ \A k \in Nodes \ {i} : election'[k] = election[k]
      BY <3>1, <3>2
    <3>4. UNCHANGED <<state, currentTerm, votedFor, grants, accepted, elected, life>>
      BY <1>2 DEF VoteTimeout
    <3>5. DOMAIN net' \subseteq DOMAIN net
      BY <1>2 DEF VoteTimeout, Restrict
    <3>6. ASSUME NEW k \in Nodes
          PROVE  /\ election'[k].open = election[k].open
                 /\ election'[k].term = election[k].term
                 /\ election'[k].votes = election[k].votes
                 /\ election'[k].awaiting \subseteq election[k].awaiting
      BY <3>3, <3>7
    <3> QED BY <3>4, <3>5, <3>6
  <2>2. VotesCounted'
    BY <2>1 DEF VoteInv, VotesCounted, Voted
  <2>3. AnswersGranted'
    BY <2>1 DEF VoteInv, AnswersGranted, Voted
  <2>4. VotesHeld'
    BY <2>1 DEF VoteInv, VotesHeld, AcceptedIn
  <2>5. LeaderElectedByQuorum' /\ SecondVoteExplained'
    BY <1>0, <2>1, QuorumStays DEF VoteInv, SecondVoteExplained, Voted
  <2> QED BY <1>0, <2>2, <2>3, <2>4, <2>5 DEF VoteInv
<1>3. ASSUME NEW i \in Nodes, FinishElection(i) PROVE VoteInv'
  <2>1. /\ election[i].open
        /\ election' = [election EXCEPT ![i] = NoElection]
        /\ UNCHANGED <<currentTerm, votedFor, grants, accepted, life, net>>
        /\ \A k \in Nodes : state'[k] = "candidate" => state[k] = "candidate"
    BY <1>0, <1>3 DEF FinishElection, TypeOK
  <2>2. VotesCounted'
    BY <1>0, <2>1 DEF VoteInv, VotesCounted, Voted, TypeOK, NoElection
  <2>3. AnswersGranted' /\ VotesHeld' /\ SecondVoteExplained'
    BY <2>1 DEF VoteInv, AnswersGranted, VotesHeld, SecondVoteExplained, Voted, AcceptedIn
  <2>4. LeaderElectedByQuorum'
    <3>1. CASE Wins(i)
      <4>1. elected' = elected \cup {[node |-> i, term |-> currentTerm[i]]}
        BY <1>3, <3>1 DEF FinishElection
      <4>2. Cardinality({v \in Nodes : Voted(v, i, currentTerm[i])}) >= QuorumSize
        BY <2>1, <3>1, WinnerHasQuorum
      <4>3. \A e \in elected :
              Cardinality({v \in Nodes : Voted(v, e.node, e.term)}) >= QuorumSize
        BY DEF VoteInv, LeaderElectedByQuorum
      <4>4. \A e \in elected' :
              Cardinality({v \in Nodes : Voted(v, e.node, e.term)}) >= QuorumSize
        BY <4>1, <4>2, <4>3
      <4>5. \A v, c, t : Voted(v, c, t)' = Voted(v, c, t)
        BY <2>1 DEF Voted
      <4> QED BY <4>4, <4>5 DEF LeaderElectedByQuorum, QuorumSize
    <3>2. CASE ~Wins(i)
      BY <1>0, <1>3, <3>2, QuorumStays DEF FinishElection, VoteInv
    <3> QED BY <3>1, <3>2
  <2> QED BY <1>0, <2>2, <2>3, <2>4 DEF VoteInv
<1>4. ASSUME NEW i \in Nodes, Heartbeat(i) PROVE VoteInv'
  <2>1. \A m \in DOMAIN net' : m.type = "VoteAnswer" => m \in DOMAIN net
    BY <1>4, DomainOfPut, NoVoteAmongRequests, ZenonT(60) DEF Heartbeat
  <2> QED BY <1>0, <1>4, <2>1, VotesUntouched DEF Heartbeat
<1>5. ASSUME NEW i \in Nodes, NEW c \in Commands, Propose(i, c) PROVE VoteInv'
  <2>1. \A m \in DOMAIN net' : m.type = "VoteAnswer" => m \in DOMAIN net
    BY <1>5, DomainOfPut, NoVoteAmongRequests, ZenonT(60) DEF Propose
  <2> QED BY <1>0, <1>5, <2>1, VotesUntouched DEF Propose
<1>6. ASSUME NEW i \in Nodes, NEW call \in calls[i], ProposeTimeout(i, call) PROVE VoteInv'
  BY <1>0, <1>6, VotesUntouched DEF ProposeTimeout
<1>7. ASSUME NEW i \in Nodes, Restart(i) PROVE VoteInv'
  <2>1. /\ life' = [life EXCEPT ![i] = @ + 1]
        /\ state' = [state EXCEPT ![i] = "follower"]
        /\ currentTerm' = [currentTerm EXCEPT ![i] = 0]
        /\ votedFor' = [votedFor EXCEPT ![i] = None]
        /\ election' = [election EXCEPT ![i] = NoElection]
        /\ UNCHANGED <<grants, accepted, elected>>
    BY <1>7 DEF Restart
  <2>2. DOMAIN net' \subseteq DOMAIN net
    BY <1>7 DEF Restart, Restrict
  <2>3. life[i] \in Nat /\ life'[i] > 0 /\ \A k \in Nodes \ {i} : life'[k] = life[k]
    BY <1>0, <2>1 DEF TypeOK
  <2>4. VotesCounted'
    BY <1>0, <2>1 DEF VoteInv, VotesCounted, Voted, TypeOK, NoElection
  <2>5. AnswersGranted'
    BY <2>1, <2>2 DEF VoteInv, AnswersGranted, Voted
  <2>6. VotesHeld'
    <3> SUFFICES ASSUME NEW g \in grants, life'[g.voter] = 0
                 PROVE  /\ g.term <= currentTerm'[g.voter]
                        /\ g.term = currentTerm'[g.voter] =>
                             votedFor'[g.voter] = g.cand \/ AcceptedIn(g.voter, g.term)'
      BY <2>1 DEF VotesHeld
    <3>1. g.voter \in Nodes /\ g.voter # i
      BY <1>0, <2>3, VoteFields
    <3>2. /\ life[g.voter] = 0
          /\ currentTerm'[g.voter] = currentTerm[g.voter]
          /\ votedFor'[g.voter] = votedFor[g.voter]
      BY <1>0, <2>1, <2>3, <3>1 DEF TypeOK
    <3> QED BY <2>1, <3>2 DEF VoteInv, VotesHeld, AcceptedIn
  <2>7. SecondVoteExplained'
    BY <2>1, <2>3 DEF VoteInv, SecondVoteExplained, Voted
  <2>8. LeaderElectedByQuorum'
    BY <1>0, <2>1, QuorumStays DEF VoteInv
  <2> QED BY <1>0, <2>4, <2>5, <2>6, <2>7, <2>8 DEF VoteInv
<1>8. ASSUME NEW m \in DOMAIN net, Deliver(m) PROVE VoteInv'
  <2>1. m \in Message
    BY <1>0 DEF TypeOK, WireOK
  <2> QED BY <1>0, <1>8, <2>1, DeliverVotes
<1>9. ASSUME NEW m \in DOMAIN net, Lose(m) PROVE VoteInv'
  BY <1>0, <1>9, DomainOfTake, VotesUntouched DEF Lose
<1>10. CASE UNCHANGED vars
  BY <1>0, <1>10, VotesUntouched DEF vars
<1> QED BY <1>1, <1>2, <1>3, <1>4, <1>5, <1>6, <1>7, <1>8, <1>9, <1>10 DEF Next

\* VoteInv is the inductive invariant behind the next three theorems.
LEMMA VotesInvariant == Spec => []VoteInv
<1> QED BY InitVotes, NextVotes, PTL DEF Spec

\* A leader of a term has the votes of a quorum for that term.
THEOREM ElectedByQuorum == Spec => []LeaderElectedByQuorum
<1>1. VoteInv => LeaderElectedByQuorum
  BY DEF VoteInv
<1> QED BY <1>1, VotesInvariant, PTL

\* A node gives two votes in one term only after it accepted an AppendEntries of
\* that term or was restarted.
THEOREM SecondVotes == Spec => []SecondVoteExplained
<1>1. VoteInv => SecondVoteExplained
  BY DEF VoteInv
<1> QED BY <1>1, VotesInvariant, PTL

\* Two leaders of one term share a voter that forgot its first vote in one of
\* these two ways: without them Raft's Election Safety holds.
THEOREM SplitTerms == Spec => []SplitTermExplained
<1>1. VoteInv => SplitTermExplained
  BY QuorumsShareVoter DEF VoteInv
<1> QED BY <1>1, VotesInvariant, PTL

-----------------------------------------------------------------------------
(* Terms *)

LEMMA NextTerms ==
    TypeOK /\ [Next]_vars =>
        \A i \in Nodes : life'[i] = life[i] => currentTerm'[i] >= currentTerm[i]
<1> SUFFICES ASSUME TypeOK, [Next]_vars, NEW k \in Nodes, life'[k] = life[k]
             PROVE  currentTerm'[k] >= currentTerm[k]
  OBVIOUS
<1> USE DEF nodeVars, logVars, peerVars, callVars, pastVars
<1>0. currentTerm \in [Nodes -> Nat] /\ life \in [Nodes -> Nat]
  BY DEF TypeOK
<1>1. ASSUME NEW i \in Nodes, StartElection(i) PROVE currentTerm'[k] >= currentTerm[k]
  <2>1. currentTerm' = [currentTerm EXCEPT ![i] = currentTerm[i] + 1]
    BY <1>1 DEF StartElection
  <2> QED BY <1>0, <2>1
<1>2. ASSUME NEW i \in Nodes, Restart(i) PROVE currentTerm'[k] >= currentTerm[k]
  <2>1. life' = [life EXCEPT ![i] = @ + 1] /\ currentTerm' = [currentTerm EXCEPT ![i] = 0]
    BY <1>2 DEF Restart
  <2>2. k # i
    BY <1>0, <2>1
  <2> QED BY <1>0, <2>1, <2>2
<1>3. ASSUME NEW m \in DOMAIN net, Deliver(m) PROVE currentTerm'[k] >= currentTerm[k]
  <2>1. m.to \in Nodes /\ m.term \in Nat
    BY MessageFields DEF TypeOK, WireOK
  <2>2. CASE HandleVoteRequest(m)
    <3>1. currentTerm' = [currentTerm EXCEPT ![m.to] = AdoptTerm(m).term]
      BY <2>2 DEF HandleVoteRequest
    <3>2. AdoptTerm(m).term = Max({m.term, currentTerm[m.to]})
      BY DEF AdoptTerm
    <3>3. m.term \in Int /\ currentTerm[m.to] \in Int
      BY <1>0, <2>1
    <3>4. Max({m.term, currentTerm[m.to]}) >= currentTerm[m.to]
      BY <3>3, MaxOfTwo, Zenon
    <3> QED BY <1>0, <2>1, <3>1, <3>2, <3>4
  <2>3. CASE HandleAppend(m)
    <3>1. currentTerm' = [currentTerm EXCEPT ![m.to] = m.term] /\ m.term >= currentTerm[m.to]
      BY <2>3 DEF HandleAppend
    <3> QED BY <1>0, <2>1, <3>1
  <2>4. CASE StepDown(m)
    <3>1. currentTerm' = [currentTerm EXCEPT ![m.to] = m.term] /\ m.term > currentTerm[m.to]
      BY <2>4 DEF StepDown
    <3> QED BY <1>0, <2>1, <3>1
  <2>5. CASE ReceiveVote(m) \/ RefuseAppend(m) \/ AppendSucceeded(m) \/ AppendFailed(m)
    <3>1. ReceiveVote(m) => UNCHANGED currentTerm
      BY DEF ReceiveVote
    <3>2. RefuseAppend(m) => UNCHANGED currentTerm
      BY DEF RefuseAppend
    <3>3. AppendSucceeded(m) => UNCHANGED currentTerm
      BY DEF AppendSucceeded
    <3>4. AppendFailed(m) => UNCHANGED currentTerm
      BY DEF AppendFailed
    <3> QED BY <1>0, <2>5, <3>1, <3>2, <3>3, <3>4
  <2> QED BY <1>3, <2>2, <2>3, <2>4, <2>5 DEF Deliver
<1>4. CASE UNCHANGED currentTerm
  BY <1>0, <1>4
<1> QED BY <1>1, <1>2, <1>3, <1>4 DEF Next, vars, VoteTimeout, FinishElection, Heartbeat,
          Propose, ProposeTimeout, Lose

\* A node that is not restarted never goes back to an older term.
THEOREM TermsGrow == Spec => TermsOnlyGrow
<1>1. TypeOK /\ TypeOK' /\ [Next]_vars =>
        [\A i \in Nodes : life'[i] = life[i] => currentTerm'[i] >= currentTerm[i]]_vars
  BY NextTerms
<1> QED BY <1>1, TypeCorrect, PTL DEF Spec, TermsOnlyGrow

-----------------------------------------------------------------------------
(* Logs *)

\* A run of entries s behind an entry of term t at index p, link by link: each
\* entry at its index with the term of the entry before it (0 before the first).
LinksOf(s, p, t) ==
    {[index |-> p + k, prev |-> IF k = 1 THEN t ELSE s[k - 1].term, entry |-> s[k]] :
        k \in DOMAIN s}

LogLinks(lg) == LinksOf(lg, 0, 0)

\* The AppendEntries on the wire, and every link in a log or on the wire.
Sent == {m \in DOMAIN net : m.type = "Append"}
SentLinks(m) == LinksOf(m.entries, m.prev, m.prevTerm)
Links == (UNION {LogLinks(log[i]) : i \in Nodes}) \cup (UNION {SentLinks(m) : m \in Sent})

\* The case Log Matching speaks of.
Spared == ElectionSafety /\ \A i \in Nodes : life[i] = 0

\* One entry was written at an index in a term, behind one other.
OneWriting ==
    \A a, b \in Links : a.index = b.index /\ a.entry.term = b.entry.term => a = b

\* Only a term with a leader has entries, and a leader has those of its term.
LinksElected == \A a \in Links : \E e \in elected : e.term = a.entry.term
LeaderHasAll ==
    \A i \in Nodes : state[i] = "leader" =>
        \A a \in Links : a.entry.term = currentTerm[i] => a.index <= Len(log[i])

LeadersElected ==
    \A i \in Nodes : state[i] = "leader" => [node |-> i, term |-> currentTerm[i]] \in elected

\* Who was elected is not a candidate of that term again, and in no earlier one.
ElectedBefore ==
    \A e \in elected : life[e.node] = 0 =>
        /\ e.term <= currentTerm[e.node]
        /\ e.term = currentTerm[e.node] => state[e.node] # "candidate"

\* Nothing comes before the first entry of a log.
HeadsOnWire == \A m \in Sent : m.prev = 0 => m.prevTerm = 0

LogInv ==
    /\ LeadersElected
    /\ ElectedBefore
    /\ HeadsOnWire
    /\ Spared => OneWriting /\ LinksElected /\ LeaderHasAll

\* The links of a run, by index.
LEMMA LinkAt ==
    ASSUME NEW s, NEW p, NEW t, NEW k \in DOMAIN s
    PROVE  [index |-> p + k, prev |-> IF k = 1 THEN t ELSE s[k - 1].term, entry |-> s[k]]
             \in LinksOf(s, p, t)
BY DEF LinksOf

\* One entry more makes one link more.
LEMMA AppendedLinks ==
    ASSUME NEW lg \in Seq(Entry), NEW e \in Entry
    PROVE  LogLinks(Append(lg, e)) \subseteq
             LogLinks(lg) \cup {[index |-> Len(lg) + 1, prev |-> LastTerm(lg), entry |-> e]}
<1> DEFINE new == Append(lg, e)
           link == [index |-> Len(lg) + 1, prev |-> LastTerm(lg), entry |-> e]
<1>1. /\ Len(lg) \in Nat /\ DOMAIN lg = 1 .. Len(lg) /\ DOMAIN new = 1 .. Len(lg) + 1
      /\ new[Len(lg) + 1] = e /\ \A k \in 1 .. Len(lg) : new[k] = lg[k]
  OBVIOUS
<1> SUFFICES ASSUME NEW a \in LinksOf(new, 0, 0) PROVE a \in LinksOf(lg, 0, 0) \cup {link}
  BY DEF LogLinks
<1>2. PICK k \in DOMAIN new :
        a = [index |-> 0 + k, prev |-> IF k = 1 THEN 0 ELSE new[k - 1].term, entry |-> new[k]]
  BY DEF LinksOf
<1> HIDE DEF new
<1>3. CASE k \in 1 .. Len(lg)
  <2>1. k = 1 \/ k - 1 \in 1 .. Len(lg)
    BY <1>1, <1>3
  <2>2. a = [index |-> 0 + k, prev |-> IF k = 1 THEN 0 ELSE lg[k - 1].term, entry |-> lg[k]]
    BY <1>1, <1>2, <1>3, <2>1
  <2> QED BY <1>1, <1>3, <2>2, LinkAt
<1>4. CASE k = Len(lg) + 1
  <2>1. LastTerm(lg) = IF k = 1 THEN 0 ELSE new[k - 1].term
    <3>1. CASE lg = <<>>
      BY <1>4, <3>1 DEF LastTerm
    <3>2. CASE lg # <<>>
      <4>1. Len(lg) # 0
        BY <3>2, EmptySeq
      <4>2. k # 1 /\ k - 1 = Len(lg) /\ new[k - 1] = lg[Len(lg)]
        BY <1>1, <1>4, <4>1
      <4> QED BY <3>2, <4>2 DEF LastTerm
    <3> QED BY <3>1, <3>2
  <2>2. 0 + k = Len(lg) + 1 /\ new[k] = e
    BY <1>1, <1>4
  <2> QED BY <1>2, <2>1, <2>2
<1> QED BY <1>1, <1>2, <1>3, <1>4

\* What a concatenation holds.
LEMMA ConcatAt ==
    ASSUME NEW a \in Seq(Entry), NEW b \in Seq(Entry)
    PROVE  /\ DOMAIN (a \o b) = 1 .. Len(a) + Len(b)
           /\ \A k \in 1 .. Len(a) : (a \o b)[k] = a[k]
           /\ \A k \in 1 .. Len(b) : (a \o b)[Len(a) + k] = b[k]
<1>1. Len(a) \in Nat /\ Len(b) \in Nat
  OBVIOUS
<1> QED BY <1>1

\* A follower's log gets its links from what it was and from the message.
LEMMA AfterLinks ==
    ASSUME NEW lg \in Seq(Entry), NEW m \in Message, m.type = "Append", Consistent(m, lg),
           m.prev = 0 => m.prevTerm = 0
    PROVE  LogLinks(LogAfter(m, lg)) \subseteq LogLinks(lg) \cup SentLinks(m)
<1> DEFINE p == m.prev
           es == m.entries
           head == SubSeq(lg, 1, p)
           new == head \o es
<1>1. p \in Nat /\ es \in Seq(Entry) /\ Len(es) \in Nat /\ DOMAIN es = 1 .. Len(es)
  BY MessageFields
<1>2. /\ Len(lg) \in Nat /\ DOMAIN lg = 1 .. Len(lg) /\ p <= Len(lg)
      /\ p # 0 => lg[p].term = m.prevTerm
  BY <1>1 DEF Consistent
<1>3. head \in Seq(Entry) /\ Len(head) = p /\ \A k \in 1 .. p : head[k] = lg[k]
  BY <1>1, <1>2
<1>4. /\ DOMAIN new = 1 .. p + Len(es)
      /\ \A k \in 1 .. p : new[k] = lg[k]
      /\ \A k \in 1 .. Len(es) : new[p + k] = es[k]
  <2> HIDE DEF head
  <2>1. /\ DOMAIN (head \o es) = 1 .. Len(head) + Len(es)
        /\ \A k \in 1 .. Len(head) : (head \o es)[k] = head[k]
        /\ \A k \in 1 .. Len(es) : (head \o es)[Len(head) + k] = es[k]
    BY <1>1, <1>3, ConcatAt
  <2> QED BY <1>3, <2>1
<1>5. CASE es = <<>>
  BY <1>5 DEF LogAfter
<1>6. CASE es # <<>>
  <2>1. LogAfter(m, lg) = new
    BY <1>6 DEF LogAfter
  <2> SUFFICES ASSUME NEW a \in LinksOf(new, 0, 0)
               PROVE  a \in LinksOf(lg, 0, 0) \cup LinksOf(es, p, m.prevTerm)
    BY <2>1 DEF LogLinks, SentLinks
  <2>2. PICK k \in DOMAIN new :
          a = [index |-> 0 + k, prev |-> IF k = 1 THEN 0 ELSE new[k - 1].term, entry |-> new[k]]
    BY DEF LinksOf
  <2> HIDE DEF new, p, es
  <2>3. CASE k <= p
    <3>1. k \in 1 .. Len(lg) /\ (k = 1 \/ k - 1 \in 1 .. p) /\ k \in 1 .. p
      BY <1>1, <1>2, <1>4, <2>3
    <3>2. a = [index |-> 0 + k, prev |-> IF k = 1 THEN 0 ELSE lg[k - 1].term, entry |-> lg[k]]
      BY <1>4, <2>2, <3>1
    <3> QED BY <1>2, <3>1, <3>2, LinkAt
  <2>4. CASE k > p
    <3> DEFINE n == k - p
    <3>1. n \in 1 .. Len(es) /\ p + n = k /\ 0 + k = p + n
      BY <1>1, <1>4, <2>4
    <3>2. new[k] = es[n]
      BY <1>4, <3>1
    <3>3. (IF k = 1 THEN 0 ELSE new[k - 1].term) = IF n = 1 THEN m.prevTerm ELSE es[n - 1].term
      <4>1. CASE n = 1 /\ p = 0
        BY <3>1, <4>1 DEF p
      <4>2. CASE n = 1 /\ p # 0
        <5>1. k # 1 /\ k - 1 = p /\ p \in 1 .. p
          BY <1>1, <3>1, <4>2
        <5>2. new[k - 1] = lg[p]
          BY <1>4, <5>1
        <5> QED BY <1>2, <4>2, <5>1, <5>2
      <4>3. CASE n # 1
        <5>1. k # 1 /\ k - 1 = p + (n - 1) /\ n - 1 \in 1 .. Len(es)
          BY <1>1, <3>1, <4>3
        <5>2. new[k - 1] = es[n - 1]
          BY <1>4, <5>1
        <5> QED BY <4>3, <5>1, <5>2
      <4> QED BY <4>1, <4>2, <4>3
    <3>4. a = [index |-> p + n, prev |-> IF n = 1 THEN m.prevTerm ELSE es[n - 1].term,
               entry |-> es[n]]
      BY <2>2, <3>1, <3>2, <3>3
    <3> HIDE DEF n
    <3> QED BY <1>1, <3>1, <3>4, LinkAt
  <2> QED BY <1>1, <1>4, <2>3, <2>4
<1> QED BY <1>5, <1>6

\* The requests of a broadcast: where they come from and go to, and what they
\* carry is part of the sender's log.
LEMMA RequestFields ==
    ASSUME TypeOK, NEW i \in Nodes, NEW lg \in Seq(Entry), NEW m \in AppendRequests(i, lg)
    PROVE  /\ m.type = "Append" /\ m.from = i /\ m.to \in Peers(i)
           /\ m.term = currentTerm[i] /\ m.life = life[i] /\ m.commit = commitIndex[i]
           /\ m.prev \in Nat
           /\ m.prevTerm = IF m.prev \in 1 .. Len(lg) THEN lg[m.prev].term ELSE 0
           /\ m.entries = SubSeq(lg, m.prev + 1, Len(lg))
<1>1. PICK j \in Peers(i) :
        m = [type |-> "Append", from |-> i, to |-> j, term |-> currentTerm[i],
             life |-> life[i], prev |-> nextIndex[i][j] - 1,
             prevTerm |-> IF nextIndex[i][j] - 1 \in 1 .. Len(lg)
                          THEN lg[nextIndex[i][j] - 1].term ELSE 0,
             entries |-> SubSeq(lg, nextIndex[i][j] - 1 + 1, Len(lg)),
             commit |-> commitIndex[i]]
  BY DEF AppendRequests
<1>2. nextIndex[i][j] - 1 \in Nat
  <2>1. nextIndex[i] \in [Nodes -> Nat \ {0}] /\ j \in Nodes
    BY DEF TypeOK, Peers
  <2>2. nextIndex[i][j] \in Nat \ {0}
    BY <2>1
  <2> QED BY <2>2
<1> QED BY <1>1, <1>2

\* The entries of such a request, one by one.
LEMMA RequestEntries ==
    ASSUME NEW lg \in Seq(Entry), NEW p \in Nat
    PROVE  /\ SubSeq(lg, p + 1, Len(lg)) \in Seq(Entry)
           /\ \A k \in DOMAIN SubSeq(lg, p + 1, Len(lg)) :
                k \in Nat \ {0} /\ p + k \in 1 .. Len(lg) /\ SubSeq(lg, p + 1, Len(lg))[k] = lg[p + k]
<1> DEFINE es == SubSeq(lg, p + 1, Len(lg))
<1>1. Len(lg) \in Nat /\ p + 1 \in Nat \ {0}
  OBVIOUS
<1>2. CASE p + 1 <= Len(lg)
  <2>1. es \in Seq(Entry) /\ Len(es) = Len(lg) - (p + 1) + 1
        /\ \A k \in 1 .. Len(lg) - (p + 1) + 1 : es[k] = lg[p + 1 + k - 1]
    BY <1>1, <1>2
  <2> HIDE DEF es
  <2>2. DOMAIN es = 1 .. Len(lg) - p
    BY <1>1, <2>1
  <2>3. \A k \in DOMAIN es : k \in Nat \ {0} /\ p + k \in 1 .. Len(lg) /\ es[k] = lg[p + k]
    BY <1>1, <2>1, <2>2
  <2> QED BY <2>1, <2>3 DEF es
<1>3. CASE ~(p + 1 <= Len(lg))
  <2>1. es = <<>>
    BY <1>1, <1>3
  <2> QED BY <2>1
<1> QED BY <1>2, <1>3

LEMMA RequestLinks ==
    ASSUME TypeOK, NEW i \in Nodes, NEW lg \in Seq(Entry), NEW m \in AppendRequests(i, lg)
    PROVE  SentLinks(m) \subseteq LogLinks(lg) /\ (m.prev = 0 => m.prevTerm = 0)
<1> DEFINE p == m.prev
           es == m.entries
<1>1. /\ p \in Nat /\ es = SubSeq(lg, p + 1, Len(lg))
      /\ m.prevTerm = IF p \in 1 .. Len(lg) THEN lg[p].term ELSE 0
  BY RequestFields
<1>2. Len(lg) \in Nat /\ DOMAIN lg = 1 .. Len(lg)
  OBVIOUS
<1>3. es \in Seq(Entry)
      /\ \A k \in DOMAIN es : k \in Nat \ {0} /\ p + k \in 1 .. Len(lg) /\ es[k] = lg[p + k]
  BY <1>1, RequestEntries, SMTT(30)
<1>4. ASSUME NEW a \in LinksOf(es, p, m.prevTerm) PROVE a \in LinksOf(lg, 0, 0)
  <2>1. PICK k \in DOMAIN es :
          a = [index |-> p + k, prev |-> IF k = 1 THEN m.prevTerm ELSE es[k - 1].term, entry |-> es[k]]
    BY <1>4 DEF LinksOf
  <2> HIDE DEF p, es
  <2>8. k \in Nat /\ p \in Nat
    BY <1>1, <1>3
  <2>2. k \in 1 .. Len(es) /\ Len(es) \in Nat /\ p + k \in 1 .. Len(lg) /\ es[k] = lg[p + k]
    BY <1>3
  <2>3. (IF k = 1 THEN m.prevTerm ELSE es[k - 1].term)
          = IF p + k = 1 THEN 0 ELSE lg[(p + k) - 1].term
    <3>1. CASE k = 1
      <4>1. p = 0 \/ p \in 1 .. Len(lg)
        BY <1>1, <1>2, <2>2, <3>1
      <4>2. (p + k) - 1 = p /\ (p + k = 1 <=> p = 0)
        BY <1>1, <3>1
      <4> QED BY <1>1, <1>2, <3>1, <4>1, <4>2
    <3>2. CASE k # 1
      <4>1. k - 1 \in DOMAIN es /\ p + (k - 1) = (p + k) - 1 /\ p + k # 1
        <5>1. k - 1 \in 1 .. Len(es)
          BY <2>2, <2>8, <3>2
        <5>2. p + (k - 1) = (p + k) - 1 /\ p + k # 1
          BY <2>2, <2>8, <3>2
        <5>3. k - 1 \in DOMAIN es
          BY <1>3, <5>1
        <5> QED BY <5>2, <5>3
      <4>2. es[k - 1] = lg[p + (k - 1)]
        BY <1>3, <4>1
      <4> QED BY <3>2, <4>1, <4>2
    <3> QED BY <3>1, <3>2
  <2>4. a = [index |-> 0 + (p + k), prev |-> IF p + k = 1 THEN 0 ELSE lg[(p + k) - 1].term,
             entry |-> lg[p + k]]
    BY <2>1, <2>2, <2>3, <2>8
  <2> DEFINE n == p + k
  <2>5. n \in DOMAIN lg
    BY <1>2, <2>2
  <2>6. a = [index |-> 0 + n, prev |-> IF n = 1 THEN 0 ELSE lg[n - 1].term, entry |-> lg[n]]
    BY <2>4, Zenon
  <2> HIDE DEF n
  <2> QED BY <2>5, <2>6, LinkAt
<1>5. p = 0 => m.prevTerm = 0
  BY <1>1, <1>2
<1> QED BY <1>4, <1>5 DEF SentLinks, LogLinks

\* No step undoes an election or a restart.
LEMMA PastGrows ==
    TypeOK /\ [Next]_vars =>
        elected \subseteq elected' /\ \A i \in Nodes : life'[i] = 0 => life[i] = 0
<1> SUFFICES ASSUME TypeOK, [Next]_vars
             PROVE  elected \subseteq elected' /\ \A i \in Nodes : life'[i] = 0 => life[i] = 0
  OBVIOUS
<1> USE DEF pastVars
<1>1. ASSUME NEW i \in Nodes, FinishElection(i)
      PROVE  elected \subseteq elected' /\ UNCHANGED life
  BY <1>1 DEF FinishElection
<1>2. ASSUME NEW i \in Nodes, Restart(i)
      PROVE  /\ UNCHANGED elected
             /\ \A j \in Nodes : life'[j] = 0 => life[j] = 0
  <2>1. life' = [life EXCEPT ![i] = @ + 1] /\ UNCHANGED elected
    BY <1>2 DEF Restart
  <2>2. life \in [Nodes -> Nat]
    BY DEF TypeOK
  <2> QED BY <2>1, <2>2
<1>3. CASE UNCHANGED <<elected, life>>
  BY <1>3
<1> QED BY <1>1, <1>2, <1>3, ZenonT(60) DEF Next, vars, StartElection, VoteTimeout, Heartbeat, Propose,
       ProposeTimeout, Deliver, Lose, HandleVoteRequest, ReceiveVote, RefuseAppend, HandleAppend,
       StepDown, AppendSucceeded, AppendFailed

LEMMA SparedBefore ==
    ASSUME TypeOK, [Next]_vars, Spared'
    PROVE  Spared
BY PastGrows DEF Spared, ElectionSafety

\* A link is in a log or in an AppendEntries on the wire.
LEMMA LinkWhere ==
    \A a : a \in Links <=> \/ \E i \in Nodes : a \in LogLinks(log[i])
                           \/ \E m \in Sent : a \in SentLinks(m)
<1> TAKE a
<1> DEFINE logged == UNION {LogLinks(log[i]) : i \in Nodes}
           sent == UNION {SentLinks(m) : m \in Sent}
<1>1. a \in logged <=> \E i \in Nodes : a \in LogLinks(log[i])
  OBVIOUS
<1>2. a \in sent <=> \E m \in Sent : a \in SentLinks(m)
  OBVIOUS
<1>3. Links = logged \cup sent
  BY DEF Links
<1> HIDE DEF logged, sent
<1> QED BY <1>1, <1>2, <1>3

LEMMA LinksOfLog == \A i \in Nodes : LogLinks(log[i]) \subseteq Links
BY LinkWhere

LEMMA LinksOfSent == \A m \in Sent : SentLinks(m) \subseteq Links
BY LinkWhere

\* The same in the next state.
LEMMA LinkNext ==
    \A a : a \in Links' => \/ \E i \in Nodes : a \in LogLinks(log'[i])
                           \/ \E m \in Sent' : a \in SentLinks(m)
<1> TAKE a
<1> DEFINE logged == UNION {LogLinks(log'[i]) : i \in Nodes}
           sent == UNION {SentLinks(m) : m \in Sent'}
<1>1. Links' = logged \cup sent
  BY DEF Links, LogLinks, SentLinks, LinksOf
<1>2. a \in logged => \E i \in Nodes : a \in LogLinks(log'[i])
  OBVIOUS
<1>3. a \in sent => \E m \in Sent' : a \in SentLinks(m)
  OBVIOUS
<1> HIDE DEF logged, sent
<1> QED BY <1>1, <1>2, <1>3

\* Indices are numbers.
LEMMA LinkIndex ==
    ASSUME TypeOK, NEW a \in Links
    PROVE  a.index \in Int
<1>1. CASE \E j \in Nodes : a \in LogLinks(log[j])
  <2>1. PICK j \in Nodes : a \in LinksOf(log[j], 0, 0)
    BY <1>1 DEF LogLinks
  <2>2. PICK k \in DOMAIN log[j] : a.index = 0 + k
    BY <2>1 DEF LinksOf
  <2>3. log[j] \in Seq(Entry)
    BY DEF TypeOK
  <2> QED BY <2>2, <2>3
<1>2. CASE \E m \in Sent : a \in SentLinks(m)
  <2>1. PICK m \in Sent : a \in LinksOf(m.entries, m.prev, m.prevTerm)
    BY <1>2 DEF SentLinks
  <2>2. PICK k \in DOMAIN m.entries : a.index = m.prev + k
    BY <2>1 DEF LinksOf
  <2>3. m.entries \in Seq(Entry) /\ m.prev \in Nat
    BY MessageFields DEF Sent, TypeOK, WireOK
  <2> QED BY <2>2, <2>3
<1> QED BY <1>1, <1>2, LinkWhere

\* Nothing is written where every log and message holds what it held.
LEMMA LinksKept ==
    ASSUME \A i \in Nodes : LogLinks(log'[i]) \subseteq Links,
           \A m \in Sent' : m \in Sent \/ SentLinks(m) \subseteq Links
    PROVE  Links' \subseteq Links
<1> SUFFICES ASSUME NEW a, a \in Links' PROVE a \in Links
  OBVIOUS
<1> QED BY LinkNext, LinksOfSent

\* A step that writes no entry and elects nobody: leaders that are left keep
\* their logs, candidates are new ones or candidates of a term they had.
LEMMA LogsKept ==
    ASSUME TypeOK, LogInv, [Next]_vars, elected' = elected,
           \A i \in Nodes : state'[i] = "leader" =>
               /\ state[i] = "leader" /\ currentTerm'[i] = currentTerm[i]
               /\ Len(log'[i]) >= Len(log[i]),
           \A i \in Nodes : state'[i] = "candidate" =>
               \/ state[i] = "candidate" /\ currentTerm'[i] = currentTerm[i]
               \/ currentTerm'[i] > currentTerm[i],
           Links' \subseteq Links,
           \A m \in Sent' : m \in Sent \/ (m.prev = 0 => m.prevTerm = 0)
    PROVE  LogInv'
<1>0. /\ currentTerm \in [Nodes -> Nat] /\ log \in [Nodes -> Seq(Entry)]
      /\ elected \subseteq [node : Nodes, term : Nat]
  BY DEF TypeOK
<1>5. currentTerm' \in [Nodes -> Nat] /\ log' \in [Nodes -> Seq(Entry)]
  BY NextTyped DEF TypeOK
<1>6. \A i \in Nodes : life'[i] = 0 => life[i] = 0 /\ currentTerm'[i] >= currentTerm[i]
  BY PastGrows, NextTerms
<1>1. LeadersElected'
  BY DEF LogInv, LeadersElected
<1>2. ElectedBefore'
  <2> SUFFICES ASSUME NEW e \in elected, life'[e.node] = 0
               PROVE  /\ e.term <= currentTerm'[e.node]
                      /\ e.term = currentTerm'[e.node] => state'[e.node] # "candidate"
    BY DEF ElectedBefore
  <2>1. e.node \in Nodes /\ e.term \in Nat
    BY <1>0
  <2>2. life[e.node] = 0 /\ currentTerm'[e.node] >= currentTerm[e.node]
    BY <1>6, <2>1
  <2>3. /\ e.term <= currentTerm[e.node]
        /\ e.term = currentTerm[e.node] => state[e.node] # "candidate"
    BY <2>2 DEF LogInv, ElectedBefore
  <2>4. currentTerm[e.node] \in Nat /\ currentTerm'[e.node] \in Nat
    BY <1>0, <1>5, <2>1
  <2> QED BY <2>1, <2>2, <2>3, <2>4
<1>3. HeadsOnWire'
  BY DEF LogInv, HeadsOnWire
<1>4. ASSUME Spared' PROVE OneWriting' /\ LinksElected' /\ LeaderHasAll'
  <2>1. Spared /\ OneWriting /\ LinksElected /\ LeaderHasAll
    BY <1>4, SparedBefore DEF LogInv
  <2>2. OneWriting' /\ LinksElected'
    BY <2>1 DEF OneWriting, LinksElected
  <2>3. LeaderHasAll'
    <3> SUFFICES ASSUME NEW i \in Nodes, state'[i] = "leader", NEW a \in Links,
                        a.entry.term = currentTerm'[i]
                 PROVE  a.index <= Len(log'[i])
      BY DEF LeaderHasAll
    <3>1. a.index <= Len(log[i]) /\ Len(log'[i]) >= Len(log[i])
      BY <2>1 DEF LeaderHasAll
    <3>2. Len(log[i]) \in Nat /\ Len(log'[i]) \in Nat
      BY <1>0, <1>5
    <3>3. a.index \in Int
      BY LinkIndex
    <3> QED BY <3>1, <3>2, <3>3
  <2> QED BY <2>2, <2>3
<1> QED BY <1>1, <1>2, <1>3, <1>4 DEF LogInv

LEMMA LogsUntouched ==
    ASSUME TypeOK, LogInv, [Next]_vars, UNCHANGED <<elected, log>>,
           \A i \in Nodes : state'[i] = "leader" =>
               state[i] = "leader" /\ currentTerm'[i] = currentTerm[i],
           \A i \in Nodes : state'[i] = "candidate" =>
               \/ state[i] = "candidate" /\ currentTerm'[i] = currentTerm[i]
               \/ currentTerm'[i] > currentTerm[i],
           Sent' \subseteq Sent
    PROVE  LogInv'
<1>1. Links' \subseteq Links
  BY LinksKept, LinksOfLog
<1>2. \A i \in Nodes : Len(log[i]) \in Nat
  BY DEF TypeOK
<1> QED BY <1>1, <1>2, LogsKept

LEMMA InitLogs == Init => LogInv
<1> SUFFICES ASSUME Init PROVE LogInv
  OBVIOUS
<1>1. Sent = {} /\ elected = {} /\ \A i \in Nodes : log[i] = <<>> /\ state[i] = "follower"
  BY DEF Init, EmptyBag, SetToBag, Sent
<1>2. \A i \in Nodes : LogLinks(log[i]) = {}
  BY <1>1 DEF LogLinks, LinksOf
<1>3. Links = {}
  BY <1>1, <1>2, LinkWhere
<1> QED BY <1>1, <1>3 DEF LogInv, LeadersElected, ElectedBefore, HeadsOnWire,
          OneWriting, LinksElected, LeaderHasAll

\* The winner of an election leads a term nothing was written in.
LEMMA FinishLogs ==
    ASSUME TypeOK, LogInv, NEW i \in Nodes, FinishElection(i), [Next]_vars
    PROVE  LogInv'
<1>1. UNCHANGED <<currentTerm, log, life, net>>
  BY DEF FinishElection, logVars
<1>2. Links' = Links /\ Sent' = Sent
  BY <1>1 DEF Links, Sent, LogLinks, SentLinks, LinksOf
<1>3. CASE ~Wins(i)
  <2>1. UNCHANGED <<elected, state>>
    BY <1>3 DEF FinishElection
  <2> QED BY <1>1, <1>2, <2>1, LogsUntouched
<1>4. CASE Wins(i)
  <2> DEFINE e == [node |-> i, term |-> currentTerm[i]]
  <2>1. /\ state' = [state EXCEPT ![i] = "leader"] /\ elected' = elected \cup {e}
        /\ state[i] = "candidate"
    BY <1>4 DEF FinishElection, Wins
  <2>2. state \in [Nodes -> {"follower", "candidate", "leader"}] /\ state'[i] = "leader"
        /\ \A j \in Nodes \ {i} : state'[j] = state[j]
        /\ elected \subseteq [node : Nodes, term : Nat] /\ currentTerm \in [Nodes -> Nat]
    BY <2>1 DEF TypeOK
  <2>3. LeadersElected'
    BY <1>1, <2>1, <2>2 DEF LogInv, LeadersElected
  <2>7. e.node = i /\ e.term = currentTerm[i] /\ currentTerm[i] \in Nat
    <3>1. e.node = i /\ e.term = currentTerm[i]
      OBVIOUS
    <3>2. currentTerm[i] \in Nat
      BY DEF TypeOK
    <3> QED BY <3>1, <3>2
  <2>8. \A d \in elected : d.node \in Nodes
    BY DEF TypeOK
  <2>4. ElectedBefore'
    <3> SUFFICES ASSUME NEW d \in elected', life[d.node] = 0
                 PROVE  /\ d.term <= currentTerm[d.node]
                        /\ d.term = currentTerm[d.node] => state'[d.node] # "candidate"
      BY <1>1 DEF ElectedBefore
    <3>1. ASSUME d = e
          PROVE  /\ d.term <= currentTerm[d.node]
                 /\ d.term = currentTerm[d.node] => state'[d.node] # "candidate"
      <4>1. d.node = i /\ d.term = currentTerm[i] /\ currentTerm[i] \in Nat
        <5> HIDE DEF e
        <5> QED BY <2>7, <3>1
      <4> QED BY <2>2, <4>1
    <3>2. ASSUME d \in elected
          PROVE  /\ d.term <= currentTerm[d.node]
                 /\ d.term = currentTerm[d.node] => state'[d.node] # "candidate"
      <4>1. /\ d.term <= currentTerm[d.node]
            /\ d.term = currentTerm[d.node] => state[d.node] # "candidate"
        BY <3>2 DEF LogInv, ElectedBefore
      <4>2. d.node \in Nodes
        BY <2>8, <3>2
      <4>3. state'[d.node] = "candidate" => state[d.node] = "candidate"
        BY <2>2, <4>2
      <4> QED BY <4>1, <4>3
    <3> QED BY <2>1, <3>1, <3>2
  <2>5. HeadsOnWire'
    BY <1>2 DEF LogInv, HeadsOnWire
  <2>6. ASSUME Spared' PROVE OneWriting' /\ LinksElected' /\ LeaderHasAll'
    <3>1. Spared /\ OneWriting /\ LinksElected /\ LeaderHasAll
      BY <2>6, SparedBefore DEF LogInv
    <3>2. OneWriting'
      BY <1>2, <3>1 DEF OneWriting
    <3>3. LinksElected'
      BY <1>2, <2>1, <3>1 DEF LinksElected
    <3>4. \A a \in Links : a.entry.term # currentTerm[i]
      <4> SUFFICES ASSUME NEW a \in Links, a.entry.term = currentTerm[i] PROVE FALSE
        OBVIOUS
      <4>1. PICK d \in elected : d.term = currentTerm[i]
        BY <3>1 DEF LinksElected
      <4>2. e \in elected' /\ d \in elected' /\ e.term = d.term
        BY <2>1, <4>1
      <4>3. d.node = e.node
        BY <2>6, <4>2 DEF Spared, ElectionSafety
      <4>4. d.node = i /\ life[i] = 0
        BY <3>1, <4>3 DEF Spared
      <4> QED BY <2>1, <4>1, <4>4 DEF LogInv, ElectedBefore
    <3>5. LeaderHasAll'
      <4> SUFFICES ASSUME NEW j \in Nodes, state'[j] = "leader", NEW a \in Links,
                          a.entry.term = currentTerm[j]
                   PROVE  a.index <= Len(log[j])
        BY <1>1, <1>2 DEF LeaderHasAll
      <4> QED BY <2>2, <3>1, <3>4 DEF LeaderHasAll
    <3> QED BY <3>2, <3>3, <3>5
  <2> QED BY <2>3, <2>4, <2>5, <2>6 DEF LogInv
<1> QED BY <1>3, <1>4

\* A leader writes its next entry where its term has none.
LEMMA ProposeLogs ==
    ASSUME TypeOK, LogInv, NEW i \in Nodes, NEW c \in Commands, Propose(i, c), [Next]_vars
    PROVE  LogInv'
<1> DEFINE new == [term |-> currentTerm[i], cmd |-> c]
           lg == Append(log[i], new)
           link == [index |-> Len(log[i]) + 1, prev |-> LastTerm(log[i]), entry |-> new]
<1>1. /\ state[i] = "leader" /\ log' = [log EXCEPT ![i] = lg]
      /\ net' = Put(net, AppendRequests(i, lg))
      /\ UNCHANGED <<currentTerm, state, elected, life>>
  BY DEF Propose, nodeVars
<1>2. /\ log \in [Nodes -> Seq(Entry)] /\ log[i] \in Seq(Entry) /\ new \in Entry
      /\ lg \in Seq(Entry) /\ Len(lg) = Len(log[i]) + 1 /\ Len(log[i]) \in Nat
      /\ currentTerm \in [Nodes -> Nat]
  <2>1. log \in [Nodes -> Seq(Entry)] /\ currentTerm \in [Nodes -> Nat]
    BY DEF TypeOK
  <2>2. log[i] \in Seq(Entry) /\ new \in Entry
    BY <2>1 DEF Entry
  <2> HIDE DEF new
  <2> QED BY <2>1, <2>2
<1>3. LogLinks(lg) \subseteq LogLinks(log[i]) \cup {link}
  BY <1>2, AppendedLinks
<1> HIDE DEF lg
<1>4. \A m \in Sent' : m \in Sent \/ m \in AppendRequests(i, lg)
  BY <1>1, DomainOfPut DEF Sent
<1>5. Links' \subseteq Links \cup {link}
  <2> SUFFICES ASSUME NEW a, a \in Links' PROVE a \in Links \cup {link}
    OBVIOUS
  <2>1. \/ \E j \in Nodes : a \in LogLinks(log'[j])
        \/ \E m \in Sent' : a \in SentLinks(m)
    BY LinkNext
  <2>2. ASSUME NEW j \in Nodes, a \in LogLinks(log'[j]) PROVE a \in Links \cup {link}
    <3>1. CASE j = i
      BY <1>1, <1>2, <1>3, <2>2, <3>1, LinksOfLog
    <3>2. CASE j # i
      BY <1>1, <1>2, <2>2, <3>2, LinksOfLog
    <3> QED BY <3>1, <3>2
  <2>3. ASSUME NEW m \in Sent', a \in SentLinks(m) PROVE a \in Links \cup {link}
    <3>1. CASE m \in Sent
      BY <2>3, <3>1, LinksOfSent
    <3>2. CASE m \in AppendRequests(i, lg)
      <4>1. SentLinks(m) \subseteq LogLinks(lg)
        BY <1>2, <3>2, RequestLinks
      <4> QED BY <1>3, <2>3, <4>1, LinksOfLog
    <3> QED BY <1>4, <3>1, <3>2
  <2> QED BY <2>1, <2>2, <2>3
<1>6. LeadersElected' /\ ElectedBefore'
  BY <1>1 DEF LogInv, LeadersElected, ElectedBefore
<1>7. HeadsOnWire'
  <2> SUFFICES ASSUME NEW m \in Sent', m.prev = 0 PROVE m.prevTerm = 0
    BY DEF HeadsOnWire
  <2>1. CASE m \in Sent
    BY <2>1 DEF LogInv, HeadsOnWire
  <2>2. CASE m \in AppendRequests(i, lg)
    BY <1>2, <2>2, RequestLinks
  <2> QED BY <1>4, <2>1, <2>2
<1>8. ASSUME Spared' PROVE OneWriting' /\ LinksElected' /\ LeaderHasAll'
  <2>1. Spared /\ OneWriting /\ LinksElected /\ LeaderHasAll
    BY <1>8, SparedBefore DEF LogInv
  <2>2. \A a \in Links : a.entry.term = currentTerm[i] => a.index <= Len(log[i])
    BY <1>1, <2>1 DEF LeaderHasAll
  <2>3. \A a \in Links : a.entry.term = currentTerm[i] => a.index # Len(log[i]) + 1
    <3> SUFFICES ASSUME NEW a \in Links, a.entry.term = currentTerm[i], a.index = Len(log[i]) + 1
                 PROVE  FALSE
      OBVIOUS
    <3>1. a.index <= Len(log[i])
      BY <2>2
    <3> QED BY <1>2, <3>1
  <2>4. link.index = Len(log[i]) + 1 /\ link.entry.term = currentTerm[i]
    OBVIOUS
  <2>5. [node |-> i, term |-> currentTerm[i]] \in elected
    BY <1>1 DEF LogInv, LeadersElected
  <2> HIDE DEF link
  <2>6. OneWriting'
    <3> SUFFICES ASSUME NEW a \in Links \cup {link}, NEW b \in Links \cup {link},
                        a.index = b.index, a.entry.term = b.entry.term
                 PROVE  a = b
      BY <1>5 DEF OneWriting
    <3> QED BY <2>1, <2>3, <2>4 DEF OneWriting
  <2>7. LinksElected'
    BY <1>1, <1>5, <2>1, <2>4, <2>5 DEF LinksElected
  <2>8. LeaderHasAll'
    <3> SUFFICES ASSUME NEW j \in Nodes, state[j] = "leader", NEW a \in Links \cup {link},
                        a.entry.term = currentTerm[j]
                 PROVE  a.index <= Len(log'[j])
      BY <1>1, <1>5 DEF LeaderHasAll
    <3>1. CASE j = i
      <4>1. Len(log'[j]) = Len(log[i]) + 1
        BY <1>1, <1>2, <3>1
      <4>2. CASE a = link
        BY <1>2, <2>4, <4>1, <4>2
      <4>3. CASE a \in Links
        <5>1. a.index <= Len(log[i]) /\ a.index \in Int
          BY <2>2, <3>1, <4>3, LinkIndex
        <5> QED BY <1>2, <4>1, <5>1
      <4> QED BY <4>2, <4>3
    <3>2. CASE j # i
      <4>1. log'[j] = log[j]
        BY <1>1, <1>2, <3>2
      <4>2. [node |-> j, term |-> currentTerm[j]] \in elected
        BY DEF LogInv, LeadersElected
      <4>3. currentTerm[j] # currentTerm[i]
        BY <2>1, <2>5, <3>2, <4>2 DEF Spared, ElectionSafety
      <4>4. a \in Links
        BY <2>4, <4>3
      <4> QED BY <2>1, <4>1, <4>4 DEF LeaderHasAll
    <3> QED BY <3>1, <3>2
  <2> QED BY <2>6, <2>7, <2>8
<1> QED BY <1>6, <1>7, <1>8 DEF LogInv

\* A follower takes over what the leader sent.
LEMMA HandleAppendLogs ==
    ASSUME TypeOK, LogInv, NEW m \in DOMAIN net, HandleAppend(m), [Next]_vars
    PROVE  LogInv'
<1> DEFINE i == m.to
           lg == IF Consistent(m, log[i]) THEN LogAfter(m, log[i]) ELSE log[i]
<1>1. m \in Message /\ i \in Nodes /\ m.type = "Append" /\ m \in Sent
  BY MessageFields DEF TypeOK, WireOK, HandleAppend, Sent
<1>2. /\ log' = [log EXCEPT ![i] = lg] /\ log[i] \in Seq(Entry) /\ log \in [Nodes -> Seq(Entry)]
      /\ elected' = elected
  BY <1>1 DEF HandleAppend, TypeOK
<1>3. LogLinks(lg) \subseteq LogLinks(log[i]) \cup SentLinks(m)
  <2>1. m.prev = 0 => m.prevTerm = 0
    BY <1>1 DEF LogInv, HeadsOnWire
  <2> QED BY <1>1, <1>2, <2>1, AfterLinks
<1>4. Sent' \subseteq Sent
  <2>1. \A success : AppendAnswer(m, m.term, success).type = "AppendAnswer"
    BY DEF AppendAnswer
  <2>2. DOMAIN net' \subseteq DOMAIN net \cup {AppendAnswer(m, m.term, Consistent(m, log[i]))}
    BY DomainOfAnswer DEF HandleAppend
  <2> QED BY <2>1, <2>2 DEF Sent
<1>5. /\ state' = [state EXCEPT ![i] = "follower"] /\ state \in [Nodes -> {"follower", "candidate", "leader"}]
      /\ currentTerm' = [currentTerm EXCEPT ![i] = m.term]
      /\ currentTerm \in [Nodes -> Nat]
  BY DEF HandleAppend, RoleAfterAppend, TypeOK
<1>6. Links' \subseteq Links
  <2>1. \A j \in Nodes : LogLinks(log'[j]) \subseteq Links
    <3> SUFFICES ASSUME NEW j \in Nodes PROVE LogLinks(log'[j]) \subseteq Links
      OBVIOUS
    <3>1. log'[i] = lg /\ (j # i => log'[j] = log[j])
      BY <1>1, <1>2
    <3> HIDE DEF lg
    <3>2. SentLinks(m) \subseteq Links /\ LogLinks(log[i]) \subseteq Links
      BY <1>1, LinksOfLog, LinksOfSent
    <3> QED BY <1>3, <3>1, <3>2, LinksOfLog
  <2> QED BY <1>4, <2>1, LinksKept
<1>7. \A j \in Nodes : state'[j] # "follower" =>
        state'[j] = state[j] /\ currentTerm'[j] = currentTerm[j] /\ log'[j] = log[j]
  <2> HIDE DEF lg
  <2> QED BY <1>1, <1>2, <1>5
<1>8. \A j \in Nodes : Len(log[j]) \in Nat
  BY <1>2
<1> QED BY <1>2, <1>4, <1>6, <1>7, <1>8, LogsKept

LEMMA DeliverLogs ==
    ASSUME TypeOK, LogInv, NEW m \in DOMAIN net, Deliver(m), [Next]_vars
    PROVE  LogInv'
<1>1. m \in Message /\ m.to \in Nodes /\ m.term \in Nat
  BY MessageFields DEF TypeOK, WireOK
<1>2. CASE HandleVoteRequest(m)
  <2>1. UNCHANGED <<elected, log>>
    BY <1>2 DEF HandleVoteRequest, logVars
  <2>2. Sent' \subseteq Sent
    <3> DEFINE answer(grant) == [type |-> "VoteAnswer", from |-> m.to, to |-> m.from,
                                 term |-> m.term, life |-> m.life, granted |-> grant]
    <3>1. DOMAIN net' \subseteq DOMAIN net \cup {answer(Grants(m, AdoptTerm(m).vote))}
      BY <1>2, DomainOfAnswer DEF HandleVoteRequest
    <3>2. \A g : answer(g).type = "VoteAnswer"
      OBVIOUS
    <3> HIDE DEF answer
    <3> QED BY <3>1, <3>2 DEF Sent
  <2>3. /\ state' = [state EXCEPT ![m.to] = AdoptTerm(m).state]
        /\ currentTerm' = [currentTerm EXCEPT ![m.to] = AdoptTerm(m).term]
        /\ currentTerm \in [Nodes -> Nat] /\ state \in [Nodes -> {"follower", "candidate", "leader"}]
    BY <1>2 DEF HandleVoteRequest, TypeOK
  <2>4. AdoptTerm(m).state # "follower" =>
          AdoptTerm(m).state = state[m.to] /\ AdoptTerm(m).term = currentTerm[m.to]
    <3>1. ~(m.term > currentTerm[m.to]) => Max({m.term, currentTerm[m.to]}) = currentTerm[m.to]
      <4>1. m.term \in Int /\ currentTerm[m.to] \in Int
        BY <1>1, <2>3
      <4>2. /\ Max({m.term, currentTerm[m.to]}) \in {m.term, currentTerm[m.to]}
            /\ Max({m.term, currentTerm[m.to]}) >= m.term
            /\ Max({m.term, currentTerm[m.to]}) >= currentTerm[m.to]
        BY <4>1, MaxOfTwo, Zenon
      <4> QED BY <4>1, <4>2
    <3> QED BY <3>1 DEF AdoptTerm
  <2>5. \A j \in Nodes : state'[j] # "follower" =>
          state'[j] = state[j] /\ currentTerm'[j] = currentTerm[j]
    BY <1>1, <2>3, <2>4
  <2> QED BY <2>1, <2>2, <2>5, LogsUntouched
<1>3. CASE ReceiveVote(m)
  <2>1. UNCHANGED <<elected, log, state, currentTerm>> /\ Sent' \subseteq Sent
    BY <1>3, DomainOfTake DEF ReceiveVote, logVars, nodeVars, pastVars, Sent
  <2> QED BY <2>1, LogsUntouched
<1>4. CASE RefuseAppend(m)
  <2>1. UNCHANGED <<elected, log, state, currentTerm>>
    BY <1>4 DEF RefuseAppend, logVars, nodeVars, pastVars
  <2>2. Sent' \subseteq Sent
    <3> DEFINE a == AppendAnswer(m, currentTerm[m.to], FALSE)
    <3>1. net' = Answer(m, a)
      BY <1>4 DEF RefuseAppend
    <3>2. a.type = "AppendAnswer"
      BY DEF AppendAnswer
    <3> HIDE DEF a
    <3>3. DOMAIN net' \subseteq DOMAIN net \cup {a}
      BY <3>1, DomainOfAnswer
    <3> QED BY <3>2, <3>3 DEF Sent
  <2> QED BY <2>1, <2>2, LogsUntouched
<1>5. CASE HandleAppend(m)
  BY <1>5, HandleAppendLogs
<1>6. CASE StepDown(m)
  <2>1. UNCHANGED <<elected, log>> /\ Sent' \subseteq Sent
    BY <1>6, DomainOfTake DEF StepDown, logVars, pastVars, Sent
  <2>2. /\ state' = [state EXCEPT ![m.to] = "follower"]
        /\ currentTerm' = [currentTerm EXCEPT ![m.to] = m.term]
        /\ currentTerm \in [Nodes -> Nat] /\ state \in [Nodes -> {"follower", "candidate", "leader"}]
    BY <1>6 DEF StepDown, TypeOK
  <2>3. \A j \in Nodes : state'[j] # "follower" =>
          state'[j] = state[j] /\ currentTerm'[j] = currentTerm[j]
    BY <1>1, <2>2
  <2> QED BY <2>1, <2>3, LogsUntouched
<1>7. CASE AppendSucceeded(m)
  <2>1. UNCHANGED <<elected, log, state, currentTerm>> /\ Sent' \subseteq Sent
    BY <1>7, DomainOfTake DEF AppendSucceeded, nodeVars, pastVars, Sent
  <2> QED BY <2>1, LogsUntouched
<1>8. CASE AppendFailed(m)
  <2>1. UNCHANGED <<elected, log, state, currentTerm>> /\ Sent' \subseteq Sent
    BY <1>8, DomainOfTake DEF AppendFailed, logVars, nodeVars, pastVars, Sent
  <2> QED BY <2>1, LogsUntouched
<1> QED BY <1>2, <1>3, <1>4, <1>5, <1>6, <1>7, <1>8 DEF Deliver

LEMMA RestartLogs ==
    ASSUME TypeOK, LogInv, NEW i \in Nodes, Restart(i), [Next]_vars
    PROVE  LogInv'
<1>1. /\ state' = [state EXCEPT ![i] = "follower"] /\ log' = [log EXCEPT ![i] = <<>>]
      /\ currentTerm' = [currentTerm EXCEPT ![i] = 0]
      /\ elected' = elected
  BY DEF Restart, pastVars
<1>2. /\ log \in [Nodes -> Seq(Entry)] /\ currentTerm \in [Nodes -> Nat]
      /\ state \in [Nodes -> {"follower", "candidate", "leader"}]
  BY DEF TypeOK
<1>3. Sent' \subseteq Sent
  BY DEF Restart, Restrict, Sent
<1>4. Links' \subseteq Links
  <2>1. LogLinks(<<>>) = {}
    BY DEF LogLinks, LinksOf
  <2>2. \A j \in Nodes : LogLinks(log'[j]) \subseteq Links
    BY <1>1, <1>2, <2>1, LinksOfLog
  <2> QED BY <1>3, <2>2, LinksKept
<1>5. \A j \in Nodes : state'[j] # "follower" =>
        state'[j] = state[j] /\ currentTerm'[j] = currentTerm[j] /\ log'[j] = log[j]
  BY <1>1, <1>2
<1>6. \A j \in Nodes : Len(log[j]) \in Nat
  BY <1>2
<1> QED BY <1>1, <1>3, <1>4, <1>5, <1>6, LogsKept

LEMMA NextLogs == TypeOK /\ LogInv /\ [Next]_vars => LogInv'
<1> SUFFICES ASSUME TypeOK, LogInv, [Next]_vars PROVE LogInv'
  OBVIOUS
<1> USE DEF nodeVars, logVars, pastVars
<1>1. ASSUME NEW i \in Nodes, StartElection(i) PROVE LogInv'
  <2>1. UNCHANGED <<elected, log>> /\ state' = [state EXCEPT ![i] = "candidate"]
        /\ currentTerm' = [currentTerm EXCEPT ![i] = currentTerm[i] + 1]
    BY <1>1 DEF StartElection
  <2>2. currentTerm \in [Nodes -> Nat] /\ state \in [Nodes -> {"follower", "candidate", "leader"}]
    BY DEF TypeOK
  <2>3. Sent' \subseteq Sent
    <3> DEFINE request(j) == [type |-> "VoteRequest", from |-> i, to |-> j,
                              term |-> currentTerm[i] + 1, life |-> life[i],
                              lastIndex |-> Len(log[i]), lastTerm |-> LastTerm(log[i])]
    <3>1. net' = Put(net, {request(j) : j \in Peers(i)})
      BY <1>1 DEF StartElection
    <3>2. \A r \in {request(j) : j \in Peers(i)} : r.type = "VoteRequest"
      OBVIOUS
    <3>3. DOMAIN net' = DOMAIN net \cup {request(j) : j \in Peers(i)}
      BY <3>1, DomainOfPut
    <3> QED BY <3>2, <3>3 DEF Sent
  <2>4. \A j \in Nodes : /\ state'[j] = "leader" =>
                              state[j] = "leader" /\ currentTerm'[j] = currentTerm[j]
                         /\ state'[j] = "candidate" =>
                              \/ state[j] = "candidate" /\ currentTerm'[j] = currentTerm[j]
                              \/ currentTerm'[j] > currentTerm[j]
    BY <2>1, <2>2
  <2> QED BY <2>1, <2>3, <2>4, LogsUntouched
<1>2. ASSUME NEW i \in Nodes, NEW j \in Peers(i), VoteTimeout(i, j) PROVE LogInv'
  <2>1. UNCHANGED <<elected, log, state, currentTerm>> /\ Sent' \subseteq Sent
    BY <1>2 DEF VoteTimeout, Restrict, Sent
  <2> QED BY <2>1, LogsUntouched
<1>3. ASSUME NEW i \in Nodes, FinishElection(i) PROVE LogInv'
  BY <1>3, FinishLogs
<1>4. ASSUME NEW i \in Nodes, Heartbeat(i) PROVE LogInv'
  <2>1. UNCHANGED <<elected, log, state, currentTerm>>
    BY <1>4 DEF Heartbeat
  <2>2. log[i] \in Seq(Entry) /\ \A j \in Nodes : Len(log[j]) \in Nat
    BY DEF TypeOK
  <2>3. \A m \in Sent' : m \in Sent \/ m \in AppendRequests(i, log[i])
    BY <1>4, DomainOfPut DEF Heartbeat, Sent
  <2>4. \A m \in AppendRequests(i, log[i]) :
          SentLinks(m) \subseteq LogLinks(log[i]) /\ (m.prev = 0 => m.prevTerm = 0)
    BY <2>2, RequestLinks
  <2>5. Links' \subseteq Links
    <3>1. \A j \in Nodes : LogLinks(log'[j]) \subseteq Links
      BY <2>1, LinksOfLog
    <3>2. \A m \in Sent' : m \in Sent \/ SentLinks(m) \subseteq Links
      BY <2>3, <2>4, LinksOfLog
    <3> QED BY <3>1, <3>2, LinksKept
  <2> QED BY <2>1, <2>2, <2>3, <2>4, <2>5, LogsKept
<1>5. ASSUME NEW i \in Nodes, NEW c \in Commands, Propose(i, c) PROVE LogInv'
  BY <1>5, ProposeLogs
<1>6. ASSUME NEW i \in Nodes, NEW call \in calls[i], ProposeTimeout(i, call) PROVE LogInv'
  <2>1. UNCHANGED <<elected, log, state, currentTerm>> /\ Sent' \subseteq Sent
    BY <1>6 DEF ProposeTimeout, Sent
  <2> QED BY <2>1, LogsUntouched
<1>7. ASSUME NEW i \in Nodes, Restart(i) PROVE LogInv'
  BY <1>7, RestartLogs
<1>8. ASSUME NEW m \in DOMAIN net, Deliver(m) PROVE LogInv'
  BY <1>8, DeliverLogs
<1>9. ASSUME NEW m \in DOMAIN net, Lose(m) PROVE LogInv'
  <2>1. UNCHANGED <<elected, log, state, currentTerm>> /\ Sent' \subseteq Sent
    BY <1>9, DomainOfTake DEF Lose, Sent
  <2> QED BY <2>1, LogsUntouched
<1>10. CASE UNCHANGED vars
  <2>1. UNCHANGED <<elected, log, state, currentTerm>> /\ Sent' \subseteq Sent
    BY <1>10 DEF vars, Sent
  <2> QED BY <2>1, LogsUntouched
<1> QED BY <1>1, <1>2, <1>3, <1>4, <1>5, <1>6, <1>7, <1>8, <1>9, <1>10 DEF Next

LEMMA LogsInvariant == Spec => []LogInv
<1> QED BY InitLogs, NextLogs, TypeCorrect, PTL DEF Spec

\* Two logs that agree on the term of an entry agree on everything up to it: the
\* last index before it where they did not would have one entry written in two ways.
LEMMA LinksMatch ==
    ASSUME TypeOK, OneWriting, NEW i \in Nodes, NEW j \in Nodes,
           NEW k \in DOMAIN log[i] \cap DOMAIN log[j], log[i][k].term = log[j][k].term
    PROVE  SubSeq(log[i], 1, k) = SubSeq(log[j], 1, k)
<1>1. /\ log[i] \in Seq(Entry) /\ log[j] \in Seq(Entry)
      /\ DOMAIN log[i] = 1 .. Len(log[i]) /\ DOMAIN log[j] = 1 .. Len(log[j])
      /\ Len(log[i]) \in Nat /\ Len(log[j]) \in Nat
      /\ k \in Nat /\ k <= Len(log[i]) /\ k <= Len(log[j])
  <2>1. log[i] \in Seq(Entry) /\ log[j] \in Seq(Entry)
    BY DEF TypeOK
  <2> QED BY <2>1
<1> DEFINE Before(lg, x) == IF x = 1 THEN 0 ELSE lg[x - 1].term
           Link(lg, x) == [index |-> 0 + x, prev |-> Before(lg, x), entry |-> lg[x]]
<1>2. \A n \in Nodes : \A x \in DOMAIN log[n] : Link(log[n], x) \in Links
  <2> SUFFICES ASSUME NEW n \in Nodes, NEW x \in DOMAIN log[n] PROVE Link(log[n], x) \in Links
    OBVIOUS
  <2>1. Link(log[n], x) \in LinksOf(log[n], 0, 0)
    BY LinkAt
  <2> HIDE DEF Link
  <2> QED BY <2>1, LinksOfLog DEF LogLinks
<1>3. \A lg, x : Link(lg, x).index = 0 + x /\ Link(lg, x).entry = lg[x]
                 /\ Link(lg, x).prev = Before(lg, x)
  OBVIOUS
<1>4. ASSUME NEW x \in 1 .. k, log[i][x].term = log[j][x].term
      PROVE  log[i][x] = log[j][x] /\ Before(log[i], x) = Before(log[j], x)
  <2>1. x \in DOMAIN log[i] /\ x \in DOMAIN log[j]
    BY <1>1
  <2> HIDE DEF Link, Before
  <2>2. Link(log[i], x) = Link(log[j], x)
    BY <1>2, <1>3, <1>4, <2>1 DEF OneWriting
  <2> QED BY <1>3, <2>2
<1> HIDE DEF Link
<1> DEFINE Bad == {x \in 1 .. k : log[i][x] # log[j][x]}
<1>5. Bad = {}
  <2> SUFFICES ASSUME Bad # {} PROVE FALSE
    OBVIOUS
  <2> DEFINE x == Max(Bad)
  <2>1. x \in Bad /\ \A y \in Bad : x >= y
    BY <1>1, MaxOfBounded
  <2>2. x \in 1 .. k /\ log[i][x] # log[j][x]
    BY <2>1
  <2> HIDE DEF x
  <2>3. log[i][x].term = log[j][x].term
    <3>1. CASE x = k
      BY <3>1
    <3>2. CASE x # k
      <4>1. x + 1 \in 1 .. k /\ x + 1 # 1 /\ (x + 1) - 1 = x /\ ~(x >= x + 1)
        BY <1>1, <2>2, <3>2
      <4>2. log[i][x + 1] = log[j][x + 1]
        BY <2>1, <4>1
      <4>3. Before(log[i], x + 1) = Before(log[j], x + 1)
        BY <1>4, <4>1, <4>2
      <4> QED BY <4>1, <4>3
    <3> QED BY <3>1, <3>2
  <2> QED BY <1>4, <2>2, <2>3
<1>6. \A x \in 1 .. k : log[i][x] = log[j][x]
  BY <1>5
<1> HIDE DEF Bad, Before
<1> QED BY <1>1, <1>6

\* Raft's Log Matching holds however late or out of order AppendEntries are handled,
\* as long as no term has two leaders and nobody is restarted.
THEOREM LogsMatch == Spec => []LogMatching
<1>1. TypeOK /\ LogInv => LogMatching
  <2> SUFFICES ASSUME TypeOK, LogInv, Spared PROVE
                 \A i, j \in Nodes : \A k \in DOMAIN log[i] \cap DOMAIN log[j] :
                   log[i][k].term = log[j][k].term =>
                     SubSeq(log[i], 1, k) = SubSeq(log[j], 1, k)
    BY DEF LogMatching, Spared
  <2> QED BY LinksMatch DEF LogInv
<1> QED BY <1>1, TypeCorrect, LogsInvariant, PTL

\* A leader that stays one only appends to its log: _handle_append_entries, the one
\* handler that drops entries, leaves a follower.
THEOREM LeaderAppends == Spec => LeaderAppendOnly
<1>1. TypeOK /\ [Next]_vars =>
        [\A i \in Nodes : state[i] = "leader" /\ state'[i] = "leader" =>
            IsPrefix(log[i], log'[i])]_vars
  <2> SUFFICES ASSUME TypeOK, [Next]_vars, NEW i \in Nodes, state[i] = "leader", state'[i] = "leader"
               PROVE  IsPrefix(log[i], log'[i])
    OBVIOUS
  <2>0. log \in [Nodes -> Seq(Entry)] /\ log[i] \in Seq(Entry) /\ state \in [Nodes -> {"follower", "candidate", "leader"}]
    BY DEF TypeOK
  <2>1. log'[i] = log[i] => IsPrefix(log[i], log'[i])
    BY <2>0 DEF IsPrefix
  <2>2. ASSUME NEW j \in Nodes, NEW c \in Commands, Propose(j, c) PROVE IsPrefix(log[i], log'[i])
    <3> DEFINE e == [term |-> currentTerm[j], cmd |-> c]
    <3>1. log' = [log EXCEPT ![j] = Append(log[j], e)]
      BY <2>2 DEF Propose
    <3>2. e \in Entry
      BY DEF TypeOK, Entry
    <3> HIDE DEF e
    <3>3. CASE i = j
      <4>1. log'[i] = Append(log[i], e)
        BY <2>0, <3>1, <3>3
      <4>2. Len(log[i]) <= Len(Append(log[i], e))
            /\ SubSeq(log[i], 1, Len(log[i])) = SubSeq(Append(log[i], e), 1, Len(log[i]))
        BY <2>0, <3>2
      <4> QED BY <4>1, <4>2 DEF IsPrefix
    <3>4. CASE i # j
      BY <2>0, <2>1, <3>1, <3>4
    <3> QED BY <3>3, <3>4
  <2>3. ASSUME NEW m \in DOMAIN net, HandleAppend(m) PROVE log'[i] = log[i]
    <3>1. m.to \in Nodes
      BY MessageFields DEF TypeOK, WireOK
    <3>2. state'[m.to] = "follower"
      BY <2>0, <2>3, <3>1 DEF HandleAppend, RoleAfterAppend
    <3> QED BY <2>0, <2>3, <3>1, <3>2 DEF HandleAppend
  <2>4. ASSUME NEW j \in Nodes, Restart(j) PROVE log'[i] = log[i]
    BY <2>0, <2>4 DEF Restart
  <2>5. CASE UNCHANGED log
    BY <2>1, <2>5
  <2> QED BY <2>1, <2>2, <2>3, <2>4, <2>5 DEF Next, vars, logVars, StartElection, VoteTimeout,
         FinishElection, Heartbeat, ProposeTimeout, Deliver, Lose, HandleVoteRequest, ReceiveVote,
         RefuseAppend, StepDown, AppendSucceeded, AppendFailed
<1> QED BY <1>1, TypeCorrect, PTL DEF Spec, LeaderAppendOnly

-----------------------------------------------------------------------------
(* Answers of propose *)

\* The node was never restarted and never accepted an AppendEntries.
NeverFollowed(i) == life[i] = 0 /\ \A t \in Nat : ~AcceptedIn(i, t)

\* A proposal waits at the index of its own entry.
WaitingRight(i) ==
    \A n \in DOMAIN pending[i] : n \in DOMAIN log[i] /\ log[i][n].cmd = pending[i][n]

\* What the node told its callers was applied.
ToldRight(i) ==
    \A a \in acked : a.node = i => \E k \in DOMAIN applied[i] : applied[i][k].cmd = a.cmd

AckInv == \A i \in Nodes : NeverFollowed(i) => WaitingRight(i) /\ ToldRight(i)

\* Of the nodes that told a caller True and still run, none ever accepted an
\* AppendEntries: they led, and followed nobody.
LedOnly == \A a \in acked : life[a.node] = 0 => NeverFollowed(a.node)

\* What _apply_committed makes of the applied entries: those it had, and those
\* of the log behind them up to the commit index.
LEMMA AppliedAfter ==
    ASSUME NEW lg \in Seq(Entry), NEW old \in Seq(Entry), NEW commit \in Nat, commit <= Len(lg)
    PROVE  LET new == old \o SubSeq(lg, Len(old) + 1, commit)
           IN /\ Len(new) = IF commit > Len(old) THEN commit ELSE Len(old)
              /\ new \in Seq(Entry)
              /\ \A k \in 1 .. Len(old) : new[k] = old[k]
              /\ \A k \in Len(old) + 1 .. commit : new[k] = lg[k]
<1> DEFINE tail == SubSeq(lg, Len(old) + 1, commit)
           new == old \o tail
<1>1. Len(old) \in Nat /\ Len(lg) \in Nat
  OBVIOUS
<1>2. tail \in Seq(Entry)
  BY <1>1, SubSeqIsSeq
<1>3. /\ DOMAIN new = 1 .. Len(old) + Len(tail) /\ new \in Seq(Entry)
      /\ Len(new) = Len(old) + Len(tail)
      /\ \A k \in 1 .. Len(old) : new[k] = old[k]
      /\ \A k \in 1 .. Len(tail) : new[Len(old) + k] = tail[k]
  <2> HIDE DEF tail
  <2> QED BY <1>2, ConcatAt
<1>4. CASE commit > Len(old)
  <2>1. Len(tail) = commit - Len(old)
        /\ \A k \in 1 .. commit - Len(old) : tail[k] = lg[Len(old) + k]
    BY <1>1, <1>4
  <2> HIDE DEF tail, new
  <2>2. Len(new) = commit
    BY <1>1, <1>3, <2>1
  <2>3. ASSUME NEW k \in Len(old) + 1 .. commit PROVE new[k] = lg[k]
    <3> DEFINE n == k - Len(old)
    <3>1. n \in 1 .. Len(tail) /\ n \in 1 .. commit - Len(old) /\ Len(old) + n = k
      BY <1>1, <1>4, <2>1
    <3> HIDE DEF n
    <3>2. new[Len(old) + n] = tail[n] /\ tail[n] = lg[Len(old) + n]
      BY <1>3, <2>1, <3>1
    <3> QED BY <3>1, <3>2
  <2> QED BY <1>3, <1>4, <2>2, <2>3 DEF new, tail
<1>5. CASE ~(commit > Len(old))
  <2>1. tail = <<>>
    BY <1>1, <1>5
  <2>2. Len(new) = Len(old) /\ Len(old) + 1 .. commit = {}
    BY <1>1, <1>5, <2>1
  <2> HIDE DEF tail, new
  <2> QED BY <1>3, <1>5, <2>2 DEF new, tail
<1> QED BY <1>4, <1>5

\* The acceptance of an AppendEntries is never forgotten.
LEMMA AcceptedGrows == [Next]_vars => accepted \subseteq accepted'
BY ZenonT(60) DEF Next, vars, StartElection, VoteTimeout, FinishElection, Heartbeat, Propose, ProposeTimeout,
       Restart, Deliver, Lose, HandleVoteRequest, ReceiveVote, RefuseAppend, HandleAppend,
       StepDown, AppendSucceeded, AppendFailed, pastVars

LEMMA NeverFollowedBefore ==
    ASSUME TypeOK, [Next]_vars, NEW i \in Nodes, NeverFollowed(i)'
    PROVE  NeverFollowed(i)
<1>1. life[i] = 0
  BY PastGrows DEF NeverFollowed
<1>2. \A t \in Nat : ~AcceptedIn(i, t)
  BY AcceptedGrows DEF NeverFollowed, AcceptedIn
<1> QED BY <1>1, <1>2 DEF NeverFollowed

\* A step that leaves the log of i and what it applied, and tells none of its callers.
LEMMA AcksKept ==
    ASSUME NEW i \in Nodes, WaitingRight(i), ToldRight(i),
           log'[i] = log[i], applied'[i] = applied[i],
           \A n \in DOMAIN pending'[i] : n \in DOMAIN pending[i] /\ pending'[i][n] = pending[i][n],
           \A a \in acked' : a \in acked \/ a.node # i
    PROVE  WaitingRight(i)' /\ ToldRight(i)'
BY DEF WaitingRight, ToldRight

\* _apply_committed tells each caller whose entry it applies.
LEMMA ApplyAcks ==
    ASSUME TypeOK, NEW i \in Nodes, WaitingRight(i), ToldRight(i), log' = log,
           NEW commit \in Nat, commit <= Len(log[i]), ApplyCommitted(i, log[i], commit)
    PROVE  WaitingRight(i)' /\ ToldRight(i)'
<1> DEFINE old == applied[i]
           new == old \o SubSeq(log[i], Len(old) + 1, commit)
           told == FuturesAt(i, commit)
<1>1. /\ log[i] \in Seq(Entry) /\ old \in Seq(Entry) /\ applied \in [Nodes -> Seq(Entry)]
      /\ DOMAIN pending = Nodes
  BY DEF TypeOK
<1>2. /\ applied'[i] = new
      /\ pending'[i] = Restrict(pending[i], DOMAIN pending[i] \ told)
      /\ acked' = acked \cup {[node |-> i, cmd |-> pending[i][n]] : n \in told}
  BY <1>1 DEF ApplyCommitted
<1>3. /\ Len(new) = IF commit > Len(old) THEN commit ELSE Len(old)
      /\ new \in Seq(Entry)
      /\ \A k \in 1 .. Len(old) : new[k] = old[k]
      /\ \A k \in Len(old) + 1 .. commit : new[k] = log[i][k]
  BY <1>1, AppliedAfter
<1>4. told \subseteq DOMAIN pending[i] /\ told \subseteq Len(old) + 1 .. commit
  BY DEF FuturesAt
<1>5. Len(old) \in Nat /\ DOMAIN old = 1 .. Len(old) /\ DOMAIN new = 1 .. Len(new)
  BY <1>1, <1>3
<1>6. WaitingRight(i)'
  BY <1>2 DEF WaitingRight, Restrict
<1>7. ToldRight(i)'
  <2> SUFFICES ASSUME NEW a \in acked', a.node = i
               PROVE  \E k \in DOMAIN applied'[i] : applied'[i][k].cmd = a.cmd
    BY DEF ToldRight
  <2> HIDE DEF new, old, told
  <2>1. CASE a \in acked
    <3>1. PICK k \in DOMAIN old : old[k].cmd = a.cmd
      BY <2>1 DEF ToldRight, old
    <3>2. k \in DOMAIN new /\ new[k] = old[k]
      BY <1>3, <1>5, <3>1
    <3> QED BY <1>2, <3>1, <3>2
  <2>2. CASE a \in {[node |-> i, cmd |-> pending[i][n]] : n \in told}
    <3>1. PICK n \in told : a.cmd = pending[i][n]
      BY <2>2
    <3>2. n \in DOMAIN pending[i] /\ n \in Len(old) + 1 .. commit
      BY <1>4, <3>1
    <3>3. log[i][n].cmd = a.cmd
      BY <3>1, <3>2 DEF WaitingRight
    <3>4. n \in DOMAIN new /\ new[n] = log[i][n]
      BY <1>3, <1>5, <3>2
    <3> QED BY <1>2, <3>3, <3>4
  <2> QED BY <1>2, <2>1, <2>2
<1> QED BY <1>6, <1>7

\* _try_advance_commit applies the leader's own log, up to an index of it behind
\* the commit index.
LEMMA SucceededApplies ==
    ASSUME TypeOK, NEW m \in Message, AppendSucceeded(m)
    PROVE  \/ UNCHANGED <<commitIndex, applied, calls, pending, acked>>
           \/ \E n \in commitIndex[m.to] + 1 .. Len(log[m.to]) :
                 /\ state[m.to] = "leader"
                 /\ commitIndex' = [commitIndex EXCEPT ![m.to] = n]
                 /\ ApplyCommitted(m.to, log[m.to], n)
<1> DEFINE i == m.to
           upTo == m.prev + m.count
           match == IF m.count > 0 THEN [matchIndex[i] EXCEPT ![m.from] = upTo]
                                   ELSE matchIndex[i]
           ready == IF state[i] = "leader" THEN Committable(i, match) ELSE {}
<1>1. log[i] \in Seq(Entry) /\ Len(log[i]) \in Nat /\ commitIndex[i] \in Nat
  BY MessageFields DEF TypeOK
<1>2. ready \subseteq commitIndex[i] + 1 .. Len(log[i])
  BY DEF Committable
<1>3. CASE ready = {}
  BY <1>3 DEF AppendSucceeded, callVars
<1>4. CASE ready # {}
  <2>1. ready \subseteq 1 .. Len(log[i])
    BY <1>1, <1>2
  <2>2. Max(ready) \in ready
    BY <1>1, <1>4, <2>1, MaxOfBounded
  <2>3. /\ commitIndex' = [commitIndex EXCEPT ![i] = Max(ready)]
        /\ ApplyCommitted(i, log[i], Max(ready))
    BY <1>4 DEF AppendSucceeded
  <2>4. state[i] = "leader"
    BY <1>4
  <2> HIDE DEF ready
  <2> QED BY <1>2, <2>2, <2>3, <2>4
<1> QED BY <1>3, <1>4

LEMMA InitAcks == Init => AckInv
BY DEF Init, AckInv, WaitingRight, ToldRight

LEMMA NextAcks == TypeOK /\ AckInv /\ [Next]_vars => AckInv'
<1> SUFFICES ASSUME TypeOK, AckInv, [Next]_vars, NEW i \in Nodes, NeverFollowed(i)'
             PROVE  WaitingRight(i)' /\ ToldRight(i)'
  BY DEF AckInv
<1> USE DEF logVars, callVars
<1>0. WaitingRight(i) /\ ToldRight(i) /\ NeverFollowed(i)
  BY NeverFollowedBefore DEF AckInv
<1>1. CASE UNCHANGED <<log, applied, pending, acked>>
  BY <1>0, <1>1, AcksKept
<1>2. /\ log \in [Nodes -> Seq(Entry)] /\ applied \in [Nodes -> Seq(Entry)]
      /\ log[i] \in Seq(Entry) /\ applied[i] \in Seq(Entry)
      /\ DOMAIN pending = Nodes /\ currentTerm \in [Nodes -> Nat]
  BY DEF TypeOK
<1>3. ASSUME NEW j \in Nodes, NEW c \in Commands, Propose(j, c)
      PROVE  WaitingRight(i)' /\ ToldRight(i)'
  <2> DEFINE e == [term |-> currentTerm[j], cmd |-> c]
             lg == Append(log[j], e)
             waits == [n \in DOMAIN pending[j] \cup {Len(lg)} |->
                         IF n = Len(lg) THEN c ELSE pending[j][n]]
  <2>1. /\ log' = [log EXCEPT ![j] = lg] /\ pending' = [pending EXCEPT ![j] = waits]
        /\ UNCHANGED <<applied, acked>>
    BY <1>3 DEF Propose
  <2>2. CASE i # j
    BY <1>0, <1>2, <2>1, <2>2, AcksKept
  <2>3. CASE i = j
    <3>1. e \in Entry /\ e.cmd = c
      BY <1>2 DEF Entry
    <3> HIDE DEF e
    <3>2. /\ Len(lg) = Len(log[i]) + 1 /\ Len(log[i]) \in Nat /\ lg[Len(lg)] = e
          /\ DOMAIN lg = 1 .. Len(lg) /\ DOMAIN log[i] = 1 .. Len(log[i])
          /\ \A n \in DOMAIN log[i] : n \in DOMAIN lg /\ lg[n] = log[i][n]
      BY <1>2, <2>3, <3>1
    <3> HIDE DEF lg
    <3>3. log'[i] = lg /\ pending'[i] = waits
      BY <1>2, <2>1, <2>3
    <3>4. ASSUME NEW n \in DOMAIN waits PROVE n \in DOMAIN lg /\ lg[n].cmd = waits[n]
      <4>1. CASE n = Len(lg)
        BY <3>1, <3>2, <4>1
      <4>2. CASE n # Len(lg)
        <5>1. n \in DOMAIN pending[i] /\ waits[n] = pending[i][n]
          BY <2>3, <4>2
        <5> QED BY <1>0, <3>2, <5>1 DEF WaitingRight
      <4> QED BY <4>1, <4>2
    <3> HIDE DEF waits
    <3> QED BY <1>0, <2>1, <3>3, <3>4 DEF WaitingRight, ToldRight
  <2> QED BY <2>2, <2>3
<1>4. ASSUME NEW j \in Nodes, NEW call \in calls[j], ProposeTimeout(j, call)
      PROVE  WaitingRight(i)' /\ ToldRight(i)'
  <2>1. /\ UNCHANGED <<log, applied, acked>>
        /\ pending' = [pending EXCEPT ![j] = Restrict(pending[j], DOMAIN pending[j] \ {call.index})]
    BY <1>4 DEF ProposeTimeout
  <2>2. \A n \in DOMAIN pending'[i] : n \in DOMAIN pending[i] /\ pending'[i][n] = pending[i][n]
    BY <1>2, <2>1 DEF Restrict
  <2> QED BY <1>0, <2>1, <2>2, AcksKept
<1>5. ASSUME NEW j \in Nodes, Restart(j) PROVE WaitingRight(i)' /\ ToldRight(i)'
  <2>1. i # j
    <3>1. life' = [life EXCEPT ![j] = @ + 1] /\ life \in [Nodes -> Nat]
      BY <1>5 DEF Restart, TypeOK
    <3> QED BY <3>1 DEF NeverFollowed
  <2>2. log'[i] = log[i] /\ applied'[i] = applied[i] /\ pending'[i] = pending[i] /\ acked' = acked
    BY <1>2, <1>5, <2>1 DEF Restart
  <2> QED BY <1>0, <2>2, AcksKept
<1>6. ASSUME NEW m \in DOMAIN net, HandleAppend(m) PROVE WaitingRight(i)' /\ ToldRight(i)'
  <2> DEFINE j == m.to
             lg == IF Consistent(m, log[j]) THEN LogAfter(m, log[j]) ELSE log[j]
             commit == IF Consistent(m, log[j]) /\ m.commit > commitIndex[j]
                       THEN Min({m.commit, Len(lg)}) ELSE commitIndex[j]
  <2>1. j \in Nodes /\ m.term \in Nat
    BY MessageFields DEF TypeOK, WireOK
  <2>2. AcceptedIn(j, m.term)'
    BY <1>6 DEF HandleAppend, AcceptedIn
  <2>3. i # j
    BY <2>1, <2>2 DEF NeverFollowed, AcceptedIn
  <2>4. log' = [log EXCEPT ![j] = lg]
    BY <1>6 DEF HandleAppend
  <2>5. ApplyCommitted(j, lg, commit) \/ UNCHANGED <<applied, callVars>>
    BY <1>6 DEF HandleAppend
  <2> HIDE DEF lg, commit, j
  <2>6. /\ applied'[i] = applied[i] /\ pending'[i] = pending[i]
        /\ \A a \in acked' : a \in acked \/ a.node # i
    BY <1>2, <2>1, <2>3, <2>5 DEF ApplyCommitted
  <2> QED BY <1>0, <1>2, <2>3, <2>4, <2>6, AcksKept
<1>7. ASSUME NEW m \in DOMAIN net, AppendSucceeded(m) PROVE WaitingRight(i)' /\ ToldRight(i)'
  <2>1. m.to \in Nodes /\ m.from \in Nodes
    BY MessageFields DEF TypeOK, WireOK
  <2>2. log' = log
    BY <1>7 DEF AppendSucceeded
  <2>3. \/ UNCHANGED <<applied, pending, acked>>
        \/ \E n \in 1 .. Len(log[m.to]) : ApplyCommitted(m.to, log[m.to], n)
    <3>1. m \in Message /\ commitIndex[m.to] \in Nat
      BY <2>1 DEF TypeOK, WireOK
    <3>2. \A n \in commitIndex[m.to] + 1 .. Len(log[m.to]) : n \in 1 .. Len(log[m.to])
      BY <1>2, <2>1, <3>1
    <3> QED BY <1>7, <3>1, <3>2, SucceededApplies
  <2>4. ASSUME NEW n \in 1 .. Len(log[m.to]), ApplyCommitted(m.to, log[m.to], n)
        PROVE  WaitingRight(i)' /\ ToldRight(i)'
    <3>1. CASE i = m.to
      <4>1. n \in Nat /\ n <= Len(log[i])
        BY <1>2, <3>1
      <4> QED BY <1>0, <2>2, <2>4, <3>1, <4>1, ApplyAcks
    <3>2. CASE i # m.to
      <4>1. /\ applied'[i] = applied[i] /\ pending'[i] = pending[i]
            /\ \A a \in acked' : a \in acked \/ a.node # i
        BY <1>2, <2>1, <2>4, <3>2 DEF ApplyCommitted
      <4> QED BY <1>0, <2>2, <4>1, AcksKept
    <3> QED BY <3>1, <3>2
  <2> QED BY <1>1, <2>2, <2>3, <2>4
<1> QED BY <1>1, <1>3, <1>4, <1>5, <1>6, <1>7 DEF Next, vars, StartElection, VoteTimeout,
       FinishElection, Heartbeat, Deliver, Lose, HandleVoteRequest, ReceiveVote, RefuseAppend,
       StepDown, AppendFailed

LEMMA AcksInvariant == Spec => []AckInv
<1> QED BY InitAcks, NextAcks, TypeCorrect, PTL DEF Spec

\* propose tells the truth on a node that never followed: the entry at the index it
\* waits at stays its own, so True is only told of a command that was applied.
THEOREM AckedApplied == Spec => [](LedOnly => AckedIsApplied)
<1>1. TypeOK /\ AckInv => (LedOnly => AckedIsApplied)
  <2> SUFFICES ASSUME TypeOK, AckInv, LedOnly, NEW a \in acked, life[a.node] = 0
               PROVE  \E k \in DOMAIN applied[a.node] : applied[a.node][k].cmd = a.cmd
    BY DEF AckedIsApplied
  <2>1. a.node \in Nodes /\ NeverFollowed(a.node)
    BY DEF TypeOK, LedOnly
  <2> QED BY <2>1 DEF AckInv, ToldRight
<1> QED BY <1>1, TypeCorrect, AcksInvariant, PTL

-----------------------------------------------------------------------------
(* One leader replicates one log *)

\* At most one node was ever elected, once, and it still runs.
OneLeader == \A d, e \in elected : d = e /\ life[e.node] = 0

\* s is the beginning of lg, or all of it.
Begins(s, lg) == \A k \in DOMAIN s : k \in DOMAIN lg /\ s[k] = lg[k]

\* The leader l itself follows nobody, and only its callers wait or were answered.
LeaderAlone(l) ==
    /\ \A t \in Nat : ~AcceptedIn(l, t)
    /\ \A i \in Nodes \ {l} : DOMAIN pending[i] = {}
    /\ \A a \in acked : a.node = l

\* Every log and all that was applied is the beginning of the leader's log, and
\* the leader applied as much as anybody, up to its commit index.
LogsFollow(l) ==
    /\ \A i \in Nodes : /\ Begins(log[i], log[l])
                        /\ Begins(applied[i], log[l])
                        /\ Len(applied[i]) <= Len(applied[l])
    /\ Len(applied[l]) = commitIndex[l]

\* An AppendEntries of the leader carries a part of its log.
Carries(l, m) ==
    /\ m.from = l /\ m.to # l /\ m.commit <= commitIndex[l]
    /\ \A k \in DOMAIN m.entries : m.prev + k \in DOMAIN log[l] /\ m.entries[k] = log[l][m.prev + k]

WireFollows(l) == \A m \in Sent : Carries(l, m)

\* No command is in the leader's log twice.
EntriesDistinct(l) ==
    /\ \A k, n \in DOMAIN log[l] : log[l][k].cmd = log[l][n].cmd => k = n
    /\ \A k \in DOMAIN log[l] : log[l][k].cmd \in proposed

Following(l) == LeaderAlone(l) /\ LogsFollow(l) /\ WireFollows(l) /\ EntriesDistinct(l)

\* Before the first leader there is nothing to replicate.
Unled ==
    elected = {} =>
        /\ Sent = {} /\ acked = {} /\ accepted = {}
        /\ \A i \in Nodes : /\ log[i] = <<>> /\ applied[i] = <<>>
                            /\ commitIndex[i] = 0 /\ DOMAIN pending[i] = {}

FollowInv == Unled /\ (OneLeader => \A e \in elected : Following(e.node))

\* A step that leaves what the leader wrote and applied alone.
LEMMA FollowKept ==
    ASSUME NEW l \in Nodes, Following(l),
           log'[l] = log[l], applied'[l] = applied[l], commitIndex'[l] = commitIndex[l],
           \A i \in Nodes : /\ Begins(log'[i], log[l])
                            /\ Begins(applied'[i], log[l])
                            /\ Len(applied'[i]) <= Len(applied[l]),
           \A t \in Nat : AcceptedIn(l, t)' => AcceptedIn(l, t),
           \A i \in Nodes \ {l} : DOMAIN pending'[i] = {},
           acked' \subseteq acked, proposed' = proposed,
           \A m \in Sent' : m \in Sent \/ Carries(l, m)
    PROVE  Following(l)'
<1>1. LeaderAlone(l)'
  BY DEF Following, LeaderAlone
<1>2. LogsFollow(l)'
  BY DEF Following, LogsFollow, Begins
<1>3. WireFollows(l)'
  BY DEF Following, WireFollows, Carries
<1>4. EntriesDistinct(l)'
  BY DEF Following, EntriesDistinct
<1> QED BY <1>1, <1>2, <1>3, <1>4 DEF Following

\* A step of the others, far from logs.
LEMMA FollowUntouched ==
    ASSUME NEW l \in Nodes, Following(l),
           UNCHANGED <<log, applied, commitIndex, accepted, acked, proposed>>,
           \A i \in Nodes : DOMAIN pending'[i] \subseteq DOMAIN pending[i],
           \A m \in Sent' : m \in Sent \/ Carries(l, m)
    PROVE  Following(l)'
<1>1. \A i \in Nodes : /\ Begins(log'[i], log[l])
                       /\ Begins(applied'[i], log[l])
                       /\ Len(applied'[i]) <= Len(applied[l])
  BY DEF Following, LogsFollow
<1>2. \A t \in Nat : AcceptedIn(l, t)' => AcceptedIn(l, t)
  BY DEF AcceptedIn
<1>3. \A i \in Nodes \ {l} : DOMAIN pending'[i] = {}
  BY DEF Following, LeaderAlone
<1> QED BY <1>1, <1>2, <1>3, FollowKept

\* What is broadcast by the leader l with the log lg is part of lg.
LEMMA BroadcastCarries ==
    ASSUME TypeOK, NEW l \in Nodes, NEW lg \in Seq(Entry), NEW m \in AppendRequests(l, lg)
    PROVE  /\ m.from = l /\ m.to # l /\ m.commit = commitIndex[l]
           /\ \A k \in DOMAIN m.entries : m.prev + k \in DOMAIN lg /\ m.entries[k] = lg[m.prev + k]
<1>1. /\ m.from = l /\ m.to \in Peers(l) /\ m.commit = commitIndex[l] /\ m.prev \in Nat
      /\ m.entries = SubSeq(lg, m.prev + 1, Len(lg))
  BY RequestFields
<1>2. DOMAIN lg = 1 .. Len(lg)
  OBVIOUS
<1>3. \A k \in DOMAIN m.entries : m.prev + k \in 1 .. Len(lg) /\ m.entries[k] = lg[m.prev + k]
  BY <1>1, RequestEntries
<1> QED BY <1>1, <1>2, <1>3 DEF Peers

\* The leader writes one entry more.
LEMMA FollowPropose ==
    ASSUME TypeOK, NEW l \in Nodes, Following(l), NEW c \in Commands, Propose(l, c)
    PROVE  Following(l)'
<1> USE DEF logVars
<1> DEFINE e == [term |-> currentTerm[l], cmd |-> c]
           lg == Append(log[l], e)
<1>1. /\ log' = [log EXCEPT ![l] = lg] /\ net' = Put(net, AppendRequests(l, lg))
      /\ UNCHANGED <<applied, commitIndex, accepted, acked>>
      /\ proposed' = proposed \cup {c} /\ c \notin proposed
      /\ \A i \in Nodes \ {l} : pending'[i] = pending[i]
  BY DEF Propose, TypeOK
<1>2. /\ log \in [Nodes -> Seq(Entry)] /\ log[l] \in Seq(Entry) /\ e \in Entry /\ e.cmd = c
      /\ commitIndex[l] \in Nat
  <2>1. log \in [Nodes -> Seq(Entry)] /\ currentTerm[l] \in Nat /\ commitIndex[l] \in Nat
    BY DEF TypeOK
  <2> QED BY <2>1 DEF Entry
<1> HIDE DEF e
<1>3. /\ lg \in Seq(Entry) /\ DOMAIN lg = 1 .. Len(log[l]) + 1
      /\ Len(log[l]) \in Nat /\ DOMAIN log[l] = 1 .. Len(log[l])
      /\ lg[Len(log[l]) + 1] = e /\ \A k \in 1 .. Len(log[l]) : lg[k] = log[l][k]
  BY <1>2
<1> HIDE DEF lg
<1>4. log'[l] = lg /\ \A i \in Nodes \ {l} : log'[i] = log[i]
  BY <1>1, <1>2
<1>5. Begins(log[l], lg)
  BY <1>3 DEF Begins
<1>6. LeaderAlone(l)'
  BY <1>1 DEF Following, LeaderAlone, AcceptedIn
<1>7. LogsFollow(l)'
  <2>1. \A s : Begins(s, log[l]) => Begins(s, lg)
    BY <1>5 DEF Begins
  <2>2. Begins(lg, lg)
    BY DEF Begins
  <2>3. \A i \in Nodes : Begins(log'[i], lg) /\ Begins(applied[i], lg)
    BY <1>4, <2>1, <2>2 DEF Following, LogsFollow
  <2> QED BY <1>1, <1>4, <2>3 DEF Following, LogsFollow, Begins
<1>8. WireFollows(l)'
  <2> SUFFICES ASSUME NEW m \in Sent'
               PROVE  /\ m.from = l /\ m.to # l /\ m.commit <= commitIndex[l]
                      /\ \A k \in DOMAIN m.entries :
                           m.prev + k \in DOMAIN lg /\ m.entries[k] = lg[m.prev + k]
    BY <1>1, <1>4 DEF WireFollows, Carries
  <2>1. m \in Sent \/ m \in AppendRequests(l, lg)
    BY <1>1, DomainOfPut DEF Sent
  <2>2. CASE m \in Sent
    BY <1>5, <2>2 DEF Following, WireFollows, Carries, Begins
  <2>3. CASE m \in AppendRequests(l, lg)
    BY <1>2, <1>3, <2>3, BroadcastCarries
  <2> QED BY <2>1, <2>2, <2>3
<1>9. EntriesDistinct(l)'
  <2>1. /\ \A k, n \in DOMAIN log[l] : log[l][k].cmd = log[l][n].cmd => k = n
        /\ \A k \in DOMAIN log[l] : log[l][k].cmd \in proposed
    BY DEF Following, EntriesDistinct
  <2>2. \A k \in DOMAIN lg : \/ k \in DOMAIN log[l] /\ lg[k].cmd = log[l][k].cmd
                             \/ k = Len(log[l]) + 1 /\ lg[k].cmd = c
    BY <1>2, <1>3
  <2>3. \A k, n \in DOMAIN lg : lg[k].cmd = lg[n].cmd => k = n
    BY <1>1, <2>1, <2>2
  <2>4. \A k \in DOMAIN lg : lg[k].cmd \in proposed'
    BY <1>1, <2>1, <2>2
  <2> QED BY <1>4, <2>3, <2>4 DEF EntriesDistinct
<1> QED BY <1>6, <1>7, <1>8, <1>9 DEF Following

\* The leader applies more of its log.
LEMMA FollowApply ==
    ASSUME TypeOK, NEW l \in Nodes, Following(l), NEW n \in commitIndex[l] + 1 .. Len(log[l]),
           commitIndex' = [commitIndex EXCEPT ![l] = n], ApplyCommitted(l, log[l], n),
           UNCHANGED <<log, accepted, proposed>>, Sent' \subseteq Sent
    PROVE  /\ Following(l)'
           /\ Len(applied'[l]) = n /\ n > Len(applied[l])
           /\ Begins(applied[l], applied'[l])
<1> DEFINE old == applied[l]
           new == old \o SubSeq(log[l], Len(old) + 1, n)
<1>1. /\ log[l] \in Seq(Entry) /\ old \in Seq(Entry) /\ applied \in [Nodes -> Seq(Entry)]
      /\ commitIndex \in [Nodes -> Nat] /\ commitIndex[l] \in Nat /\ Len(log[l]) \in Nat
      /\ DOMAIN log[l] = 1 .. Len(log[l]) /\ DOMAIN pending = Nodes
  <2>1. log[l] \in Seq(Entry) /\ applied \in [Nodes -> Seq(Entry)] /\ DOMAIN pending = Nodes
        /\ commitIndex \in [Nodes -> Nat]
    BY DEF TypeOK
  <2> QED BY <2>1
<1>2. n \in Nat /\ n <= Len(log[l]) /\ n > commitIndex[l] /\ Len(old) = commitIndex[l]
  BY <1>1 DEF Following, LogsFollow
<1>3. /\ Len(new) = IF n > Len(old) THEN n ELSE Len(old)
      /\ new \in Seq(Entry)
      /\ \A k \in 1 .. Len(old) : new[k] = old[k]
      /\ \A k \in Len(old) + 1 .. n : new[k] = log[l][k]
  BY <1>1, <1>2, AppliedAfter
<1>4. applied' = [applied EXCEPT ![l] = new]
  BY DEF ApplyCommitted
<1> HIDE DEF new
<1>5. /\ Len(new) = n /\ DOMAIN new = 1 .. n /\ DOMAIN old = 1 .. Len(old) /\ Len(old) \in Nat
      /\ applied'[l] = new /\ \A i \in Nodes \ {l} : applied'[i] = applied[i]
      /\ commitIndex'[l] = n
  BY <1>1, <1>2, <1>3, <1>4
<1>6. Begins(old, new)
  BY <1>2, <1>3, <1>5 DEF Begins
<1>7. Begins(new, log[l])
  <2> SUFFICES ASSUME NEW k \in 1 .. n PROVE k \in DOMAIN log[l] /\ new[k] = log[l][k]
    BY <1>5 DEF Begins
  <2>1. k \in DOMAIN log[l]
    BY <1>1, <1>2
  <2>2. CASE k \in 1 .. Len(old)
    BY <1>3, <1>5, <2>1, <2>2 DEF Following, LogsFollow, Begins
  <2>3. CASE k \in Len(old) + 1 .. n
    BY <1>3, <2>1, <2>3
  <2> QED BY <1>2, <1>5, <2>2, <2>3
<1>8. LeaderAlone(l)'
  <2>1. \A i \in Nodes \ {l} : pending'[i] = pending[i]
    BY <1>1 DEF ApplyCommitted
  <2>2. \A a \in acked' : a \in acked \/ a.node = l
    BY DEF ApplyCommitted
  <2> QED BY <2>1, <2>2 DEF Following, LeaderAlone, AcceptedIn
<1>9. LogsFollow(l)'
  <2>1. \A i \in Nodes : Len(applied[i]) \in Nat /\ Len(applied[i]) <= Len(old)
    BY DEF TypeOK, Following, LogsFollow
  <2>2. \A i \in Nodes : Len(applied'[i]) <= Len(applied'[l])
    BY <1>2, <1>5, <2>1
  <2>3. \A i \in Nodes : Begins(log[i], log[l]) /\ Begins(applied'[i], log[l])
    BY <1>5, <1>7 DEF Following, LogsFollow
  <2> QED BY <1>5, <2>2, <2>3 DEF LogsFollow, Begins
<1>10. WireFollows(l)'
  <2> SUFFICES ASSUME NEW m \in Sent PROVE Carries(l, m)'
    BY DEF WireFollows
  <2>1. Carries(l, m) /\ m.commit \in Nat
    BY MessageFields DEF Following, WireFollows, Sent, TypeOK, WireOK
  <2> QED BY <1>1, <1>2, <1>5, <2>1 DEF Carries
<1>11. EntriesDistinct(l)'
  BY DEF Following, EntriesDistinct
<1> QED BY <1>2, <1>5, <1>6, <1>8, <1>9, <1>10, <1>11 DEF Following

\* A follower accepts what the leader sent.
LEMMA FollowAccept ==
    ASSUME TypeOK, NEW l \in Nodes, Following(l), NEW m \in DOMAIN net, HandleAppend(m)
    PROVE  /\ Following(l)'
           /\ m.to \in Nodes \ {l} /\ acked' = acked
           /\ applied' = [applied EXCEPT ![m.to] = applied'[m.to]]
           /\ applied'[m.to] \in Seq(Entry) /\ Begins(applied[m.to], applied'[m.to])
<1> USE DEF callVars
<1> DEFINE i == m.to
           success == Consistent(m, log[i])
           lg == IF success THEN LogAfter(m, log[i]) ELSE log[i]
           advances == success /\ m.commit > commitIndex[i]
           commit == IF advances THEN Min({m.commit, Len(lg)}) ELSE commitIndex[i]
           new == applied[i] \o SubSeq(lg, Len(applied[i]) + 1, commit)
<1>1. m \in Message /\ m \in Sent /\ m.type = "Append" /\ i \in Nodes /\ m.term \in Nat
  BY MessageFields DEF TypeOK, WireOK, HandleAppend, Sent
<1>2. Carries(l, m) /\ i \in Nodes \ {l}
  BY <1>1 DEF Following, WireFollows, Carries
<1>3. /\ log \in [Nodes -> Seq(Entry)] /\ applied \in [Nodes -> Seq(Entry)]
      /\ log[i] \in Seq(Entry) /\ log[l] \in Seq(Entry) /\ applied[i] \in Seq(Entry)
      /\ commitIndex \in [Nodes -> Nat] /\ commitIndex[l] \in Nat /\ commitIndex[i] \in Nat
      /\ m.prev \in Nat /\ m.entries \in Seq(Entry) /\ m.commit \in Nat
      /\ DOMAIN pending = Nodes
  BY <1>1, MessageFields DEF TypeOK
<1>4. lg \in Seq(Entry) /\ Begins(lg, log[l])
  <2>1. lg \in Seq(Entry)
    BY <1>1, <1>3, LogTypes
  <2>2. CASE lg = log[i]
    BY <1>1, <1>3, <2>2 DEF Following, LogsFollow
  <2>3. CASE lg # log[i]
    <3> DEFINE head == SubSeq(log[i], 1, m.prev)
    <3>1. success /\ lg = head \o m.entries
      BY <2>3 DEF LogAfter
    <3>2. m.prev <= Len(log[i]) /\ Len(log[i]) \in Nat /\ DOMAIN log[i] = 1 .. Len(log[i])
      BY <1>3, <3>1, SMTT(30) DEF Consistent
    <3>3. head \in Seq(Entry) /\ Len(head) = m.prev /\ \A k \in 1 .. m.prev : head[k] = log[i][k]
      BY <1>3, <3>2, SMTT(30)
    <3> HIDE DEF head
    <3>4. /\ DOMAIN (head \o m.entries) = 1 .. m.prev + Len(m.entries)
          /\ \A k \in 1 .. m.prev : (head \o m.entries)[k] = head[k]
          /\ \A k \in 1 .. Len(m.entries) : (head \o m.entries)[m.prev + k] = m.entries[k]
      <4>1. /\ DOMAIN (head \o m.entries) = 1 .. Len(head) + Len(m.entries)
            /\ \A k \in 1 .. Len(head) : (head \o m.entries)[k] = head[k]
            /\ \A k \in 1 .. Len(m.entries) : (head \o m.entries)[Len(head) + k] = m.entries[k]
        BY <1>3, <3>3, ConcatAt
      <4> QED BY <3>3, <4>1
    <3> HIDE DEF lg, success, i
    <3> SUFFICES ASSUME NEW k \in 1 .. m.prev + Len(m.entries)
                 PROVE  k \in DOMAIN log[l] /\ lg[k] = log[l][k]
      BY <2>1, <3>1, <3>4 DEF Begins
    <3>5. CASE k <= m.prev
      <4>1. k \in 1 .. m.prev /\ k \in DOMAIN log[i]
        BY <1>3, <3>2, <3>5
      <4>2. lg[k] = log[i][k]
        BY <3>1, <3>3, <3>4, <4>1
      <4> QED BY <1>1, <4>1, <4>2 DEF Following, LogsFollow, Begins
    <3>6. CASE k > m.prev
      <4> DEFINE n == k - m.prev
      <4>1. n \in 1 .. Len(m.entries) /\ m.prev + n = k
        <5>1. m.prev \in Nat /\ Len(m.entries) \in Nat
          BY <1>3
        <5>2. k \in Int /\ k > m.prev /\ k <= m.prev + Len(m.entries)
          BY <3>6, <5>1
        <5> QED BY <5>1, <5>2
      <4> HIDE DEF n
      <4>2. n \in DOMAIN m.entries /\ lg[m.prev + n] = m.entries[n]
        <5>1. n \in DOMAIN m.entries
          BY <1>3, <4>1
        <5>2. (head \o m.entries)[m.prev + n] = m.entries[n]
          BY <3>4, <4>1
        <5> QED BY <3>1, <5>1, <5>2
      <4> QED BY <1>2, <4>1, <4>2 DEF Carries
    <3> QED BY <1>3, <3>5, <3>6
  <2> QED BY <2>1, <2>2, <2>3
<1>5. /\ log' = [log EXCEPT ![i] = lg] /\ commitIndex' = [commitIndex EXCEPT ![i] = commit]
      /\ accepted' = accepted \cup {[node |-> i, term |-> m.term]}
      /\ proposed' = proposed
      /\ IF advances THEN ApplyCommitted(i, lg, commit) ELSE UNCHANGED <<applied, callVars>>
  BY DEF HandleAppend
<1>6. advances => commit \in Nat /\ commit <= Len(lg) /\ commit <= m.commit
  <2>1. m.commit \in Int /\ Len(lg) \in Int /\ Len(lg) \in Nat
    BY <1>3, <1>4
  <2>2. /\ Min({m.commit, Len(lg)}) \in {m.commit, Len(lg)} /\ Min({m.commit, Len(lg)}) <= Len(lg)
        /\ Min({m.commit, Len(lg)}) <= m.commit
    BY <2>1, MinOfTwo, Zenon
  <2> QED BY <1>3, <2>1, <2>2
<1>7. Sent' \subseteq Sent
  <2>1. \A s : AppendAnswer(m, m.term, s).type = "AppendAnswer"
    BY DEF AppendAnswer
  <2>2. DOMAIN net' \subseteq DOMAIN net \cup {AppendAnswer(m, m.term, Consistent(m, log[i]))}
    BY DomainOfAnswer DEF HandleAppend
  <2> QED BY <2>1, <2>2 DEF Sent
<1> DEFINE gets == applied'[i]
<1>8. /\ applied' = [applied EXCEPT ![i] = gets]
      /\ gets \in Seq(Entry) /\ Begins(applied[i], gets) /\ Begins(gets, log[l])
      /\ Len(gets) <= Len(applied[l])
  <2>0. /\ Begins(applied[i], log[l]) /\ Len(applied[i]) <= Len(applied[l])
        /\ Len(applied[l]) = commitIndex[l] /\ m.commit <= commitIndex[l]
    BY <1>1, <1>2 DEF Following, LogsFollow, Carries
  <2>1. CASE ~advances
    <3>1. applied' = applied
      BY <1>5, <2>1
    <3>2. gets = applied[i]
      BY <3>1
    <3> HIDE DEF gets, i
    <3> QED BY <1>3, <2>0, <3>1, <3>2 DEF Begins
  <2>2. CASE advances
    <3>1. applied' = [applied EXCEPT ![i] = new]
      BY <1>5, <2>2 DEF ApplyCommitted
    <3>3. /\ commit \in Nat /\ commit <= Len(lg) /\ commit <= m.commit
      BY <1>6, <2>2
    <3>2. /\ Len(new) = IF commit > Len(applied[i]) THEN commit ELSE Len(applied[i])
          /\ new \in Seq(Entry)
          /\ \A k \in 1 .. Len(applied[i]) : new[k] = applied[i][k]
          /\ \A k \in Len(applied[i]) + 1 .. commit : new[k] = lg[k]
      <4> HIDE DEF commit, lg, i
      <4> QED BY <1>3, <1>4, <3>3, AppliedAfter
    <3>4. gets = new
      BY <1>1, <1>3, <3>1
    <3> HIDE DEF gets, new, commit, lg, i
    <3>5. /\ DOMAIN new = 1 .. Len(new) /\ Len(new) \in Nat /\ DOMAIN lg = 1 .. Len(lg)
          /\ DOMAIN applied[i] = 1 .. Len(applied[i]) /\ Len(applied[i]) \in Nat
          /\ Len(lg) \in Nat
      BY <1>3, <1>4, <3>2
    <3>6. Len(new) <= Len(applied[l])
      BY <1>3, <2>0, <3>2, <3>3, <3>5
    <3>7. Begins(applied[i], new)
      BY <3>2, <3>3, <3>5 DEF Begins
    <3>8. Begins(new, log[l])
      <4> SUFFICES ASSUME NEW k \in 1 .. Len(new) PROVE k \in DOMAIN log[l] /\ new[k] = log[l][k]
        BY <3>5 DEF Begins
      <4>1. CASE k <= Len(applied[i])
        <5>1. k \in DOMAIN applied[i] /\ new[k] = applied[i][k]
          BY <3>2, <3>5, <4>1
        <5> QED BY <2>0, <5>1 DEF Begins
      <4>2. CASE k > Len(applied[i])
        <5>1. k \in Len(applied[i]) + 1 .. commit /\ k \in DOMAIN lg
          BY <3>2, <3>3, <3>5, <4>2
        <5>2. new[k] = lg[k]
          BY <3>2, <5>1
        <5> QED BY <1>4, <5>1, <5>2 DEF Begins
      <4> QED BY <3>5, <4>1, <4>2
    <3> QED BY <3>1, <3>2, <3>4, <3>6, <3>7, <3>8
  <2> QED BY <2>1, <2>2
<1>9. acked' = acked /\ \A j \in Nodes \ {l} : DOMAIN pending'[j] = {}
  <2>1. \A j \in Nodes \ {l} : DOMAIN pending[j] = {}
    BY DEF Following, LeaderAlone
  <2>2. CASE advances
    <3>1. ApplyCommitted(i, lg, commit)
      BY <1>5, <2>2
    <3> HIDE DEF commit, lg, advances, i
    <3>2. FuturesAt(i, commit) = {}
      BY <1>2, <2>1 DEF FuturesAt
    <3>3. acked' = acked
      BY <3>1, <3>2 DEF ApplyCommitted
    <3>4. \A j \in Nodes \ {l} : DOMAIN pending'[j] = {}
      BY <1>2, <1>3, <2>1, <3>1 DEF ApplyCommitted, Restrict
    <3> QED BY <3>3, <3>4
  <2>3. CASE ~advances
    BY <1>5, <2>1, <2>3
  <2> QED BY <2>2, <2>3
<1> HIDE DEF gets, lg, commit
<1>10. Following(l)'
  <2>1. log'[l] = log[l] /\ applied'[l] = applied[l] /\ commitIndex'[l] = commitIndex[l]
    BY <1>2, <1>3, <1>5, <1>8
  <2>2. ASSUME NEW j \in Nodes
        PROVE  /\ Begins(log'[j], log[l])
               /\ Begins(applied'[j], log[l])
               /\ Len(applied'[j]) <= Len(applied[l])
    <3>1. CASE j = i
      <4>1. log'[j] = lg /\ applied'[j] = gets
        BY <1>3, <1>5, <1>8, <3>1
      <4> QED BY <1>4, <1>8, <4>1
    <3>2. CASE j # i
      <4>1. log'[j] = log[j] /\ applied'[j] = applied[j]
        BY <1>3, <1>5, <1>8, <3>2
      <4> QED BY <4>1 DEF Following, LogsFollow
    <3> QED BY <3>1, <3>2
  <2>3. \A t \in Nat : AcceptedIn(l, t)' => AcceptedIn(l, t)
    BY <1>2, <1>5 DEF AcceptedIn
  <2> QED BY <1>5, <1>7, <1>9, <2>1, <2>2, <2>3, FollowKept
<1> QED BY <1>2, <1>8, <1>9, <1>10 DEF gets

\* A node other than the leader is restarted.
LEMMA FollowRestart ==
    ASSUME TypeOK, NEW l \in Nodes, Following(l), NEW i \in Nodes \ {l}, Restart(i)
    PROVE  Following(l)'
<1>1. /\ log' = [log EXCEPT ![i] = <<>>] /\ applied' = [applied EXCEPT ![i] = <<>>]
      /\ commitIndex' = [commitIndex EXCEPT ![i] = 0] /\ pending' = [pending EXCEPT ![i] = <<>>]
      /\ UNCHANGED <<acked, accepted, proposed>>
  BY DEF Restart, pastVars
<1>2. /\ log \in [Nodes -> Seq(Entry)] /\ applied \in [Nodes -> Seq(Entry)]
      /\ commitIndex \in [Nodes -> Nat] /\ DOMAIN pending = Nodes
  BY DEF TypeOK
<1> Len(applied[l]) \in Nat
  BY <1>2
<1>3. Sent' \subseteq Sent
  BY DEF Restart, Restrict, Sent
<1>4. log'[l] = log[l] /\ applied'[l] = applied[l] /\ commitIndex'[l] = commitIndex[l]
  BY <1>1, <1>2
<1>5. ASSUME NEW j \in Nodes
      PROVE  /\ Begins(log'[j], log[l])
             /\ Begins(applied'[j], log[l])
             /\ Len(applied'[j]) <= Len(applied[l])
  <2>1. CASE j = i
    <3>1. log'[j] = <<>> /\ applied'[j] = <<>>
      BY <1>1, <1>2, <2>1
    <3> QED BY <1>2, <3>1 DEF Begins
  <2>2. CASE j # i
    <3>1. log'[j] = log[j] /\ applied'[j] = applied[j]
      BY <1>1, <1>2, <2>2
    <3> QED BY <3>1 DEF Following, LogsFollow
  <2> QED BY <2>1, <2>2
<1>6. \A j \in Nodes \ {l} : DOMAIN pending'[j] = {}
  <2>1. \A j \in Nodes \ {l} : pending'[j] = pending[j] \/ pending'[j] = <<>>
    BY <1>1, <1>2
  <2> QED BY <2>1 DEF Following, LeaderAlone
<1> QED BY <1>1, <1>3, <1>4, <1>5, <1>6, FollowKept DEF AcceptedIn

\* The messages a step can put on the wire, AppendEntries aside.
LEMMA SentAfter ==
    ASSUME TypeOK, [Next]_vars, NEW m \in Sent', m \notin Sent
    PROVE  \E i \in Nodes : /\ state[i] = "leader"
                            /\ \/ Heartbeat(i)
                               \/ \E c \in Commands : Propose(i, c)
<1>1. ASSUME NEW i \in Nodes, StartElection(i) PROVE FALSE
  <2> DEFINE request(j) == [type |-> "VoteRequest", from |-> i, to |-> j,
                            term |-> currentTerm[i] + 1, life |-> life[i],
                            lastIndex |-> Len(log[i]), lastTerm |-> LastTerm(log[i])]
  <2>1. net' = Put(net, {request(j) : j \in Peers(i)})
    BY <1>1 DEF StartElection
  <2>2. \A r \in {request(j) : j \in Peers(i)} : r.type = "VoteRequest"
    OBVIOUS
  <2>3. DOMAIN net' = DOMAIN net \cup {request(j) : j \in Peers(i)}
    BY <2>1, DomainOfPut
  <2> QED BY <2>2, <2>3 DEF Sent
<1>2. ASSUME NEW i \in Nodes, NEW j \in Peers(i), VoteTimeout(i, j) PROVE FALSE
  BY <1>2 DEF VoteTimeout, Restrict, Sent
<1>3. ASSUME NEW i \in Nodes, Restart(i) PROVE FALSE
  BY <1>3 DEF Restart, Restrict, Sent
<1>4. ASSUME NEW n \in DOMAIN net, Deliver(n) PROVE FALSE
  <2>1. CASE HandleVoteRequest(n)
    <3> DEFINE answer(grant) == [type |-> "VoteAnswer", from |-> n.to, to |-> n.from,
                                 term |-> n.term, life |-> n.life, granted |-> grant]
    <3>1. DOMAIN net' \subseteq DOMAIN net \cup {answer(Grants(n, AdoptTerm(n).vote))}
      BY <2>1, DomainOfAnswer DEF HandleVoteRequest
    <3>2. \A g : answer(g).type = "VoteAnswer"
      OBVIOUS
    <3> HIDE DEF answer
    <3> QED BY <3>1, <3>2 DEF Sent
  <2>2. CASE RefuseAppend(n)
    <3> DEFINE a == AppendAnswer(n, currentTerm[n.to], FALSE)
    <3>1. net' = Answer(n, a)
      BY <2>2 DEF RefuseAppend
    <3>2. a.type = "AppendAnswer"
      BY DEF AppendAnswer
    <3> HIDE DEF a
    <3>3. DOMAIN net' \subseteq DOMAIN net \cup {a}
      BY <3>1, DomainOfAnswer
    <3> QED BY <3>2, <3>3 DEF Sent
  <2>3. CASE HandleAppend(n)
    <3>1. \A s : AppendAnswer(n, n.term, s).type = "AppendAnswer"
      BY DEF AppendAnswer
    <3>2. DOMAIN net' \subseteq DOMAIN net \cup {AppendAnswer(n, n.term, Consistent(n, log[n.to]))}
      BY <2>3, DomainOfAnswer DEF HandleAppend
    <3> QED BY <3>1, <3>2 DEF Sent
  <2>4. CASE net' = Take(net, n)
    BY <2>4, DomainOfTake DEF Sent
  <2> QED BY <1>4, <2>1, <2>2, <2>3, <2>4 DEF Deliver, ReceiveVote, StepDown, AppendSucceeded,
           AppendFailed
<1>5. ASSUME NEW n \in DOMAIN net, Lose(n) PROVE FALSE
  BY <1>5, DomainOfTake DEF Lose, Sent
<1>6. ~UNCHANGED net
  BY DEF Sent
<1>7. \A i \in Nodes : /\ Heartbeat(i) => state[i] = "leader"
                       /\ \A c \in Commands : Propose(i, c) => state[i] = "leader"
  BY DEF Heartbeat, Propose
<1> QED BY <1>1, <1>2, <1>3, <1>4, <1>5, <1>6, <1>7 DEF Next, vars, FinishElection, ProposeTimeout

\* What happens to the logs, by step.
LEMMA StepKinds ==
    ASSUME TypeOK, [Next]_vars
    PROVE  \/ /\ UNCHANGED <<log, applied, commitIndex, accepted, acked, proposed>>
              /\ \A i \in Nodes : DOMAIN pending'[i] \subseteq DOMAIN pending[i]
           \/ \E i \in Nodes : \E c \in Commands : Propose(i, c)
           \/ \E i \in Nodes : Restart(i)
           \/ \E m \in DOMAIN net : HandleAppend(m)
           \/ \E m \in DOMAIN net : AppendSucceeded(m)
<1> USE DEF logVars, callVars, pastVars
<1>1. ASSUME NEW i \in Nodes, NEW call \in calls[i], ProposeTimeout(i, call)
      PROVE  /\ UNCHANGED <<log, applied, commitIndex, accepted, acked, proposed>>
             /\ \A j \in Nodes : DOMAIN pending'[j] \subseteq DOMAIN pending[j]
  <2>1. /\ UNCHANGED <<log, applied, commitIndex, accepted, acked, proposed>>
        /\ pending' = [pending EXCEPT ![i] = Restrict(pending[i], DOMAIN pending[i] \ {call.index})]
        /\ DOMAIN pending = Nodes
    BY <1>1 DEF ProposeTimeout, TypeOK
  <2> QED BY <2>1 DEF Restrict
<1>2. UNCHANGED pending => \A j \in Nodes : DOMAIN pending'[j] \subseteq DOMAIN pending[j]
  OBVIOUS
<1> QED BY <1>1, <1>2, ZenonT(60) DEF Next, vars, StartElection, VoteTimeout, FinishElection, Heartbeat,
       Deliver, Lose, HandleVoteRequest, ReceiveVote, RefuseAppend, StepDown, AppendFailed

LEMMA InitFollows == Init => FollowInv
<1> SUFFICES ASSUME Init PROVE FollowInv
  OBVIOUS
<1>1. Sent = {} /\ elected = {} /\ acked = {} /\ accepted = {}
  BY DEF Init, EmptyBag, SetToBag, Sent
<1>2. \A i \in Nodes : /\ log[i] = <<>> /\ applied[i] = <<>>
                       /\ commitIndex[i] = 0 /\ DOMAIN pending[i] = {}
  BY DEF Init
<1> QED BY <1>1, <1>2 DEF FollowInv, Unled

\* Nothing is replicated before the first election is won.
LEMMA NextUnled ==
    ASSUME TypeOK, LogInv, Unled, [Next]_vars
    PROVE  Unled'
<1> SUFFICES ASSUME elected' = {}
             PROVE  /\ Sent' = {} /\ acked' = {} /\ accepted' = {}
                    /\ \A i \in Nodes : /\ log'[i] = <<>> /\ applied'[i] = <<>>
                                        /\ commitIndex'[i] = 0 /\ DOMAIN pending'[i] = {}
  BY DEF Unled
<1>1. elected = {} /\ \A i \in Nodes : state[i] # "leader"
  BY PastGrows DEF LogInv, LeadersElected
<1>2. /\ Sent = {} /\ acked = {} /\ accepted = {}
      /\ \A i \in Nodes : /\ log[i] = <<>> /\ applied[i] = <<>>
                          /\ commitIndex[i] = 0 /\ DOMAIN pending[i] = {}
  BY <1>1 DEF Unled
<1>3. Sent' = {}
  BY <1>1, <1>2, SentAfter
<1>4. CASE /\ UNCHANGED <<log, applied, commitIndex, accepted, acked, proposed>>
           /\ \A i \in Nodes : DOMAIN pending'[i] \subseteq DOMAIN pending[i]
  BY <1>2, <1>3, <1>4
<1>5. ASSUME NEW i \in Nodes, NEW c \in Commands, Propose(i, c) PROVE FALSE
  BY <1>1, <1>5 DEF Propose
<1>6. CASE \E i \in Nodes : Restart(i)
  <2>1. PICK i \in Nodes : Restart(i)
    BY <1>6
  <2>2. /\ log' = [log EXCEPT ![i] = <<>>] /\ applied' = [applied EXCEPT ![i] = <<>>]
        /\ commitIndex' = [commitIndex EXCEPT ![i] = 0] /\ pending' = [pending EXCEPT ![i] = <<>>]
        /\ UNCHANGED <<acked, accepted>>
    BY <2>1 DEF Restart, pastVars
  <2>3. DOMAIN log = Nodes /\ DOMAIN applied = Nodes /\ DOMAIN commitIndex = Nodes
        /\ DOMAIN pending = Nodes
    BY DEF TypeOK
  <2>4. \A j \in Nodes : /\ log'[j] = <<>> /\ applied'[j] = <<>> /\ commitIndex'[j] = 0
                         /\ pending'[j] = pending[j] \/ pending'[j] = <<>>
    BY <1>2, <2>2, <2>3
  <2>5. DOMAIN (<<>>) = {}
    OBVIOUS
  <2>6. \A j \in Nodes : DOMAIN pending'[j] = {}
    BY <1>2, <2>4, <2>5
  <2> QED BY <1>2, <1>3, <2>2, <2>4, <2>6
<1>7. ASSUME NEW m \in DOMAIN net, HandleAppend(m) PROVE FALSE
  BY <1>2, <1>7 DEF HandleAppend, Sent
<1>8. ASSUME NEW m \in DOMAIN net, AppendSucceeded(m)
      PROVE  UNCHANGED <<log, applied, commitIndex, accepted, acked, pending>>
  <2>1. m \in Message /\ m.to \in Nodes
    BY MessageFields DEF TypeOK, WireOK
  <2>2. UNCHANGED <<commitIndex, applied, calls, pending, acked>>
    BY <1>1, <1>8, <2>1, SucceededApplies
  <2> QED BY <1>8, <2>2 DEF AppendSucceeded, pastVars
<1>9. CASE \E m \in DOMAIN net : AppendSucceeded(m)
  BY <1>2, <1>3, <1>8, <1>9
<1> QED BY <1>4, <1>5, <1>6, <1>7, <1>9, StepKinds

\* The first leader finds everything empty.
LEMMA FirstFollowed ==
    ASSUME Unled, elected = {}, NEW l \in Nodes
    PROVE  Following(l)
<1>1. /\ Sent = {} /\ acked = {} /\ accepted = {}
      /\ \A i \in Nodes : /\ log[i] = <<>> /\ applied[i] = <<>>
                          /\ commitIndex[i] = 0 /\ DOMAIN pending[i] = {}
  BY DEF Unled
<1>2. DOMAIN (<<>>) = {} /\ Len(<<>>) = 0 /\ 0 <= 0
  OBVIOUS
<1>3. LeaderAlone(l)
  BY <1>1 DEF LeaderAlone, AcceptedIn
<1>4. LogsFollow(l)
  BY <1>1, <1>2 DEF LogsFollow, Begins
<1>5. WireFollows(l) /\ EntriesDistinct(l)
  BY <1>1, <1>2 DEF WireFollows, EntriesDistinct
<1> QED BY <1>3, <1>4, <1>5 DEF Following

\* With one leader the steps that replicate are its own.
LEMMA OnlyLeaderLeads ==
    ASSUME LogInv, OneLeader, NEW e \in elected, NEW i \in Nodes, state[i] = "leader"
    PROVE  i = e.node
<1>1. [node |-> i, term |-> currentTerm[i]] \in elected
  BY DEF LogInv, LeadersElected
<1>2. [node |-> i, term |-> currentTerm[i]] = e
  BY <1>1 DEF OneLeader
<1> QED BY <1>2

LEMMA NextFollowed ==
    ASSUME TypeOK, LogInv, [Next]_vars, OneLeader, OneLeader', NEW e \in elected,
           Following(e.node)
    PROVE  Following(e.node)'
<1> DEFINE l == e.node
<1>0. l \in Nodes /\ e \in elected'
  BY PastGrows DEF TypeOK
<1>1. life'[l] = 0
  BY <1>0 DEF OneLeader
<1> HIDE DEF l
<1>2. ASSUME NEW m \in Sent', m \notin Sent
      PROVE  Heartbeat(l) \/ \E c \in Commands : Propose(l, c)
  BY <1>2, SentAfter, OnlyLeaderLeads DEF l
<1>3. ASSUME ~ \E c \in Commands : Propose(l, c)
      PROVE  \A m \in Sent' : m \in Sent \/ Carries(l, m)
  <2> SUFFICES ASSUME NEW m \in Sent', m \notin Sent PROVE Carries(l, m)
    OBVIOUS
  <2>1. Heartbeat(l)
    BY <1>2, <1>3
  <2>2. m \in AppendRequests(l, log[l])
    BY <2>1, DomainOfPut DEF Heartbeat, Sent
  <2>3. log[l] \in Seq(Entry) /\ commitIndex[l] \in Nat
    BY <1>0 DEF TypeOK
  <2>4. /\ m.from = l /\ m.to # l /\ m.commit = commitIndex[l]
        /\ \A k \in DOMAIN m.entries :
             m.prev + k \in DOMAIN log[l] /\ m.entries[k] = log[l][m.prev + k]
    BY <1>0, <2>2, <2>3, BroadcastCarries
  <2> QED BY <2>3, <2>4 DEF Carries
<1>4. ASSUME NEW i \in Nodes, NEW c \in Commands, Propose(i, c) PROVE Following(l)'
  <2>1. i = l
    BY <1>4, OnlyLeaderLeads DEF l, Propose
  <2>2. Following(l)
    BY DEF l
  <2> QED BY <1>0, <1>4, <2>1, <2>2, FollowPropose
<1>5. ASSUME NEW i \in Nodes, Restart(i) PROVE Following(l)'
  <2>1. life' = [life EXCEPT ![i] = @ + 1] /\ life \in [Nodes -> Nat]
    BY <1>5 DEF Restart, TypeOK
  <2>2. i # l
    BY <1>0, <1>1, <2>1
  <2>3. Following(l)
    BY DEF l
  <2> QED BY <1>0, <1>5, <2>2, <2>3, FollowRestart
<1>6. ASSUME NEW m \in DOMAIN net, HandleAppend(m) PROVE Following(l)'
  BY <1>0, <1>6, FollowAccept DEF l
<1>7. ASSUME UNCHANGED <<log, applied, commitIndex, accepted, acked, proposed>>,
             \A i \in Nodes : DOMAIN pending'[i] \subseteq DOMAIN pending[i]
      PROVE  Following(l)'
  <2>1. ASSUME NEW c \in Commands, Propose(l, c) PROVE Following(l)'
    BY <1>0, <1>4, <2>1
  <2>2. ASSUME ~ \E c \in Commands : Propose(l, c) PROVE Following(l)'
    <3>1. Following(l)
      BY DEF l
    <3> QED BY <1>0, <1>3, <1>7, <2>2, <3>1, FollowUntouched
  <2> QED BY <2>1, <2>2
<1>8. ASSUME NEW m \in DOMAIN net, AppendSucceeded(m) PROVE Following(l)'
  <2>1. m \in Message /\ m.to \in Nodes
    BY MessageFields DEF TypeOK, WireOK
  <2>2. UNCHANGED <<log, accepted, proposed>> /\ Sent' \subseteq Sent
    BY <1>8, DomainOfTake DEF AppendSucceeded, pastVars, Sent
  <2>3. Following(l)
    BY DEF l
  <2>4. ASSUME UNCHANGED <<commitIndex, applied, calls, pending, acked>> PROVE Following(l)'
    BY <1>0, <2>2, <2>3, <2>4, FollowUntouched
  <2>5. ASSUME NEW n \in commitIndex[m.to] + 1 .. Len(log[m.to]), state[m.to] = "leader",
               commitIndex' = [commitIndex EXCEPT ![m.to] = n],
               ApplyCommitted(m.to, log[m.to], n)
        PROVE  Following(l)'
    <3>1. m.to = l
      BY <2>1, <2>5, OnlyLeaderLeads DEF l
    <3> QED BY <1>0, <2>2, <2>3, <2>5, <3>1, FollowApply
  <2> QED BY <1>8, <2>1, <2>4, <2>5, SucceededApplies
<1>9. Following(l)'
  BY <1>4, <1>5, <1>6, <1>7, <1>8, StepKinds
<1> QED BY <1>9 DEF l

LEMMA OneLeaderBefore ==
    ASSUME TypeOK, [Next]_vars, OneLeader'
    PROVE  OneLeader
<1> SUFFICES ASSUME NEW d \in elected, NEW e \in elected PROVE d = e /\ life[e.node] = 0
  BY DEF OneLeader
<1>1. d \in elected' /\ e \in elected' /\ e.node \in Nodes
  BY PastGrows DEF TypeOK
<1>2. d = e /\ life'[e.node] = 0
  BY <1>1 DEF OneLeader
<1> QED BY <1>1, <1>2, PastGrows

\* Only the end of an election makes a leader.
LEMMA ElectedInFinish ==
    ASSUME [Next]_vars, NEW e \in elected', e \notin elected
    PROVE  \E i \in Nodes : FinishElection(i)
BY ZenonT(60) DEF Next, vars, pastVars, StartElection, VoteTimeout, Heartbeat, Propose, ProposeTimeout,
       Restart, Deliver, Lose, HandleVoteRequest, ReceiveVote, RefuseAppend, HandleAppend,
       StepDown, AppendSucceeded, AppendFailed

LEMMA NextFollows == TypeOK /\ LogInv /\ FollowInv /\ [Next]_vars => FollowInv'
<1> SUFFICES ASSUME TypeOK, LogInv, FollowInv, [Next]_vars PROVE FollowInv'
  OBVIOUS
<1>1. Unled'
  BY NextUnled DEF FollowInv
<1>2. ASSUME OneLeader', NEW e \in elected' PROVE Following(e.node)'
  <2>1. OneLeader
    BY <1>2, PastGrows, OneLeaderBefore
  <2>2. CASE e \in elected
    BY <1>2, <2>1, <2>2, NextFollowed DEF FollowInv
  <2>3. CASE e \notin elected
    <3>1. elected = {}
      BY <1>2, <2>3, PastGrows DEF OneLeader
    <3>2. PICK i \in Nodes : FinishElection(i)
      BY <2>3, ElectedInFinish
    <3>3. e.node \in Nodes
      BY <1>2, NextTyped DEF TypeOK
    <3>4. Following(e.node)
      BY <3>1, <3>3, FirstFollowed DEF FollowInv
    <3>5. UNCHANGED <<log, applied, commitIndex, accepted, acked, proposed, pending, net>>
      BY <3>2 DEF FinishElection, logVars, callVars
    <3>6. Sent' = Sent /\ \A j \in Nodes : DOMAIN pending'[j] \subseteq DOMAIN pending[j]
      BY <3>5 DEF Sent
    <3> QED BY <3>3, <3>4, <3>5, <3>6, FollowUntouched
  <2> QED BY <2>2, <2>3
<1> QED BY <1>1, <1>2 DEF FollowInv

LEMMA FollowsInvariant == Spec => []FollowInv
<1> QED BY InitFollows, NextFollows, TypeCorrect, LogsInvariant, PTL DEF Spec

\* The commands of a list of entries, and of the longest of several lists.
CommandsOf(s) == [k \in DOMAIN s |-> s[k].cmd]
LongestOf(f) ==
    CHOOSE s \in {CommandsOf(f[i]) : i \in Nodes} : \A i \in Nodes : Len(CommandsOf(f[i])) <= Len(s)

LEMMA CommandsTyped ==
    ASSUME NEW s \in Seq(Entry)
    PROVE  /\ CommandsOf(s) \in Seq(Commands) /\ Len(CommandsOf(s)) = Len(s)
           /\ \A k \in 1 .. Len(s) : CommandsOf(s)[k] = s[k].cmd
<1>1. Len(s) \in Nat /\ DOMAIN s = 1 .. Len(s)
  OBVIOUS
<1>2. \A k \in 1 .. Len(s) : s[k].cmd \in Commands
  <2>1. \A k \in 1 .. Len(s) : s[k] \in Entry
    BY <1>1
  <2> QED BY <2>1 DEF Entry
<1>3. CommandsOf(s) \in [1 .. Len(s) -> Commands]
  BY <1>1, <1>2 DEF CommandsOf
<1>4. CommandsOf(s) \in Seq(Commands)
  BY <1>1, <1>3, SeqDef
<1>5. DOMAIN CommandsOf(s) = 1 .. Len(s) /\ \A k \in 1 .. Len(s) : CommandsOf(s)[k] = s[k].cmd
  BY <1>1 DEF CommandsOf
<1> HIDE DEF CommandsOf
<1>6. Len(CommandsOf(s)) = Len(s)
  BY <1>1, <1>4, <1>5, LenProperties
<1> QED BY <1>4, <1>5, <1>6

LEMMA BeginsCommands ==
    ASSUME NEW s \in Seq(Entry), NEW t \in Seq(Entry), Begins(s, t)
    PROVE  /\ Len(s) <= Len(t)
           /\ \A k \in 1 .. Len(s) : CommandsOf(s)[k] = CommandsOf(t)[k]
           /\ Len(CommandsOf(s)) <= Len(CommandsOf(t))
           /\ SubSeq(CommandsOf(s), 1, Len(CommandsOf(s))) = SubSeq(CommandsOf(t), 1, Len(CommandsOf(s)))
           /\ Len(s) = Len(t) => CommandsOf(s) = CommandsOf(t)
<1>1. /\ Len(s) \in Nat /\ Len(t) \in Nat /\ DOMAIN s = 1 .. Len(s) /\ DOMAIN t = 1 .. Len(t)
  OBVIOUS
<1>2. Len(s) <= Len(t)
  <2>1. CASE Len(s) = 0
    BY <1>1, <2>1
  <2>2. CASE Len(s) # 0
    <3>1. Len(s) \in DOMAIN s
      BY <1>1, <2>2
    <3>2. Len(s) \in DOMAIN t
      BY <3>1 DEF Begins
    <3> QED BY <1>1, <3>2
  <2> QED BY <2>1, <2>2
<1>3. /\ CommandsOf(s) \in Seq(Commands) /\ Len(CommandsOf(s)) = Len(s)
      /\ \A k \in 1 .. Len(s) : CommandsOf(s)[k] = s[k].cmd
  BY CommandsTyped
<1>4. /\ CommandsOf(t) \in Seq(Commands) /\ Len(CommandsOf(t)) = Len(t)
      /\ \A k \in 1 .. Len(t) : CommandsOf(t)[k] = t[k].cmd
  BY CommandsTyped
<1>5. ASSUME NEW k \in 1 .. Len(s) PROVE CommandsOf(s)[k] = CommandsOf(t)[k]
  <2>1. k \in 1 .. Len(t) /\ s[k] = t[k]
    BY <1>1, <1>2 DEF Begins
  <2> QED BY <1>3, <1>4, <2>1
<1>6. SubSeq(CommandsOf(s), 1, Len(s)) = SubSeq(CommandsOf(t), 1, Len(s))
  BY <1>1, <1>2, <1>3, <1>4, <1>5
<1>7. Len(s) = Len(t) => CommandsOf(s) = CommandsOf(t)
  BY <1>3, <1>4, <1>5, SeqEqual
<1> QED BY <1>2, <1>3, <1>4, <1>5, <1>6, <1>7

\* When all lists begin the one of l, the longest one is that of l.
LEMMA LongestIs ==
    ASSUME NEW f \in [Nodes -> Seq(Entry)], NEW l \in Nodes, NEW lg \in Seq(Entry),
           \A i \in Nodes : Begins(f[i], lg) /\ Len(f[i]) <= Len(f[l])
    PROVE  LongestOf(f) = CommandsOf(f[l]) /\ \A i \in Nodes : Begins(f[i], f[l])
<1>1. \A i \in Nodes : f[i] \in Seq(Entry) /\ Len(CommandsOf(f[i])) = Len(f[i])
  BY CommandsTyped
<1>2. \A i \in Nodes : Begins(f[i], f[l])
  <2> SUFFICES ASSUME NEW i \in Nodes, NEW k \in DOMAIN f[i]
               PROVE  k \in DOMAIN f[l] /\ f[i][k] = f[l][k]
    BY DEF Begins
  <2>1. DOMAIN f[i] = 1 .. Len(f[i]) /\ DOMAIN f[l] = 1 .. Len(f[l])
        /\ Len(f[i]) \in Nat /\ Len(f[l]) \in Nat
    BY <1>1, LenProperties
  <2>2. k \in DOMAIN f[l]
    BY <2>1
  <2> QED BY <2>2 DEF Begins
<1> DEFINE lists == {CommandsOf(f[i]) : i \in Nodes}
           longest(s) == \A i \in Nodes : Len(CommandsOf(f[i])) <= Len(s)
<1>3. CommandsOf(f[l]) \in lists /\ longest(CommandsOf(f[l]))
  BY <1>1
<1>4. LongestOf(f) \in lists /\ longest(LongestOf(f))
  <2> HIDE DEF longest, lists
  <2>1. \E s \in lists : longest(s)
    BY <1>3
  <2>2. LongestOf(f) = CHOOSE s \in lists : longest(s)
    BY DEF LongestOf, lists, longest
  <2> QED BY <2>1, <2>2
<1>5. PICK i \in Nodes : LongestOf(f) = CommandsOf(f[i])
  BY <1>4
<1>6. Len(f[l]) <= Len(f[i]) /\ Len(f[i]) <= Len(f[l]) /\ Len(f[i]) \in Nat /\ Len(f[l]) \in Nat
  <2>1. Len(CommandsOf(f[l])) <= Len(CommandsOf(f[i]))
    BY <1>4, <1>5
  <2> QED BY <1>1, <2>1
<1>7. CommandsOf(f[i]) = CommandsOf(f[l])
  BY <1>1, <1>2, <1>6, BeginsCommands
<1> QED BY <1>2, <1>5, <1>7

LEMMA MappedBy ==
    /\ LongestLearned = LongestOf(applied)
    /\ \A i \in Nodes : Learned(i) = CommandsOf(applied[i])
BY DEF LongestLearned, LongestOf, Learned, CommandsOf

LEMMA MappedNext ==
    /\ LongestLearned' = LongestOf(applied')
    /\ \A i \in Nodes : Learned(i)' = CommandsOf(applied'[i])
BY DEF LongestLearned, LongestOf, Learned, CommandsOf

\* What follows the leader is mapped to what it applied.
LEMMA ChosenIs ==
    ASSUME TypeOK, NEW l \in Nodes, Following(l)
    PROVE  /\ LongestLearned = CommandsOf(applied[l])
           /\ \A i \in Nodes : Begins(applied[i], applied[l])
<1>1. applied \in [Nodes -> Seq(Entry)] /\ log[l] \in Seq(Entry)
  BY DEF TypeOK
<1> QED BY <1>1, LongestIs, MappedBy DEF Following, LogsFollow

LEMMA ChosenNext ==
    ASSUME TypeOK', NEW l \in Nodes, Following(l)'
    PROVE  /\ LongestLearned' = CommandsOf(applied'[l])
           /\ \A i \in Nodes : Begins(applied'[i], applied'[l])
<1>1. applied' \in [Nodes -> Seq(Entry)] /\ log'[l] \in Seq(Entry)
  BY DEF TypeOK
<1>2. \A i \in Nodes : Begins(applied'[i], log'[l]) /\ Len(applied'[i]) <= Len(applied'[l])
  BY DEF Following, LogsFollow, Begins
<1> QED BY <1>1, <1>2, LongestIs, MappedNext

LEMMA NoCommands == CommandsOf(<<>>) = <<>>
<1>1. <<>> \in Seq(Entry) /\ Len(<<>>) = 0
  OBVIOUS
<1>2. CommandsOf(<<>>) \in Seq(Commands) /\ Len(CommandsOf(<<>>)) = 0
  BY <1>1, CommandsTyped
<1> QED BY <1>2, EmptySeq

LEMMA InitChosen == Init => Chosen!Init
<1> SUFFICES ASSUME Init PROVE Chosen!Init
  OBVIOUS
<1>1. applied = [i \in Nodes |-> <<>>] /\ acked = {}
  BY DEF Init
<1>3. \A i \in Nodes : CommandsOf(applied[i]) = <<>>
  BY <1>1, NoCommands
<1>4. PICK l \in Nodes : TRUE
  BY SomeNode
<1>5. Following(l)
  BY <1>4, InitFollows, FirstFollowed DEF FollowInv, Init
<1>6. LongestLearned = <<>>
  BY <1>3, <1>4, <1>5, InitTyped, ChosenIs
<1>7. [i \in Nodes |-> Learned(i)] = [i \in Nodes |-> <<>>]
  BY <1>3, MappedBy
<1> QED BY <1>1, <1>6, <1>7 DEF Chosen!Init

\* Nothing given to a callback, nobody told: nothing happens in the replicated log.
LEMMA ChosenStutters == UNCHANGED <<applied, acked>> => UNCHANGED Chosen!vars
BY DEF Chosen!vars, LongestLearned, Learned

\* A node that follows is given more of what is chosen.
LEMMA AcceptLearns ==
    ASSUME TypeOK, TypeOK', NEW l \in Nodes, Following(l), NEW m \in DOMAIN net, HandleAppend(m)
    PROVE  Chosen!Next
<1> DEFINE i == m.to
<1>1. /\ Following(l)' /\ i \in Nodes \ {l} /\ acked' = acked
      /\ applied' = [applied EXCEPT ![i] = applied'[i]]
      /\ applied'[i] \in Seq(Entry) /\ Begins(applied[i], applied'[i])
  BY FollowAccept
<1> HIDE DEF i
<1>2. applied \in [Nodes -> Seq(Entry)] /\ applied[i] \in Seq(Entry) /\ applied[l] \in Seq(Entry)
      /\ applied'[l] = applied[l] /\ \A j \in Nodes \ {i} : applied'[j] = applied[j]
  <2>1. applied \in [Nodes -> Seq(Entry)]
    BY DEF TypeOK
  <2> QED BY <1>1, <2>1
<1>3. LongestLearned = CommandsOf(applied[l])
  BY ChosenIs
<1>4. LongestLearned' = CommandsOf(applied'[l]) /\ Begins(applied'[i], applied[l])
  BY <1>1, <1>2, ChosenNext
<1> DEFINE before == [j \in Nodes |-> Learned(j)]
           after == [j \in Nodes |-> Learned(j)]'
<1>5. before = [j \in Nodes |-> CommandsOf(applied[j])]
      /\ after = [j \in Nodes |-> CommandsOf(applied'[j])]
  BY MappedBy, MappedNext
<1> HIDE DEF before, after
<1>6. after = [before EXCEPT ![i] = after[i]]
  <2>1. \A j \in Nodes \ {i} : after[j] = before[j]
    BY <1>2, <1>5
  <2> QED BY <1>1, <1>5, <2>1
<1>7. before[i] = CommandsOf(applied[i]) /\ after[i] = CommandsOf(applied'[i])
  BY <1>1, <1>5
<1>8. Chosen!IsPrefix(before[i], after[i])
  <2>1. /\ Len(CommandsOf(applied[i])) <= Len(CommandsOf(applied'[i]))
        /\ SubSeq(CommandsOf(applied[i]), 1, Len(CommandsOf(applied[i])))
             = SubSeq(CommandsOf(applied'[i]), 1, Len(CommandsOf(applied[i])))
    BY <1>1, <1>2, BeginsCommands
  <2> QED BY <1>7, <2>1 DEF Chosen!IsPrefix
<1>9. Chosen!IsPrefix(after[i], LongestLearned)
  <2>1. /\ Len(CommandsOf(applied'[i])) <= Len(CommandsOf(applied[l]))
        /\ SubSeq(CommandsOf(applied'[i]), 1, Len(CommandsOf(applied'[i])))
             = SubSeq(CommandsOf(applied[l]), 1, Len(CommandsOf(applied'[i])))
    BY <1>1, <1>2, <1>4, BeginsCommands
  <2> QED BY <1>3, <1>7, <2>1 DEF Chosen!IsPrefix
<1>10. UNCHANGED LongestLearned
  BY <1>2, <1>3, <1>4
<1>11. Chosen!Tell(i)
  BY <1>1 DEF Chosen!Tell
<1>12. Chosen!Learn(i)
  BY <1>6, <1>8, <1>9, <1>10, <1>11 DEF Chosen!Learn, before, after
<1> QED BY <1>1, <1>12 DEF Chosen!Next

\* The leader applies what it found on a quorum: more is chosen, its callers are told.
LEMMA SucceedChooses ==
    ASSUME TypeOK, TypeOK', NEW l \in Nodes, Following(l), ToldRight(l)',
           NEW n \in commitIndex[l] + 1 .. Len(log[l]),
           commitIndex' = [commitIndex EXCEPT ![l] = n], ApplyCommitted(l, log[l], n),
           UNCHANGED <<log, accepted, proposed>>, Sent' \subseteq Sent
    PROVE  Chosen!Next
<1>1. /\ Following(l)' /\ Len(applied'[l]) = n /\ n > Len(applied[l])
      /\ Begins(applied[l], applied'[l])
  BY FollowApply
<1>2. /\ applied \in [Nodes -> Seq(Entry)] /\ applied' \in [Nodes -> Seq(Entry)]
      /\ applied[l] \in Seq(Entry) /\ applied'[l] \in Seq(Entry)
      /\ \A j \in Nodes \ {l} : applied'[j] = applied[j]
      /\ acked \subseteq acked'
  <2>1. applied \in [Nodes -> Seq(Entry)] /\ applied' \in [Nodes -> Seq(Entry)]
    BY DEF TypeOK
  <2> QED BY <2>1 DEF ApplyCommitted
<1>3. LongestLearned = CommandsOf(applied[l])
  BY ChosenIs
<1>4. LongestLearned' = CommandsOf(applied'[l])
  BY <1>1, ChosenNext
<1>5. /\ CommandsOf(applied'[l]) \in Seq(Commands) /\ Len(CommandsOf(applied'[l])) = n
      /\ DOMAIN CommandsOf(applied'[l]) = DOMAIN applied'[l]
      /\ \A k \in DOMAIN applied'[l] : CommandsOf(applied'[l])[k] = applied'[l][k].cmd
      /\ Len(CommandsOf(applied[l])) = Len(applied[l])
  BY <1>1, <1>2, CommandsTyped DEF CommandsOf
<1> DEFINE before == [j \in Nodes |-> Learned(j)]
           after == [j \in Nodes |-> Learned(j)]'
           told == {a.cmd : a \in acked}
           tells == {a.cmd : a \in acked}'
<1>6. before = [j \in Nodes |-> CommandsOf(applied[j])]
      /\ after = [j \in Nodes |-> CommandsOf(applied'[j])]
  BY MappedBy, MappedNext
<1> HIDE DEF before, after
<1>7. after = [before EXCEPT ![l] = LongestLearned']
  <2>1. \A j \in Nodes \ {l} : after[j] = before[j]
    BY <1>2, <1>6
  <2> QED BY <1>4, <1>6, <2>1
<1>8. Chosen!IsStrictPrefix(LongestLearned, LongestLearned')
  <2>1. /\ Len(CommandsOf(applied[l])) <= Len(CommandsOf(applied'[l]))
        /\ SubSeq(CommandsOf(applied[l]), 1, Len(CommandsOf(applied[l])))
             = SubSeq(CommandsOf(applied'[l]), 1, Len(CommandsOf(applied[l])))
    BY <1>1, <1>2, BeginsCommands
  <2>2. Len(applied[l]) \in Nat /\ n # Len(applied[l])
    BY <1>1, <1>2
  <2>3. CommandsOf(applied[l]) # CommandsOf(applied'[l])
    BY <1>5, <2>2
  <2> QED BY <1>3, <1>4, <2>1, <2>3 DEF Chosen!IsStrictPrefix, Chosen!IsPrefix
<1>9. Chosen!IsInjective(LongestLearned')
  <2> SUFFICES ASSUME NEW j \in DOMAIN applied'[l], NEW k \in DOMAIN applied'[l],
                      applied'[l][j].cmd = applied'[l][k].cmd
               PROVE  j = k
    BY <1>4, <1>5 DEF Chosen!IsInjective
  <2>1. Begins(applied'[l], log'[l])
    BY <1>1 DEF Following, LogsFollow, Begins
  <2>2. /\ j \in DOMAIN log'[l] /\ applied'[l][j] = log'[l][j]
        /\ k \in DOMAIN log'[l] /\ applied'[l][k] = log'[l][k]
    BY <2>1 DEF Begins
  <2> QED BY <1>1, <2>2 DEF Following, EntriesDistinct
<1>10. Chosen!Tell(l)
  <2>1. told \subseteq tells
    BY <1>2
  <2>2. ASSUME NEW a \in acked' PROVE a.cmd \in Chosen!Range(after[l])
    <3>1. a.node = l
      BY <1>1 DEF Following, LeaderAlone
    <3>2. PICK k \in DOMAIN applied'[l] : applied'[l][k].cmd = a.cmd
      BY <3>1 DEF ToldRight
    <3>3. after[l] = CommandsOf(applied'[l])
      BY <1>6
    <3> QED BY <1>5, <3>2, <3>3 DEF Chosen!Range
  <2>3. tells \subseteq Chosen!Range(after[l])
    BY <2>2
  <2> QED BY <2>1, <2>3 DEF Chosen!Tell, after
<1>11. Chosen!Choose(l)
  BY <1>4, <1>5, <1>7, <1>8, <1>9, <1>10 DEF Chosen!Choose, before, after
<1> QED BY <1>11 DEF Chosen!Next

\* A node that follows forgets what it was given.
LEMMA RestartForgets ==
    ASSUME TypeOK, TypeOK', NEW l \in Nodes, Following(l), NEW i \in Nodes \ {l}, Restart(i)
    PROVE  Chosen!Next
<1>1. Following(l)'
  BY FollowRestart
<1>2. /\ applied' = [applied EXCEPT ![i] = <<>>] /\ acked' = acked
      /\ applied \in [Nodes -> Seq(Entry)]
      /\ applied'[l] = applied[l] /\ applied'[i] = <<>>
      /\ \A j \in Nodes \ {i} : applied'[j] = applied[j]
  BY DEF Restart, TypeOK
<1>3. UNCHANGED LongestLearned
  BY <1>1, <1>2, ChosenIs, ChosenNext
<1> DEFINE before == [j \in Nodes |-> Learned(j)]
           after == [j \in Nodes |-> Learned(j)]'
<1>4. before = [j \in Nodes |-> CommandsOf(applied[j])]
      /\ after = [j \in Nodes |-> CommandsOf(applied'[j])]
  BY MappedBy, MappedNext
<1> HIDE DEF before, after
<1>5. after = [before EXCEPT ![i] = <<>>]
  <2>1. \A j \in Nodes \ {i} : after[j] = before[j]
    BY <1>2, <1>4
  <2>2. after[i] = <<>>
    BY <1>2, <1>4, NoCommands
  <2> QED BY <1>4, <2>1, <2>2
<1>6. Chosen!Forget(i)
  BY <1>2, <1>3, <1>5 DEF Chosen!Forget, before, after
<1> QED BY <1>6 DEF Chosen!Next

\* Every step of Raft with one leader is one of the replicated log, or none.
LEMMA StepChosen ==
    ASSUME TypeOK, TypeOK', LogInv, FollowInv, AckInv', OneLeader, OneLeader', [Next]_vars
    PROVE  Chosen!Next \/ UNCHANGED Chosen!vars
<1>1. CASE UNCHANGED <<applied, acked>>
  BY <1>1, ChosenStutters
<1>2. CASE elected = {}
  <2>1. Unled /\ \A i \in Nodes : state[i] # "leader"
    BY <1>2 DEF FollowInv, LogInv, LeadersElected
  <2>2. Sent = {} /\ acked = {} /\ applied \in [Nodes -> Seq(Entry)]
        /\ \A i \in Nodes : applied[i] = <<>>
    BY <1>2, <2>1 DEF Unled, TypeOK
  <2>3. ASSUME NEW i \in Nodes, Restart(i) PROVE UNCHANGED <<applied, acked>>
    BY <2>2, <2>3 DEF Restart
  <2>4. ASSUME NEW m \in DOMAIN net, HandleAppend(m) PROVE FALSE
    BY <2>2, <2>4 DEF HandleAppend, Sent
  <2>5. ASSUME NEW m \in DOMAIN net, AppendSucceeded(m) PROVE UNCHANGED <<applied, acked>>
    <3>1. m \in Message /\ m.to \in Nodes
      BY MessageFields DEF TypeOK, WireOK
    <3> QED BY <2>1, <2>5, <3>1, SucceededApplies
  <2>6. ASSUME NEW i \in Nodes, NEW c \in Commands, Propose(i, c) PROVE FALSE
    BY <2>1, <2>6 DEF Propose
  <2> QED BY <1>1, <2>3, <2>4, <2>5, <2>6, StepKinds
<1>3. CASE elected # {}
  <2>1. PICK e \in elected : TRUE
    BY <1>3
  <2> DEFINE l == e.node
  <2>2. l \in Nodes /\ Following(l)
    BY DEF FollowInv, TypeOK
  <2>3. e \in elected' /\ life'[l] = 0
    BY PastGrows DEF OneLeader
  <2>4. Following(l)'
    BY NextFollowed, <2>2
  <2>5. ToldRight(l)'
    <3>1. NeverFollowed(l)'
      BY <2>3, <2>4 DEF NeverFollowed, Following, LeaderAlone
    <3> QED BY <2>2, <3>1 DEF AckInv
  <2>6. \A i \in Nodes : state[i] = "leader" => i = l
    BY OnlyLeaderLeads
  <2> HIDE DEF l
  <2>7. ASSUME NEW i \in Nodes, NEW c \in Commands, Propose(i, c)
        PROVE  UNCHANGED <<applied, acked>>
    BY <2>7 DEF Propose
  <2>8. ASSUME NEW i \in Nodes, Restart(i) PROVE Chosen!Next
    <3>1. life' = [life EXCEPT ![i] = @ + 1] /\ life \in [Nodes -> Nat]
      BY <2>8 DEF Restart, TypeOK
    <3>2. i # l
      BY <2>2, <2>3, <3>1
    <3> QED BY <2>2, <2>8, <3>2, RestartForgets
  <2>9. ASSUME NEW m \in DOMAIN net, HandleAppend(m) PROVE Chosen!Next
    BY <2>2, <2>9, AcceptLearns
  <2>10. ASSUME NEW m \in DOMAIN net, AppendSucceeded(m)
         PROVE  Chosen!Next \/ UNCHANGED <<applied, acked>>
    <3>1. m \in Message /\ m.to \in Nodes
      BY MessageFields DEF TypeOK, WireOK
    <3>2. UNCHANGED <<log, accepted, proposed>> /\ Sent' \subseteq Sent
      BY <2>10, DomainOfTake DEF AppendSucceeded, pastVars, Sent
    <3>3. ASSUME NEW n \in commitIndex[m.to] + 1 .. Len(log[m.to]), state[m.to] = "leader",
                 commitIndex' = [commitIndex EXCEPT ![m.to] = n],
                 ApplyCommitted(m.to, log[m.to], n)
          PROVE  Chosen!Next
      <4>1. m.to = l
        BY <2>6, <3>1, <3>3
      <4> QED BY <2>2, <2>5, <3>2, <3>3, <4>1, SucceedChooses
    <3> QED BY <2>10, <3>1, <3>3, SucceededApplies
  <2> QED BY <1>1, <2>7, <2>8, <2>9, <2>10, StepKinds
<1> QED BY <1>2, <1>3

\* As long as at most one node was ever elected and it still runs, RaftConsensus is the
\* replicated log the lock service needs: one sequence of commands, given to every
\* running node's callbacks in order, and True told only of commands in it - however
\* requests are lost, delayed and reordered and however often followers are restarted.
THEOREM OneLeaderReplicates == Spec /\ []OneLeader => ImplementsReplicatedLog
<1>1. Init => Chosen!Init
  BY InitChosen
<1>2. ASSUME TypeOK, TypeOK', LogInv, FollowInv, AckInv', OneLeader, OneLeader', [Next]_vars
      PROVE  [Chosen!Next]_(Chosen!vars)
  <2>1. Chosen!Next \/ UNCHANGED Chosen!vars
    BY <1>2, StepChosen
  <2> QED BY <2>1
<1> QED BY <1>1, <1>2, TypeCorrect, LogsInvariant, FollowsInvariant, AcksInvariant, PTL
        DEF Spec, ImplementsReplicatedLog, Chosen!Spec
=============================================================================
