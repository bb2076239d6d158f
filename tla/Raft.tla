-------------------------------- MODULE Raft --------------------------------
(***************************************************************************)
(* RaftConsensus (src/src/consensus/raft.py) on a set of nodes joined by   *)
(* HTTP requests (src/src/communication/message_passing.py).               *)
(*                                                                         *)
(* Every coroutine of a node runs on one event loop, so a handler is one   *)
(* atomic step up to its first await that really suspends.  The awaits     *)
(* that suspend are the ones on the network and on timers: they separate   *)
(* StartElection, the votes that come in and FinishElection, they separate *)
(* the sending of an AppendEntries from the handling of its answer, and    *)
(* they separate propose from its result.                                  *)
(*                                                                         *)
(* net is a bag, since every heartbeat may put one more copy of the same   *)
(* request on the wire.  A request may be handled late, out of order or    *)
(* never, and at most once (retry=False).  Nothing is ever persisted: a    *)
(* restarted node begins as a new one.                                     *)
(***************************************************************************)
EXTENDS Integers, SequencesExt

CONSTANTS
    Nodes,          \* the members of the cluster (CLUSTER_NODES)
    Commands,       \* the commands clients propose, each of them once
    None,           \* Python's None for voted_for and leader_id
    Elections,      \* bound: <<i, t>> if the timer of i may start an election of term t
    Restartable,    \* the nodes that may be killed and started again
    MaxInFlight,    \* bound: requests and answers on the wire when one is sent
    MaxLife         \* bound: restarts of one node

ASSUME NodesAssumption == IsFiniteSet(Nodes) /\ None \notin Nodes
ASSUME SomeNode == Nodes # {}
ASSUME BoundsAssumption == MaxInFlight \in Nat /\ MaxLife \in Nat

VARIABLES
    state,          \* "follower", "candidate" or "leader"
    currentTerm,
    votedFor,
    leaderId,
    log,            \* entries [term, cmd]; an entry's index is its position
    commitIndex,
    nextIndex,
    matchIndex,
    applied,        \* the entries given to the on_commit callbacks; last_applied is its length
    pending,        \* _pending_requests: log index -> the proposal waiting on it
    calls,          \* propose coroutines that still wait: records [index, cmd]
    election,       \* the running _start_election, if open: its term, peers awaited, votes
    life,           \* how often the node has been restarted
    net             \* bag of requests and answers on the wire

\* What has happened so far.  No action reads these, but that proposed keeps
\* each command to one proposal.
VARIABLES
    grants,         \* [voter, cand, term]: voter gave its vote of that term to cand
    accepted,       \* [node, term]: node accepted an AppendEntries of that term
    elected,        \* [node, term]: node became leader of that term
    acked,          \* [node, cmd]: propose(cmd) returned True on that node
    proposed        \* the commands proposed so far

nodeVars == <<state, currentTerm, votedFor, leaderId>>
logVars  == <<log, commitIndex, applied>>
peerVars == <<nextIndex, matchIndex>>
callVars == <<pending, calls, acked>>
pastVars == <<grants, accepted, elected, proposed>>
vars == <<nodeVars, logVars, peerVars, callVars, pastVars, election, life, net>>

-----------------------------------------------------------------------------
Peers(i) == Nodes \ {i}

\* Slip: half of the nodes is taken for a majority.
HalfOfNodes == Cardinality(Nodes) \div 2

\* quorum_size: a strict majority of the peers and the node itself
QuorumSize == Cardinality(Nodes) \div 2 + 1

LastTerm(lg) == IF lg = <<>> THEN 0 ELSE lg[Len(lg)].term

\* the log comparison of _handle_vote_request
UpToDate(m, lg) ==
    \/ m.lastTerm > LastTerm(lg)
    \/ m.lastTerm = LastTerm(lg) /\ m.lastIndex >= Len(lg)

\* the consistency check of _handle_append_entries
Consistent(m, lg) ==
    \/ m.prev = 0
    \/ m.prev <= Len(lg) /\ lg[m.prev].term = m.prevTerm

\* Slip: the entries are added to whatever the follower has.
LogWithAppended(m, lg) == lg \o m.entries

\* how the follower's log looks once the entries of m are in it: everything
\* behind prev is dropped, whether or not it agreed with the entries
LogAfter(m, lg) ==
    IF m.entries = <<>> THEN lg ELSE SubSeq(lg, 1, m.prev) \o m.entries

\* One request (or answer) more on the wire, and one less.
Put(bag, msgs) == bag (+) SetToBag(msgs)
Take(bag, m)   == bag (-) SetToBag({m})

NoElection == [open |-> FALSE, term |-> 0, awaiting |-> {}, votes |-> {}]

\* The running election of i still waits for the vote of j in this term.
Awaits(i, j, term) ==
    election[i].open /\ election[i].term = term /\ j \in election[i].awaiting

\* An answer travels on the connection its request came on: it has nowhere to
\* go once the asking process was restarted or the vote request timed out.
Answer(m, answer) ==
    IF /\ life[m.from] = m.life
       /\ m.type = "VoteRequest" => Awaits(m.from, m.to, m.term)
    THEN Put(Take(net, m), {answer}) ELSE Take(net, m)

-----------------------------------------------------------------------------
Init ==
    /\ state = [i \in Nodes |-> "follower"]
    /\ currentTerm = [i \in Nodes |-> 0]
    /\ votedFor = [i \in Nodes |-> None]
    /\ leaderId = [i \in Nodes |-> None]
    /\ log = [i \in Nodes |-> <<>>]
    /\ commitIndex = [i \in Nodes |-> 0]
    /\ applied = [i \in Nodes |-> <<>>]
    /\ nextIndex = [i \in Nodes |-> [j \in Nodes |-> 1]]
    /\ matchIndex = [i \in Nodes |-> [j \in Nodes |-> 0]]
    /\ pending = [i \in Nodes |-> <<>>]
    /\ calls = [i \in Nodes |-> {}]
    /\ election = [i \in Nodes |-> NoElection]
    /\ life = [i \in Nodes |-> 0]
    /\ net = EmptyBag
    /\ grants = {} /\ accepted = {} /\ elected = {} /\ acked = {} /\ proposed = {}

-----------------------------------------------------------------------------
(* Elections *)

\* The election timer of i fires and _start_election runs up to the broadcast.
StartElection(i) ==
    /\ state[i] # "leader"
    /\ ~election[i].open
    /\ <<i, currentTerm[i] + 1>> \in Elections
    /\ LET term == currentTerm[i] + 1
           request(j) == [type |-> "VoteRequest", from |-> i, to |-> j, term |-> term,
                          life |-> life[i], lastIndex |-> Len(log[i]),
                          lastTerm |-> LastTerm(log[i])]
       IN /\ currentTerm' = [currentTerm EXCEPT ![i] = term]
          /\ net' = Put(net, {request(j) : j \in Peers(i)})
          /\ grants' = grants \cup {[voter |-> i, cand |-> i, term |-> term]}
    /\ state' = [state EXCEPT ![i] = "candidate"]
    /\ votedFor' = [votedFor EXCEPT ![i] = i]
    /\ leaderId' = [leaderId EXCEPT ![i] = None]
    /\ election' = [election EXCEPT ![i] =
                      [open |-> TRUE, term |-> currentTerm[i] + 1,
                       awaiting |-> Peers(i), votes |-> {}]]
    /\ UNCHANGED <<logVars, peerVars, callVars, accepted, elected, proposed, life>>

\* Slip: the term of any message is taken over.
AdoptAnyTerm(m) ==
    [term |-> m.term, state |-> state[m.to], vote |-> votedFor[m.to], leader |-> leaderId[m.to]]

\* The head of handle_message: a message of a newer term turns the node into a
\* follower that has not voted, before the message's own handler runs.
AdoptTerm(m) ==
    LET i == m.to
        newer == m.term > currentTerm[i]
    IN [term   |-> Max({m.term, currentTerm[i]}),
        state  |-> IF newer THEN "follower" ELSE state[i],
        vote   |-> IF newer THEN None ELSE votedFor[i],
        leader |-> IF newer THEN None ELSE leaderId[i]]

\* Slip: voted_for is not looked at.
GrantsAnyone(m, vote) == m.term >= currentTerm[m.to] /\ UpToDate(m, log[m.to])

\* _handle_vote_request's decision, given the vote the node holds by then
Grants(m, vote) ==
    /\ m.term >= currentTerm[m.to]
    /\ vote \in {None, m.from}
    /\ UpToDate(m, log[m.to])

\* A VoteRequest is handled and answered.
HandleVoteRequest(m) ==
    /\ m.type = "VoteRequest"
    /\ LET i == m.to
           base == AdoptTerm(m)
           grant == Grants(m, base.vote)
       IN /\ currentTerm' = [currentTerm EXCEPT ![i] = base.term]
          /\ state' = [state EXCEPT ![i] = base.state]
          /\ leaderId' = [leaderId EXCEPT ![i] = base.leader]
          /\ votedFor' = [votedFor EXCEPT ![i] = IF grant THEN m.from ELSE base.vote]
          /\ grants' = IF grant
                       THEN grants \cup {[voter |-> i, cand |-> m.from, term |-> m.term]}
                       ELSE grants
          /\ net' = Answer(m, [type |-> "VoteAnswer", from |-> i, to |-> m.from,
                               term |-> m.term, life |-> m.life, granted |-> grant])
    /\ UNCHANGED <<logVars, peerVars, callVars, accepted, elected, proposed, election, life>>

\* The answer to a vote request of the running election.
ReceiveVote(m) ==
    /\ m.type = "VoteAnswer"
    /\ Awaits(m.to, m.from, m.term)
    /\ election' = [election EXCEPT
         ![m.to].awaiting = @ \ {m.from},
         ![m.to].votes = IF m.granted THEN @ \cup {m.from} ELSE @]
    /\ net' = Take(net, m)
    /\ UNCHANGED <<nodeVars, logVars, peerVars, callVars, pastVars, life>>

\* The vote request of i to j fails or times out (5 s).  The request may still
\* be handled; an answer has nowhere to go.
VoteTimeout(i, j) ==
    /\ election[i].open /\ j \in election[i].awaiting
    /\ election' = [election EXCEPT ![i].awaiting = @ \ {j}]
    /\ net' = Restrict(net, {m \in DOMAIN net :
                               ~(m.type = "VoteAnswer" /\ m.from = j /\ m.to = i)})
    /\ UNCHANGED <<nodeVars, logVars, peerVars, callVars, pastVars, life>>

\* Slip: the candidate does not check that it is still one.
WinsByVotes(i) == Cardinality(election[i].votes) + 1 >= QuorumSize

\* The test with which _start_election ends: it does not look at the term again.
Wins(i) == state[i] = "candidate" /\ Cardinality(election[i].votes) + 1 >= QuorumSize

\* broadcast has every answer: _start_election goes on, and calls
\* _become_leader if the votes suffice.
FinishElection(i) ==
    /\ election[i].open /\ election[i].awaiting = {}
    /\ election' = [election EXCEPT ![i] = NoElection]
    /\ \/ /\ Wins(i)
          /\ state' = [state EXCEPT ![i] = "leader"]
          /\ leaderId' = [leaderId EXCEPT ![i] = i]
          /\ nextIndex' = [nextIndex EXCEPT ![i] = [j \in Nodes |-> Len(log[i]) + 1]]
          /\ matchIndex' = [matchIndex EXCEPT ![i] = [j \in Nodes |-> 0]]
          /\ elected' = elected \cup {[node |-> i, term |-> currentTerm[i]]}
       \/ /\ ~Wins(i)
          /\ UNCHANGED <<state, leaderId, peerVars, elected>>
    /\ UNCHANGED <<currentTerm, votedFor, logVars, callVars, grants, accepted,
                   proposed, life, net>>

-----------------------------------------------------------------------------
(* Replication *)

\* The requests _replicate_entries sends when the log of i is lg.
AppendRequests(i, lg) ==
    LET prev(j) == nextIndex[i][j] - 1
    IN {[type |-> "Append", from |-> i, to |-> j, term |-> currentTerm[i],
         life |-> life[i], prev |-> prev(j),
         prevTerm |-> IF prev(j) \in 1..Len(lg) THEN lg[prev(j)].term ELSE 0,
         entries |-> SubSeq(lg, prev(j) + 1, Len(lg)),
         commit |-> commitIndex[i]] : j \in Peers(i)}

\* Bound: room on the wire for one broadcast.
RoomToBroadcast == BagCardinality(net) + Cardinality(Nodes) - 1 <= MaxInFlight

\* One turn of _heartbeat_loop.
Heartbeat(i) ==
    /\ state[i] = "leader"
    /\ RoomToBroadcast
    /\ net' = Put(net, AppendRequests(i, log[i]))
    /\ UNCHANGED <<nodeVars, logVars, peerVars, callVars, pastVars, election, life>>

\* propose on the leader, up to the wait for its future.
Propose(i, c) ==
    /\ state[i] = "leader"
    /\ c \notin proposed
    /\ RoomToBroadcast
    /\ LET lg == Append(log[i], [term |-> currentTerm[i], cmd |-> c])
           index == Len(lg)
       IN /\ log' = [log EXCEPT ![i] = lg]
          /\ pending' = [pending EXCEPT ![i] =
                           [n \in DOMAIN @ \cup {index} |-> IF n = index THEN c ELSE @[n]]]
          /\ calls' = [calls EXCEPT ![i] = @ \cup {[index |-> index, cmd |-> c]}]
          /\ net' = Put(net, AppendRequests(i, lg))
    /\ proposed' = proposed \cup {c}
    /\ UNCHANGED <<nodeVars, commitIndex, applied, peerVars, acked, grants, accepted,
                   elected, election, life>>

\* The 5 s of propose run out: it forgets whatever waits at its index.
ProposeTimeout(i, call) ==
    /\ call \in calls[i]
    /\ calls' = [calls EXCEPT ![i] = @ \ {call}]
    /\ pending' = [pending EXCEPT ![i] = Restrict(@, DOMAIN @ \ {call.index})]
    /\ UNCHANGED <<nodeVars, logVars, peerVars, acked, pastVars, election, life, net>>

\* Slip: every waiting future is told.
EveryFuture(i, commit) == DOMAIN pending[i]

\* The indices at which _apply_committed finds a future to tell, when it applies
\* up to commit.
FuturesAt(i, commit) == DOMAIN pending[i] \cap (Len(applied[i]) + 1 .. commit)

\* _apply_committed on i, whose log is lg and whose commit index is commit: the
\* callbacks get the entries, and each future waiting at an applied index is
\* told True, whichever command the entry holds.
ApplyCommitted(i, lg, commit) ==
    LET told == FuturesAt(i, commit)
    IN /\ applied' = [applied EXCEPT ![i] = @ \o SubSeq(lg, Len(@) + 1, commit)]
       /\ pending' = [pending EXCEPT ![i] = Restrict(@, DOMAIN @ \ told)]
       /\ calls' = [calls EXCEPT ![i] =
                      {c \in @ : ~(c.index \in told /\ pending[i][c.index] = c.cmd)}]
       /\ acked' = acked \cup {[node |-> i, cmd |-> pending[i][n]] : n \in told}

\* The answer of _handle_append_entries to m, with the receiver in this term.
AppendAnswer(m, term, success) ==
    [type |-> "AppendAnswer", from |-> m.to, to |-> m.from, term |-> term,
     life |-> m.life, success |-> success, prev |-> m.prev, count |-> Len(m.entries)]

\* An AppendEntries of an older term is refused.
RefuseAppend(m) ==
    /\ m.type = "Append"
    /\ m.term < currentTerm[m.to]
    /\ net' = Answer(m, AppendAnswer(m, currentTerm[m.to], FALSE))
    /\ UNCHANGED <<nodeVars, logVars, peerVars, callVars, pastVars, election, life>>

\* Slip: a leader that accepts an AppendEntries stays leader.
SameRole(m) == state[m.to]

\* The role in which _handle_append_entries leaves a node that accepts m.
RoleAfterAppend(m) == "follower"

\* An AppendEntries of the current or a newer term is handled.  The vote is
\* forgotten, in the node's current term too.
HandleAppend(m) ==
    /\ m.type = "Append"
    /\ m.term >= currentTerm[m.to]
    /\ LET i == m.to
           success == Consistent(m, log[i])
           lg == IF success THEN LogAfter(m, log[i]) ELSE log[i]
           commit == IF success /\ m.commit > commitIndex[i]
                     THEN Min({m.commit, Len(lg)}) ELSE commitIndex[i]
       IN /\ currentTerm' = [currentTerm EXCEPT ![i] = m.term]
          /\ state' = [state EXCEPT ![i] = RoleAfterAppend(m)]
          /\ leaderId' = [leaderId EXCEPT ![i] = m.from]
          /\ votedFor' = [votedFor EXCEPT ![i] = None]
          /\ log' = [log EXCEPT ![i] = lg]
          /\ commitIndex' = [commitIndex EXCEPT ![i] = commit]
          /\ IF success /\ m.commit > commitIndex[i]
             THEN ApplyCommitted(i, lg, commit)
             ELSE UNCHANGED <<applied, callVars>>
          /\ accepted' = accepted \cup {[node |-> i, term |-> m.term]}
          /\ net' = Answer(m, AppendAnswer(m, m.term, success))
    /\ UNCHANGED <<peerVars, grants, elected, proposed, election, life>>

\* The indices _try_advance_commit finds replicated on a quorum, given the
\* match indices of the leader's peers.
Committable(i, match) ==
    {n \in commitIndex[i] + 1 .. Len(log[i]) :
        /\ log[i][n].term = currentTerm[i]
        /\ Cardinality({j \in Peers(i) : match[j] >= n}) + 1 >= QuorumSize}

\* _process_ae_resp, an answer of a newer term: the leader steps down, but
\* keeps its leader_id.
StepDown(m) ==
    /\ m.type = "AppendAnswer"
    /\ m.term > currentTerm[m.to]
    /\ currentTerm' = [currentTerm EXCEPT ![m.to] = m.term]
    /\ state' = [state EXCEPT ![m.to] = "follower"]
    /\ votedFor' = [votedFor EXCEPT ![m.to] = None]
    /\ net' = Take(net, m)
    /\ UNCHANGED <<leaderId, logVars, peerVars, callVars, pastVars, election, life>>

\* _process_ae_resp, success.  Neither the role of the node nor its term at
\* sending is compared: any late answer moves the indices.
AppendSucceeded(m) ==
    /\ m.type = "AppendAnswer"
    /\ m.term <= currentTerm[m.to] /\ m.success
    /\ LET i == m.to
           upTo == m.prev + m.count
           match == IF m.count > 0 THEN [matchIndex[i] EXCEPT ![m.from] = upTo]
                                   ELSE matchIndex[i]
           ready == IF state[i] = "leader" THEN Committable(i, match) ELSE {}
       IN /\ matchIndex' = [matchIndex EXCEPT ![i] = match]
          /\ nextIndex' = IF m.count > 0
                          THEN [nextIndex EXCEPT ![i][m.from] = upTo + 1] ELSE nextIndex
          /\ \/ /\ ready = {}
                /\ UNCHANGED <<commitIndex, applied, callVars>>
             \/ /\ ready # {}
                /\ commitIndex' = [commitIndex EXCEPT ![i] = Max(ready)]
                /\ ApplyCommitted(i, log[i], Max(ready))
    /\ net' = Take(net, m)
    /\ UNCHANGED <<nodeVars, log, pastVars, election, life>>

\* Slips: the next request starts where the refused one did; it starts before
\* the log.
SameNext(next) == next
OneBefore(next) == next - 1

\* Where the next request starts after one was refused at next.
NextAfterRefusal(next) == Max({1, next - 1})

\* _process_ae_resp, refused: the next request starts one entry earlier.
AppendFailed(m) ==
    /\ m.type = "AppendAnswer"
    /\ m.term <= currentTerm[m.to] /\ ~m.success
    /\ nextIndex' = [nextIndex EXCEPT ![m.to][m.from] = NextAfterRefusal(@)]
    /\ net' = Take(net, m)
    /\ UNCHANGED <<nodeVars, logVars, matchIndex, callVars, pastVars, election, life>>

-----------------------------------------------------------------------------
(* Faults *)

\* A request, or the answer to an AppendEntries, is lost.  A lost vote is a
\* VoteTimeout.
Lose(m) ==
    /\ m.type # "VoteAnswer"
    /\ net' = Take(net, m)
    /\ UNCHANGED <<nodeVars, logVars, peerVars, callVars, pastVars, election, life>>

\* i is killed and started again: everything it knew is gone, and so are the
\* answers on the way to it.
Restart(i) ==
    /\ i \in Restartable
    /\ life[i] < MaxLife
    /\ life' = [life EXCEPT ![i] = @ + 1]
    /\ state' = [state EXCEPT ![i] = "follower"]
    /\ currentTerm' = [currentTerm EXCEPT ![i] = 0]
    /\ votedFor' = [votedFor EXCEPT ![i] = None]
    /\ leaderId' = [leaderId EXCEPT ![i] = None]
    /\ log' = [log EXCEPT ![i] = <<>>]
    /\ commitIndex' = [commitIndex EXCEPT ![i] = 0]
    /\ applied' = [applied EXCEPT ![i] = <<>>]
    /\ nextIndex' = [nextIndex EXCEPT ![i] = [j \in Nodes |-> 1]]
    /\ matchIndex' = [matchIndex EXCEPT ![i] = [j \in Nodes |-> 0]]
    /\ pending' = [pending EXCEPT ![i] = <<>>]
    /\ calls' = [calls EXCEPT ![i] = {}]
    /\ election' = [election EXCEPT ![i] = NoElection]
    /\ net' = Restrict(net, {m \in DOMAIN net :
                               m.to = i => m.type \in {"VoteRequest", "Append"}})
    /\ UNCHANGED <<acked, pastVars>>

-----------------------------------------------------------------------------
\* The message m reaches the process it is sent to.
Deliver(m) ==
    \/ HandleVoteRequest(m)
    \/ ReceiveVote(m)
    \/ RefuseAppend(m)
    \/ HandleAppend(m)
    \/ StepDown(m)
    \/ AppendSucceeded(m)
    \/ AppendFailed(m)

Next ==
    \/ \E i \in Nodes : StartElection(i)
    \/ \E i \in Nodes : \E j \in Peers(i) : VoteTimeout(i, j)
    \/ \E i \in Nodes : FinishElection(i)
    \/ \E i \in Nodes : Heartbeat(i)
    \/ \E i \in Nodes : \E c \in Commands : Propose(i, c)
    \/ \E i \in Nodes : \E call \in calls[i] : ProposeTimeout(i, call)
    \/ \E i \in Nodes : Restart(i)
    \/ \E m \in DOMAIN net : Deliver(m)
    \/ \E m \in DOMAIN net : Lose(m)

Spec == Init /\ [][Next]_vars

\* The heartbeat loop of a leader goes on for ever, and of the messages of one
\* kind from i to j that are sent again and again, some arrive.
Fairness ==
    /\ \A i \in Nodes : WF_vars(Heartbeat(i))
    /\ \A i \in Nodes : \A j \in Peers(i) :
         /\ SF_vars(\E m \in DOMAIN net : m.from = i /\ m.to = j /\ HandleAppend(m))
         /\ SF_vars(\E m \in DOMAIN net : m.from = i /\ m.to = j /\ AppendSucceeded(m))
         /\ SF_vars(\E m \in DOMAIN net : m.from = i /\ m.to = j /\ AppendFailed(m))

FairSpec == Spec /\ Fairness

-----------------------------------------------------------------------------
(* Properties *)

Entry == [term : Nat, cmd : Commands]

VoteRequests  == [type : {"VoteRequest"}, from : Nodes, to : Nodes, term : Nat, life : Nat,
                  lastIndex : Nat, lastTerm : Nat]
VoteAnswers   == [type : {"VoteAnswer"}, from : Nodes, to : Nodes, term : Nat, life : Nat,
                  granted : BOOLEAN]
Appends       == [type : {"Append"}, from : Nodes, to : Nodes, term : Nat, life : Nat,
                  prev : Nat, prevTerm : Nat, entries : Seq(Entry), commit : Nat]
AppendAnswers == [type : {"AppendAnswer"}, from : Nodes, to : Nodes, term : Nat, life : Nat,
                  success : BOOLEAN, prev : Nat, count : Nat]
Message == VoteRequests \cup VoteAnswers \cup Appends \cup AppendAnswers

\* A running election: its term, the peers it awaits and those that voted for it.
ElectionRecord == [open : BOOLEAN, term : Nat, awaiting : SUBSET Nodes, votes : SUBSET Nodes]

\* A bag of well-formed requests and answers.
WireOK(bag) == DOMAIN bag \subseteq Message /\ \A m \in DOMAIN bag : bag[m] \in Nat \ {0}

\* Every variable has its type: indices start at 1, a future waits at a log
\* index, and only well-formed requests and answers are on the wire.
TypeOK ==
    /\ state \in [Nodes -> {"follower", "candidate", "leader"}]
    /\ currentTerm \in [Nodes -> Nat]
    /\ votedFor \in [Nodes -> Nodes \cup {None}]
    /\ leaderId \in [Nodes -> Nodes \cup {None}]
    /\ log \in [Nodes -> Seq(Entry)]
    /\ commitIndex \in [Nodes -> Nat]
    /\ applied \in [Nodes -> Seq(Entry)]
    /\ nextIndex \in [Nodes -> [Nodes -> Nat \ {0}]]
    /\ matchIndex \in [Nodes -> [Nodes -> Nat]]
    /\ DOMAIN pending = Nodes
    /\ \A i \in Nodes : \A n \in DOMAIN pending[i] : n \in Nat /\ pending[i][n] \in Commands
    /\ calls \in [Nodes -> SUBSET [index : Nat, cmd : Commands]]
    /\ election \in [Nodes -> ElectionRecord]
    /\ life \in [Nodes -> Nat]
    /\ WireOK(net)
    /\ grants \subseteq [voter : Nodes, cand : Nodes, term : Nat]
    /\ accepted \subseteq [node : Nodes, term : Nat]
    /\ elected \subseteq [node : Nodes, term : Nat]
    /\ acked \subseteq [node : Nodes, cmd : Commands]
    /\ proposed \subseteq Commands

Voted(v, c, t) == [voter |-> v, cand |-> c, term |-> t] \in grants

\* Whoever became leader of a term had the votes of a quorum for that very
\* term, although _start_election compares neither the term nor the votes'
\* age when the answers are in.
LeaderElectedByQuorum ==
    \A e \in elected : Cardinality({v \in Nodes : Voted(v, e.node, e.term)}) >= QuorumSize

\* The only ways a node comes to give two votes in one term are the ones the
\* code opens: it accepted an AppendEntries of that term, which makes
\* _handle_append_entries forget its vote, or it was restarted.
SecondVoteExplained ==
    \A v, a, b \in Nodes : \A g \in grants :
        Voted(v, a, g.term) /\ Voted(v, b, g.term) /\ a # b
            => [node |-> v, term |-> g.term] \in accepted \/ life[v] > 0

\* Hence two leaders of one term never happen by themselves: some voter of
\* both forgot its vote in that term.
SplitTermExplained ==
    \A d, e \in elected :
        d.term = e.term /\ d.node # e.node =>
            \E v \in Nodes :
                /\ Voted(v, d.node, d.term) /\ Voted(v, e.node, d.term)
                /\ [node |-> v, term |-> d.term] \in accepted \/ life[v] > 0

\* At most one leader is elected in a term (Raft's Election Safety, one of the
\* guarantees the module's docstring announces).
ElectionSafety ==
    \A d, e \in elected : d.term = e.term => d.node = e.node

\* propose returns True only for a command that this node applied, although the
\* future is found by its index alone and several proposals may wait.  The runs
\* check it under one leader; an entry of a second leader that is applied at
\* the same index breaks it.
AckedIsApplied ==
    \A a \in acked :
        life[a.node] = 0 =>
            \E k \in DOMAIN applied[a.node] : applied[a.node][k].cmd = a.cmd

\* As long as no term had two leaders and no node was restarted, two logs that
\* agree on the term of an entry agree on everything up to it, however late or
\* out of order the AppendEntries were handled (Raft's Log Matching).
LogMatching ==
    (ElectionSafety /\ \A i \in Nodes : life[i] = 0) =>
        \A i, j \in Nodes : \A k \in DOMAIN log[i] \cap DOMAIN log[j] :
            log[i][k].term = log[j][k].term =>
                SubSeq(log[i], 1, k) = SubSeq(log[j], 1, k)

\* What a leader has committed is in the logs of a quorum while no node was
\* restarted: it survives the loss of the leader ("log replication, and safety
\* guarantees" in the module's docstring).
CommittedOnQuorum ==
    (\A i \in Nodes : life[i] = 0) =>
        \A i \in Nodes : \A n \in DOMAIN log[i] :
            state[i] = "leader" /\ n <= commitIndex[i] =>
                Cardinality({j \in Nodes : n \in DOMAIN log[j] /\ log[j][n] = log[i][n]})
                    >= QuorumSize

\* A running process never goes back to an older term.
TermsOnlyGrow ==
    [][\A i \in Nodes : life'[i] = life[i] => currentTerm'[i] >= currentTerm[i]]_vars

\* A node that is leader before and after a step has kept its log: it only
\* appends (Raft's Leader Append-Only).
LeaderAppendOnly ==
    [][\A i \in Nodes : state[i] = "leader" /\ state'[i] = "leader" =>
          IsPrefix(log[i], log'[i])]_vars

\* The commands the callbacks of a node got, and the longest of these lists.
Learned(i) == [k \in DOMAIN applied[i] |-> applied[i][k].cmd]
LongestLearned ==
    CHOOSE s \in {Learned(i) : i \in Nodes} : \A i \in Nodes : Len(Learned(i)) <= Len(s)

Chosen == INSTANCE ReplicatedLog WITH
    chosen  <- LongestLearned,
    learned <- [i \in Nodes |-> Learned(i)],
    told    <- {a.cmd : a \in acked}

\* RaftConsensus is a replicated log, seen through its callbacks and through
\* what propose returns.
ImplementsReplicatedLog == Chosen!Spec

\* What a leader that stays leader was asked to replicate reaches the callbacks
\* of every node for good, through lost messages, refused and reordered
\* AppendEntries and restarts of followers.
EventuallyLearned ==
    <>[](\A c \in proposed : \A i \in Nodes : c \in Range(Learned(i)))

=============================================================================
