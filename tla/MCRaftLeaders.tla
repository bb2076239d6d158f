---------------------------- MODULE MCRaftLeaders ----------------------------
(* Two instances of Raft in one run: the steps of Spec that keep within the   *)
(* bounds of the one that was chosen at the start.                            *)
EXTENDS MCRaft

VARIABLE bounds

\* Which timers may fire: two rivals in each of two terms, a leader of its own.
RivalElections  == {n1, n2} \X {1, 2}
LeaderElections == {<<n3, 1>>}
EitherElections == RivalElections \cup LeaderElections

\* Two candidates compete and the third node may be restarted; or one leader
\* stays and clients propose commands to it.
Rivals == [elections |-> RivalElections, commands |-> {}, restartable |-> {n3}, inFlight |-> 2]
Leader == [elections |-> LeaderElections, commands |-> Commands, restartable |-> {}, inFlight |-> 3]

WithinBounds ==
    /\ \A i \in Nodes : state'[i] = "candidate" => <<i, currentTerm'[i]>> \in bounds.elections
    /\ \A i \in Nodes : life'[i] > 0 => i \in bounds.restartable
    /\ proposed' \subseteq bounds.commands
    /\ BagCardinality(net') > BagCardinality(net) =>
         election' # election \/ BagCardinality(net') <= bounds.inFlight

EitherSpec ==
    /\ Init /\ bounds \in {Rivals, Leader}
    /\ [][Next /\ WithinBounds /\ UNCHANGED bounds]_<<vars, bounds>>
=============================================================================
