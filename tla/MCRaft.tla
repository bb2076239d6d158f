------------------------------- MODULE MCRaft -------------------------------
(* Instances of Raft for TLC. *)
EXTENDS Raft, TLC

CONSTANTS n1, n2, n3, c1, c2, c3

\* Which timers may fire: two rivals in one term, a second leader that follows
\* the first, one leader only.
SplitElections  == {n1, n2} \X {1}
LaterElections  == {<<n1, 1>>, <<n2, 2>>}
OneElection     == {<<n1, 1>>}

\* Renaming nodes or commands leaves Spec unchanged as long as the bounds on
\* elections and restarts allow the same after it.
NodeSymmetry ==
    {p \in Permutations(Nodes) :
        /\ {<<p[e[1]], e[2]>> : e \in Elections} = Elections
        /\ {p[i] : i \in Restartable} = Restartable}
Symmetry == NodeSymmetry \cup Permutations(Commands)
=============================================================================
