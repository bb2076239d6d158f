--------------------------- MODULE ReplicatedLog ---------------------------
(***************************************************************************)
(* What the lock service needs from RaftConsensus, without terms, votes or *)
(* messages: one sequence of commands is chosen for all nodes, it only     *)
(* grows, every running node has been given a prefix of it, and a caller   *)
(* of propose is told True only about a chosen command.                    *)
(***************************************************************************)
EXTENDS SequencesExt

CONSTANTS Nodes, Commands

VARIABLES
    chosen,     \* the commands every node is to apply, in order
    learned,    \* what the on_commit callbacks of each running node were given
    told        \* the commands whose propose has returned True

vars == <<chosen, learned, told>>

Init ==
    /\ chosen = <<>>
    /\ learned = [i \in Nodes |-> <<>>]
    /\ told = {}

\* Callers may be told of commands that their node has been given.
Tell(i) == told \subseteq told' /\ told' \ told \subseteq Range(learned'[i])

\* Node i is the first one to be given new commands, each of them chosen once.
Choose(i) ==
    /\ IsStrictPrefix(chosen, chosen')
    /\ chosen' \in Seq(Commands) /\ IsInjective(chosen')
    /\ learned' = [learned EXCEPT ![i] = chosen']
    /\ Tell(i)

\* Node i is given more of what is chosen.
Learn(i) ==
    /\ IsPrefix(learned[i], learned'[i]) /\ IsPrefix(learned'[i], chosen)
    /\ learned' = [learned EXCEPT ![i] = learned'[i]]
    /\ UNCHANGED chosen
    /\ Tell(i)

\* Node i is started again.
Forget(i) ==
    /\ learned' = [learned EXCEPT ![i] = <<>>]
    /\ UNCHANGED <<chosen, told>>

Next == \E i \in Nodes : Choose(i) \/ Learn(i) \/ Forget(i)

Spec == Init /\ [][Next]_vars
=============================================================================
