\* Two rival candidates, two terms, no client commands, and a third node that may
\* be restarted once; or one leader that stays, two commands and three messages
\* on the wire.
SPECIFICATION EitherSpec
CONSTANTS
    n1 = n1  n2 = n2  n3 = n3  c1 = c1  c2 = c2  c3 = c3
    None = None
    Nodes = {n1, n2, n3}
    Elections <- EitherElections
    Restartable = {n3}
    Commands = {c1, c2}
    MaxInFlight = 3
    MaxLife = 1
SYMMETRY Symmetry
INVARIANTS LeaderElectedByQuorum SecondVoteExplained SplitTermExplained AckedIsApplied
PROPERTIES TermsOnlyGrow ImplementsReplicatedLog
CHECK_DEADLOCK FALSE
