\* One leader and a follower that may be restarted once; two commands, each
\* message may be lost.
SPECIFICATION FairSpec
CONSTANTS
    n1 = n1  n2 = n2  n3 = n3  c1 = c1  c2 = c2  c3 = c3
    None = None
    Nodes = {n1, n2}
    Elections <- OneElection
    Restartable = {n2}
    Commands = {c1, c2}
    MaxInFlight = 2
    MaxLife = 1
PROPERTIES ImplementsReplicatedLog EventuallyLearned
CHECK_DEADLOCK FALSE
