\* One leader, two commands, three messages on the wire: enough for an old
\* AppendEntries to arrive after a newer one was acknowledged.
SPECIFICATION Spec
CONSTANTS
    n1 = n1  n2 = n2  n3 = n3  c1 = c1  c2 = c2  c3 = c3
    None = None
    Nodes = {n1, n2, n3}
    Elections <- OneElection
    Restartable = {}
    Commands = {c1, c2}
    MaxInFlight = 3
    MaxLife = 0
SYMMETRY Symmetry
INVARIANT CommittedOnQuorum
CHECK_DEADLOCK FALSE
