\* A second leader follows the first in the next term; two commands.
SPECIFICATION Spec
CONSTANTS
    n1 = n1  n2 = n2  n3 = n3  c1 = c1  c2 = c2  c3 = c3
    None = None
    Nodes = {n1, n2, n3}
    Elections <- LaterElections
    Restartable = {}
    Commands = {c1, c2}
    MaxInFlight = 2
    MaxLife = 0
SYMMETRY Symmetry
INVARIANTS TypeOK LogMatching
PROPERTY LeaderAppendOnly
CHECK_DEADLOCK FALSE
