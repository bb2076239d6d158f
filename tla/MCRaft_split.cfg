\* Two rival candidates of one term, four messages on the wire.
SPECIFICATION Spec
CONSTANTS
    n1 = n1  n2 = n2  n3 = n3  c1 = c1  c2 = c2  c3 = c3
    None = None
    Nodes = {n1, n2, n3}
    Elections <- SplitElections
    Restartable = {}
    Commands = {}
    MaxInFlight = 4
    MaxLife = 0
INVARIANT ElectionSafety
CHECK_DEADLOCK FALSE
