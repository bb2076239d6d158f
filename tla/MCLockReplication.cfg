\* Two nodes, three clients, three commands.
CONSTANTS
    n1 = n1
    n2 = n2
    c1 = c1
    c2 = c2
    c3 = c3
    Nodes = {n1, n2}
    Clients = {c1, c2, c3}
    Resources = {}
    LeaseTimeout = 0
    Leases = {0}
    MaxCommands = 3
SPECIFICATION Spec
SYMMETRY Symmetry
INVARIANT OneHolderPerToken
CHECK_DEADLOCK FALSE
