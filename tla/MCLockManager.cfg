\* Three clients, two resources, four commands; a lease ends at the next tick.
\* Time passes and the sweep runs; nobody has to release or to answer.
CONSTANTS
    c1 = c1
    c2 = c2
    c3 = c3
    r1 = r1
    r2 = r2
    Clients = {c1, c2, c3}
    Resources = {r1, r2}
    LeaseTimeout = 0
    Leases = {0}
    MaxCommands = 4
SPECIFICATION FairSpec
INVARIANTS
    TypeOK
    MutualExclusion
    NoStrandedWaiter
    WaitEdgesSound
    TokenNamesTenure
PROPERTY QueuesDrain
CHECK_DEADLOCK FALSE
