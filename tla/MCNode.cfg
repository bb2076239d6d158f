\* Two peers, with the limits of main.py halved; four audit entries, two restarts
\* and two changes to the file; all graphs of three clients; three nodes with two
\* places each on the ring; four lock commands of three clients; two messages
\* copied in up to three attempts; and for the geo replicator three sites,
\* three writes of one key at any of three times each, one copy handled twice and,
\* with two writes, one site restarted.
CONSTANTS
    Peers = 2
    RpcTimeout = 2
    Pause = 1
    SuspectTimeout = 1
    DeadTimeout = 4
    MaxEntries = 4
    MaxRestarts = 2
    MaxChanges = 2
    Clients = {c1, c2, c3}
    Nodes = {n1, n2, n3}
    Replicas = 2
    Points = {1, 2, 3, 4, 5, 6}
    MaxCommands = 4
    Ids = {m1, m2}
    Attempts = 3
    Regions = {s1, s2, s3}
    Keys = {k1}
    Times = {1, 2, 3}
    MaxWrites = 3
    MaxRepeats = 1
    MaxGeoRestarts = 1
SPECIFICATION Spec
SYMMETRY Symmetry
INVARIANTS
    TypeOK
    RunningNotBlamed
    SilentFoundDead
    VerdictRight
    SequenceGrows
    DeadlocksFound
    OwnerLeadsReplicas
    KeptUntilReleased
    HandedOutAsItCame
    ClockCovers
    StatusTells
    SameWritesSameValue
    NeverOlder
PROPERTY SuccessorTakesOver
CHECK_DEADLOCK FALSE
