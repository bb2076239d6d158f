\* Two clients and two acquires.
CONSTANTS
    Clients = {c1, c2}
    MaxCommands = 2
SPECIFICATION Spec
INVARIANT AcquiredExcludes
CHECK_DEADLOCK FALSE
