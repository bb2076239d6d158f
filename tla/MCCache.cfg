\* Three operations, two of them at once, and a restart; caches with room for one
\* line.
CONSTANTS
    k1 = k1  k2 = k2
    Keys = {k1, k2}
    MaxSize = 1
    Setups <- SmallSetups
    MaxOps = 3
    MaxAtOnce = 2
SPECIFICATION Spec
INVARIANTS TypeOK Coherent LastWriteKept
CHECK_DEADLOCK FALSE
