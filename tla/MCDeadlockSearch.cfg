\* All graphs of three clients.
CONSTANT Clients = {c1, c2, c3}
SPECIFICATION Spec
INVARIANT AllCyclesReported
CHECK_DEADLOCK FALSE
