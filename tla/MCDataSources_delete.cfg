CONSTANTS
    Requests = {r1, r2}
    Faults <- NoFaults
    MaxCrashes = 0
SPECIFICATION Spec
INVARIANTS
    DeletedLeavesNoChunks
\* Every request may be done: the system then stops.
CHECK_DEADLOCK FALSE
