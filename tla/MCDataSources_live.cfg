CONSTANTS
    Requests = {r1, r2}
    Faults <- AllFaults
    MaxCrashes = 1
SPECIFICATION FairSpec
PROPERTIES
    EveryRequestEnds
\* Every request may be done: the system then stops.
CHECK_DEADLOCK FALSE
