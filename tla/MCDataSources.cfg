CONSTANTS
    Requests = {r1, r2, r3}
    Faults <- AllFaults
    MaxCrashes = 1
SPECIFICATION Spec
SYMMETRY RequestSymmetry
INVARIANTS
    OnePipeline
    OnlyFinishedIsVisible
    LostRaceIsRecovered
    FileLostOnlyByDelete
PROPERTIES
    ReadyIsStable
    LeaseSpec
\* Every request may be done: the system then stops.
CHECK_DEADLOCK FALSE
