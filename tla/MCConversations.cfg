\* The request that creates the conversation and two that run side by side;
\* a call that is counted and one that is not.
CONSTANTS
    Requests = {r1, r2, r3}
    MaxCalls = 2
SPECIFICATION FairSpec
INVARIANTS
    HistoryIsCurrent
    TurnsKeepTheirRows
    RepliesAreRecorded
    TotalIsBacked
PROPERTIES
    EveryRequestEnds
\* Every request may be done: the system then stops.
CHECK_DEADLOCK FALSE
