\* Two jobs on two data sources of one or two users; files of up to six
\* chunks, in batches of two.
CONSTANTS
    Jobs = {j1, j2}
    Users = {u1, u2}
    Sources = {s1, s2}
    Files <- SmallFiles
    BatchSize = 2
    Limit = 1
SPECIFICATION FairSpec
INVARIANTS
    VectorsAreOfTheirText
    SearchStaysWithin
PROPERTIES
    IndexedAtOnce
    EveryJobEnds
\* Every job may be done: the system then stops.
CHECK_DEADLOCK FALSE
