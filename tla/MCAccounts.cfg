\* Three requests of two Google accounts with one address.
CONSTANTS
    Requests = {r1, r2, r3}
    Identities = {g1, g2}
    Emails = {e1}
    EmailOf <- SmallEmailOf
    Earlier = {old}
    None = None
SPECIFICATION FairSpec
INVARIANTS
    OneAccountPerAddress
    DisabledStayOut
PROPERTY
    EveryRequestEnds
\* Requests come to an end.
CHECK_DEADLOCK FALSE
