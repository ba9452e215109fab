\* Two questions and one cell to cite; two of the ten tool turns, and the
\* code's single audit retry.
CONSTANTS
    Questions = {q1, q2}
    Entities = {e1}
    NoEntity = NoEntity
    MaxToolTurns = 2
    MaxAuditRetries = 1
SPECIFICATION FairSpec
INVARIANTS
    PassedIsVerified
PROPERTIES
    TurnSpec
    EveryQuestionEnds
