\* All sheets of at most two columns and three used rows, or three and two; all
\* layouts of at most three rows and two headers; all books of three cells and
\* four references, chains of which are longer than a trace is deep; all answers
\* of three tokens; all tables of two columns and three rows.
CONSTANTS
    Contents <- SmallContents
    Shapes <- SmallShapes
    Tops = {0, 1}
    MaxRows = 3
    MaxCols = 4
    HeaderRows = 2
    Looks <- SmallLooks
    Spans <- SmallSpans
    MostRows = 3
    MostMerged = 2
    TraceDepth = 2
    RecursionLimit = 2
    MostReferences = 4
    Unit = 200
    MostTokens = 3
    MostTableRows = 3
SPECIFICATION Spec
INVARIANTS
    Regions
    ColumnsAgree
    Sections
    GraphSummary
    Traces
    ClaimsAreGrounded
    AnswersAgree
\* An input of the greatest size does not grow.
CHECK_DEADLOCK FALSE
