\* 146 workbooks of three or four formulas, some with cycles; one or two overridden
\* cells; searches two edges deep, evaluations three formulas deep.
CONSTANTS
    c1 = c1
    c2 = c2
    c3 = c3
    c4 = c4
    c5 = c5
    Cells = {c1, c2, c3, c4, c5}
    None = None
    Formula <- SmallFormula
    DepthLimit = 3
    Workbooks <- SmallWorkbooks
    Scenarios <- SmallScenarios
    Targets <- SmallTargets
    MaxDepth = 2
    Solution <- SmallSolution
SPECIFICATION ToolSpec
INVARIANTS
    StaleIsReported
    ChangesAreExact
\* The tool is done.
CHECK_DEADLOCK FALSE
