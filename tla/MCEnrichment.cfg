\* Two calls of process_data_source.
CONSTANTS
    Jobs = {j1, j2}
    book = book
    note = note
    s1 = s1
    s2 = s2
    Files = {book, note}
    SheetsOf <- SmallSheetsOf
    None = None
SPECIFICATION Spec
INVARIANTS
    OneFaultIsCovered
    SheetsUnderTheirNames
    TokensAreTheirOwn
SYMMETRY Symmetry
\* Every job is done.
CHECK_DEADLOCK FALSE
