--------------------------- MODULE SheetReading ---------------------------
(***************************************************************************)
(* Worksheets that grow row by row, and what is said of each of them: its  *)
(* regions, the statistics of its columns and their chunks.                *)
(***************************************************************************)
EXTENDS WorkbookAnalysis

CONSTANTS
    Contents,   \* what may be in a cell
    Shapes,     \* <<columns, most rows>>
    Tops        \* how many rows above the first may be empty

ASSUME SheetAssumption ==
    /\ Contents \subseteq Cell
    /\ Shapes \subseteq Nat \X Nat
    /\ Tops \subseteq Nat

VARIABLE worksheet

\* No used row is empty.
Rows(width) == [1 .. width -> Contents] \ {[c \in 1 .. width |-> Blank]}
FirstRow ==
    worksheet \in UNION {[top : Tops, rows : [{1} -> Rows(shape[1])]] : shape \in Shapes}
AddRow ==
    LET width == Cardinality(Columns(worksheet))
    IN /\ \E shape \in Shapes : shape[1] = width /\ Len(worksheet.rows) < shape[2]
       /\ \E row \in Rows(width) : worksheet' = [worksheet EXCEPT !.rows = Append(@, row)]
SheetSpec == FirstRow /\ [][AddRow]_worksheet

----------------------------------------------------------------------------
(* Properties.                                                             *)

\* Rows are partitioned into regions (_detect_data_regions).
Regions == RegionsPartition(worksheet)
\* What is said of the columns of a sheet agrees: there are statistics of those
\* that the column analysis takes for numbers (_calculate_summary_statistics),
\* and each column is in one chunk, that of its purpose (_create_column_chunks).
ColumnsAgree == StatisticsAgree(worksheet) /\ OneChunkPerPurpose(worksheet)
============================================================================
