------------------------- MODULE WorkbookAnalysis -------------------------
(***************************************************************************)
(* What ExcelParser makes of a worksheet and SemanticChunkGenerator of a   *)
(* workbook, as operators.  A sheet is read twice, with formulas (raw) and *)
(* with cached values (value), so a cell has both; its rows are those from *)
(* the first used one, and top counts the empty rows above it.             *)
(***************************************************************************)
EXTENDS Integers, Sequences, FiniteSets, SequencesExt, FiniteSetsExt

\* Values as far as the parser tells them apart.  "zero" is a whole number and
\* "false" a boolean that Python holds for false; "error" is one of
\* ERROR_VALUES, which openpyxl gives as text; "total" is a text with that word.
Whole == {"integer", "zero"}
Numbers == Whole \cup {"fraction"}
Texts == {"word", "total", "error"}
Values == {"none", "date", "true", "false"} \cup Numbers \cup Texts
\* "constant": the raw value is the value.  "sum": a formula with SUM in it.
Raws == {"constant", "formula", "sum"}
Cell == [raw : Raws, value : Values]
Blank == [raw |-> "constant", value |-> "none"]

\* Cells of one class other than none hold one and the same value.
Truthy(v) == v \notin {"none", "zero", "false"}
IsFormula(cell) == cell.raw # "constant"

Columns(sheet) == DOMAIN sheet.rows[1]
MaxRow(sheet) == sheet.top + Len(sheet.rows)

----------------------------------------------------------------------------
(* _analyze_columns: the first used row is the header. *)
DataRows(sheet) == 2 .. Len(sheet.rows)
HeaderName(sheet, c) ==
    LET v == sheet.rows[1][c].value
    IN IF Truthy(v) THEN v ELSE "unnamed"
Filled(sheet, c) == {r \in DataRows(sheet) : sheet.rows[r][c].value # "none"}
Numeric(sheet, c) ==
    {r \in DataRows(sheet) : sheet.rows[r][c].value \in Numbers}

TypeOf(v) ==
    CASE v \in Numbers -> "numeric" [] v \in Texts -> "text"
      [] v = "date" -> "date" [] v \in {"true", "false"} -> "boolean"
\* max() over a dictionary keeps the first of equal counts.
TypeOrder == <<"numeric", "text", "date", "boolean">>
InferColumnType(sheet, c) ==
    LET count(t) == Cardinality({r \in Filled(sheet, c) :
                                   TypeOf(sheet.rows[r][c].value) = t})
        best == Max({count(TypeOrder[i]) : i \in 1 .. 4})
    IN IF Filled(sheet, c) = {} THEN "empty"
       ELSE TypeOrder[Min({i \in 1 .. 4 : count(TypeOrder[i]) = best})]

\* A header that speaks ("total" is among the words for amounts) decides,
\* then the type.
InferColumnPurpose(header, type) ==
    CASE header = "total" -> "amount"
      [] header # "total" /\ type = "date" -> "date"
      [] header # "total" /\ type = "numeric" -> "numeric_value"
      [] header # "total" /\ type = "boolean" -> "flag"
      [] OTHER -> "general"

Purpose(sheet, c) ==
    InferColumnPurpose(HeaderName(sheet, c), InferColumnType(sheet, c))
AnalyzeColumn(sheet, c) ==
    [type |-> InferColumnType(sheet, c),
     nonNull |-> Cardinality(Filled(sheet, c)),
     null |-> Len(sheet.rows) - 1 - Cardinality(Filled(sheet, c)),
     numbers |-> Cardinality(Numeric(sheet, c)),
     formulas |-> Cardinality({r \in DataRows(sheet) :
                                 IsFormula(sheet.rows[r][c])}),
     errors |-> Cardinality({r \in DataRows(sheet) :
                               sheet.rows[r][c].value = "error"}),
     purpose |-> Purpose(sheet, c)]

\* _extract_formulas and _extract_errors walk over all rows, the header too.
Places(sheet) == (DOMAIN sheet.rows) \X Columns(sheet)
Formulas(sheet) == {p \in Places(sheet) : IsFormula(sheet.rows[p[1]][p[2]])}
Errors(sheet) == {p \in Places(sheet) : sheet.rows[p[1]][p[2]].value = "error"}

----------------------------------------------------------------------------
(* _detect_data_regions counts rows from 1, wherever the sheet begins. *)
Region(type, first, last) == [type |-> type, first |-> first, last |-> last]

\* A SUM in the last row, or the word total.
LastRowHasTotal(sheet) ==
    \E c \in Columns(sheet) :
        LET cell == Last(sheet.rows)[c] IN cell.raw = "sum" \/ cell.value = "total"

HeaderRegion(sheet) ==
    IF sheet.top = 0 /\ \E c \in Columns(sheet) : Truthy(sheet.rows[1][c].value)
    THEN {Region("header", 1, 1)} ELSE {}

\* Mutant: the data region runs into the totals row.
DataIntoTotals(sheet) ==
    IF MaxRow(sheet) >= 2 THEN {Region("data", 2, MaxRow(sheet))} ELSE {}
DataRegion(sheet) ==
    LET last == IF LastRowHasTotal(sheet) THEN MaxRow(sheet) - 1 ELSE MaxRow(sheet)
    IN IF last >= 2 THEN {Region("data", 2, last)} ELSE {}
TotalsRegion(sheet) ==
    IF LastRowHasTotal(sheet)
    THEN {Region("totals", MaxRow(sheet), MaxRow(sheet))} ELSE {}
DetectDataRegions(sheet) ==
    HeaderRegion(sheet) \cup TotalsRegion(sheet) \cup DataRegion(sheet)

----------------------------------------------------------------------------
(* _calculate_summary_statistics, by pandas: a column is numeric if all    *)
(* that is in it is numbers.  describe() of a single number has no         *)
(* standard deviation (NaN).  A column of whole numbers without a gap is   *)
(* of type int64, and so is its sum.  A name that two numeric columns      *)
(* share selects both, and their sum is then a Series.                     *)
\* Mutant: select_dtypes as it was of object columns with some numbers.
SomeNumeric(sheet, c) == Numeric(sheet, c) # {}
IsNumeric(sheet, c) ==
    Numeric(sheet, c) # {} /\ Numeric(sheet, c) = Filled(sheet, c)
\* Columns without a header are named by their index.
Name(sheet, c) ==
    <<HeaderName(sheet, c), IF HeaderName(sheet, c) = "unnamed" THEN c ELSE 0>>
Selected(sheet, c) ==
    {d \in Columns(sheet) : IsNumeric(sheet, d) /\ Name(sheet, d) = Name(sheet, c)}
IsInt64(sheet, c) ==
    \A r \in DataRows(sheet) : sheet.rows[r][c].value \in Whole

Statistics(sheet, c) ==
    LET n == Cardinality(Numeric(sheet, c))
    IN [name |-> Name(sheet, c), count |-> n, std |-> IF n = 1 THEN "nan" ELSE "number",
        sum |-> IF IsInt64(sheet, c) THEN "int64" ELSE "number"]
\* Of two columns describe() gives none of the names that are looked up.
StatisticsOfMany(sheet, c) ==
    [name |-> Name(sheet, c), count |-> 0, std |-> "number", sum |-> "series"]
SummaryStatistics(sheet) ==
    {IF Selected(sheet, c) = {c} THEN Statistics(sheet, c) ELSE StatisticsOfMany(sheet, c) :
        c \in {d \in Columns(sheet) : IsNumeric(sheet, d)}}
\* Without a data row there is nothing; without a numeric column a message.
HasStatistics(sheet) == DataRows(sheet) # {}

\* to_dict of the analysis, as JSON: NaN is no JSON for PostgreSQL, and an
\* int64 or a Series none for _json_serializer.
Serializable(sheet) ==
    \A s \in SummaryStatistics(sheet) : s.std = "number" /\ s.sum = "number"

\* _detect_data_patterns, as far as the cells above tell: dates, the word
\* for amounts, formulas, identifiers.
HasPatterns(sheet) ==
    \E c \in Columns(sheet) :
        LET column == AnalyzeColumn(sheet, c)
            distinct == {sheet.rows[r][c].value : r \in Filled(sheet, c)}
        IN \/ column.type = "date"
           \/ HeaderName(sheet, c) = "total"
           \/ column.formulas > 0
           \/ column.nonNull > 1 /\ Cardinality(distinct) = column.nonNull

----------------------------------------------------------------------------
(* generate_chunks.  sheet is 0 in a chunk about the whole workbook; the   *)
(* columns are those a chunk is about.                                     *)
Chunk(type, sheet, columns) ==
    [type |-> type, sheet |-> sheet, columns |-> columns]
Optional(present, chunk) == IF present THEN <<chunk>> ELSE <<>>

\* Mutant: one chunk for each column.
ChunkPerColumn(sheet, i) ==
    [c \in Columns(sheet) |-> Chunk("column_analysis", i, {c})]
\* One chunk for each purpose, in the order in which they occur.
ColumnChunks(sheet, i) ==
    LET purpose == [c \in Columns(sheet) |-> Purpose(sheet, c)]
        group == [c \in Columns(sheet) |->
                    {d \in Columns(sheet) : purpose[d] = purpose[c]}]
        first == {c \in Columns(sheet) : \A d \in group[c] : c <= d}
        nth(k) == CHOOSE c \in first : Cardinality({d \in first : d <= c}) = k
    IN [k \in 1 .. Cardinality(first) |-> Chunk("column_analysis", i, group[nth(k)])]

SheetChunks(sheet, i) ==
    <<Chunk("sheet_overview", i, {}), Chunk("schema", i, Columns(sheet))>>
    \o ColumnChunks(sheet, i)
    \o Optional(Formulas(sheet) # {}, Chunk("formula_analysis", i, {}))
    \o Optional(Errors(sheet) # {}, Chunk("error_analysis", i, {}))
    \o Optional(HasPatterns(sheet), Chunk("data_patterns", i, {}))
    \o Optional(HasStatistics(sheet), Chunk("statistics", i, {}))

\* crossReferences: some formula names another sheet.
WorkbookChunks(workbook) ==
    <<Chunk("workbook_overview", 0, {})>>
    \o FlattenSeq([i \in DOMAIN workbook.sheets |-> SheetChunks(workbook.sheets[i], i)])
    \o Optional(Len(workbook.sheets) > 1 /\ workbook.crossReferences,
                Chunk("relationships", 0, {}))

----------------------------------------------------------------------------
(* Properties.                                                             *)

\* Wherever the used rows begin, each row below the first belongs to the
\* data or to the totals, and to one of them.
RegionsPartition(sheet) ==
    \A row \in 2 .. MaxRow(sheet) :
        Cardinality({region \in DetectDataRegions(sheet) :
                       row \in region.first .. region.last}) = 1

\* Two analyses that are made separately do not contradict each other: what
\* has statistics is a column that was found numeric, and the statistics are
\* about all that is in it, unless the name stands for several.
StatisticsAgree(sheet) ==
    \A s \in SummaryStatistics(sheet) : \E c \in Columns(sheet) :
        LET column == AnalyzeColumn(sheet, c)
        IN /\ s.name = Name(sheet, c) /\ column.type = "numeric"
           /\ s.sum = "series" \/ column.nonNull = s.count

\* A search for a purpose finds one chunk of a sheet, with all its columns.
OneChunkPerPurpose(sheet) ==
    LET chunks == SheetChunks(sheet, 1)
        about == {i \in DOMAIN chunks : chunks[i].type = "column_analysis"}
        purpose == [c \in Columns(sheet) |-> Purpose(sheet, c)]
    IN /\ \A c \in Columns(sheet) :
            Cardinality({i \in about : c \in chunks[i].columns}) = 1
       /\ \A i, k \in about : \A c \in chunks[i].columns, d \in chunks[k].columns :
            purpose[c] = purpose[d] <=> i = k
============================================================================
