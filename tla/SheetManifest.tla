--------------------------- MODULE SheetManifest ---------------------------
(***************************************************************************)
(* What VisualMetadataExtractor (agents/extractor.py) makes of a worksheet *)
(* for the schema mapper, as operators.  A sheet is its rows of cells,     *)
(* formulas not evaluated, and its merged ranges, in the order of the set  *)
(* that openpyxl keeps them in, which is any order.                        *)
(***************************************************************************)
EXTENDS Integers, Sequences, FiniteSets, FiniteSetsExt

CONSTANTS
    MaxRows, MaxCols,   \* 1000 and 50: colours are read no further
    HeaderRows          \* 19: a header is looked for no further

\* The value of a cell is "none", "text", "digits" (a text that reads as a
\* number), "number", "zero" (which Python holds for false) or "formula".  A
\* colour is the label of COLOR_LABELS that is nearest, and NoFill for white, for
\* black and for a cell without a fill, which is black.
IsTruthy(cell) == cell.value \notin {"none", "zero"}
NoFill == "none"

LastRow(sheet) == Len(sheet.rows)
MaxColumn(sheet) == Len(sheet.rows[1])
At(sheet, row, column) == sheet.rows[row][column]
Empty(cell) == cell.value = "none"
Lowest(a, b) == IF a < b THEN a ELSE b

----------------------------------------------------------------------------
\* A merged range has the value and the colour of its first cell.
MergedRegion(sheet, range) ==
    [top |-> range.top, bottom |-> range.bottom,
     left |-> range.left, right |-> range.right,
     value |-> At(sheet, range.top, range.left).value,
     color |-> At(sheet, range.top, range.left).color]
MergedRegions(sheet) == [i \in DOMAIN sheet.merged |-> MergedRegion(sheet, sheet.merged[i])]

\* The cells of each colour.
ColorRegions(sheet) ==
    LET places == (1 .. Lowest(LastRow(sheet), MaxRows))
                  \X (1 .. Lowest(MaxColumn(sheet), MaxCols))
        color(p) == At(sheet, p[1], p[2]).color
    IN [label \in {color(p) : p \in places} \ {NoFill} |->
          {p \in places : color(p) = label}]

\* Rows and columns of which at least 90% are empty.
EmptyRows(sheet) ==
    {r \in 1 .. LastRow(sheet) :
        10 * Cardinality({c \in 1 .. MaxColumn(sheet) : Empty(At(sheet, r, c))})
        >= 9 * MaxColumn(sheet)}
EmptyColumns(sheet) ==
    {c \in 1 .. MaxColumn(sheet) :
        10 * Cardinality({r \in 1 .. LastRow(sheet) : Empty(At(sheet, r, c))})
        >= 9 * LastRow(sheet)}

----------------------------------------------------------------------------
ColumnHeaders(sheet, row, left, right) ==
    [c \in left .. right |->
        IF row <= LastRow(sheet) /\ IsTruthy(At(sheet, row, c))
        THEN At(sheet, row, c).value ELSE "Column"]

\* Members of a set in an order that is given by what is up to each of them:
\* the k-th is the one with k up to it.
InOrder(upTo) ==
    [k \in 1 .. Cardinality(DOMAIN upTo) |->
        CHOOSE x \in DOMAIN upTo : Cardinality(upTo[x]) = k]

\* Merged ranges of three columns or more, with a value.
HeaderPlaces(sheet) ==
    {i \in DOMAIN sheet.merged :
        /\ sheet.merged[i].right - sheet.merged[i].left >= 2
        /\ MergedRegions(sheet)[i].value # "none"}
\* Mutant: headers in the order in which openpyxl gives them.
AsGiven(sheet, i) == {j \in HeaderPlaces(sheet) : j <= i}
\* The sort is by the first row, and keeps the order of those that have one.
FromAbove(sheet, i) ==
    {j \in HeaderPlaces(sheet) :
        \/ sheet.merged[j].top < sheet.merged[i].top
        \/ sheet.merged[j].top = sheet.merged[i].top /\ j <= i}
Headers(sheet) ==
    LET order == InOrder([i \in HeaderPlaces(sheet) |-> FromAbove(sheet, i)])
    IN [k \in DOMAIN order |-> MergedRegions(sheet)[order[k]]]

\* openpyxl adds the cell that is looked for below the last row, and the sheet
\* is one row longer from then on: what is below the first n headers is read.
RowsAfter(sheet, n) ==
    IF \E i \in 1 .. n : Headers(sheet)[i].bottom = LastRow(sheet)
    THEN LastRow(sheet) + 1 ELSE LastRow(sheet)

\* Sections under merged headers, each to the next header or the end.
HeaderSections(sheet) ==
    LET headers == Headers(sheet)
        end(i) == IF i < Len(headers) THEN headers[i + 1].top - 1
                  ELSE RowsAfter(sheet, i - 1)
        rows(i) == end(i) - headers[i].bottom
    IN [i \in DOMAIN headers |->
          [start |-> headers[i].top, end |-> end(i),
           left |-> headers[i].left, right |-> headers[i].right,
           headers |-> ColumnHeaders(sheet, headers[i].bottom + 1,
                                     headers[i].left, headers[i].right),
           rows |-> IF rows(i) > 0 THEN rows(i) ELSE 0, hasData |-> rows(i) > 0]]

\* Without a merged header, the rows with three cells or more of one colour.
ColoredRows(sheet) ==
    LET regions == ColorRegions(sheet)
    IN {r \in 1 .. LastRow(sheet) : \E label \in DOMAIN regions :
            Cardinality({p \in regions[label] : p[1] = r}) >= 3}
ColorSections(sheet) ==
    LET tops == InOrder([r \in ColoredRows(sheet) |-> {q \in ColoredRows(sheet) : q <= r}])
        end(i) == IF i < Len(tops) THEN tops[i + 1] - 1 ELSE LastRow(sheet)
    IN [i \in DOMAIN tops |->
          [start |-> tops[i], end |-> end(i), left |-> 1,
           right |-> MaxColumn(sheet), headers |-> <<>>,
           rows |-> end(i) - tops[i], hasData |-> end(i) > tops[i]]]

DetectSections(sheet) ==
    IF HeaderSections(sheet) # <<>> THEN HeaderSections(sheet) ELSE ColorSections(sheet)

----------------------------------------------------------------------------
\* A formula is text for the extractor, which does not evaluate it.
IsText(cell) == cell.value \in {"text", "formula"}
LooksLikeHeader(sheet, r) ==
    LET filled == {c \in 1 .. MaxColumn(sheet) : ~Empty(At(sheet, r, c))}
        texts == {c \in filled : IsText(At(sheet, r, c))}
    IN Cardinality(filled) >= 3 /\ 10 * Cardinality(texts) >= 6 * Cardinality(filled)
\* 0 for none.
HeaderRow(sheet) ==
    LET candidates == {r \in 1 .. Lowest(LastRow(sheet), HeaderRows) :
                          LooksLikeHeader(sheet, r)}
    IN IF candidates = {} THEN 0 ELSE Min(candidates)

\* A row of a sample is a dictionary from headers to values, so that columns
\* with one header are one entry, with the value of the last of them.
SampleRow(sheet, r) ==
    LET header(c) == At(sheet, HeaderRow(sheet), c).value
        last(h) == Max({c \in 1 .. MaxColumn(sheet) : header(c) = h})
    IN [h \in {header(c) : c \in 1 .. MaxColumn(sheet)} |->
          IF r > LastRow(sheet) THEN "none" ELSE At(sheet, r, last(h)).value]
SampleData(sheet, rows) ==
    LET below == RowsAfter(sheet, Len(Headers(sheet))) - HeaderRow(sheet)
    IN IF HeaderRow(sheet) = 0 THEN <<>>
       ELSE [i \in 1 .. Lowest(rows, below) |-> SampleRow(sheet, HeaderRow(sheet) + i)]

ExtractSheetManifest(sheet, sampleRows) ==
    [merged |-> MergedRegions(sheet), colors |-> ColorRegions(sheet),
     emptyRows |-> EmptyRows(sheet), emptyCols |-> EmptyColumns(sheet),
     sections |-> DetectSections(sheet), headerRow |-> HeaderRow(sheet),
     sample |-> SampleData(sheet, sampleRows)]

----------------------------------------------------------------------------
(* Properties.                                                             *)

\* Headers that stand side by side.
SharedRows(sheet) ==
    \E i, k \in DOMAIN Headers(sheet) :
        i # k /\ Headers(sheet)[k].top \in Headers(sheet)[i].top .. Headers(sheet)[i].bottom

\* Every row from the first of the sections down to row m is in one of them, and
\* a section counts its rows that are not taken by a header.
PartedBy(sections, m, taken) ==
    /\ \A r \in Min({sections[i].start : i \in DOMAIN sections}) .. m :
          Cardinality({i \in DOMAIN sections : r \in sections[i].start .. sections[i].end}) = 1
    /\ \A i \in DOMAIN sections :
          LET left == (sections[i].start .. sections[i].end) \ taken
          IN /\ sections[i].rows = Cardinality(left)
             /\ sections[i].hasData <=> left # {}
\* Sections are parts of the sheet, unless headers stand side by side.
SectionsPartition(sheet) ==
    LET sections == ExtractSheetManifest(sheet, 2).sections
        starts == {sections[i].start : i \in DOMAIN sections}
        taken == {r \in 1 .. LastRow(sheet) :
                    \/ Headers(sheet) = <<>> /\ r \in starts
                    \/ \E i \in DOMAIN Headers(sheet) :
                         r \in Headers(sheet)[i].top .. Headers(sheet)[i].bottom}
    IN sections # <<>> /\ ~SharedRows(sheet) => PartedBy(sections, LastRow(sheet), taken)
============================================================================
