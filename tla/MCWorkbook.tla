---------------------------- MODULE MCWorkbook ----------------------------
(***************************************************************************)
(* The readings of a workbook, for TLC: the analysis of its worksheets, the *)
(* manifest of its sheets for the schema, the graph of its formulas for the *)
(* questions, the audit of what is answered, and what the tools tell of a   *)
(* table.  Each on every small input, which grows row by row, header by     *)
(* header, reference by reference or word by word.                          *)
(***************************************************************************)
EXTENDS SheetReading, SheetLayouts, Integers, Sequences, FiniteSets, SequencesExt

CONSTANTS
    TraceDepth, RecursionLimit,
    MostReferences,   \* of the formulas of a book
    Unit,
    MostTokens,       \* of an answer
    MostTableRows

VARIABLES
    kind,     \* of input: "sheet", "layout", "book", "answer" or "table"
    input     \* other than the worksheet and the layout

Graph == INSTANCE FormulaGraph
Audit == INSTANCE Auditor
Tools == INSTANCE Analytics

----------------------------------------------------------------------------
(* Worksheets; there is one of a single cell beside the other inputs.       *)

SmallContents ==
    {Blank, [raw |-> "sum", value |-> "fraction"]}
    \cup {[raw |-> "constant", value |-> v] : v \in {"integer", "total", "date"}}
SmallShapes == {<<2, 3>>, <<3, 2>>}

FirstSheet == kind = "sheet" /\ input = <<>> /\ FirstRow
AddSheetRow == kind = "sheet" /\ AddRow /\ UNCHANGED <<kind, input>>
BesideSheet == worksheet = [top |-> 0, rows |-> <<<<[raw |-> "constant", value |-> "total"]>>>>]

----------------------------------------------------------------------------
(* Sheets as they look: four columns, a header over three of them or all.  *)

Look(value, color) == [value |-> value, color |-> color]
Plain(values) == [c \in 1 .. 4 |-> Look(values[c], "none")]
SmallLooks ==
    {Plain(<<"text", "none", "none", "text">>), Plain(<<"none", "none", "none", "none">>),
     Plain(<<"text", "text", "number", "text">>), Plain(<<"text", "number", "zero", "digits">>),
     [c \in 1 .. 4 |-> Look(IF c = 4 THEN "formula" ELSE "text", "Navy/Header")]}
SmallSpans == {1, 2} \X {3, 4}

FirstLayout == kind = "layout" /\ input = <<>> /\ FirstLook
AddToLayout == kind = "layout" /\ (AddLook \/ AddHeader) /\ UNCHANGED <<kind, input>>
BesideLayout == layout = [rows |-> <<Plain(<<"none", "none", "none", "none">>)>>, merged |-> <<>>]

----------------------------------------------------------------------------
(* Books of three cells; "k4" is not in the book, and "N" is defined twice. *)

ToCell(c) == [kind |-> "cell", ref |-> c, cells |-> <<>>]
ToRange(cells) == [kind |-> "range", ref |-> "range", cells |-> cells]
SmallReferences ==
    {ToCell(c) : c \in {"k1", "k2", "k3", "k4"}}
    \cup {ToRange(<<"k2", "k3">>), [kind |-> "name", ref |-> "N", cells |-> <<>>]}
WholeColumn == [kind |-> "column", ref |-> "column", cells |-> <<>>]
SmallNames ==
    <<[name |-> "N", refs |-> <<WholeColumn, ToCell("k3")>>],
      [name |-> "N", refs |-> <<ToCell("k1")>>]>>
Notes == {[comments |-> {}, iterates |-> FALSE], [comments |-> {"k2"}, iterates |-> FALSE],
          [comments |-> {}, iterates |-> TRUE]}

EmptyBook ==
    /\ kind = "book"
    /\ \E note \in Notes :
         input = [cells |-> <<"k1", "k2", "k3">>, names |-> SmallNames,
                  formulas |-> [c \in {"k1", "k2", "k3"} |-> <<>>],
                  comments |-> note.comments, iterates |-> note.iterates]
AddReference ==
    /\ kind = "book"
    /\ FoldLeft(LAMBDA n, c : n + Len(input.formulas[c]), 0, input.cells) < MostReferences
    /\ \E c \in Range(input.cells), reference \in SmallReferences :
         /\ Len(input.formulas[c]) < 2
         /\ reference \notin Range(input.formulas[c])
         /\ input' = [input EXCEPT !.formulas[c] = Append(@, reference)]
    /\ UNCHANGED kind

----------------------------------------------------------------------------
(* Answers about a book of two sheets, whose findings are one or none, with *)
(* the results of one call or none.                                        *)

Inputs == <<"Inputs">>
Summary == <<"P&L", "Summary">>
CellAt(column, row) == [column |-> column, row |-> row]
AnsweredBook(names, findings) ==
    [cells |-> {[sheet |-> Inputs, at |-> CellAt("A", 2), is |-> "text", text |-> "CostOfSales"],
                [sheet |-> Inputs, at |-> CellAt("A", 3), is |-> "text", text |-> "DataCell"],
                [sheet |-> Inputs, at |-> CellAt("B", 12), is |-> "number", value |-> 487532 * Unit],
                [sheet |-> Summary, at |-> CellAt("G", 3), is |-> "number", value |-> -93849 * Unit]},
     names |-> names, sheets |-> {Inputs, Summary}, findings |-> findings]
SomeBooks ==
    {AnsweredBook({[name |-> "TaxRate", value |-> Unit \div 2]}, {}),
     AnsweredBook({}, {"hidden_dependency"})}
SomeResults ==
    {[is |-> "number", key |-> "total", value |-> 2500 * Unit],
     [is |-> "ref", key |-> "ref",
      ref |-> [sheet |-> <<"Other">>, cells |-> <<CellAt("C", 1), CellAt("C", 4)>>]],
     [is |-> "text", key |-> "category", text |-> "stale_assumption"],
     [is |-> "text", key |-> "severity", text |-> "hidden_dependency"]}

Written(value, percent, parts) ==
    [is |-> "number", word |-> "", value |-> value, percent |-> percent, parts |-> parts]
Cited(words, quoted, absolute, cells) ==
    [is |-> "ref", word |-> "", words |-> words, quoted |-> quoted,
     absolute |-> absolute, cells |-> cells]
Say(is, word) == [is |-> is, word |-> word]
SmallTokens ==
    {Written(487500 * Unit, FALSE, <<"n">>), Written(93849 * Unit, FALSE, <<"n", "n">>),
     Written(40000 * Unit, FALSE, <<"n">>), Written(2 * Unit, FALSE, <<"n", "0">>),
     Written(50 * Unit, TRUE, <<"n">>), Written(0, TRUE, <<"0">>),
     Cited(Inputs, FALSE, FALSE, <<CellAt("B", 12)>>), Cited(Inputs, FALSE, FALSE, <<CellAt("A", 2)>>),
     Cited(<<"see">> \o Summary, FALSE, FALSE, <<CellAt("G", 3)>>),
     Cited(Summary, TRUE, TRUE, <<CellAt("G", 3), CellAt("G", 4)>>),
     Cited(Summary, FALSE, FALSE, <<CellAt("G", 3), CellAt("G", 4)>>),
     Cited(<<>>, FALSE, FALSE, <<CellAt("G", 3)>>),
     Cited(<<"Other">>, FALSE, FALSE, <<CellAt("C", 2), CellAt("C", 3)>>),
     Say("name", "CostOfSales"), Say("name", "DataCell"),
     Say("keyword", "stale"), Say("keyword", "hidden"),
     Say("negation", "no"), Say("question", "could"), Say("date", ""), Say("end", "")}

NoWords ==
    /\ kind = "answer"
    /\ \E results \in {{}} \cup {{r} : r \in SomeResults}, book \in SomeBooks :
         input = [answer |-> <<>>, results |-> results, book |-> book]
AddToken ==
    /\ kind = "answer"
    /\ Len(input.answer) < MostTokens
    /\ \E token \in SmallTokens : input' = [input EXCEPT !.answer = Append(@, token)]
    /\ UNCHANGED kind

----------------------------------------------------------------------------
(* Tables of two columns; a label may be the letters of another column.     *)

Number(n) == [type |-> "number", n |-> n]
Text(type, n, word) == [type |-> type, n |-> n, word |-> word]
Groups == {Number(3), Text("digits", 3, <<"3">>), Text("text", 2, <<"x", "y">>)}
Amounts == {Number(1), Number(-4), Text("text", 1, <<"x">>)}
SmallLabels ==
    {[c \in {"A", "B"} |-> IF c = "A" THEN "Region" ELSE "Amount"],
     [c \in {"B"} |-> "Amount"], [c \in {"A", "B"} |-> IF c = "A" THEN "B" ELSE "Amount"]}

NoRows ==
    /\ kind = "table"
    /\ \E labels \in SmallLabels :
         input = [columns |-> <<"A", "B">>, labels |-> labels, cells |-> <<>>]
AddTableRow ==
    /\ kind = "table"
    /\ LET row == Cardinality({cell[1] : cell \in DOMAIN input.cells}) + 2
       IN /\ row <= MostTableRows + 1
          /\ \E group \in Groups, amount \in Amounts :
               \E new \in {(<<row, "A">> :> group) @@ (<<row, "B">> :> amount),
                           <<row, "A">> :> group, <<row, "B">> :> amount} :
                   input' = [input EXCEPT !.cells = new @@ @]
    /\ UNCHANGED kind

Named(column) ==
    [letters |-> column, label |-> IF column \in DOMAIN input.labels THEN input.labels[column] ELSE column,
     partOf |-> {}]
Compared == {Number(1), Number(3), Text("digits", 3, <<"3">>), Text("text", 1, <<"x">>)}
Filters ==
    {[column |-> Named(column), op |-> op, value |-> value] :
        column \in {"A", "B"}, op \in {"=", ">", "<"}, value \in Compared}
    \cup {[column |-> Named(column), op |-> "in", values |-> {Number(3), Number(1)}] :
            column \in {"A", "B"}}
LabelsAreNoLetters == \A c \in DOMAIN input.labels : input.labels[c] \notin {"A", "B"}

----------------------------------------------------------------------------

Init ==
    \/ FirstSheet /\ BesideLayout
    \/ FirstLayout /\ BesideSheet
    \/ (EmptyBook \/ NoWords \/ NoRows) /\ BesideSheet /\ BesideLayout
Next ==
    \/ AddSheetRow /\ UNCHANGED layout
    \/ AddToLayout /\ UNCHANGED worksheet
    \/ (AddReference \/ AddToken \/ AddTableRow) /\ UNCHANGED <<worksheet, layout>>
Spec == Init /\ [][Next]_<<kind, input, worksheet, layout>>

\* The summary of the graph is right: cycles of formulas are found, and the depth
\* is that of the formulas (_detect_circular, _approx_max_depth).
GraphSummary ==
    kind = "book" => Graph!CyclesAreFound(Graph!Parse(input))
                     /\ Graph!DepthIsExact(Graph!Parse(input))
\* A trace shows what feeds into a cell (backward_trace).
Traces == kind = "book" => Graph!TraceIsComplete(Graph!Parse(input))
\* What an answer that passes claims is grounded, and remains so: the results of
\* more calls of tools never spoil it (auditor.audit).
ClaimsAreGrounded ==
    kind = "answer" =>
      /\ Audit!ClaimsAreGrounded(input.answer, input.results, input.book)
      /\ \A result \in SomeResults :
            Audit!EvidenceOnlyHelps(input.answer, input.results,
                                    input.results \cup {result}, input.book)
\* What the tools say of a table agrees, if no label is the letters of a column:
\* found letters are looked up among the labels once more (DataView).
AnswersAgree ==
    kind = "table" =>
      /\ \A p \in Filters : Tools!RowsAreShared(Tools!View(input), p)
      /\ LabelsAreNoLetters =>
         /\ Tools!ValuesAreFound(input, Named("A"))
         /\ \A where \in {<<>>} \cup {<<p>> : p \in Filters} :
               Tools!Filter(Tools!View(input), where) # Tools!Error =>
                 Tools!AnswersAgree(input, Named("A"), Named("B"), where)
============================================================================
