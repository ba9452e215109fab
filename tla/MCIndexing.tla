---------------------------- MODULE MCIndexing ----------------------------
(* Indexing on small files, for TLC. *)
EXTENDS Indexing

Word == [raw |-> "constant", value |-> "word"]
Number == [raw |-> "constant", value |-> "fraction"]
\* One column with a number in it: overview, sheet, schema, column and
\* statistics; and a cell chunk, if they can be extracted.
SmallWorkbook ==
    [kind |-> "workbook",
     workbook |-> [sheets |-> <<[top |-> 0, rows |-> <<<<Word>>, <<Number>>>>]>>,
                   crossReferences |-> FALSE],
     labelled |-> {1}]
SmallFiles == {SmallWorkbook, [kind |-> "xls", sheets |-> 1], [kind |-> "csv"], [kind |-> "other"]}
============================================================================
