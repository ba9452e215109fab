------------------------------ MODULE MCWhatIf ------------------------------
(***************************************************************************)
(* WhatIf on small workbooks, with the values that their formulas define.  *)
(***************************************************************************)
EXTENDS WhatIf, TLC

CONSTANTS c1, c2, c3, c4, c5

\* "sum" adds; "range" adds over a whole column, to which there are no edges;
\* "unknown" adds, by a function that the evaluator does not have; "index" is
\* INDEX(the others, the first).
Sum(refs) == [kind |-> "sum", refs |-> refs]
WholeColumn(refs) == [kind |-> "range", refs |-> refs]
Unknown(refs) == [kind |-> "unknown", refs |-> refs]
Index(refs) == [kind |-> "index", refs |-> refs]

Number(value) == IF value = None THEN 0 ELSE value
Total(values) == FoldLeft(LAMBDA total, value : total + Number(value), 0, values)
\* Python's index -1 is the last.
IndexOf(formula, value) ==
    LET n == Len(formula.refs) - 1
    IN IF Number(value) = 0 THEN n ELSE Number(value)

ReadsCell(c) == [kind |-> "read", cell |-> c]
HasValue(value) == [kind |-> "value", value |-> value]
SmallFormula(formula, values) ==
    LET read == Len(values)
    IN CASE formula.kind = "index" /\ read = 0 -> ReadsCell(formula.refs[1])
         [] formula.kind = "index" /\ read = 1 ->
              IF IndexOf(formula, values[1]) < Len(formula.refs)
              THEN ReadsCell(formula.refs[1 + IndexOf(formula, values[1])])
              ELSE HasValue(None)
         [] formula.kind = "index" /\ read = 2 -> HasValue(values[2])
         [] formula.kind # "index" /\ read < Len(formula.refs) ->
              ReadsCell(formula.refs[read + 1])
         [] formula.kind = "unknown" /\ read = Len(formula.refs) -> [kind |-> "raise"]
         [] OTHER -> HasValue(Total(values))

----------------------------------------------------------------------------
(* What the cells are worth.  Excel knows the unknown function. *)

Refs(book, c) ==
    IF c \in DOMAIN book /\ book[c].computed THEN Range(book[c].formula.refs) ELSE {}
\* Cells that depend on no cycle, other than through an overridden cell.
GroundedIn(book, given, depth) ==
    LET more(cells) == {c \in Cells : c \in DOMAIN given \/ Refs(book, c) \subseteq cells}
    IN FoldLeft(LAMBDA cells, i : more(cells), {}, [i \in 1 .. depth |-> i])
Grounded(book, given) == GroundedIn(book, given, Cardinality(Cells))

RECURSIVE Exact(_, _, _), ExactRun(_, _, _, _)
Exact(book, given, c) ==
    CASE c \in DOMAIN given -> given[c]
      [] c \notin DOMAIN given /\ c \notin DOMAIN book -> None
      [] c \in DOMAIN book \ DOMAIN given /\ ~book[c].computed -> book[c].value
      [] OTHER -> ExactRun(book, given, book[c].formula, <<>>)
ExactRun(book, given, formula, values) ==
    LET doing == SmallFormula(formula, values)
    IN CASE doing.kind = "read" ->
              ExactRun(book, given, formula,
                       Append(values, Exact(book, given, doing.cell)))
         [] doing.kind = "value" -> doing.value
         [] OTHER -> Total(values)

\* What the formula of c has read at each point, after these values.
RECURSIVE RunsFrom(_, _, _, _)
RunsFrom(book, given, c, values) ==
    LET doing == SmallFormula(book[c].formula, values)
    IN {[cell |-> c, values |-> values]} \cup
       IF doing.kind # "read" THEN {}
       ELSE RunsFrom(book, given, c, Append(values, Exact(book, given, doing.cell)))

----------------------------------------------------------------------------
(* Small workbooks: c1 is a constant, c2 to c4 are formulas, c5 is no cell, *)
(* but for one chain of four formulas, longer than the stack is deep.      *)
(* Values are all stored, as Excel does, or all missing.                   *)

CellOf(formula) ==
    [computed |-> TRUE, formula |-> formula, value |-> None,
     depends |-> IF formula.kind = "range" THEN {} ELSE Range(formula.refs)]
NumberCell == [computed |-> FALSE, formula |-> Sum(<<>>), value |-> 1, depends |-> {}]
Formulas2 == {Sum(<<c1>>), WholeColumn(<<c1>>), Sum(<<c1, c4>>)}
Formulas3 == {Sum(<<c2>>), Sum(<<c1, c5>>), Index(<<c1, c1, c2>>), Unknown(<<c2>>),
              Sum(<<c2, c4>>), Index(<<c2, c3, c1>>)}
Formulas4 == {Sum(<<c3>>), Sum(<<c2, c3>>), Index(<<c2, c1, c3>>), WholeColumn(<<c2, c3>>)}
Unstored ==
    {[c \in {c1, c2, c3, c4} |->
        IF c = c1 THEN NumberCell ELSE CellOf(IF c = c2 THEN f2 ELSE IF c = c3 THEN f3 ELSE f4)] :
      f2 \in Formulas2, f3 \in Formulas3, f4 \in Formulas4}
LongChain ==
    (c1 :> NumberCell) @@ (c2 :> CellOf(Sum(<<c1>>))) @@ (c3 :> CellOf(Sum(<<c2>>)))
    @@ (c4 :> CellOf(Sum(<<c3>>))) @@ (c5 :> CellOf(Sum(<<c4>>)))
WithStored(book) ==
    [c \in DOMAIN book |->
        [book[c] EXCEPT !.value = IF c \in Grounded(book, <<>>)
                                  THEN Exact(book, <<>>, c) ELSE 0]]
Computed == Unstored \cup {LongChain}
SmallWorkbooks == Computed \cup {WithStored(book) : book \in Computed}
SmallScenarios ==
    {[c \in {c1} |-> 2], [c \in {c1, c3} |-> IF c = c1 THEN 3 ELSE 0], [c \in {c5} |-> 2]}
SmallTargets == {{}, {c4, c5}}

----------------------------------------------------------------------------
(* What the cells are worth that depend on no cycle. *)

SolutionOf(book, given) ==
    LET part == Grounded(book, given)
    IN [part |-> part,
        exact |-> [c \in part |-> Exact(book, given, c)],
        rank |-> [c \in part |-> Cardinality({depth \in 1 .. Cardinality(Cells) :
                                    c \notin GroundedIn(book, given, depth)})],
        runs |-> UNION {RunsFrom(book, given, c, <<>>) :
                          c \in {d \in (part \cap DOMAIN book) \ DOMAIN given : book[d].computed}}]
Solutions ==
    [question \in SmallWorkbooks \X (SmallScenarios \cup {<<>>}) |->
        SolutionOf(question[1], question[2])]
SmallSolution(book, given) == Solutions[<<book, given>>]
============================================================================
