----------------------------- MODULE Analytics -----------------------------
(***************************************************************************)
(* The tools that answer from the rows of a table (rosetta/analytics: view,*)
(* aggregators and filters).  A table is the columns in their order, the   *)
(* labels of those that have one, and the cells below the header that are  *)
(* not empty: rows (from 2) by columns.  A value is a number, a text, or a *)
(* text of digits; n is the number, or the rank in the order of texts.     *)
(* Fractions are pairs; an empty sequence is "no value".                   *)
(***************************************************************************)
EXTENDS Integers, Sequences, FiniteSets, SequencesExt, FiniteSetsExt

\* A filter, or a tool, raises an error or reports one.
Error == [error |-> TRUE]
Missing == <<>>
Lowest(a, b) == IF a < b THEN a ELSE b
Highest(a, b) == IF a > b THEN a ELSE b

----------------------------------------------------------------------------
(* DataView. *)

DataRows(table) == SetToSortSeq({cell[1] : cell \in DOMAIN table.cells}, <)
View(table) == [table |-> table, rows |-> DataRows(table)]
ValueAt(view, row, column) ==
    IF <<row, column>> \in DOMAIN view.table.cells
    THEN <<view.table.cells[row, column]>> ELSE Missing

Labelled(table, labels) ==
    SelectSeq(table.columns, LAMBDA c : c \in DOMAIN table.labels /\ table.labels[c] \in labels)
\* The first by label, or else any three letters, or else the first by a part of
\* its label, if any; a column that is asked for is [letters |-> of a column or
\* "", label |-> .., partOf |-> the labels that have what is asked for in them].
ResolveColumn(table, spec) ==
    LET byLetters == IF spec.letters = "" THEN <<>> ELSE <<spec.letters>>
        candidates == Labelled(table, {spec.label}) \o byLetters \o Labelled(table, spec.partOf)
    IN SubSeq(candidates, 1, Lowest(1, Len(candidates)))
\* The letters of a column that is found are looked up once more.
ByLetters(letters) == [letters |-> letters, label |-> letters, partOf |-> {}]
Resolved(view, letters) == Head(ResolveColumn(view.table, ByLetters(letters)))
RowsWith(view, column) == SelectSeq(view.rows, LAMBDA r : ValueAt(view, r, column) # Missing)
ValuesIn(view, column) ==
    LET rows == RowsWith(view, column)
    IN [i \in DOMAIN rows |-> [row |-> rows[i], value |-> ValueAt(view, rows[i], column)[1]]]
ColumnValues(view, letters) == ValuesIn(view, Resolved(view, letters))

----------------------------------------------------------------------------
(* Predicates: [column, op, value], or [column, op, values] with in, not_in.*)

Orders == {">", ">=", "<", "<="}
Ops == Orders \cup {"=", "!=", "in", "not_in", "contains", "startswith", "endswith"}
IsTextual(v) == v.type \in {"text", "digits"}
SameText(v, w) == v.word = w.word
\* _coerce: a text of digits is its number.
Coerced(v) == <<IF v.type = "text" THEN "text" ELSE "number", v.n>>
Equal(v, w) == IF IsTextual(v) /\ IsTextual(w) THEN SameText(v, w) ELSE Coerced(v) = Coerced(w)
IsWithin(part, word) ==
    \E i \in 0 .. Len(word) - Len(part) : SubSeq(word, i + 1, i + Len(part)) = part

CannotCompare(v, p) == p.op \in Orders /\ Coerced(v)[1] # Coerced(p.value)[1]
OnTexts == {"contains", "startswith", "endswith"}
ValueMatches(v, p) ==
    /\ p.op \in OnTexts => IsTextual(v) /\ IsTextual(p.value)
    /\ CASE p.op = "in" -> v \in p.values
         [] p.op = "not_in" -> v \notin p.values
         [] p.op = "contains" -> IsWithin(p.value.word, v.word)
         [] p.op = "startswith" -> IsPrefix(p.value.word, v.word)
         [] p.op = "endswith" -> IsSuffix(p.value.word, v.word)
         [] p.op = "=" -> Equal(v, p.value)
         [] p.op = "!=" -> ~Equal(v, p.value)
         [] p.op = ">" -> v.n > p.value.n
         [] p.op = ">=" -> v.n >= p.value.n
         [] p.op = "<" -> v.n < p.value.n
         [] p.op = "<=" -> v.n <= p.value.n
\* Mutant: what is missing is different.
MatchesMissing(cell, p) ==
    IF cell = Missing THEN p.op \in {"!=", "not_in"} ELSE ValueMatches(cell[1], p)
Matches(cell, p) == cell # Missing /\ ValueMatches(cell[1], p)

\* Predicates are tried in order, and not after one that fails.
Cell(view, row, p) ==
    ValueAt(view, row, Head(ResolveColumn(view.table, p.column)))
Fails(view, row, predicates) ==
    \E i \in DOMAIN predicates :
        LET cell == Cell(view, row, predicates[i])
        IN /\ cell # Missing /\ CannotCompare(cell[1], predicates[i])
           /\ \A j \in 1 .. i - 1 : Matches(Cell(view, row, predicates[j]), predicates[j])
Filter(view, predicates) ==
    IF \E i \in DOMAIN predicates :
          \/ predicates[i].op \notin Ops
          \/ ResolveColumn(view.table, predicates[i].column) = <<>>
    THEN Error
    ELSE IF \E row \in Range(view.rows) : Fails(view, row, predicates) THEN Error
    ELSE [view EXCEPT !.rows = SelectSeq(@, LAMBDA r :
             \A i \in DOMAIN predicates : Matches(Cell(view, r, predicates[i]), predicates[i]))]

----------------------------------------------------------------------------
(* Aggregators: on a view, of the column with the given letters.           *)

IsNumber(value) == value.type = "number"
NumbersIn(entries) == [i \in DOMAIN entries |-> entries[i].value.n]
NumbersOf(view, letters) ==
    NumbersIn(SelectSeq(ColumnValues(view, letters), LAMBDA e : IsNumber(e.value)))
Total(xs) == FoldLeft(+, 0, xs)
Squares(xs) == [i \in DOMAIN xs |-> xs[i] * xs[i]]
Sorted(xs) == SortSeq(xs, <)
Aggs == {"sum", "mean", "median", "min", "max", "count", "variance"}
Aggregate(agg, xs) ==
    LET n == Len(xs)  sorted == Sorted(xs)
    IN CASE agg = "sum" -> <<Total(xs), 1>>
         [] agg = "count" -> <<n, 1>>
         [] n = 0 -> Missing
         [] agg = "mean" -> <<Total(xs), n>>
         [] agg = "median" -> IF n % 2 = 1 THEN <<sorted[n \div 2 + 1], 1>>
                              ELSE <<sorted[n \div 2] + sorted[n \div 2 + 1], 2>>
         [] agg = "min" -> <<sorted[1], 1>>
         [] agg = "max" -> <<sorted[n], 1>>
         [] agg = "variance" -> IF n < 2 THEN Missing
                                ELSE <<n * Total(Squares(xs)) - Total(xs) * Total(xs), n * (n - 1)>>

\* What a tool does first: filter, if at all, and find the columns.  A tool is an
\* operator on what comes of it.
Columns(table, columns) == [i \in DOMAIN columns |-> ResolveColumn(table, columns[i])]
Found(view, columns) ==
    IF view = Error \/ <<>> \in Range(columns) THEN Error
    ELSE [view |-> view, columns |-> [i \in DOMAIN columns |-> Head(columns[i])]]
Using(table, where, columns) == Found(Filter(View(table), where), Columns(table, columns))

\* The value of an empty column is none, whatever it is asked for but for a count.
Summary(agg, xs) ==
    IF agg \notin Aggs THEN Error
    ELSE IF xs = <<>> /\ agg # "count" THEN [value |-> Missing, n |-> 0]
    ELSE [value |-> Aggregate(agg, xs), n |-> Len(xs)]
AggregateColumn(use, agg) ==
    IF use = Error THEN Error ELSE Summary(agg, NumbersOf(use.view, use.columns[1]))

Counts(entries) ==
    [v \in {e.value : e \in Range(entries)} |->
        Cardinality({i \in DOMAIN entries : entries[i].value = v})]
UniqueValues(use) ==
    IF use = Error THEN Error ELSE Counts(ColumnValues(use.view, use.columns[1]))

\* The first of equals stay first, also from the top.
Upwards(e, f) == e.value.n < f.value.n \/ (e.value.n = f.value.n /\ e.row < f.row)
Downwards(e, f) == e.value.n > f.value.n \/ (e.value.n = f.value.n /\ e.row < f.row)
First(n, s) == SubSeq(s, 1, Lowest(n, Len(s)))
Ranked(entries, order) ==
    IF order = "asc" THEN SetToSortSeq(entries, Upwards) ELSE SetToSortSeq(entries, Downwards)
TopN(use, n, order) ==
    IF use = Error THEN Error
    ELSE First(Highest(1, n), Ranked({e \in Range(ColumnValues(use.view, use.columns[1])) :
                                         IsNumber(e.value)}, order))

\* Rows without a group or a number are left out.
GroupOf(use, r) == ValueAt(use.view, r, use.columns[1])
AmountOf(use, r) == ValueAt(use.view, r, use.columns[2])
HasNumber(use, r) == AmountOf(use, r) # Missing /\ IsNumber(AmountOf(use, r)[1])
AmountsOf(use, rows) == [i \in DOMAIN rows |-> AmountOf(use, rows[i])[1].n]
ByGroup(use, agg, rows) ==
    [k \in {GroupOf(use, r)[1] : r \in Range(rows)} |->
        Summary(agg, AmountsOf(use, SelectSeq(rows, LAMBDA r : GroupOf(use, r)[1] = k)))]
GroupAggregate(use, agg) ==
    IF use = Error \/ agg \notin Aggs THEN Error
    ELSE ByGroup(use, agg, SelectSeq(use.view.rows, LAMBDA r :
                               GroupOf(use, r) # Missing /\ HasNumber(use, r)))

\* Mutant: the greatest value is beyond the last bin.
BinByWidth(x, low, high, bins) == ((x - low) * bins) \div (high - low)
Bin(x, low, high, bins) == Lowest(((x - low) * bins) \div (high - low), bins - 1)
Binned(xs, low, high, bins) ==
    IF low = high THEN <<Len(xs)>>
    ELSE [b \in 1 .. bins |->
             Cardinality({i \in DOMAIN xs : Bin(xs[i], low, high, bins) = b - 1})]
Bins(xs, bins) == IF xs = <<>> THEN <<>> ELSE Binned(xs, Min(Range(xs)), Max(Range(xs)), bins)
Histogram(use, bins) ==
    IF use = Error THEN Error
    ELSE Bins(NumbersOf(use.view, use.columns[1]), Highest(2, Lowest(bins, 50)))

----------------------------------------------------------------------------
(* Filters.                                                                *)

FilterRows(use, mostRows) ==
    IF use = Error THEN Error
    ELSE [matched |-> Len(use.view.rows),
          rows |-> First(Highest(1, Lowest(mostRows, 500)), use.view.rows)]

\* The first row where the column equals the value, or else contains it.
RowsWhere(use, op, value) ==
    Filter(use.view, <<[column |-> ByLetters(use.columns[1]), op |-> op, value |-> value]>>).rows
Match(rows) ==
    IF rows = <<>> THEN [row |-> 0, matches |-> 0]
    ELSE [row |-> Head(rows), matches |-> Len(rows)]
EqualOr(equal, others) == IF equal = <<>> THEN others ELSE equal
LookupRow(use, value) ==
    IF use = Error THEN Error
    ELSE Match(EqualOr(RowsWhere(use, "=", value),
                       IF IsTextual(value) THEN RowsWhere(use, "contains", value) ELSE <<>>))

Difference(a, b) ==
    IF a = Missing \/ b = Missing THEN Missing
    ELSE <<a[1] * b[2] - b[1] * a[2], a[2] * b[2]>>
Scenarios(base, other) ==
    IF Error \in {base, other} THEN Error
    ELSE [base |-> base.value, other |-> other.value,
          delta |-> Difference(other.value, base.value)]
\* scenario_filter compares with no filter.
CompareScenarios(baseUse, use, agg) ==
    Scenarios(AggregateColumn(baseUse, agg), AggregateColumn(use, agg))

----------------------------------------------------------------------------
(* Properties. *)

Not == [op \in {"=", ">", "<", "in"} |->
            CASE op = "=" -> "!=" [] op = ">" -> "<=" [] op = "<" -> ">=" [] op = "in" -> "not_in"]

\* A filter and its opposite share out the rows that have a value (view.filter).
ShareOut(kept, left, having) ==
    kept # Error /\ left # Error =>
        /\ Range(kept.rows) \cup Range(left.rows) = having
        /\ Range(kept.rows) \cap Range(left.rows) = {}
RowsAreShared(view, p) ==
    ShareOut(Filter(view, <<p>>), Filter(view, <<[p EXCEPT !.op = Not[p.op]]>>),
             {r \in Range(view.rows) : Cell(view, r, p) # Missing})

Ungrouped(use) ==
    {r \in Range(use.view.rows) : GroupOf(use, r) = Missing /\ HasNumber(use, r)}
\* The numbers of groups, with those that have none: how many, and their sum.
CountByGroups(groups, ungrouped) ==
    FoldSet(LAMBDA k, sum : sum + groups[k].n, Cardinality(ungrouped), DOMAIN groups)
SumByGroups(use, groups, ungrouped) ==
    FoldSet(LAMBDA k, sum : sum + groups[k].value[1],
            FoldSet(LAMBDA r, sum : sum + AmountOf(use, r)[1].n, 0, ungrouped), DOMAIN groups)
SumOf(use) == SumByGroups(use, GroupAggregate(use, "sum"), Ungrouped(use))

\* The values of groups, and those in bins, are as many as there are, and the
\* highest is the greatest.
NumbersAgree(all, groups, ungrouped, bins, top) ==
    /\ all.n = Total(bins)
    /\ all.n = CountByGroups(groups, ungrouped)
    /\ IF top = <<>> THEN all.value = Missing ELSE all.value = <<top[1].value.n, 1>>
\* A scenario differs by what its groups lack.
ScenarioAgrees(scenario, sum, baseSum) ==
    scenario.delta # Missing => scenario.delta[1] = sum - baseSum
\* What is asked of one column in several ways is answered alike.
UsesAgree(baseBoth, both, base, use) ==
    /\ NumbersAgree(AggregateColumn(use, "max"), GroupAggregate(both, "sum"), Ungrouped(both),
                    Histogram(use, 3), TopN(use, 1, "desc"))
    /\ ScenarioAgrees(CompareScenarios(base, use, "sum"), SumOf(both), SumOf(baseBoth))
AnswersAgree(table, group, column, where) ==
    UsesAgree(Using(table, <<>>, <<group, column>>), Using(table, where, <<group, column>>),
              Using(table, <<>>, <<column>>), Using(table, where, <<column>>))

\* A row is found for each value there is.
FoundAgrees(found, v, unique, filtered) ==
    /\ found.matches = FoldSet(LAMBDA w, sum : sum + (IF Equal(w, v) THEN unique[w] ELSE 0),
                               0, DOMAIN unique)
    /\ filtered = [matched |-> found.matches, rows |-> <<found.row>>]
FoundForEach(table, group, unique) ==
    \A v \in DOMAIN unique :
        FoundAgrees(LookupRow(Using(table, <<>>, <<group>>), v), v, unique,
                    FilterRows(Using(table, <<[column |-> group, op |-> "=", value |-> v]>>, <<>>), 1))
ValuesAreFound(table, group) ==
    FoundForEach(table, group, UniqueValues(Using(table, <<>>, <<group>>)))
============================================================================
