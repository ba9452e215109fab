------------------------------ MODULE Auditor ------------------------------
(***************************************************************************)
(* The citation auditor (rosetta/auditor.py): an answer passes when each   *)
(* number, cell, name and quality that it claims is found in the results   *)
(* of the tools or in the workbook.  An answer is a sequence of tokens:    *)
(*   number     its value (that before "%" when it is a percentage) and    *)
(*              the parts that a decimal point leaves of it: "0" or not    *)
(*   ref        the words before "!", in quotes or not, and one cell or    *)
(*              the two ends of a range; $ signs make it absolute          *)
(*   name       a word like CostOfSales or Tax_Rate                        *)
(*   keyword, negation, question, word, date, end (of a sentence)          *)
(* Values are whole numbers, Unit of which make one; Unit is even.         *)
(***************************************************************************)
EXTENDS Integers, Sequences, FiniteSets, SequencesExt, FiniteSetsExt

CONSTANT Unit

\* QUAL_KEYWORDS; hard-coded is hardcoded.
Category ==
    [stale |-> "stale_assumption", deprecated |-> "stale_assumption",
     circular |-> "circular", hidden |-> "hidden_dependency",
     volatile |-> "volatile", hardcoded |-> "hardcoded_anomaly",
     broken |-> "broken_ref"]

Tokens(answer, kind) == {answer[i] : i \in {j \in DOMAIN answer : answer[j].is = kind}}

----------------------------------------------------------------------------
(* Numbers. *)

\* The pattern of numbers keeps off letters, not off digits: of the row of a
\* cell it reads what is behind the first digit, of an absolute one all.
PowersOfTen == {1, 10, 100, 1000, 10000, 100000, 1000000}
RowDigits(ref, cell) ==
    IF ref.absolute THEN cell.row
    ELSE cell.row % Max({p \in PowersOfTen : p <= cell.row})
Claim(value, percent) == [value |-> value, percent |-> percent]
NumbersOf(answer) ==
    {Claim(t.value, t.percent) : t \in Tokens(answer, "number")}
    \cup UNION {{Claim(RowDigits(t, t.cells[i]) * Unit, FALSE) : i \in DOMAIN t.cells} :
                    t \in Tokens(answer, "ref")}

Magnitude(v) == IF v < 0 THEN -v ELSE v
\* round(v, -3), to the even of two that are as near.
Rounded(v) ==
    LET k == 1000 * Unit  below == v \div k  rest == v % k
    IN IF 2 * rest < k \/ (2 * rest = k /\ below % 2 = 0) THEN below * k
       ELSE (below + 1) * k
\* Mutant: how far a number is below a witnessed one does not matter.
NearOrBelow(target, v) ==
    \/ target - v <= Magnitude(v) \div 200
    \/ target - v <= Unit \div 2
    \/ Magnitude(target - Rounded(v)) <= 500 * Unit
Near(target, v) ==
    LET off == Magnitude(target - v)
    IN \/ off <= Magnitude(v) \div 200
       \/ off <= Unit \div 2
       \/ Magnitude(target - Rounded(v)) <= 500 * Unit
NumberMatches(target, universe) ==
    \E v \in universe :
        \/ target = v
        \/ v = 0 /\ Magnitude(target) < Unit \div 2
        \/ v # 0 /\ (Near(target, v) \/ Near(Magnitude(target), Magnitude(v)))

\* A percentage may be of a share or of itself.
NumberVerified(claim, universe) ==
    \/ claim.value = 0
    \/ ~claim.percent /\ NumberMatches(claim.value, universe)
    \/ /\ claim.percent
       /\ NumberMatches(claim.value \div 100, universe) \/ NumberMatches(claim.value, universe)

----------------------------------------------------------------------------
(* Cells and names. *)

Ref(sheet, cells) == [sheet |-> sheet, cells |-> cells]
Unknown == <<"?">>
LastWord(words) == IF words = <<>> THEN Unknown ELSE <<Last(words)>>
\* The longest sheet whose name the words end with, or else the last of them.
SheetBefore(words, sheets) ==
    LET named == Suffixes(words) \cap sheets
    IN IF named = {} THEN LastWord(words)
       ELSE CHOOSE name \in named : \A other \in named : Len(other) <= Len(name)
\* Where a range is in quotes, its first cell is found once more, as a cell; and
\* of the sheet of one without, only the last word.
RefsOfToken(t, sheets) ==
    IF t.quoted THEN {Ref(t.words, t.cells), Ref(t.words, <<t.cells[1]>>)}
    ELSE IF Len(t.cells) = 2 /\ t.words # <<>> THEN {Ref(LastWord(t.words), t.cells)}
    ELSE {Ref(SheetBefore(t.words, sheets), <<t.cells[1]>>)}
RefsOf(answer, sheets) == UNION {RefsOfToken(t, sheets) : t \in Tokens(answer, "ref")}

\* A range is trusted when some cell of its sheet is known.
RefMatches(ref, universe) ==
    \/ ref \in universe
    \/ Len(ref.cells) = 2 /\ \E known \in universe : known.sheet = ref.sheet

----------------------------------------------------------------------------
(* Sentences: a point, also that of a number, and the "!" of a cell end    *)
(* them.                                                                   *)

Item(is, word) == [is |-> is, word |-> word]
Break == Item("end", "")
Part(part) == IF part = "0" THEN Item("negation", "0") ELSE Item("word", part)
ItemsOf(t) ==
    CASE t.is = "number" -> <<Part(t.parts[1])>>
                            \o (IF Len(t.parts) = 2 THEN <<Break, Part(t.parts[2])>> ELSE <<>>)
      [] t.is = "ref" -> <<Item("word", "sheet"), Break, Item("word", "cell")>>
      [] OTHER -> <<Item(t.is, t.word)>>
SplitAtBreaks(items) ==
    FoldLeft(LAMBDA done, item :
                IF item = Break THEN Append(done, <<>>)
                ELSE [done EXCEPT ![Len(done)] = Append(@, item)],
             << <<>> >>, items)
Sentences(answer) ==
    SplitAtBreaks(FlattenSeq([i \in DOMAIN answer |-> ItemsOf(answer[i])]))

IsNonAssertive(sentence) ==
    \/ \E i \in DOMAIN sentence : sentence[i].is = "negation"
    \/ sentence # <<>> /\ sentence[1].is = "question"
Asserted(answer) ==
    UNION {{item.word : item \in {i \in Range(sentence) : i.is = "keyword"}} :
              sentence \in {s \in Range(Sentences(answer)) : ~IsNonAssertive(s)}}

----------------------------------------------------------------------------
(* What is known: results are the leaves of all that the tools returned,   *)
(* under their keys.                                                       *)

\* _collect_values_from_tools: a reference under "ref" is kept as it is; of any
\* that begins with a sheet of one word, the first cell.
RefsOfLeaf(leaf) ==
    (IF leaf.key = "ref" THEN {leaf.ref} ELSE {})
    \cup (IF Len(leaf.ref.sheet) = 1
          THEN {Ref(leaf.ref.sheet, <<leaf.ref.cells[1]>>)} ELSE {})
Leaves(results, kind) == {leaf \in results : leaf.is = kind}
ToolNumbers(results) == {leaf.value : leaf \in Leaves(results, "number")}
ToolRefs(results) == UNION {RefsOfLeaf(leaf) : leaf \in Leaves(results, "ref")}
ToolCategories(results) ==
    {leaf.text : leaf \in {l \in Leaves(results, "text") : l.key = "category"}}

\* A book is its cells, in a set, its named ranges, its sheets and the
\* categories of its findings.
BookNumbers(book) ==
    {c.value : c \in {d \in book.cells : d.is = "number"}} \cup {n.value : n \in book.names}
BookRefs(book) == {Ref(c.sheet, <<c.at>>) : c \in book.cells}
\* The first text of a column, if it is in the first three rows.
Headers(book) ==
    {c \in book.cells :
        /\ c.is = "text" /\ c.at.row <= 3
        /\ \A d \in book.cells :
              d.is = "text" /\ d.sheet = c.sheet /\ d.at.column = c.at.column
                => c.at.row <= d.at.row}
KnownNames(book) ==
    {<<c.text>> : c \in Headers(book)} \cup {<<n.name>> : n \in book.names} \cup book.sheets

\* Mutant: the workbook is looked at only when no tool returned a number.
FallBackOnBook(results, book) ==
    IF ToolNumbers(results) # {} THEN ToolNumbers(results) ELSE BookNumbers(book)
Numbers(results, book) == ToolNumbers(results) \cup BookNumbers(book)
Refs(results, book) == ToolRefs(results) \cup BookRefs(book)
Categories(results, book) == ToolCategories(results) \cup book.findings

----------------------------------------------------------------------------

Passes(answer, results, book) ==
    /\ \A claim \in NumbersOf(answer) : NumberVerified(claim, Numbers(results, book))
    /\ \A ref \in RefsOf(answer, book.sheets) :
          ref.sheet # Unknown /\ RefMatches(ref, Refs(results, book))
    /\ \A t \in Tokens(answer, "name") : <<t.word>> \in KnownNames(book)
    /\ \A keyword \in Asserted(answer) : Category[keyword] \in Categories(results, book)

----------------------------------------------------------------------------
(* Properties. *)

\* "Different-magnitude fabrications ... still fail" (auditor.py:371): a number
\* that passes is half a percent or a thousand off a witnessed one at most.
IsWitnessed(value, universe) ==
    \E v \in universe :
        LET off == Magnitude(Magnitude(value) - Magnitude(v))
        IN off <= Max({1000 * Unit, Magnitude(v) \div 200})

\* The sentences as their author ends them.
WholeSentences(answer) ==
    SplitAtBreaks([i \in DOMAIN answer |-> IF answer[i].is = "end" THEN Break ELSE answer[i]])
ReadsZero(token) == token.is = "number" /\ "0" \in Range(token.parts)
ClaimsNothing(sentence) ==
    \/ sentence = <<>>
    \/ Head(sentence).is = "question"
    \/ \E token \in Range(sentence) : token.is = "negation" \/ ReadsZero(token)

\* The numbers of an answer are close to witnessed ones, and the sheets of its
\* cells are known.
NumbersAreWitnessed(answer, results, book) ==
    \A t \in Tokens(answer, "number") :
        \/ t.value = 0
        \/ IsWitnessed(t.value, Numbers(results, book))
        \/ t.percent /\ IsWitnessed(t.value \div 100, Numbers(results, book))
SheetsAreKnown(answer, results, book) ==
    \A t \in Tokens(answer, "ref") :
        \E ref \in Refs(results, book) : IsSuffix(ref.sheet, t.words)
\* Each quality is one that a tool or the workbook found, or is denied in its own
\* sentence, which may be a question, or shares it with a zero, which the auditor
\* reads as a denial.
QualitiesAreFound(answer, results, book) ==
    \A s \in Range(WholeSentences(answer)) :
        \/ ClaimsNothing(s)
        \/ \A keyword \in Tokens(s, "keyword") :
              Category[keyword.word] \in Categories(results, book)

\* What an answer that passes claims is grounded (audit).
ClaimsAreGrounded(answer, results, book) ==
    Passes(answer, results, book) =>
      /\ NumbersAreWitnessed(answer, results, book)
      /\ SheetsAreKnown(answer, results, book)
      /\ QualitiesAreFound(answer, results, book)

\* What a retry adds takes nothing away (coordinator.py:333, the log of the tool
\* calls grows): an answer that passes does so with the results of more calls.
EvidenceOnlyHelps(answer, results, more, book) ==
    results \subseteq more /\ Passes(answer, results, book) => Passes(answer, more, book)
============================================================================
