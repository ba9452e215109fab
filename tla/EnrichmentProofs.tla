-------------------------- MODULE EnrichmentProofs --------------------------
(***************************************************************************)
(* What a workbook's record says, for any workbooks that are processed at  *)
(* once by the same agents, and whatever the model replies: no one fault   *)
(* empties it alone, sheets are under their names, and tokens are its own. *)
(*                                                                         *)
(* The invariant keeps the books of what has gone wrong (Spoiling): each   *)
(* thing that is bad has a fault of its own.                               *)
(*                                                                         *)
(* What the extractor makes of a layout, for any rows, colours and merged  *)
(* ranges: its sections are cuts of the sheet, at tops that are in order.  *)
(***************************************************************************)
EXTENDS Enrichment, SheetLayouts, FiniteSetTheorems, Integers, WellFoundedInduction, TLAPS

Enriched(j) == pc[j] = "sheets" \/ (pc[j] = "done" /\ results[j] # None)

\* What is kept by job or by workbook.
Shaped ==
    /\ cache = [f \in Files |-> cache[f]]
    /\ results = [j \in Jobs |-> results[j]]
    /\ record = [j \in Jobs |-> record[j]]

\* The part of TypeOK that is about one job.
Fits(j) ==
    /\ pc[j] \in {"map", "sheets"} => results[j] \in [Sheets(file[j]) -> SheetEnrichment \cup {None}]
    /\ pc[j] # "done" => record[j] = None

\* Of a job that has not got there yet there is nothing.
Blank(j) ==
    /\ pc[j] = "idle" => results[j] = None
    /\ pc[j] \in {"idle", "map"} => schema[j] = None /\ spent[j] = 0 /\ spoilt[j] = 0
    /\ pc[j] = "map" => file[j] \in Files /\ results[j] = [s \in Sheets(file[j]) |-> None]
    /\ pc[j] # "done" => metered[j] = None

\* An enrichment is of the sheet it was made for; one that failed has its name.
RightSheet(result, s) ==
    result # None => /\ result.of = s
                     /\ result.questions = "none" => result.name = s
Sorted(j) ==
    Enriched(j) =>
        /\ file[j] \in Files
        /\ results[j] \in [Sheets(file[j]) -> SheetEnrichment \cup {None}]
        /\ \A s \in Sheets(file[j]) : RightSheet(results[j][s], s)

\* Each thing that is bad has a fault of its own, and a reply that lists no questions
\* under another name has two.
Bad(result, s) ==
    result # None /\ ~(result.questions = "listed" /\ result.name = s)
Doubly(result, s) ==
    result # None /\ result.questions # "listed" /\ result.name # s
Spoiling(j) ==
    pc[j] = "sheets" =>
        /\ schema[j] # "listed" => spoilt[j] >= 1
        /\ \A s \in Sheets(file[j]) : Bad(results[j][s], s) => spoilt[j] >= 1
        /\ \A s \in Sheets(file[j]) : Doubly(results[j][s], s) => spoilt[j] >= 2
        /\ \A s \in Sheets(file[j]) :
              Bad(results[j][s], s) /\ schema[j] # "listed" => spoilt[j] >= 2
        /\ \A s, t \in Sheets(file[j]) :
              s # t /\ Bad(results[j][s], s) /\ Bad(results[j][t], t) => spoilt[j] >= 2

\* The properties, of one job.
Covered(j) ==
    Fresh(j) /\ spoilt[j] <= 1 /\ Cardinality(Sheets(file[j])) > 1 => record[j].questions # {}
Named(j) ==
    metered[j] # None =>
        \A s \in Sheets(file[j]) :
            (\A t \in Sheets(file[j]) \ {s} : results[j][t].name # s) =>
                \/ results[j][s].questions # "none" /\ results[j][s].name # s
                \/ s \in DOMAIN record[j].sheets /\ record[j].sheets[s] = s
Own(j) == metered[j] # None /\ ~crossed[j] => metered[j] = spent[j]

JobInv(j) ==
    Fits(j) /\ Blank(j) /\ Sorted(j) /\ Spoiling(j) /\ Covered(j) /\ Named(j) /\ Own(j)

\* The count of the workbook that is enriched alone.
Counting ==
    \A j \in Jobs : Enriching(j) /\ ~crossed[j] =>
        total = spent[j] /\ \A o \in Jobs \ {j} : ~Enriching(o)

IInv == Shaped /\ TypeOK /\ Counting /\ \A j \in Jobs : JobInv(j)

----------------------------------------------------------------------------
(* The last sheet of a name.                                               *)

\* A nonempty set of places in a list has a last one: what is behind a place
\* cannot become less for ever.
LEMMA LastPlace ==
    ASSUME NEW n \in Nat, NEW I, I \subseteq 1..n, I # {}
    PROVE  \E i \in I : \A k \in I : k <= i
<1> DEFINE T == {i..n : i \in I}
<1>1. IsFiniteSet(1..n)
    BY FS_Interval
<1>2. T # {}
    OBVIOUS
<1>3. ASSUME NEW t \in T
      PROVE  t \in FiniteSubsetsOf(1..n)
    <2>1. PICK i \in I : t = i..n
        OBVIOUS
    <2>2. t \subseteq 1..n
        BY <2>1
    <2> QED BY <1>1, <2>2, FS_Subset DEF FiniteSubsetsOf
<1>4. PICK t \in T : \A u \in T : <<u, t>> \notin StrictSubsetOrdering(1..n)
    <2>1. T \subseteq FiniteSubsetsOf(1..n)
        BY <1>3
    <2> QED BY <1>2, <2>1, WFMin, FS_StrictSubsetOrderingWellFounded
<1>5. PICK i \in I : t = i..n
    OBVIOUS
<1>6. ASSUME NEW k \in I, k > i
      PROVE  FALSE
    <2>1. k..n \in T
        OBVIOUS
    <2>2. k..n \subseteq 1..n /\ i..n \subseteq 1..n /\ k..n \subseteq i..n
        BY <1>6
    <2>3. i \in i..n /\ i \notin k..n
        BY <1>6
    <2>4. <<k..n, i..n>> \in StrictSubsetOrdering(1..n)
        BY <2>2, <2>3 DEF StrictSubsetOrdering
    <2> QED BY <1>4, <1>5, <2>1, <2>4
<1> QED BY <1>6

LEMMA LastOfNameExists ==
    ASSUME NEW f \in Files, NEW result, NEW s \in Sheets(f)
    PROVE  LET i == LastOfName(f, result, result[s].name)
           IN  /\ i \in DOMAIN SheetsOf[f]
               /\ SheetsOf[f][i] \in Sheets(f)
               /\ result[SheetsOf[f][i]].name = result[s].name
<1> DEFINE n == Len(SheetsOf[f])
           I == {i \in 1..n : result[SheetsOf[f][i]].name = result[s].name}
<1>1. n \in Nat /\ DOMAIN SheetsOf[f] = 1..n
    BY SheetsAssumption
<1>2. I \subseteq 1..n /\ I # {}
    BY <1>1 DEF Sheets
<1>3. PICK i \in I : \A k \in I : k <= i
    BY <1>1, <1>2, LastPlace
<1>4. LET l == LastOfName(f, result, result[s].name)
      IN  l \in DOMAIN SheetsOf[f] /\ result[SheetsOf[f][l]].name = result[s].name
    BY <1>1, <1>3 DEF LastOfName
<1> QED BY <1>4 DEF Sheets

----------------------------------------------------------------------------
(* What the answers about the sheets become.                               *)

Answered(f, result) ==
    /\ result \in [Sheets(f) -> SheetEnrichment]
    /\ \A s \in Sheets(f) : result[s] # None /\ RightSheet(result[s], s)

LEMMA ByNameIsEnrichment ==
    ASSUME NEW f \in Files, NEW result, Answered(f, result)
    PROVE  /\ ByName(f, result) # None
           /\ DOMAIN ByName(f, result) = {result[s].name : s \in Sheets(f)}
           /\ \A s \in Sheets(f) : \E t \in Sheets(f) :
                 /\ result[t].name = result[s].name
                 /\ ByName(f, result)[result[s].name] = result[t]
<1> DEFINE names == {result[s].name : s \in Sheets(f)}
           last(n) == SheetsOf[f][LastOfName(f, result, n)]
<1>1. ByName(f, result) = [n \in names |-> result[last(n)]]
    BY DEF ByName
<1>2. \A s \in Sheets(f) : /\ last(result[s].name) \in Sheets(f)
                           /\ result[last(result[s].name)].name = result[s].name
    BY LastOfNameExists
<1>3. names \in SUBSET AllSheets
    BY DEF Answered, SheetEnrichment
<1>4. ByName(f, result) \in [names -> SheetEnrichment]
    <2>1. \A n \in names : result[last(n)] \in SheetEnrichment
        BY <1>2 DEF Answered
    <2> HIDE DEF last, names
    <2> QED BY <1>1, <2>1
<1>5. ByName(f, result) # None
    BY <1>3, <1>4, NoneAssumption
<1>6. ASSUME NEW s \in Sheets(f)
      PROVE  ByName(f, result)[result[s].name] = result[last(result[s].name)]
    <2>1. result[s].name \in names
        OBVIOUS
    <2> HIDE DEF last, names
    <2> QED BY <1>1, <2>1
<1>7. DOMAIN ByName(f, result) = names
    BY <1>1
<1> QED BY <1>2, <1>5, <1>6, <1>7

LEMMA RecordWithEnrichment ==
    ASSUME NEW mapped, NEW sheets, sheets # None
    PROVE  LET r == Record(Processed(mapped, sheets))
           IN  /\ r.sheets = EnrichmentToDict(sheets)
               /\ r.questions = {sheets[n].of : n \in {m \in DOMAIN sheets :
                                                         sheets[m].questions = "listed"}}
BY DEF Record, Processed, Completed

LEMMA RecordWithoutEnrichment ==
    Record(Processed("listed", None)).questions = {"schema"}
BY DEF Record, Processed, Completed

\* Of two sheets or more, one is not the one that is bad.
LEMMA GoodSheet ==
    ASSUME NEW f \in Files, Cardinality(Sheets(f)) > 1, NEW result, Answered(f, result),
           \A s, t \in Sheets(f) : Bad(result[s], s) /\ Bad(result[t], t) => s = t
    PROVE  \E s \in Sheets(f) : ~Bad(result[s], s)
<1>1. Sheets(f) # {}
    BY FS_EmptySet
<1>2. PICK s \in Sheets(f) : TRUE
    BY <1>1
<1>3. Sheets(f) # {s}
    <2>1. Cardinality({s}) = 1
        BY FS_Singleton
    <2> QED BY <2>1
<1>4. PICK t \in Sheets(f) : t # s
    BY <1>2, <1>3
<1> QED BY <1>4

\* A good sheet's questions are recorded, or those of one that took its name.
LEMMA GoodSheetIsRecorded ==
    ASSUME NEW f \in Files, NEW result, Answered(f, result), NEW mapped,
           \A s \in Sheets(f) : ~Doubly(result[s], s),
           \E s \in Sheets(f) : ~Bad(result[s], s)
    PROVE  Record(Processed(mapped, ByName(f, result))).questions # {}
<1> DEFINE sheets == ByName(f, result)
<1>1. PICK s \in Sheets(f) : ~Bad(result[s], s)
    OBVIOUS
<1>2. result[s].questions = "listed" /\ result[s].name = s
    BY <1>1 DEF Bad, Answered
<1>3. /\ sheets # None
      /\ DOMAIN sheets = {result[u].name : u \in Sheets(f)}
      /\ \E t \in Sheets(f) : result[t].name = result[s].name /\ sheets[result[s].name] = result[t]
    BY ByNameIsEnrichment
<1> HIDE DEF sheets
<1>4. PICK t \in Sheets(f) : result[t].name = s /\ sheets[s] = result[t]
    BY <1>3, <1>2
<1>5. result[t].questions = "listed"
    <2>1. CASE t = s
        BY <1>2, <2>1
    <2>2. CASE t # s
        BY <1>4, <2>2 DEF Doubly, Answered
    <2> QED BY <2>1, <2>2
<1>6. s \in DOMAIN sheets
    BY <1>3, <1>2
<1>7. Record(Processed(mapped, sheets)).questions =
         {sheets[n].of : n \in {m \in DOMAIN sheets : sheets[m].questions = "listed"}}
    BY <1>3, RecordWithEnrichment
<1>8. sheets[s].of \in Record(Processed(mapped, sheets)).questions
    BY <1>4, <1>5, <1>6, <1>7
<1> QED BY <1>8 DEF sheets

\* A sheet whose name no other has taken is recorded under it.
LEMMA SheetIsUnderItsName ==
    ASSUME NEW f \in Files, NEW result, Answered(f, result), NEW s \in Sheets(f), NEW mapped,
           result[s].name = s, \A t \in Sheets(f) \ {s} : result[t].name # s
    PROVE  LET sheets == Record(Processed(mapped, ByName(f, result))).sheets
           IN  s \in DOMAIN sheets /\ sheets[s] = s
<1> DEFINE sheets == ByName(f, result)
<1>1. /\ sheets # None
      /\ DOMAIN sheets = {result[u].name : u \in Sheets(f)}
      /\ \A u \in Sheets(f) : \E t \in Sheets(f) :
            result[t].name = result[u].name /\ sheets[result[u].name] = result[t]
    BY ByNameIsEnrichment
<1> HIDE DEF sheets
<1>2. sheets[s] = result[s] /\ s \in DOMAIN sheets
    BY <1>1
<1>3. result[s].of = s
    BY DEF Answered, RightSheet
<1>4. Record(Processed(mapped, sheets)).sheets = EnrichmentToDict(sheets)
    BY <1>1, RecordWithEnrichment
<1>5. s \in DOMAIN EnrichmentToDict(sheets) /\ EnrichmentToDict(sheets)[s] = s
    BY <1>2, <1>3 DEF EnrichmentToDict
<1> QED BY <1>4, <1>5 DEF sheets

----------------------------------------------------------------------------
(* A step of one job leaves what is known of the others.                   *)

Same(o) ==
    /\ pc'[o] = pc[o] /\ file'[o] = file[o] /\ schema'[o] = schema[o]
    /\ results'[o] = results[o] /\ record'[o] = record[o]
    /\ metered'[o] = metered[o] /\ spent'[o] = spent[o] /\ spoilt'[o] = spoilt[o]
    /\ crossed[o] => crossed'[o]

LEMMA SameIsKept ==
    ASSUME NEW o \in Jobs, JobInv(o), Same(o)
    PROVE  JobInv(o)'
<1> USE DEF JobInv, Same
<1>1. Fits(o)'
    BY DEF Fits
<1>2. Blank(o)'
    BY DEF Blank
<1>3. Sorted(o)'
    BY DEF Sorted, Enriched
<1>4. Spoiling(o)'
    BY DEF Spoiling
<1>5. Covered(o)'
    BY DEF Covered, Fresh
<1>6. Named(o)'
    BY DEF Named
<1>7. Own(o)'
    BY DEF Own
<1> QED BY <1>1, <1>2, <1>3, <1>4, <1>5, <1>6, <1>7

LEMMA SpoilsOne ==
    ASSUME TypeOK, NEW j \in Jobs, Spoils(j)
    PROVE  /\ spoilt' \in [Jobs -> Nat]
           /\ spoilt'[j] = spoilt[j] + 1
           /\ \A o \in Jobs \ {j} : spoilt'[o] = spoilt[o]
BY DEF TypeOK, Spoils

LEMMA MeteredOrNot ==
    ASSUME TypeOK, NEW j \in Jobs, Metered(j) \/ UNCHANGED <<total, spent>>
    PROVE  /\ spent' \in [Jobs -> Nat] /\ total' \in Nat
           /\ (total' = total + 1 /\ spent'[j] = spent[j] + 1) \/ (total' = total /\ spent'[j] = spent[j])
           /\ \A o \in Jobs \ {j} : spent'[o] = spent[o]
<1>1. CASE Metered(j)
    <2>1. total \in Nat /\ spent \in [Jobs -> Nat]
        BY DEF TypeOK
    <2>2. total' = total + 1 /\ spent' = [spent EXCEPT ![j] = @ + 1]
        BY <1>1 DEF Metered
    <2> QED BY <2>1, <2>2
<1>2. CASE UNCHANGED <<total, spent>>
    BY <1>2 DEF TypeOK
<1> QED BY <1>1, <1>2

LEMMA InvInit == Init => IInv
<1> SUFFICES ASSUME Init PROVE IInv
    OBVIOUS
<1>1. Shaped
    BY DEF Init, Shaped
<1>2. TypeOK
    BY DEF Init, TypeOK
<1>3. Counting
    BY DEF Init, Counting, Enriching
<1>4. ASSUME NEW j \in Jobs PROVE JobInv(j)
    BY DEF Init, JobInv, Fits, Blank, Sorted, Enriched, Spoiling, Covered, Fresh, Named, Own
<1> QED BY <1>1, <1>2, <1>3, <1>4 DEF IInv

LEMMA BeginKeeps ==
    ASSUME IInv, NEW j \in Jobs, Begin(j)
    PROVE  IInv'
<1> PICK f \in Files, force \in BOOLEAN :
        /\ file' = [file EXCEPT ![j] = f]
        /\ \/ \E r : /\ record' = [record EXCEPT ![j] = r]
                     /\ Goto(j, "done")
                     /\ UNCHANGED results
           \/ /\ results' = [results EXCEPT ![j] = [s \in Sheets(f) |-> None]]
              /\ Goto(j, "map")
              /\ UNCHANGED record
    BY DEF Begin
<1>1. /\ pc[j] = "idle"
      /\ UNCHANGED <<cache, total, schema, metered, spent, crossed, spoilt>>
    BY DEF Begin
<1>2. Shaped'
    BY <1>1 DEF IInv, Shaped
<1>3. /\ \A o \in Jobs \ {j} : Same(o)
      /\ file'[j] = f
      /\ \/ pc'[j] = "done" /\ results'[j] = results[j]
         \/ pc'[j] = "map" /\ results'[j] = [s \in Sheets(f) |-> None] /\ record'[j] = record[j]
      /\ pc' \in [Jobs -> {"idle", "map", "sheets", "done"}]
      /\ file' \in [Jobs -> Files \cup {None}]
    BY <1>1 DEF IInv, Shaped, TypeOK, Same, Goto
<1>4. \A o \in Jobs \ {j} : JobInv(o)'
    BY <1>3, SameIsKept DEF IInv
<1>5. JobInv(j)'
    <2>1. JobInv(j) /\ results[j] = None /\ metered[j] = None /\ record[j] = None
        BY <1>1 DEF IInv, JobInv, Blank, Fits
    <2> QED
        BY <1>1, <1>3, <2>1
        DEF JobInv, Fits, Blank, Sorted, Enriched, Spoiling, Covered, Fresh, Named, Own
<1>6. TypeOK'
    BY <1>1, <1>3, <1>4, <1>5 DEF IInv, TypeOK, JobInv, Fits
<1>7. Counting'
    BY <1>1, <1>3 DEF IInv, Counting, Enriching, Same
<1> QED BY <1>2, <1>4, <1>5, <1>6, <1>7 DEF IInv

LEMMA MapKeeps ==
    ASSUME IInv, NEW j \in Jobs, Map(j)
    PROVE  IInv'
<1>1. /\ pc[j] = "map" /\ pc' = [pc EXCEPT ![j] = "sheets"] /\ total' = 0 /\ crossed' = Meet(j)
      /\ UNCHANGED <<cache, file, results, metered, record, spent>>
    BY DEF Map, Goto
<1>2. /\ schema' \in [Jobs -> DictToSchema \cup {None}]
      /\ spoilt' \in [Jobs -> Nat]
      /\ schema'[j] # "listed" => spoilt'[j] >= 1
      /\ \A o \in Jobs \ {j} : schema'[o] = schema[o] /\ spoilt'[o] = spoilt[o]
    BY DEF IInv, TypeOK, JobInv, Blank, Map, Spoils, DictToSchema
<1>3. /\ \A o \in Jobs : crossed'[o] \in BOOLEAN /\ (crossed[o] => crossed'[o])
      /\ ~crossed'[j] => \A p \in Jobs \ {j} : ~Enriching(p)
      /\ \A o \in Jobs \ {j} : Enriching(o) => crossed'[o]
      /\ crossed' \in [Jobs -> BOOLEAN]
    BY <1>1 DEF Meet, IInv, TypeOK
<1>4. Shaped'
    BY <1>1 DEF IInv, Shaped
<1>5. \A o \in Jobs \ {j} : Same(o)
    BY <1>1, <1>2, <1>3 DEF IInv, TypeOK, Same
<1>6. \A o \in Jobs \ {j} : JobInv(o)'
    BY <1>5, SameIsKept DEF IInv
<1>7. /\ pc'[j] = "sheets" /\ file'[j] = file[j] /\ results'[j] = results[j]
      /\ record'[j] = record[j] /\ metered'[j] = metered[j]
    BY <1>1 DEF IInv, TypeOK
<1>8. JobInv(j)'
    <2>1. /\ file[j] \in Files /\ metered[j] = None /\ record[j] = None
          /\ results[j] \in [Sheets(file[j]) -> SheetEnrichment \cup {None}]
          /\ \A s \in Sheets(file[j]) : results[j][s] = None
        BY <1>1 DEF IInv, JobInv, Blank, Fits
    <2> QED
        BY <1>2, <1>7, <2>1
        DEF JobInv, Fits, Blank, Sorted, Enriched, RightSheet, Bad, Doubly, Spoiling, Covered,
            Fresh, Named, Own
<1>9. TypeOK'
    <2>1. \A o \in Jobs : Fits(o)'
        BY <1>6, <1>8 DEF JobInv
    <2> QED BY <1>1, <1>2, <1>3, <2>1 DEF IInv, TypeOK, Fits
<1>10. Counting'
    <2>1. spent'[j] = 0
        BY <1>1 DEF IInv, JobInv, Blank
    <2> QED BY <1>1, <1>3, <1>5, <1>7, <2>1 DEF Counting, Enriching, Same
<1> QED BY <1>4, <1>6, <1>8, <1>9, <1>10 DEF IInv

\* So many faults count what is amiss.
Faulty(n, r, s) ==
    /\ r.questions # "listed" \/ r.name # s => n >= 1
    /\ r.questions # "listed" /\ r.name # s => n >= 2

LEMMA EnrichSheetKeeps ==
    ASSUME IInv, NEW j \in Jobs, EnrichSheet(j)
    PROVE  IInv'
<1>1. /\ pc[j] = "sheets"
      /\ UNCHANGED <<cache, pc, file, schema, metered, record, crossed>>
    BY DEF EnrichSheet, Enriching
<1>2. PICK s \in Sheets(file[j]), r \in SheetEnrichment :
        /\ results[j][s] = None
        /\ RightSheet(r, s)
        /\ results' = [results EXCEPT ![j][s] = r]
        /\ \E n \in Nat : Faulty(n, r, s) /\ spoilt' = [spoilt EXCEPT ![j] = spoilt[j] + n]
        /\ Metered(j) \/ UNCHANGED <<total, spent>>
    <2>0. file[j] \in Files
        BY <1>1 DEF IInv, JobInv, Sorted, Enriched
    <2>1. PICK s \in Sheets(file[j]) :
            /\ results[j][s] = None
            /\ \/ /\ results' = [results EXCEPT ![j][s] = FailedSheet(s)]
                  /\ Spoils(j)
                  /\ Metered(j) \/ UNCHANGED <<total, spent>>
               \/ \E enriched \in DictToSheetEnrichment(file[j], s) :
                    /\ results' = [results EXCEPT ![j][s] = enriched]
                    /\ spoilt' = [spoilt EXCEPT ![j] = spoilt[j] + Amiss(enriched, s)]
                    /\ Metered(j)
        BY DEF EnrichSheet
    <2>2. Sheets(file[j]) \subseteq AllSheets
        BY <2>0 DEF AllSheets
    <2>3. CASE /\ results' = [results EXCEPT ![j][s] = FailedSheet(s)]
               /\ Spoils(j)
               /\ Metered(j) \/ UNCHANGED <<total, spent>>
        <3>1. FailedSheet(s) \in SheetEnrichment /\ RightSheet(FailedSheet(s), s)
            BY <2>2 DEF FailedSheet, SheetEnrichment, Questions, RightSheet
        <3>2. Faulty(1, FailedSheet(s), s)
            BY DEF FailedSheet, Faulty
        <3>3. spoilt' = [spoilt EXCEPT ![j] = spoilt[j] + 1]
            BY <2>3 DEF Spoils
        <3> QED BY <2>1, <2>3, <3>1, <3>2, <3>3
    <2>4. ASSUME NEW enriched \in DictToSheetEnrichment(file[j], s),
                 results' = [results EXCEPT ![j][s] = enriched],
                 spoilt' = [spoilt EXCEPT ![j] = spoilt[j] + Amiss(enriched, s)],
                 Metered(j)
          PROVE  \E r \in SheetEnrichment :
                    /\ RightSheet(r, s)
                    /\ results' = [results EXCEPT ![j][s] = r]
                    /\ \E n \in Nat : /\ Faulty(n, r, s)
                                     /\ spoilt' = [spoilt EXCEPT ![j] = spoilt[j] + n]
                    /\ Metered(j)
        <3>1. enriched \in SheetEnrichment /\ RightSheet(enriched, s)
            BY <2>2 DEF DictToSheetEnrichment, SheetEnrichment, Questions, Listing, RightSheet
        <3>2. Amiss(enriched, s) \in Nat /\ Faulty(Amiss(enriched, s), enriched, s)
            BY DEF Amiss, Faulty
        <3> HIDE DEF Amiss
        <3> QED BY <2>4, <3>1, <3>2
    <2> QED BY <2>1, <2>3, <2>4
<1>3. /\ results'[j] = [results[j] EXCEPT ![s] = r]
      /\ \A o \in Jobs \ {j} : results'[o] = results[o]
      /\ Shaped'
    BY <1>1, <1>2 DEF IInv, Shaped
<1>4. /\ spoilt' \in [Jobs -> Nat] /\ spent' \in [Jobs -> Nat] /\ total' \in Nat
      /\ spoilt'[j] >= spoilt[j]
      /\ r.questions # "listed" \/ r.name # s => spoilt'[j] >= spoilt[j] + 1
      /\ r.questions # "listed" /\ r.name # s => spoilt'[j] >= spoilt[j] + 2
      /\ (total' = total + 1 /\ spent'[j] = spent[j] + 1) \/ (total' = total /\ spent'[j] = spent[j])
      /\ \A o \in Jobs \ {j} : spoilt'[o] = spoilt[o] /\ spent'[o] = spent[o]
    <2>1. TypeOK
        BY DEF IInv
    <2>2. PICK n \in Nat : Faulty(n, r, s) /\ spoilt' = [spoilt EXCEPT ![j] = spoilt[j] + n]
        BY <1>2
    <2>3. /\ spoilt' \in [Jobs -> Nat] /\ spoilt[j] \in Nat /\ spoilt'[j] = spoilt[j] + n
          /\ \A o \in Jobs \ {j} : spoilt'[o] = spoilt[o]
        BY <2>1, <2>2 DEF TypeOK
    <2>4. /\ spent' \in [Jobs -> Nat] /\ total' \in Nat
          /\ (total' = total + 1 /\ spent'[j] = spent[j] + 1)
               \/ (total' = total /\ spent'[j] = spent[j])
          /\ \A o \in Jobs \ {j} : spent'[o] = spent[o]
        BY <1>2, <2>1, MeteredOrNot DEF TypeOK
    <2> QED BY <2>2, <2>3, <2>4 DEF Faulty
<1>5. \A o \in Jobs \ {j} : Same(o)
    BY <1>1, <1>3, <1>4 DEF Same
<1>6. \A o \in Jobs \ {j} : JobInv(o)'
    BY <1>5, SameIsKept DEF IInv
<1>7. /\ metered[j] = None /\ file[j] \in Files
      /\ results[j] \in [Sheets(file[j]) -> SheetEnrichment \cup {None}]
      /\ \A t \in Sheets(file[j]) : RightSheet(results[j][t], t)
    BY <1>1 DEF IInv, JobInv, Blank, Sorted, Enriched
<1>8. /\ results'[j] \in [Sheets(file[j]) -> SheetEnrichment \cup {None}]
      /\ results'[j][s] = r
      /\ \A t \in Sheets(file[j]) \ {s} : results'[j][t] = results[j][t]
    BY <1>3, <1>7
<1>9. Spoiling(j)'
    <2> DEFINE bad(t) == Bad(results[j][t], t)
    <2>1. /\ schema[j] # "listed" => spoilt[j] >= 1
          /\ \A t \in Sheets(file[j]) : bad(t) => spoilt[j] >= 1
          /\ \A t \in Sheets(file[j]) : Doubly(results[j][t], t) => spoilt[j] >= 2
          /\ \A t \in Sheets(file[j]) : bad(t) /\ schema[j] # "listed" => spoilt[j] >= 2
          /\ \A t, u \in Sheets(file[j]) : t # u /\ bad(t) /\ bad(u) => spoilt[j] >= 2
        BY <1>1 DEF IInv, JobInv, Spoiling
    <2>2. \A t \in Sheets(file[j]) \ {s} : Bad(results'[j][t], t) <=> bad(t)
        BY <1>8
    <2>3. /\ Bad(results'[j][s], s) => spoilt'[j] >= spoilt[j] + 1
          /\ Doubly(results'[j][s], s) => spoilt'[j] >= spoilt[j] + 2
        BY <1>4, <1>8 DEF Bad, Doubly
    <2>4. spoilt[j] \in Nat /\ spoilt'[j] \in Nat
        BY <1>4 DEF IInv, TypeOK
    <2>5. \A t \in Sheets(file[j]) :
            Bad(results'[j][t], t) => spoilt'[j] >= 1 /\ (schema[j] # "listed" => spoilt'[j] >= 2)
        <3> HIDE DEF bad
        <3> QED BY <1>4, <2>1, <2>2, <2>3, <2>4
    <2>6. \A t, u \in Sheets(file[j]) :
            t # u /\ Bad(results'[j][t], t) /\ Bad(results'[j][u], u) => spoilt'[j] >= 2
        <3> HIDE DEF bad
        <3> QED BY <1>4, <2>1, <2>2, <2>3, <2>4
    <2>7. schema[j] # "listed" => spoilt'[j] >= 1
        BY <1>4, <2>1, <2>4
    <2>8. ASSUME NEW t \in Sheets(file[j]), Doubly(results'[j][t], t) PROVE spoilt'[j] >= 2
        <3>1. CASE t = s
            BY <2>3, <2>4, <2>8, <3>1
        <3>2. CASE t # s
            <4>1. results'[j][t] = results[j][t]
                BY <1>8, <3>2
            <4> QED BY <1>4, <2>1, <2>4, <2>8, <4>1
        <3> QED BY <3>1, <3>2
    <2> QED BY <1>1, <2>5, <2>6, <2>7, <2>8 DEF Spoiling
<1>10. JobInv(j)'
    <2>1. Fits(j)' /\ Blank(j)' /\ Covered(j)' /\ Named(j)' /\ Own(j)'
        BY <1>1, <1>7, <1>8 DEF IInv, JobInv, Fits, Blank, Covered, Fresh, Named, Own
    <2>2. Sorted(j)'
        BY <1>1, <1>2, <1>7, <1>8 DEF Sorted
    <2> QED BY <1>9, <2>1, <2>2 DEF JobInv
<1>11. TypeOK'
    <2>1. \A o \in Jobs : Fits(o)'
        BY <1>6, <1>10 DEF JobInv
    <2> QED BY <1>1, <1>4, <2>1 DEF IInv, TypeOK, Fits
<1>12. Counting'
    BY <1>1, <1>4 DEF IInv, Counting, Enriching
<1> QED BY <1>3, <1>6, <1>10, <1>11, <1>12 DEF IInv

LEMMA SummarizeKeeps ==
    ASSUME IInv, NEW j \in Jobs, Summarize(j)
    PROVE  IInv'
<1> DEFINE f == file[j]
           result == results[j]
           unsayable == \E s \in Sheets(f) : result[s].questions = "null"
<1>1. /\ pc[j] = "sheets" /\ \A s \in Sheets(f) : result[s] # None
      /\ UNCHANGED <<file, schema, results, crossed>>
      /\ pc' = [pc EXCEPT ![j] = "done"]
    BY DEF Summarize, Enriching, Finish, Goto
<1>2. /\ f \in Files /\ Answered(f, result) /\ metered[j] = None
      /\ pc'[j] = "done"
    <2>1. /\ f \in Files /\ metered[j] = None
          /\ result \in [Sheets(f) -> SheetEnrichment \cup {None}]
          /\ \A s \in Sheets(f) : RightSheet(result[s], s)
        BY <1>1 DEF IInv, JobInv, Blank, Sorted, Enriched
    <2>2. Answered(f, result)
        <3> HIDE DEF f, result
        <3> QED BY <1>1, <2>1 DEF Answered
    <2> QED BY <1>1, <2>1, <2>2 DEF IInv, TypeOK
<1>3. PICK enrichment :
        /\ cache' = [cache EXCEPT ![f] = Processed(schema[j], enrichment)]
        /\ record' = [record EXCEPT ![j] = Record(Processed(schema[j], enrichment))]
        /\ Metered(j) \/ UNCHANGED <<total, spent>>
        /\ \/ /\ enrichment = ByName(f, result)
              /\ ~unsayable
              /\ metered' = [metered EXCEPT ![j] = total']
              /\ UNCHANGED spoilt
           \/ /\ enrichment = None
              /\ UNCHANGED metered
              /\ (unsayable /\ UNCHANGED spoilt) \/ Spoils(j)
    BY DEF Summarize, Finish
<1>4. /\ spoilt' \in [Jobs -> Nat] /\ spent' \in [Jobs -> Nat] /\ total' \in Nat
      /\ (total' = total + 1 /\ spent'[j] = spent[j] + 1) \/ (total' = total /\ spent'[j] = spent[j])
      /\ \A o \in Jobs \ {j} : spoilt'[o] = spoilt[o] /\ spent'[o] = spent[o]
    <2>1. TypeOK
        BY DEF IInv
    <2>2. CASE Spoils(j)
        BY <1>3, <2>1, <2>2, SpoilsOne, MeteredOrNot
    <2>3. CASE UNCHANGED spoilt
        BY <1>3, <2>1, <2>3, MeteredOrNot DEF TypeOK
    <2> QED BY <1>3, <2>2, <2>3
<1>5. /\ metered' \in [Jobs -> Nat \cup {None}]
      /\ \A o \in Jobs \ {j} : metered'[o] = metered[o]
    BY <1>3, <1>4 DEF IInv, TypeOK
<1>6. /\ record'[j] = Record(Processed(schema[j], enrichment))
      /\ \A o \in Jobs \ {j} : record'[o] = record[o]
      /\ Shaped'
    BY <1>1, <1>3 DEF IInv, Shaped
<1>7. \A o \in Jobs \ {j} : Same(o)
    BY <1>1, <1>4, <1>5, <1>6 DEF IInv, TypeOK, Same
<1>8. \A o \in Jobs \ {j} : JobInv(o)'
    BY <1>7, SameIsKept DEF IInv
<1>9. Covered(j)'
    <2> SUFFICES ASSUME spoilt'[j] <= 1, Cardinality(Sheets(f)) > 1
                 PROVE  record'[j].questions # {}
        BY <1>1 DEF Covered, Fresh
    <2>1. /\ schema[j] # "listed" => spoilt[j] >= 1
          /\ \A t \in Sheets(f) : Bad(result[t], t) => spoilt[j] >= 1
          /\ \A t \in Sheets(f) : Doubly(result[t], t) => spoilt[j] >= 2
          /\ \A t \in Sheets(f) : Bad(result[t], t) /\ schema[j] # "listed" => spoilt[j] >= 2
          /\ \A t, u \in Sheets(f) :
                t # u /\ Bad(result[t], t) /\ Bad(result[u], u) => spoilt[j] >= 2
        BY <1>1 DEF IInv, JobInv, Spoiling
    <2>2. spoilt[j] \in Nat
        BY DEF IInv, TypeOK
    <2>3. CASE enrichment = ByName(f, result) /\ ~unsayable /\ UNCHANGED spoilt
        <3>1. \A s, t \in Sheets(f) : Bad(result[s], s) /\ Bad(result[t], t) => s = t
            BY <2>1, <2>2, <2>3
        <3>2. \E s \in Sheets(f) : ~Bad(result[s], s)
            BY <1>2, <3>1, GoodSheet
        <3>3. \A s \in Sheets(f) : ~Doubly(result[s], s)
            BY <2>1, <2>2, <2>3
        <3> QED BY <1>2, <1>6, <2>3, <3>2, <3>3, GoodSheetIsRecorded
    <2>4. CASE enrichment = None /\ unsayable /\ UNCHANGED spoilt
        <3>1. \E s \in Sheets(f) : Bad(result[s], s)
            BY <1>1, <2>4 DEF Bad
        <3>2. schema[j] = "listed"
            BY <2>1, <2>2, <2>4, <3>1
        <3> QED BY <1>6, <2>4, <3>2, RecordWithoutEnrichment
    <2>5. CASE enrichment = None /\ Spoils(j)
        <3>1. spoilt'[j] = spoilt[j] + 1
            BY <2>5 DEF IInv, TypeOK, Spoils
        <3>2. schema[j] = "listed"
            BY <2>1, <2>2, <3>1
        <3> QED BY <1>6, <2>5, <3>2, RecordWithoutEnrichment
    <2> QED BY <1>3, <2>3, <2>4, <2>5
<1>10. Named(j)'
    <2> SUFFICES ASSUME metered'[j] # None, NEW s \in Sheets(f),
                        \A t \in Sheets(f) \ {s} : result[t].name # s
                 PROVE  \/ result[s].questions # "none" /\ result[s].name # s
                        \/ s \in DOMAIN record'[j].sheets /\ record'[j].sheets[s] = s
        BY <1>1 DEF Named
    <2>1. enrichment = ByName(f, result)
        BY <1>2, <1>3
    <2>2. result[s].questions = "none" => result[s].name = s
        BY <1>2 DEF Answered, RightSheet
    <2>3. CASE result[s].name = s
        BY <1>2, <1>6, <2>1, <2>3, SheetIsUnderItsName
    <2> QED BY <2>2, <2>3
<1>11. Own(j)'
    <2> SUFFICES ASSUME metered'[j] # None, ~crossed[j]
                 PROVE  metered'[j] = spent'[j]
        BY <1>1 DEF Own
    <2>1. metered'[j] = total'
        BY <1>2, <1>3 DEF IInv, TypeOK
    <2>2. total = spent[j]
        BY <1>1 DEF IInv, Counting, Enriching
    <2> QED BY <1>4, <2>1, <2>2
<1>12. JobInv(j)'
    <2>1. Sorted(j)'
        BY <1>1 DEF IInv, JobInv, Sorted, Enriched
    <2> QED BY <1>2, <1>9, <1>10, <1>11, <2>1 DEF JobInv, Fits, Blank, Spoiling
<1>13. TypeOK'
    <2>1. \A o \in Jobs : Fits(o)'
        BY <1>8, <1>12 DEF JobInv
    <2>2. \A g \in Files : cache'[g] # None => cache'[g].schema \in DictToSchema \cup {None}
        BY <1>2, <1>3 DEF IInv, Shaped, TypeOK, Processed
    <2>3. pc' \in [Jobs -> {"idle", "map", "sheets", "done"}]
        BY <1>1 DEF IInv, TypeOK
    <2> QED BY <1>1, <1>4, <1>5, <2>1, <2>2, <2>3 DEF IInv, TypeOK, Fits
<1>14. Counting'
    BY <1>1, <1>2, <1>4, <1>7 DEF IInv, Counting, Enriching, Same
<1> QED BY <1>6, <1>8, <1>12, <1>13, <1>14 DEF IInv

LEMMA Invariance == Spec => []IInv
<1>1. IInv /\ UNCHANGED vars => IInv'
    BY DEF vars, IInv, Shaped, TypeOK, Counting, Enriching, JobInv, Fits, Blank, Sorted, Enriched,
           Spoiling, Covered, Fresh, Named, Own
<1>2. IInv /\ Next => IInv'
    BY BeginKeeps, MapKeeps, EnrichSheetKeeps, SummarizeKeeps DEF Next
<1> QED BY InvInit, <1>1, <1>2, PTL DEF Spec

\* The agents' bookkeeping is well formed, whatever is awaited.
THEOREM TypeCorrect == Spec => []TypeOK
<1>1. IInv => TypeOK
    BY DEF IInv
<1> QED BY Invariance, <1>1, PTL

\* One fault, a reply that fails, lists no questions or misnames its sheet, does not
\* cost a workbook of several sheets its questions: what is not bad is enough, in the
\* enrichment or in the schema (semantic_enricher.py:451, excel_agent.py:156).
THEOREM OneFaultLeavesQuestions == Spec => []OneFaultIsCovered
<1>1. IInv => OneFaultIsCovered
    BY DEF IInv, JobInv, Covered, OneFaultIsCovered
<1> QED BY Invariance, <1>1, PTL

\* A sheet is in the record under its name, failed or not, unless a reply gave
\* its name to another or another name to it (to_dict of the enrichment).
THEOREM SheetsAreNamed == Spec => []SheetsUnderTheirNames
<1>1. IInv => SheetsUnderTheirNames
    BY DEF IInv, JobInv, Named, SheetsUnderTheirNames
<1> QED BY Invariance, <1>1, PTL

\* A workbook that is enriched while no other is has its own tokens counted
\* (execute of the enricher, which starts from nothing).
THEOREM AloneTokensAreOwn == Spec => []TokensAreTheirOwn
<1>1. IInv => TokensAreTheirOwn
    BY DEF IInv, JobInv, Own, TokensAreTheirOwn
<1> QED BY Invariance, <1>1, PTL

----------------------------------------------------------------------------
(* Sections of a worksheet.  Headers are in order, since they are numbered *)
(* by how many are up to each; what is between two of them is a section.   *)

\* A finite set in an order is a list of it, in which nothing is before what it
\* comes after.
LEMMA InOrderListsAll ==
    ASSUME NEW S, IsFiniteSet(S), NEW upTo \in [S -> SUBSET S],
           \A x \in S : x \in upTo[x],
           \A x, y \in S : \/ x = y
                           \/ upTo[x] \subseteq upTo[y] /\ y \notin upTo[x]
                           \/ upTo[y] \subseteq upTo[x] /\ x \notin upTo[y]
    PROVE  /\ Cardinality(S) \in Nat
           /\ InOrder(upTo) \in [1 .. Cardinality(S) -> S]
           /\ \A x \in S : \E k \in 1 .. Cardinality(S) : InOrder(upTo)[k] = x
           /\ \A k, l \in 1 .. Cardinality(S) :
                k < l => InOrder(upTo)[l] \notin upTo[InOrder(upTo)[k]]
<1> DEFINE n == Cardinality(S)
           place == [x \in S |-> Cardinality(upTo[x])]
<1>1. n \in Nat
    BY FS_CardinalityType
<1>2. ASSUME NEW x \in S
      PROVE  /\ IsFiniteSet(upTo[x]) /\ Cardinality(upTo[x]) \in Nat
             /\ Cardinality(upTo[x]) \in 1..n
    <2>1. upTo[x] \subseteq S
        OBVIOUS
    <2>2. IsFiniteSet(upTo[x]) /\ Cardinality(upTo[x]) <= n
        BY <2>1, FS_Subset
    <2>3. Cardinality(upTo[x]) \in Nat /\ Cardinality(upTo[x]) # 0
        BY <2>2, FS_CardinalityType, FS_EmptySet
    <2> QED BY <1>1, <2>2, <2>3
<1>3. ASSUME NEW x \in S, NEW y \in S, upTo[x] \subseteq upTo[y], y \notin upTo[x]
      PROVE  Cardinality(upTo[x]) < Cardinality(upTo[y])
    <2>1. upTo[x] # upTo[y]
        BY <1>3
    <2>2. Cardinality(upTo[x]) <= Cardinality(upTo[y]) /\ Cardinality(upTo[x]) # Cardinality(upTo[y])
        BY <1>2, <1>3, <2>1, FS_Subset
    <2> QED BY <1>2, <2>2
<1>4. \A x, y \in S : Cardinality(upTo[x]) = Cardinality(upTo[y]) => x = y
    <2>1. SUFFICES ASSUME NEW x \in S, NEW y \in S,
                          Cardinality(upTo[x]) = Cardinality(upTo[y]), x # y
                   PROVE  FALSE
        OBVIOUS
    <2>2. Cardinality(upTo[x]) \in Nat
        BY <1>2
    <2> QED BY <1>3, <2>1, <2>2
<1>5. place \in Injection(S, 1..n)
    BY <1>2, <1>4 DEF Injection, IsInjective
<1>6. IsFiniteSet(1..n) /\ Cardinality(1..n) = n
    BY <1>1, FS_Interval
<1>7. place \in Surjection(S, 1..n)
    BY <1>5, <1>6, FS_Injection
<1>8. \A k \in 1..n : \E x \in S : Cardinality(upTo[x]) = k
    BY <1>7 DEF Surjection
<1>9. InOrder(upTo) = [k \in 1..n |-> CHOOSE x \in S : Cardinality(upTo[x]) = k]
    BY DEF InOrder
<1>10. \A k \in 1..n : InOrder(upTo)[k] \in S /\ Cardinality(upTo[InOrder(upTo)[k]]) = k
    BY <1>8, <1>9
<1>11. InOrder(upTo) \in [1..n -> S]
    BY <1>9, <1>10
<1>12. ASSUME NEW x \in S
       PROVE  \E k \in 1..n : InOrder(upTo)[k] = x
    BY <1>2, <1>4, <1>10
<1>13. ASSUME NEW k \in 1..n, NEW l \in 1..n, k < l,
              InOrder(upTo)[l] \in upTo[InOrder(upTo)[k]]
       PROVE  FALSE
    <2> DEFINE x == InOrder(upTo)[k]
               y == InOrder(upTo)[l]
    <2>1. x \in S /\ y \in S /\ Cardinality(upTo[x]) = k /\ Cardinality(upTo[y]) = l
        BY <1>10
    <2>2. x # y
        BY <1>13, <2>1
    <2>3. upTo[y] \subseteq upTo[x] /\ x \notin upTo[y]
        BY <1>13, <2>1, <2>2
    <2>4. l < k
        BY <1>3, <2>1, <2>3
    <2> QED BY <1>13, <2>4
<1> QED BY <1>1, <1>11, <1>12, <1>13

\* Rows are cut before each of n tops, which are above as many bottoms.
IsCut(n, m, top, bottom) ==
    /\ n \in Nat \ {0} /\ m \in Nat
    /\ top \in [1..n -> Nat \ {0}] /\ bottom \in [1..n -> Nat]
    /\ \A i \in 1..n : top[i] <= bottom[i] /\ bottom[i] <= m
    /\ \A i, k \in 1..n : i < k => bottom[i] < top[k]
EndOf(n, m, top, i) == IF i < n THEN top[i + 1] - 1 ELSE m
RowsFrom(n, m, top, i) == top[i] .. EndOf(n, m, top, i)
TakenRows(n, m, top, bottom) == {r \in 1..m : \E i \in 1..n : r \in top[i]..bottom[i]}

LEMMA EndsAreBelow ==
    ASSUME NEW n, NEW m, NEW top, NEW bottom, IsCut(n, m, top, bottom)
    PROVE  \A i \in 1..n : /\ EndOf(n, m, top, i) \in Int
                           /\ bottom[i] <= EndOf(n, m, top, i)
                           /\ EndOf(n, m, top, i) <= m
<1>1. SUFFICES ASSUME NEW i \in 1..n
               PROVE  /\ EndOf(n, m, top, i) \in Int
                      /\ bottom[i] <= EndOf(n, m, top, i)
                      /\ EndOf(n, m, top, i) <= m
    OBVIOUS
<1>2. n \in Nat /\ m \in Nat /\ bottom[i] \in Nat /\ bottom[i] <= m
    BY DEF IsCut
<1>3. CASE i < n
    <2>1. i + 1 \in 1..n /\ i < i + 1
        BY <1>2, <1>3
    <2>2. bottom[i] < top[i + 1] /\ top[i + 1] \in Nat /\ top[i + 1] <= bottom[i + 1]
          /\ bottom[i + 1] <= m /\ bottom[i + 1] \in Nat
        BY <2>1 DEF IsCut
    <2> QED BY <1>2, <1>3, <2>2 DEF EndOf
<1>4. CASE ~(i < n)
    BY <1>2, <1>4 DEF EndOf
<1> QED BY <1>3, <1>4

\* The first top is the lowest.
LEMMA FirstIsLowest ==
    ASSUME NEW n, NEW m, NEW top, NEW bottom, IsCut(n, m, top, bottom)
    PROVE  Min({top[i] : i \in 1..n}) = top[1]
<1>1. 1 \in 1..n
    BY DEF IsCut
<1>2. \A i \in 1..n : top[1] <= top[i] /\ top[i] \in Nat
    <2>1. SUFFICES ASSUME NEW i \in 1..n PROVE top[1] <= top[i] /\ top[i] \in Nat
        OBVIOUS
    <2>2. top[1] \in Nat /\ top[i] \in Nat /\ bottom[1] \in Nat /\ top[1] <= bottom[1]
        BY <1>1 DEF IsCut
    <2>3. i = 1 \/ 1 < i
        BY DEF IsCut
    <2>4. 1 < i => bottom[1] < top[i]
        BY <1>1 DEF IsCut
    <2> QED BY <2>2, <2>3, <2>4
<1>3. \A x \in {top[i] : i \in 1..n} :
          (\A y \in {top[i] : i \in 1..n} : x <= y) => x = top[1]
    <2>1. SUFFICES ASSUME NEW i \in 1..n, top[i] <= top[1] PROVE top[i] = top[1]
        BY <1>1
    <2> QED BY <1>1, <1>2, <2>1
<1>4. \E x \in {top[i] : i \in 1..n} : \A y \in {top[i] : i \in 1..n} : x <= y
    BY <1>1, <1>2
<1> QED BY <1>3, <1>4 DEF Min

\* Each row from the first top down is between two of them.
LEMMA EachRowIsInOne ==
    ASSUME NEW n, NEW m, NEW top, NEW bottom, IsCut(n, m, top, bottom),
           NEW r \in top[1]..m
    PROVE  Cardinality({i \in 1..n : r \in RowsFrom(n, m, top, i)}) = 1
<1>1. 1 \in 1..n /\ n \in Nat /\ m \in Nat
    BY DEF IsCut
<1>2. \A i \in 1..n : top[i] \in Nat /\ bottom[i] \in Nat /\ top[i] <= bottom[i]
    BY DEF IsCut
<1>3. r \in Int /\ top[1] <= r /\ r <= m
    BY <1>1, <1>2
<1>4. PICK i \in {k \in 1..n : top[k] <= r} : \A k \in {l \in 1..n : top[l] <= r} : k <= i
    <2>1. {k \in 1..n : top[k] <= r} \subseteq 1..n /\ 1 \in {k \in 1..n : top[k] <= r}
        BY <1>1, <1>3
    <2>2. {k \in 1..n : top[k] <= r} # {}
        BY <2>1
    <2> QED BY <1>1, <2>1, <2>2, LastPlace
<1>5. r \in RowsFrom(n, m, top, i)
    <2>1. CASE i < n
        <3>1. i + 1 \in 1..n /\ ~(i + 1 <= i)
            BY <1>1, <2>1
        <3>2. ~(top[i + 1] <= r) /\ top[i + 1] \in Nat
            BY <1>2, <1>4, <3>1
        <3> QED BY <1>2, <1>3, <1>4, <2>1, <3>2 DEF RowsFrom, EndOf
    <2>2. CASE ~(i < n)
        BY <1>2, <1>3, <1>4, <2>2 DEF RowsFrom, EndOf
    <2> QED BY <2>1, <2>2
<1>6. ASSUME NEW k \in 1..n, r \in RowsFrom(n, m, top, k)
      PROVE  k = i
    <2>1. top[k] <= r /\ r <= EndOf(n, m, top, k) /\ EndOf(n, m, top, k) \in Int
        BY <1>2, <1>3, <1>6, EndsAreBelow DEF RowsFrom
    <2>2. k <= i
        BY <1>4, <2>1
    <2>3. ~(k < i)
        <3>1. SUFFICES ASSUME k < i PROVE FALSE
            OBVIOUS
        <3>2. k + 1 \in 1..n /\ k < n /\ (k + 1 = i \/ k + 1 < i)
            BY <1>1, <3>1
        <3>3. r < top[k + 1]
            BY <1>2, <1>3, <2>1, <3>2 DEF EndOf
        <3>4. top[k + 1] <= top[i]
            <4>1. k + 1 < i => bottom[k + 1] < top[i]
                BY <3>2 DEF IsCut
            <4> QED BY <1>2, <3>2, <4>1
        <3> QED BY <1>2, <1>3, <1>4, <3>2, <3>3, <3>4
    <2> QED BY <1>1, <2>2, <2>3
<1>7. {k \in 1..n : r \in RowsFrom(n, m, top, k)} = {i}
    BY <1>5, <1>6
<1> QED BY <1>7, FS_Singleton

\* What is left of a section is below its header.
LEMMA LeftIsBelow ==
    ASSUME NEW n, NEW m, NEW top, NEW bottom, IsCut(n, m, top, bottom), NEW i \in 1..n
    PROVE  /\ RowsFrom(n, m, top, i) \ TakenRows(n, m, top, bottom)
                = (bottom[i] + 1) .. EndOf(n, m, top, i)
           /\ Cardinality(RowsFrom(n, m, top, i) \ TakenRows(n, m, top, bottom))
                = EndOf(n, m, top, i) - bottom[i]
<1> DEFINE e == EndOf(n, m, top, i)
<1>1. n \in Nat /\ m \in Nat
    BY DEF IsCut
<1>2. \A k \in 1..n : top[k] \in Nat /\ 1 <= top[k] /\ bottom[k] \in Nat /\ top[k] <= bottom[k]
    BY DEF IsCut
<1>3. e \in Int /\ bottom[i] <= e /\ e <= m
    BY EndsAreBelow
<1>4. ASSUME NEW r \in (bottom[i] + 1) .. e
      PROVE  r \in RowsFrom(n, m, top, i) /\ r \notin TakenRows(n, m, top, bottom)
    <2>1. r \in Int /\ bottom[i] < r /\ r <= e /\ top[i] <= r
        BY <1>2, <1>3
    <2>2. ASSUME NEW k \in 1..n, r \in top[k]..bottom[k]
          PROVE  FALSE
        <3>1. top[k] <= r /\ r <= bottom[k]
            BY <1>2, <2>1, <2>2
        <3>2. CASE k <= i
            <4>1. k < i => bottom[k] < top[i]
                BY DEF IsCut
            <4> QED BY <1>2, <2>1, <3>1, <3>2, <4>1
        <3>3. CASE i < k
            <4>1. i < n /\ i + 1 \in 1..n /\ (i + 1 = k \/ i + 1 < k)
                BY <1>1, <3>3
            <4>2. i + 1 < k => bottom[i + 1] < top[k]
                BY <4>1 DEF IsCut
            <4>3. top[i + 1] <= top[k]
                BY <1>2, <4>1, <4>2
            <4>4. r < top[i + 1]
                BY <1>2, <2>1, <4>1 DEF EndOf
            <4> QED BY <1>2, <2>1, <3>1, <4>1, <4>3, <4>4
        <3> QED BY <3>2, <3>3
    <2> HIDE DEF e
    <2>3. r \in top[i]..e
        BY <1>2, <1>3, <2>1
    <2> QED BY <2>2, <2>3 DEF RowsFrom, TakenRows, e
<1>5. ASSUME NEW r \in RowsFrom(n, m, top, i), r \notin TakenRows(n, m, top, bottom)
      PROVE  r \in (bottom[i] + 1) .. e
    <2>1. r \in Int /\ top[i] <= r /\ r <= e
        BY <1>2, <1>3 DEF RowsFrom
    <2>2. r \in 1..m
        BY <1>1, <1>2, <1>3, <2>1
    <2>3. r \notin top[i]..bottom[i]
        BY <1>5, <2>2 DEF TakenRows
    <2> HIDE DEF e
    <2> QED BY <1>2, <1>3, <2>1, <2>3
<1>6. RowsFrom(n, m, top, i) \ TakenRows(n, m, top, bottom) = (bottom[i] + 1) .. e
    BY <1>4, <1>5
<1> HIDE DEF e
<1>7. Cardinality((bottom[i] + 1) .. e) = e - bottom[i]
    <2>1. bottom[i] + 1 \in Int /\ bottom[i] \in Int
        BY <1>2
    <2>2. Cardinality((bottom[i] + 1) .. e)
            = IF bottom[i] + 1 > e THEN 0 ELSE e - (bottom[i] + 1) + 1
        BY <1>3, <2>1, FS_Interval
    <2> QED BY <1>3, <2>1, <2>2
<1> QED BY <1>6, <1>7 DEF e

LEMMA LeftCount ==
    ASSUME NEW n, NEW m, NEW top, NEW bottom, IsCut(n, m, top, bottom), NEW i \in 1..n,
           NEW left, left = RowsFrom(n, m, top, i) \ TakenRows(n, m, top, bottom)
    PROVE  /\ Cardinality(left) = EndOf(n, m, top, i) - bottom[i]
           /\ left # {} <=> EndOf(n, m, top, i) > bottom[i]
<1>1. Cardinality(left) = EndOf(n, m, top, i) - bottom[i]
    BY LeftIsBelow
<1>2. left = (bottom[i] + 1) .. EndOf(n, m, top, i)
    BY LeftIsBelow
<1>3. bottom[i] \in Nat /\ EndOf(n, m, top, i) \in Int
    BY EndsAreBelow DEF IsCut
<1>4. EndOf(n, m, top, i) > bottom[i] => EndOf(n, m, top, i) \in left
    BY <1>2, <1>3
<1> QED BY <1>1, <1>2, <1>3, <1>4

LEMMA CutsArePartitions ==
    ASSUME NEW n, NEW m, NEW top, NEW bottom, IsCut(n, m, top, bottom),
           NEW sections, DOMAIN sections = 1..n,
           \A i \in 1..n : /\ sections[i].start = top[i]
                           /\ sections[i].end = EndOf(n, m, top, i)
                           /\ sections[i].rows = EndOf(n, m, top, i) - bottom[i]
                           /\ sections[i].hasData <=> EndOf(n, m, top, i) > bottom[i]
    PROVE  PartedBy(sections, m, TakenRows(n, m, top, bottom))
<1>1. {sections[i].start : i \in DOMAIN sections} = {top[i] : i \in 1..n}
    OBVIOUS
<1>2. ASSUME NEW r \in top[1]..m
      PROVE  Cardinality({i \in DOMAIN sections : r \in sections[i].start .. sections[i].end}) = 1
    <2>1. {i \in DOMAIN sections : r \in sections[i].start .. sections[i].end}
            = {i \in 1..n : r \in RowsFrom(n, m, top, i)}
        BY DEF RowsFrom
    <2> QED BY <2>1, EachRowIsInOne
<1>3. ASSUME NEW i \in 1..n
      PROVE  LET left == (sections[i].start .. sections[i].end) \ TakenRows(n, m, top, bottom)
             IN /\ sections[i].rows = Cardinality(left)
                /\ sections[i].hasData <=> left # {}
    <2> DEFINE left == (sections[i].start .. sections[i].end) \ TakenRows(n, m, top, bottom)
    <2>1. left = RowsFrom(n, m, top, i) \ TakenRows(n, m, top, bottom)
        BY DEF RowsFrom
    <2> HIDE DEF left
    <2>2. Cardinality(left) = EndOf(n, m, top, i) - bottom[i]
        BY <2>1, LeftCount
    <2>3. left # {} <=> EndOf(n, m, top, i) > bottom[i]
        BY <2>1, LeftCount
    <2> QED BY <2>2, <2>3 DEF left
<1>4. Min({sections[i].start : i \in DOMAIN sections}) = top[1]
    BY <1>1, FirstIsLowest
<1> QED BY <1>2, <1>3, <1>4 DEF PartedBy

\* A sheet is rows, one at least, and merged ranges of them.
IsLayout(sheet) ==
    /\ sheet.rows \in Seq(Looks) /\ Len(sheet.rows) > 0
    /\ sheet.merged \in Seq(RangesOver(Len(sheet.rows)))
    /\ \A i \in DOMAIN sheet.merged : sheet.merged[i].top <= sheet.merged[i].bottom

LEMMA HeadersAreInOrder ==
    ASSUME NEW sheet, IsLayout(sheet)
    PROVE  /\ Len(Headers(sheet)) \in Nat /\ DOMAIN Headers(sheet) = 1 .. Len(Headers(sheet))
           /\ \A k \in DOMAIN Headers(sheet) :
                /\ Headers(sheet)[k].top \in 1 .. LastRow(sheet)
                /\ Headers(sheet)[k].bottom \in 1 .. LastRow(sheet)
                /\ Headers(sheet)[k].top <= Headers(sheet)[k].bottom
           /\ \A k, l \in DOMAIN Headers(sheet) :
                k < l => Headers(sheet)[k].top <= Headers(sheet)[l].top
<1> DEFINE S == HeaderPlaces(sheet)
           upTo == [i \in S |-> FromAbove(sheet, i)]
           n == Cardinality(S)
           top(i) == sheet.merged[i].top
<1>1. /\ S \subseteq DOMAIN sheet.merged /\ S \subseteq 1 .. Len(sheet.merged)
      /\ Len(sheet.merged) \in Nat
    BY DEF HeaderPlaces, IsLayout
<1>2. IsFiniteSet(S)
    <2> HIDE DEF S
    <2>1. 1 \in Int /\ Len(sheet.merged) \in Int
        BY <1>1
    <2>2. IsFiniteSet(1 .. Len(sheet.merged))
        BY <2>1, FS_Interval
    <2> QED BY <1>1, <2>2, FS_Subset
<1>3. \A i \in DOMAIN sheet.merged :
          /\ sheet.merged[i].top \in 1 .. LastRow(sheet)
          /\ sheet.merged[i].bottom \in 1 .. LastRow(sheet)
          /\ sheet.merged[i].top <= sheet.merged[i].bottom
    <2>1. \A i \in DOMAIN sheet.merged : sheet.merged[i] \in RangesOver(Len(sheet.rows))
        BY DEF IsLayout
    <2> QED BY <2>1 DEF IsLayout, RangesOver, LastRow
<1>4. \A i \in S : i \in Int /\ top(i) \in Int
    BY <1>1, <1>3
<1>5. upTo \in [S -> SUBSET S] /\ \A x \in S : x \in upTo[x]
    BY <1>4 DEF FromAbove
<1>6. \A x, y \in S : \/ x = y
                      \/ upTo[x] \subseteq upTo[y] /\ y \notin upTo[x]
                      \/ upTo[y] \subseteq upTo[x] /\ x \notin upTo[y]
    <2>1. ASSUME NEW x \in S, NEW y \in S, top(x) < top(y) \/ (top(x) = top(y) /\ x < y)
          PROVE  upTo[x] \subseteq upTo[y] /\ y \notin upTo[x]
        <3>1. ASSUME NEW z \in upTo[x] PROVE z \in upTo[y]
            BY <1>4, <2>1, <3>1 DEF FromAbove
        <3>2. y \notin upTo[x]
            BY <1>4, <2>1 DEF FromAbove
        <3> QED BY <3>1, <3>2
    <2>2. \A x, y \in S : \/ x = y
                          \/ top(x) < top(y) \/ (top(x) = top(y) /\ x < y)
                          \/ top(y) < top(x) \/ (top(y) = top(x) /\ y < x)
        BY <1>4
    <2> HIDE DEF S, upTo, top
    <2> QED BY <2>1, <2>2
<1> DEFINE order == InOrder(upTo)
<1>7. /\ n \in Nat /\ order \in [1..n -> S]
      /\ \A k, l \in 1..n : k < l => order[l] \notin upTo[order[k]]
    <2> HIDE DEF S, upTo, top
    <2> QED BY <1>2, <1>5, <1>6, InOrderListsAll
<1>8. Headers(sheet) = [k \in 1..n |-> MergedRegions(sheet)[order[k]]]
    BY <1>7 DEF Headers
<1>9. \A k \in 1..n : /\ Headers(sheet)[k] = MergedRegion(sheet, sheet.merged[order[k]])
                      /\ order[k] \in DOMAIN sheet.merged
    <2>1. \A k \in 1..n : order[k] \in S
        BY <1>7
    <2> QED BY <1>1, <1>8, <2>1 DEF MergedRegions
<1>10. \A k \in 1..n : /\ Headers(sheet)[k].top = sheet.merged[order[k]].top
                       /\ Headers(sheet)[k].bottom = sheet.merged[order[k]].bottom
    <2>1. \A range : /\ MergedRegion(sheet, range).top = range.top
                     /\ MergedRegion(sheet, range).bottom = range.bottom
        BY DEF MergedRegion
    <2> HIDE DEF order
    <2> QED BY <1>9, <2>1
<1>11. ASSUME NEW k \in 1..n, NEW l \in 1..n, k < l
       PROVE  Headers(sheet)[k].top <= Headers(sheet)[l].top
    <2>1. order[k] \in S /\ order[l] \in S /\ order[l] \notin FromAbove(sheet, order[k])
        BY <1>7, <1>11
    <2>2. ~(top(order[l]) < top(order[k]))
        BY <2>1 DEF FromAbove
    <2>3. top(order[k]) \in Int /\ top(order[l]) \in Int
        BY <1>4, <2>1
    <2> QED BY <1>10, <2>2, <2>3
<1>12. DOMAIN Headers(sheet) = 1..n /\ Len(Headers(sheet)) = n
    <2>1. Headers(sheet) \in Seq({MergedRegion(sheet, sheet.merged[i]) : i \in DOMAIN sheet.merged})
        BY <1>7, <1>8, <1>9
    <2> QED BY <1>7, <1>8, <2>1
<1> HIDE DEF n, order
<1> QED BY <1>3, <1>7, <1>9, <1>10, <1>11, <1>12

LEMMA HeaderSectionsPart ==
    ASSUME NEW sheet, IsLayout(sheet), Headers(sheet) # <<>>, ~SharedRows(sheet)
    PROVE  PartedBy(HeaderSections(sheet), LastRow(sheet),
                    {r \in 1 .. LastRow(sheet) : \E i \in DOMAIN Headers(sheet) :
                        r \in Headers(sheet)[i].top .. Headers(sheet)[i].bottom})
<1> DEFINE n == Len(Headers(sheet))
           m == LastRow(sheet)
           top == [i \in 1..n |-> Headers(sheet)[i].top]
           bottom == [i \in 1..n |-> Headers(sheet)[i].bottom]
<1>1. /\ n \in Nat /\ DOMAIN Headers(sheet) = 1..n
      /\ \A k \in 1..n : /\ Headers(sheet)[k].top \in 1..m
                         /\ Headers(sheet)[k].bottom \in 1..m
                         /\ Headers(sheet)[k].top <= Headers(sheet)[k].bottom
      /\ \A k, l \in 1..n : k < l => Headers(sheet)[k].top <= Headers(sheet)[l].top
    BY HeadersAreInOrder
<1>2. m \in Nat
    BY DEF IsLayout, LastRow
<1>3. n # 0
    <2>1. ASSUME n = 0 PROVE Headers(sheet) = <<>>
        <3>1. Headers(sheet) = [k \in DOMAIN Headers(sheet) |-> MergedRegions(sheet)[
                  InOrder([i \in HeaderPlaces(sheet) |-> FromAbove(sheet, i)])[k]]]
            BY DEF Headers
        <3>2. DOMAIN Headers(sheet) = 1..0
            BY <1>1, <2>1
        <3> QED BY <3>1, <3>2
    <2> QED BY <2>1
<1>4. ASSUME NEW k \in 1..n, NEW l \in 1..n, k < l
      PROVE  bottom[k] < top[l]
    <2>1. Headers(sheet)[l].top \notin Headers(sheet)[k].top .. Headers(sheet)[k].bottom
        BY <1>1, <1>4 DEF SharedRows
    <2>2. Headers(sheet)[k].top <= Headers(sheet)[l].top
        BY <1>1, <1>4
    <2>3. /\ Headers(sheet)[l].top \in Int /\ Headers(sheet)[k].top \in Int
          /\ Headers(sheet)[k].bottom \in Int
        BY <1>1
    <2> QED BY <2>1, <2>2, <2>3
<1>5. IsCut(n, m, top, bottom)
    <2>1. top \in [1..n -> Nat \ {0}] /\ bottom \in [1..n -> Nat]
        BY <1>1
    <2>2. \A i \in 1..n : top[i] <= bottom[i] /\ bottom[i] <= m
        BY <1>1
    <2> HIDE DEF n, m, top, bottom
    <2> QED BY <1>1, <1>2, <1>3, <1>4, <2>1, <2>2 DEF IsCut
\* No header but the last is on the last row.
<1>6. RowsAfter(sheet, n - 1) = m
    <2>1. ASSUME NEW i \in 1 .. n - 1 PROVE Headers(sheet)[i].bottom # m
        <3>1. i \in 1..n /\ n \in 1..n /\ i < n
            BY <1>1, <1>3
        <3>2. bottom[i] < top[n] /\ top[n] <= m
            BY <1>1, <1>4, <3>1
        <3> QED BY <1>1, <1>2, <3>1, <3>2
    <2> QED BY <2>1 DEF RowsAfter
<1> DEFINE sections == HeaderSections(sheet)
           end(i) == IF i < n THEN Headers(sheet)[i + 1].top - 1 ELSE RowsAfter(sheet, i - 1)
<1>7. ASSUME NEW i \in 1..n
      PROVE  end(i) = EndOf(n, m, top, i)
    <2>1. CASE i < n
        <3>1. i + 1 \in 1..n
            BY <1>1, <2>1
        <3> QED BY <2>1, <3>1 DEF EndOf
    <2>2. CASE ~(i < n)
        <3>1. i = n
            <4> HIDE DEF n
            <4> QED BY <1>1, <2>2
        <3> QED BY <1>6, <2>2, <3>1 DEF EndOf
    <2> QED BY <2>1, <2>2
<1>8. /\ DOMAIN sections = 1..n
      /\ \A i \in 1..n :
           /\ sections[i].start = Headers(sheet)[i].top
           /\ sections[i].end = end(i)
           /\ sections[i].rows = IF end(i) - Headers(sheet)[i].bottom > 0
                                 THEN end(i) - Headers(sheet)[i].bottom ELSE 0
           /\ sections[i].hasData <=> end(i) - Headers(sheet)[i].bottom > 0
    BY <1>1 DEF HeaderSections
<1>9. ASSUME NEW i \in 1..n
      PROVE  /\ sections[i].start = top[i]
             /\ sections[i].end = EndOf(n, m, top, i)
             /\ sections[i].rows = EndOf(n, m, top, i) - bottom[i]
             /\ sections[i].hasData <=> EndOf(n, m, top, i) > bottom[i]
    <2>1. bottom[i] = Headers(sheet)[i].bottom /\ top[i] = Headers(sheet)[i].top
        OBVIOUS
    <2>2. bottom[i] \in Nat /\ EndOf(n, m, top, i) \in Int /\ bottom[i] <= EndOf(n, m, top, i)
        <3> HIDE DEF n, m, top, bottom
        <3> QED BY <1>5, EndsAreBelow DEF IsCut
    <2> HIDE DEF n, m, top, bottom, end, sections
    <2> QED BY <1>7, <1>8, <2>1, <2>2
<1>10. TakenRows(n, m, top, bottom)
         = {r \in 1..m : \E i \in DOMAIN Headers(sheet) :
              r \in Headers(sheet)[i].top .. Headers(sheet)[i].bottom}
    BY <1>1 DEF TakenRows
<1>11. PartedBy(sections, m, TakenRows(n, m, top, bottom))
    <2>1. DOMAIN sections = 1..n
        BY <1>8
    <2> HIDE DEF n, m, top, bottom, sections
    <2> QED BY <1>5, <1>9, <2>1, CutsArePartitions
<1> QED BY <1>10, <1>11

LEMMA ColorSectionsPart ==
    ASSUME NEW sheet, IsLayout(sheet), ColorSections(sheet) # <<>>
    PROVE  /\ PartedBy(ColorSections(sheet), LastRow(sheet),
                       {r \in 1 .. LastRow(sheet) :
                          r \in {ColorSections(sheet)[i].start : i \in DOMAIN ColorSections(sheet)}})
<1> DEFINE S == ColoredRows(sheet)
           upTo == [r \in S |-> {q \in S : q <= r}]
           n == Cardinality(S)
           m == LastRow(sheet)
           top == InOrder(upTo)
           sections == ColorSections(sheet)
<1>1. m \in Nat /\ S \subseteq 1..m
    BY DEF IsLayout, LastRow, ColoredRows
<1>2. IsFiniteSet(S)
    <2> HIDE DEF S, m
    <2>1. 1 \in Int /\ m \in Int
        BY <1>1
    <2>2. IsFiniteSet(1..m)
        BY <2>1, FS_Interval
    <2> QED BY <1>1, <2>2, FS_Subset
<1>3. /\ n \in Nat /\ top \in [1..n -> S]
      /\ \A k, l \in 1..n : k < l => top[l] \notin upTo[top[k]]
    <2> HIDE DEF S
    <2>1. \A r \in S : r \in Int
        BY <1>1
    <2>2. upTo \in [S -> SUBSET S] /\ \A x \in S : x \in upTo[x]
        BY <2>1
    <2>3. \A x, y \in S : \/ x = y
                          \/ upTo[x] \subseteq upTo[y] /\ y \notin upTo[x]
                          \/ upTo[y] \subseteq upTo[x] /\ x \notin upTo[y]
        <3>1. ASSUME NEW x \in S, NEW y \in S, x < y
              PROVE  upTo[x] \subseteq upTo[y] /\ y \notin upTo[x]
            BY <2>1, <3>1
        <3>2. \A x, y \in S : x = y \/ x < y \/ y < x
            BY <2>1
        <3> HIDE DEF upTo
        <3> QED BY <3>1, <3>2
    <2> HIDE DEF upTo
    <2> QED BY <1>2, <2>2, <2>3, InOrderListsAll
<1>4. ASSUME NEW k \in 1..n, NEW l \in 1..n, k < l
      PROVE  top[k] < top[l]
    <2>1. top[k] \in S /\ top[l] \in S /\ top[l] \notin upTo[top[k]]
        BY <1>3, <1>4
    <2> HIDE DEF top
    <2>2. ~(top[l] <= top[k])
        BY <2>1
    <2>3. top[k] \in Int /\ top[l] \in Int
        BY <1>1, <2>1
    <2> QED BY <2>2, <2>3
<1>5. /\ Len(top) = n /\ DOMAIN top = 1..n
      /\ \A k \in 1..n : top[k] \in 1..m
    <2> HIDE DEF top, n, S, m
    <2>1. top \in Seq(S)
        BY <1>3
    <2>2. DOMAIN top = 1..n /\ DOMAIN top = 1 .. Len(top) /\ Len(top) \in Nat
        BY <1>3, <2>1
    <2>3. Len(top) = n
        <3>1. Len(top) \in 1 .. Len(top) \/ Len(top) = 0
            BY <2>2
        <3>2. n \in 1..n \/ n = 0
            BY <1>3
        <3> QED BY <1>3, <2>2, <3>1, <3>2
    <2> QED BY <1>1, <1>3, <2>2, <2>3
<1>6. DOMAIN sections = 1..n
    BY <1>5 DEF ColorSections
<1>7. ASSUME NEW i \in 1..n
      PROVE  /\ sections[i].start = top[i]
             /\ sections[i].end = EndOf(n, m, top, i)
             /\ sections[i].rows = EndOf(n, m, top, i) - top[i]
             /\ sections[i].hasData <=> EndOf(n, m, top, i) > top[i]
    <2> DEFINE end == IF i < Len(top) THEN top[i + 1] - 1 ELSE m
    <2>1. /\ sections[i].start = top[i] /\ sections[i].end = end
          /\ sections[i].rows = end - top[i]
          /\ sections[i].hasData <=> end > top[i]
        BY <1>5 DEF ColorSections
    <2>2. end = EndOf(n, m, top, i)
        <3> HIDE DEF n, m, top
        <3> QED BY <1>5 DEF EndOf
    <2> HIDE DEF sections, end, top, n, m
    <2> QED BY <2>1, <2>2
<1>8. n # 0
    <2>1. ASSUME n = 0 PROVE sections = <<>>
        <3>1. DOMAIN sections = 1..0
            BY <1>6, <2>1
        <3>2. sections = [i \in DOMAIN sections |-> sections[i]]
            BY DEF ColorSections
        <3> HIDE DEF sections
        <3> QED BY <3>1, <3>2
    <2> QED BY <2>1
<1>9. IsCut(n, m, top, top)
    <2> HIDE DEF n, m, top
    <2>1. top \in [1..n -> Nat \ {0}] /\ \A i \in 1..n : top[i] <= m
        BY <1>1, <1>3, <1>5
    <2>2. \A i \in 1..n : top[i] <= top[i]
        BY <2>1
    <2> QED BY <1>1, <1>3, <1>4, <1>8, <2>1, <2>2 DEF IsCut
<1>10. TakenRows(n, m, top, top)
         = {r \in 1..m : r \in {sections[i].start : i \in DOMAIN sections}}
    <2> HIDE DEF sections, n, m, top
    <2>1. {sections[i].start : i \in DOMAIN sections} = {top[i] : i \in 1..n}
        BY <1>6, <1>7
    <2>2. \A i \in 1..n : top[i] \in Int
        BY <1>5
    <2>3. \A r \in 1..m : \A i \in 1..n : r \in top[i]..top[i] <=> r = top[i]
        BY <2>2
    <2> QED BY <2>1, <2>3 DEF TakenRows
<1>11. PartedBy(sections, m, TakenRows(n, m, top, top))
    <2> HIDE DEF n, m, top, sections
    <2> QED BY <1>6, <1>7, <1>9, CutsArePartitions
<1> QED BY <1>10, <1>11

LEMMA LayoutsArePartitioned ==
    ASSUME NEW sheet, IsLayout(sheet)
    PROVE  SectionsPartition(sheet)
<1> DEFINE sections == DetectSections(sheet)
           starts == {sections[i].start : i \in DOMAIN sections}
           taken == {r \in 1 .. LastRow(sheet) :
                       \/ Headers(sheet) = <<>> /\ r \in starts
                       \/ \E i \in DOMAIN Headers(sheet) :
                            r \in Headers(sheet)[i].top .. Headers(sheet)[i].bottom}
<1>1. ExtractSheetManifest(sheet, 2).sections = sections
    BY DEF ExtractSheetManifest
<1>2. SUFFICES ASSUME sections # <<>>, ~SharedRows(sheet)
               PROVE  PartedBy(sections, LastRow(sheet), taken)
    BY <1>1 DEF SectionsPartition
<1>3. HeaderSections(sheet) = <<>> <=> Headers(sheet) = <<>>
    <2>1. DOMAIN HeaderSections(sheet) = DOMAIN Headers(sheet)
        BY DEF HeaderSections
    <2>2. HeaderSections(sheet) = [i \in DOMAIN HeaderSections(sheet) |-> HeaderSections(sheet)[i]]
        BY DEF HeaderSections
    <2>3. Headers(sheet) = [i \in DOMAIN Headers(sheet) |-> Headers(sheet)[i]]
        BY DEF Headers
    <2>4. DOMAIN <<>> = 1..0
        OBVIOUS
    <2>5. \A f, g : f = [i \in DOMAIN f |-> f[i]] /\ DOMAIN f = 1..0 => f = <<>>
        OBVIOUS
    <2> QED BY <2>1, <2>2, <2>3, <2>4, <2>5
<1>4. CASE Headers(sheet) # <<>>
    <2>1. sections = HeaderSections(sheet)
        BY <1>3, <1>4 DEF DetectSections
    <2>2. taken = {r \in 1 .. LastRow(sheet) : \E i \in DOMAIN Headers(sheet) :
                      r \in Headers(sheet)[i].top .. Headers(sheet)[i].bottom}
        BY <1>4
    <2> HIDE DEF sections, taken
    <2> QED BY <1>2, <1>4, <2>1, <2>2, HeaderSectionsPart
<1>5. CASE Headers(sheet) = <<>>
    <2>1. sections = ColorSections(sheet)
        BY <1>3, <1>5 DEF DetectSections
    <2>2. taken = {r \in 1 .. LastRow(sheet) :
                     r \in {sections[i].start : i \in DOMAIN sections}}
        <3>1. DOMAIN Headers(sheet) = {}
            BY <1>5
        <3> QED BY <1>5, <3>1
    <2> HIDE DEF sections, taken
    <2> QED BY <1>2, <2>1, <2>2, ColorSectionsPart
<1> QED BY <1>4, <1>5

\* Each row of a sheet from its first header down is in one section, and each
\* section counts its rows below the header, however headers are arranged, unless
\* they stand side by side (_detect_sections, _detect_sections_from_colors).
THEOREM SectionsAreParted == LayoutSpec => []Sections
<1>1. FirstLook => IsLayout(layout)
    <2> SUFFICES ASSUME FirstLook PROVE IsLayout(layout)
        OBVIOUS
    <2>1. layout.rows \in [{1} -> Looks] /\ layout.merged = <<>>
        BY DEF FirstLook
    <2>2. layout.rows \in Seq(Looks) /\ Len(layout.rows) = 1
        <3> DEFINE rows == layout.rows
        <3>1. PICK n \in Nat : n = 1 /\ {1} = 1..n
            OBVIOUS
        <3>2. rows \in [1..n -> Looks]
            BY <2>1, <3>1
        <3> HIDE DEF rows
        <3>3. rows \in Seq(Looks) /\ Len(rows) = n
            BY <3>2
        <3> QED BY <3>1, <3>3 DEF rows
    <2> QED BY <2>1, <2>2 DEF IsLayout
<1>2. IsLayout(layout) /\ [AddLook \/ AddHeader]_layout => IsLayout(layout)'
    <2> SUFFICES ASSUME IsLayout(layout), [AddLook \/ AddHeader]_layout
                 PROVE  IsLayout(layout')
        BY DEF IsLayout, RangesOver
    <2>1. CASE AddLook
        <3>1. PICK row \in Looks : layout' = [layout EXCEPT !.rows = Append(@, row)]
            BY <2>1 DEF AddLook
        <3>2. layout.merged = <<>>
            BY <2>1 DEF AddLook
        <3>3. layout'.rows = Append(layout.rows, row) /\ layout'.merged = <<>>
            BY <3>1, <3>2
        <3>4. layout'.rows \in Seq(Looks) /\ Len(layout'.rows) > 0
            BY <3>3 DEF IsLayout
        <3> QED BY <3>3, <3>4 DEF IsLayout
    <2>2. CASE AddHeader
        <3>1. PICK range \in RangesOver(Len(layout.rows)) :
                 /\ range.top <= range.bottom
                 /\ layout' = [layout EXCEPT !.merged = Append(@, range)]
            BY <2>2 DEF AddHeader
        <3> QED BY <3>1 DEF IsLayout
    <2>3. CASE UNCHANGED layout
        BY <2>3
    <2> QED BY <2>1, <2>2, <2>3
<1>3. IsLayout(layout) => Sections
    BY LayoutsArePartitioned DEF Sections
<1> QED BY <1>1, <1>2, <1>3, PTL DEF LayoutSpec
============================================================================
