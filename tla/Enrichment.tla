----------------------------- MODULE Enrichment -----------------------------
(***************************************************************************)
(* The orchestrator's three phases and what process_data_source makes of   *)
(* them: one agent of each kind serves every workbook, sheets of a         *)
(* workbook are enriched in parallel, and a language model replies to      *)
(* each call, or does not, with JSON that is usable, or is not.            *)
(*                                                                         *)
(* Between two replies nothing else runs; replies of all workbooks arrive  *)
(* in any order.                                                           *)
(***************************************************************************)
EXTENDS Naturals, Sequences, FiniteSets

CONSTANTS
    Jobs,        \* calls of process_data_source
    Files,
    SheetsOf,    \* the sheets of each file, in order, without repetition
    None

VARIABLES
    cache,       \* _processed_cache
    total,       \* the enricher's count of tokens, in replies
    pc,          \* what the job awaits
    file,        \* its workbook
    schema,      \* what the mapper made of it
    results,     \* what the enricher made of each sheet
    metered,     \* tokens that execute reports
    record,      \* what is written to the schema row
    spent,       \* replies the job was given by the enricher's calls (history)
    crossed,     \* another workbook was enriched meanwhile (history)
    spoilt       \* what is amiss with the replies: one is not usable, one lists no
                 \* questions, one misnames its sheet (history)

vars == <<cache, total, pc, file, schema, results, metered, record, spent, crossed, spoilt>>

----------------------------------------------------------------------------
\* What a reply lists as questions: some; none, because the list is empty or left out,
\* which is the same; or null ("use null if unknown", the prompt says).  "none" is for
\* a reply that was not usable.
Listing == {"listed", "empty", "null"}
Questions == Listing \cup {"none"}

Sheets(f) == {SheetsOf[f][i] : i \in DOMAIN SheetsOf[f]}
AllSheets == UNION {Sheets(f) : f \in Files}

ASSUME SheetsAssumption ==
    \A f \in Files :
        /\ SheetsOf[f] \in Seq(Sheets(f))
        /\ \A i, k \in DOMAIN SheetsOf[f] : SheetsOf[f][i] = SheetsOf[f][k] => i = k

\* A sheet's enrichment, under the name that the model gave it.
SheetEnrichment == [of : AllSheets, name : AllSheets, questions : Questions]

\* None is no enrichment.
ASSUME NoneAssumption ==
    \A names \in SUBSET AllSheets : None \notin [names -> SheetEnrichment]
\* What may be made of a reply about a sheet: null for another list, or for an
\* object, raises, but what it lists as questions is taken as it is.
DictToSheetEnrichment(f, s) == [of : {s}, name : Sheets(f), questions : Listing]
\* The same for the mapper's reply, of all its sheets: null if one of them is.
DictToSchema == Listing
\* Mutant: a failed sheet is not named.
FailedUnnamed(s) == [of |-> s, name |-> None, questions |-> "none"]

\* "Enrichment failed", under the name of the sheet.
FailedSheet(s) == [of |-> s, name |-> s, questions |-> "none"]

\* {s.sheet_name: s for s in sheet_enrichments}: the last of a name is kept.
LastOfName(f, result, n) ==
    CHOOSE i \in DOMAIN SheetsOf[f] :
        /\ result[SheetsOf[f][i]].name = n
        /\ \A j \in DOMAIN SheetsOf[f] : result[SheetsOf[f][j]].name = n => j <= i
ByName(f, result) ==
    [n \in {result[s].name : s \in Sheets(f)} |-> result[SheetsOf[f][LastOfName(f, result, n)]]]

\* A ProcessedWorkbook after extraction: schema and enrichment, or None.
Processed(s, enrichment) == [schema |-> s, enrichment |-> enrichment]
IsReadyForQueries(processed) == processed.schema # None \/ processed.enrichment # None

\* What process_data_source records: the questions of the enrichment if there
\* is one, be there any or not, else of the schema, whose null cannot be iterated over.
Completed(questions, sheets) ==
    [status |-> "completed", questions |-> questions, sheets |-> sheets]
Failed == [status |-> "failed", questions |-> {}, sheets |-> <<>>]
EnrichmentToDict(sheets) == [n \in DOMAIN sheets |-> sheets[n].of]
Record(processed) ==
    LET sheets == processed.enrichment
    IN CASE sheets # None ->
              Completed({sheets[n].of : n \in {m \in DOMAIN sheets :
                                                  sheets[m].questions = "listed"}},
                        EnrichmentToDict(sheets))
         [] sheets = None /\ processed.schema = "null" -> Failed
         [] sheets = None /\ processed.schema = "listed" -> Completed({"schema"}, <<>>)
         [] OTHER -> Completed({}, <<>>)

----------------------------------------------------------------------------
TypeOK ==
    /\ \A f \in Files : cache[f] # None => cache[f].schema \in DictToSchema \cup {None}
    /\ total \in Nat
    /\ pc \in [Jobs -> {"idle", "map", "sheets", "done"}]
    /\ file \in [Jobs -> Files \cup {None}]
    /\ schema \in [Jobs -> DictToSchema \cup {None}]
    /\ \A j \in Jobs : pc[j] \in {"map", "sheets"} =>
          results[j] \in [Sheets(file[j]) -> SheetEnrichment \cup {None}]
    /\ metered \in [Jobs -> Nat \cup {None}]
    /\ \A j \in Jobs : pc[j] # "done" => record[j] = None
    /\ spent \in [Jobs -> Nat]
    /\ crossed \in [Jobs -> BOOLEAN]
    /\ spoilt \in [Jobs -> Nat]

Init ==
    /\ cache = [f \in Files |-> None]
    /\ total = 0
    /\ pc = [j \in Jobs |-> "idle"]
    /\ file = [j \in Jobs |-> None]
    /\ schema = [j \in Jobs |-> None]
    /\ results = [j \in Jobs |-> None]
    /\ metered = [j \in Jobs |-> None]
    /\ record = [j \in Jobs |-> None]
    /\ spent = [j \in Jobs |-> 0]
    /\ crossed = [j \in Jobs |-> FALSE]
    /\ spoilt = [j \in Jobs |-> 0]

Goto(j, step) == pc' = [pc EXCEPT ![j] = step]
Spoils(j) == spoilt' = [spoilt EXCEPT ![j] = @ + 1]
\* A usable reply may be amiss in both ways.
Amiss(enriched, s) ==
    (IF enriched.questions = "listed" THEN 0 ELSE 1) + (IF enriched.name = s THEN 0 ELSE 1)

\* A reply, with its usage_metadata.
Metered(j) == total' = total + 1 /\ spent' = [spent EXCEPT ![j] = @ + 1]

\* The workbook is remembered, ready or not, and recorded.
Finish(j, enrichment) ==
    LET processed == Processed(schema[j], enrichment)
    IN /\ cache' = [cache EXCEPT ![file[j]] = processed]
       /\ record' = [record EXCEPT ![j] = Record(processed)]
       /\ Goto(j, "done")
       /\ UNCHANGED <<file, schema, results, crossed>>

----------------------------------------------------------------------------
\* process_workbook: what is remembered and ready is returned unless forced;
\* else phase A, which awaits nothing.
Begin(j) ==
    /\ pc[j] = "idle"
    /\ \E f \in Files, force \in BOOLEAN :
         /\ file' = [file EXCEPT ![j] = f]
         /\ IF ~force /\ cache[f] # None /\ IsReadyForQueries(cache[f])
            THEN /\ record' = [record EXCEPT ![j] = Record(cache[f])]
                 /\ Goto(j, "done")
                 /\ UNCHANGED results
            ELSE \/ /\ record' = [record EXCEPT ![j] = Failed]
                    /\ Goto(j, "done")
                    /\ UNCHANGED results
                 \/ /\ results' = [results EXCEPT ![j] = [s \in Sheets(f) |-> None]]
                    /\ Goto(j, "map")
                    /\ UNCHANGED record
    /\ UNCHANGED <<cache, total, schema, metered, spent, crossed, spoilt>>

\* Mutant: without a schema there is nothing to enrich.
MapOrFail(j) ==
    /\ pc[j] = "map"
    /\ \/ /\ schema' = [schema EXCEPT ![j] = "listed"]
          /\ Goto(j, "sheets")
          /\ UNCHANGED <<record, spoilt>>
       \/ /\ record' = [record EXCEPT ![j] = Failed]
          /\ Goto(j, "done")
          /\ Spoils(j)
          /\ UNCHANGED schema
    /\ total' = 0
    /\ UNCHANGED <<cache, file, results, metered, spent, crossed>>

Enriching(j) == pc[j] = "sheets"
Meet(j) == [o \in Jobs |->
    \/ crossed[o]
    \/ o = j /\ \E p \in Jobs \ {j} : Enriching(p)
    \/ o # j /\ Enriching(o)]

\* Mutant: the enricher counts on from the workbook before.
MapCountingOn(j) ==
    /\ pc[j] = "map"
    /\ schema' = [schema EXCEPT ![j] = "listed"] /\ UNCHANGED spoilt
    /\ crossed' = Meet(j)
    /\ Goto(j, "sheets")
    /\ UNCHANGED <<cache, total, file, results, metered, record, spent>>

\* Phase B, the mapper's call, and the beginning of phase C, which starts to
\* count tokens from nothing, whoever else is being counted.
Map(j) ==
    /\ pc[j] = "map"
    /\ \/ \E mapped \in DictToSchema :
            /\ schema' = [schema EXCEPT ![j] = mapped]
            /\ IF mapped # "listed" THEN Spoils(j) ELSE UNCHANGED spoilt
       \/ UNCHANGED schema /\ Spoils(j)
    /\ total' = 0
    /\ crossed' = Meet(j)
    /\ Goto(j, "sheets")
    /\ UNCHANGED <<cache, file, results, metered, record, spent>>

\* One sheet's call: refused; a reply that is no JSON, or with null where a
\* list or an object is expected; or the reply of a sheet, named as the model
\* names it.
EnrichSheet(j) ==
    /\ Enriching(j)
    /\ \E s \in Sheets(file[j]) :
         /\ results[j][s] = None
         /\ \/ /\ results' = [results EXCEPT ![j][s] = FailedSheet(s)]
               /\ Spoils(j)
               /\ Metered(j) \/ UNCHANGED <<total, spent>>
            \/ \E enriched \in DictToSheetEnrichment(file[j], s) :
                 /\ results' = [results EXCEPT ![j][s] = enriched]
                 /\ spoilt' = [spoilt EXCEPT ![j] = @ + Amiss(enriched, s)]
                 /\ Metered(j)
    /\ UNCHANGED <<cache, pc, file, schema, metered, record, crossed>>

\* The summary of a workbook all of whose sheets have been enriched: its prompt
\* takes the first questions of each sheet, which null has not.
Summarize(j) ==
    LET f == file[j]
        unsayable == \E s \in Sheets(f) : results[j][s].questions = "null"
    IN /\ Enriching(j)
       /\ \A s \in Sheets(f) : results[j][s] # None
       /\ \/ /\ ~unsayable \/ Sheets(f) = {}
             /\ IF Sheets(f) = {} THEN UNCHANGED <<total, spent>> ELSE Metered(j)
             /\ metered' = [metered EXCEPT ![j] = total']
             /\ UNCHANGED spoilt
             /\ Finish(j, ByName(f, results[j]))
          \/ /\ Sheets(f) # {}
             /\ IF unsayable THEN UNCHANGED <<total, spent, spoilt>>
                ELSE Spoils(j) /\ (Metered(j) \/ UNCHANGED <<total, spent>>)
             /\ UNCHANGED metered
             /\ Finish(j, None)

Next == \E j \in Jobs : Begin(j) \/ Map(j) \/ EnrichSheet(j) \/ Summarize(j)
Spec == Init /\ [][Next]_vars

----------------------------------------------------------------------------
(* Properties.                                                             *)

Fresh(j) == pc[j] = "done" /\ results[j] # None

\* "legacy - still useful as fallback" (orchestrator.py:165): of the calls for
\* a workbook of several sheets, any one may fail, give null where a list is
\* expected, list no questions or misname its sheet, and there are still questions
\* in the record.  (Two such faults may empty it, even in one reply, which takes
\* the name of another sheet and lists nothing; with a single sheet one is enough:
\* an enrichment without questions hides the schema's, see Record.)
OneFaultIsCovered ==
    \A j \in Jobs : Fresh(j) /\ spoilt[j] <= 1 /\ Cardinality(Sheets(file[j])) > 1 =>
        record[j].questions # {}

\* In the record of an enriched workbook no sheet is missing, whatever calls
\* failed, unless the model misnamed it; and what is under its name is its own,
\* unless the model gave that name to another.
SheetsUnderTheirNames ==
    \A j \in Jobs : metered[j] # None =>
        \A s \in Sheets(file[j]) :
            (\A t \in Sheets(file[j]) \ {s} : results[j][t].name # s) =>
                \/ results[j][s].questions # "none" /\ results[j][s].name # s
                \/ s \in DOMAIN record[j].sheets /\ record[j].sheets[s] = s

\* The tokens reported for a workbook are those of its own calls, unless another
\* workbook was being enriched by the same agent.
TokensAreTheirOwn ==
    \A j \in Jobs : metered[j] # None /\ ~crossed[j] => metered[j] = spent[j]
============================================================================
