----------------------------- MODULE Indexing -----------------------------
(***************************************************************************)
(* KnowledgeBaseService: jobs that index data sources, search them and     *)
(* delete their chunks, on one Qdrant collection, with OpenAI embeddings   *)
(* in batches.  What DataSources takes for one step each (Embed, Upsert,   *)
(* Unindex) is here call by call.                                          *)
(*                                                                         *)
(* The vector of a text is modelled by the text itself, and <<>> is the    *)
(* empty embedding.  A job's step runs up to its next await.  A request    *)
(* that fails at the client may reach Qdrant all the same, later too.      *)
(***************************************************************************)
EXTENDS Naturals, Sequences, FiniteSets, SequencesExt, FiniteSetsExt,
        WorkbookAnalysis

CONSTANTS
    Jobs,       \* requests, background tasks and server starts
    Users,      \* their users
    Sources,    \* data sources
    Files,      \* what the file of a data source may be: see IsFile
    BatchSize,  \* _batch_size of the embedding service
    Limit       \* the limit of a search

Kinds == {"workbook", "csv", "xls", "other"}
\* labelled: cells with a semantic label that are worth a chunk, a set of
\* sheet numbers (one such cell a sheet); broken: the extraction of a csv or
\* xls file raises after so many of its chunks.
IsFile(file) ==
    /\ file.kind \in Kinds
    /\ file.kind = "workbook" => /\ file.workbook.sheets # <<>>
                                 /\ file.labelled \subseteq DOMAIN file.workbook.sheets
ASSUME IndexingAssumption ==
    /\ BatchSize \in Nat \ {0} /\ Limit \in Nat \ {0}
    /\ \A file \in Files : IsFile(file)

VARIABLES
    collection,  \* is the collection there
    points,      \* its points
    owner,       \* the user of each data source
    job          \* for each job, its operation and locals

vars == <<collection, points, owner, job>>

Operations == {"start", "index", "search", "delete"}
FirstStep ==
    [start |-> "list", index |-> "list", search |-> "embedQuery", delete |-> "count"]
Steps == {"idle", "list", "create", "embed", "upsert", "embedQuery", "query",
          "count", "remove", "done", "failed"}
Empty == <<>>
EmptyJob ==
    [pc |-> "idle", op |-> "start", user |-> CHOOSE u \in Users : TRUE,
     source |-> CHOOSE s \in Sources : TRUE, anySource |-> FALSE, texts |-> <<>>,
     vectors |-> <<>>, sent |-> 0, refused |-> {}, result |-> {}, count |-> 0,
     lost |-> "nothing"]
Commands == {"create", "upsert", "remove"}

At(j, step) == job[j].pc = step
Step(j, local) == job' = [job EXCEPT ![j] = local]
Goto(j, step) == Step(j, [job[j] EXCEPT !.pc = step])
Failed(local) == [EmptyJob EXCEPT !.pc = "failed", !.op = local.op, !.user = local.user,
                                  !.source = local.source]
\* A call that raises, or a process that ends, leaves behind a command that
\* Qdrant may carry out: lost is that command.
Abandoned(local) ==
    IF local.pc \in Commands THEN [local EXCEPT !.pc = "failed", !.lost = local.pc]
    ELSE Failed(local)
Fail(j) == Step(j, Abandoned(job[j])) /\ UNCHANGED <<collection, points, owner>>

Init ==
    /\ collection \in BOOLEAN /\ points = {}
    /\ owner \in [Sources -> Users]
    /\ job = [j \in Jobs |-> EmptyJob]

----------------------------------------------------------------------------
(* A data source is indexed for its owner, by the background task of the   *)
(* upload and as often as POST /{id}/index asks for it, also at the same   *)
(* time.  Search and deletion do not look up the data source: the filter   *)
(* on the caller is what separates users.                                  *)
Begin(j) ==
    /\ At(j, "idle")
    /\ \E op \in Operations, s \in Sources, u \in Users, any \in BOOLEAN :
        /\ op = "index" => u = owner[s]
        /\ any => op = "search"
        /\ Step(j, [job[j] EXCEPT !.pc = FirstStep[op], !.op = op, !.source = s, !.user = u,
                                  !.anySource = any])
    /\ UNCHANGED <<collection, points, owner>>

----------------------------------------------------------------------------
(* index_data_source up to embed_texts: what the file yields.              *)
(* A workbook that cannot be parsed raises; without its cell chunks a      *)
(* workbook is still indexed; a csv or xls file that cannot be read yields *)
(* what was extracted before the error; other files nothing.               *)
Cells(file) ==
    [i \in 1 .. Cardinality(file.labelled) |->
        Chunk("cell", SetToSortSeq(file.labelled, <)[i], {})]
CsvChunks == <<Chunk("csv_overview", 1, {}), Chunk("statistics", 1, {})>>
XlsChunks(file) ==
    [i \in 1 .. file.sheets |-> Chunk("sheet_overview", i, {})]
Extractions(file) ==
    CASE file.kind = "workbook" ->
            {WorkbookChunks(file.workbook), WorkbookChunks(file.workbook) \o Cells(file)}
      [] file.kind = "csv" -> {SubSeq(CsvChunks, 1, n) : n \in 0 .. 2}
      [] file.kind = "xls" -> {SubSeq(XlsChunks(file), 1, n) : n \in 0 .. file.sheets}
      [] OTHER -> {<<>>}

\* What is extracted is a list.
ASSUME ExtractionAssumption ==
    \A file \in Files : \A chunks \in Extractions(file) : chunks \in Seq(Range(chunks))

\* After initialize(): a server start is done, an indexer extracts from the
\* file of its data source, which is read once.
Initialized(j) ==
    IF job[j].op = "start" THEN Goto(j, "done")
    ELSE \E file \in Files :
           \/ file.kind = "workbook" /\ Goto(j, "failed")
           \/ \E chunks \in Extractions(file) :
                Step(j, [job[j] EXCEPT !.pc = IF chunks = <<>> THEN "done" ELSE "embed",
                                       !.texts = chunks])

(* ensure_collection *)
ListCollections(j) ==
    /\ At(j, "list")
    /\ IF collection THEN Initialized(j) ELSE Goto(j, "create")
    /\ UNCHANGED <<collection, points, owner>>

\* Qdrant refuses to create what exists.
CreateCollection(j) ==
    /\ At(j, "create")
    /\ \/ ~collection /\ collection' = TRUE /\ Initialized(j)
       \/ collection /\ Goto(j, "failed") /\ UNCHANGED collection
    /\ UNCHANGED <<points, owner>>

----------------------------------------------------------------------------
(* embed_texts: a batch that is refused becomes empty embeddings; the      *)
(* embeddings that came are given to the texts by position.                *)
Batch(j) ==
    LET from == job[j].sent + 1
    IN from .. Min({from + BatchSize - 1, Len(job[j].texts)})
Embedding(local, i) == IF i <= Len(local.vectors) THEN local.vectors[i] ELSE Empty
Embedded(local) == {i \in DOMAIN local.texts : Embedding(local, i) # Empty}

Answered(j, vectors, refused) ==
    LET local == [job[j] EXCEPT !.vectors = @ \o vectors, !.refused = @ \cup refused,
                                !.sent = Max(Batch(j))]
    IN Step(j, [local EXCEPT !.pc =
            CASE local.sent < Len(local.texts) -> "embed"
              [] local.sent = Len(local.texts) /\ Embedded(local) = {} -> "done"
              [] OTHER -> "upsert"])
TextsOf(j, batch) == [k \in 1 .. Cardinality(batch) |-> job[j].texts[job[j].sent + k]]
Padding(batch) == [k \in 1 .. Cardinality(batch) |-> Empty]

\* Mutant: a refused batch is skipped and leaves no empty embeddings.
EmbedBatchSkipping(j) ==
    /\ At(j, "embed")
    /\ \/ Answered(j, TextsOf(j, Batch(j)), {})
       \/ Answered(j, <<>>, Batch(j))
    /\ UNCHANGED <<collection, points, owner>>
EmbedBatch(j) ==
    /\ At(j, "embed")
    /\ \/ Answered(j, TextsOf(j, Batch(j)), {})
       \/ Answered(j, Padding(Batch(j)), Batch(j))
    /\ UNCHANGED <<collection, points, owner>>

(* _upload_chunks: one upsert of all that has an embedding, under new ids. *)
NewPoints(j) ==
    {[id |-> <<j, i>>, user |-> job[j].user, source |-> job[j].source,
      content |-> job[j].texts[i], vector |-> Embedding(job[j], i)] :
        i \in Embedded(job[j])}
\* Mutant: the count is of the chunks, embedded or not.
UpsertCountingChunks(j) ==
    /\ At(j, "upsert") /\ collection
    /\ points' = points \cup NewPoints(j)
    /\ Step(j, [job[j] EXCEPT !.pc = "done", !.count = Len(job[j].texts),
                              !.texts = <<>>, !.vectors = <<>>, !.refused = {}, !.sent = 0])
    /\ UNCHANGED <<collection, owner>>
Upsert(j) ==
    /\ At(j, "upsert") /\ collection
    /\ points' = points \cup NewPoints(j)
    /\ Step(j, [job[j] EXCEPT !.pc = "done", !.count = Cardinality(Embedded(job[j])),
                              !.texts = <<>>, !.vectors = <<>>, !.refused = {}, !.sent = 0])
    /\ UNCHANGED <<collection, owner>>

----------------------------------------------------------------------------
(* search *)

\* A question that is not embedded has the empty vector, which Qdrant refuses.
EmbedQuery(j) ==
    /\ At(j, "embedQuery")
    /\ \E step \in {"query", "failed"} : Goto(j, step)
    /\ UNCHANGED <<collection, points, owner>>

\* Mutant: the data source is the only condition when there is one.
MatchingSource(j) ==
    {p \in points : IF job[j].anySource THEN p.user = job[j].user
                    ELSE p.source = job[j].source}
Matching(j) ==
    {p \in points : p.user = job[j].user
                    /\ (job[j].anySource \/ p.source = job[j].source)}

\* Which points are near is not modelled.
Query(j) ==
    /\ At(j, "query") /\ collection
    /\ \E hits \in SUBSET Matching(j) :
        Cardinality(hits) <= Limit /\ Step(j, [job[j] EXCEPT !.pc = "done", !.result = hits])
    /\ UNCHANGED <<collection, points, owner>>

(* delete_data_source: the number it reports is counted before. *)
Count(j) ==
    /\ At(j, "count") /\ collection
    /\ Step(j, [job[j] EXCEPT !.pc = "remove", !.count = Cardinality(Matching(j))])
    /\ UNCHANGED <<collection, points, owner>>
RemovePoints(j) ==
    /\ At(j, "remove") /\ collection
    /\ points' = points \ Matching(j)
    /\ Goto(j, "done")
    /\ UNCHANGED <<collection, owner>>

\* Mutant: a call on a collection that is not there waits for it.
QdrantWaits(j) ==
    /\ job[j].pc \in {"list", "create", "upsert", "query", "count", "remove"}
    /\ collection /\ Fail(j)
\* Qdrant does not answer in time, or has no such collection; or the
\* connection is lost.
QdrantFails(j) ==
    /\ job[j].pc \in {"list", "create", "upsert", "query", "count", "remove"}
    /\ Fail(j)
Restart ==
    /\ \E j \in Jobs : job[j].pc \notin {"idle", "done", "failed"}
    /\ job' = [j \in Jobs |->
                 IF job[j].pc \in {"idle", "done", "failed"} THEN job[j]
                 ELSE Abandoned(job[j])]
    /\ UNCHANGED <<collection, points, owner>>

\* The command of a job that has failed is carried out, at once or later.
QdrantIsLate(j) ==
    /\ At(j, "failed")
    /\ \/ job[j].lost = "create" /\ collection' = TRUE /\ UNCHANGED points
       \/ job[j].lost = "upsert" /\ points' = points \cup NewPoints(j) /\ UNCHANGED collection
       \/ job[j].lost = "remove" /\ points' = points \ Matching(j) /\ UNCHANGED collection
    /\ Step(j, Failed(job[j]))
    /\ UNCHANGED owner

----------------------------------------------------------------------------
Run(j) ==
    \/ ListCollections(j)
    \/ CreateCollection(j)
    \/ EmbedBatch(j)
    \/ Upsert(j)
    \/ EmbedQuery(j)
    \/ Query(j)
    \/ Count(j)
    \/ RemovePoints(j)
    \/ QdrantFails(j)
Next == (\E j \in Jobs : Begin(j) \/ Run(j) \/ QdrantIsLate(j)) \/ Restart

Spec == Init /\ [][Next]_vars
\* A job that has begun is run on by the event loop; calls time out.
FairSpec == Spec /\ \A j \in Jobs : WF_vars(Run(j))

----------------------------------------------------------------------------
(* Properties.                                                             *)

TypeOK ==
    /\ collection \in BOOLEAN
    /\ owner \in [Sources -> Users]
    /\ \A j \in Jobs :
        /\ job[j].pc \in Steps /\ job[j].op \in Operations
        /\ job[j].user \in Users /\ job[j].source \in Sources
        /\ job[j].sent \in 0 .. Len(job[j].texts)
        /\ job[j].refused \subseteq DOMAIN job[j].texts
        /\ job[j].lost \in Commands \cup {"nothing"}
        /\ job[j].result \subseteq
             {p \in job[j].result : p.user \in Users /\ p.source \in Sources}

\* Whatever batches are refused, no chunk is, or is about to be, stored
\* under the vector of another: a search that hits a vector returns the text
\* it was made from.
VectorsAreOfTheirText ==
    \A p \in points \cup UNION {NewPoints(j) :
                               j \in {i \in Jobs : At(i, "upsert") \/ job[i].lost = "upsert"}} :
        p.vector = p.content

\* What an indexer stores comes all at once and only once: with its upsert,
\* as many chunks as it then reports, or with a request that failed and that
\* Qdrant carried out all the same, which nobody reports.  Nobody else adds
\* points, so that what is there twice was indexed by two jobs; and points go
\* only in a deletion for their owner, if it failed perhaps later.
Stores(j) ==
    /\ job[j].op = "index"
    /\ points' \ points = NewPoints(j) /\ \A p \in points : p.id[1] # j
    /\ \/ At(j, "upsert") /\ At(j, "done")' /\ job'[j].count = Cardinality(points' \ points)
       \/ At(j, "failed") /\ job[j].lost = "upsert" /\ job'[j].lost = "nothing"
Removes(j, p) ==
    /\ job[j].op = "delete" /\ (At(j, "remove") \/ job[j].lost = "remove")
    /\ p.source = job[j].source /\ p.user = job[j].user
IndexedAtOnce ==
    [][ /\ points' \ points # {} => \E j \in Jobs : Stores(j)
        /\ \A p \in points \ points' : \E j \in Jobs : Removes(j, p) ]_vars

\* A search finds nothing of others, and of one data source if one is named,
\* though nobody has checked to whom that belongs.
SearchStaysWithin ==
    \A j \in Jobs : \A p \in job[j].result :
        /\ p.user = job[j].user /\ owner[p.source] = job[j].user
        /\ job[j].anySource \/ p.source = job[j].source

\* Every job ends, after as many batches as it takes.
EveryJobEnds == \A j \in Jobs : ~At(j, "idle") ~> job[j].pc \in {"done", "failed"}
============================================================================
