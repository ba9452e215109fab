---------------------------- MODULE DataSources ----------------------------
(***************************************************************************)
(* The life of one data source: upload, background processing, explicit    *)
(* processing, indexing and deletion, as concurrent requests that share    *)
(* PostgreSQL, the uploads directory, Qdrant and the orchestrator's        *)
(* in-process cache.                                                       *)
(*                                                                         *)
(* Every request owns one SQLAlchemy session.  tx[r] is what that session  *)
(* has flushed and not committed: PostgreSQL hides it from the others      *)
(* (READ COMMITTED) and makes them wait where their statements conflict    *)
(* with it.  Data sources are independent rows, so one of them is modelled.*)
(***************************************************************************)
EXTENDS Naturals

CONSTANTS
    Requests,    \* HTTP requests; an upload goes on as its background task
    Faults,      \* which services may fail: a subset of Services
    MaxCrashes   \* bound: how many times the server process may die

Services == {"disk", "postgres", "qdrant", "openai"}

ASSUME FaultsAssumption == Faults \subseteq Services
ASSUME CrashAssumption == MaxCrashes \in Nat

VARIABLES
    row,         \* the data_sources row, as committed
    indexedFlag, \* meta_info.knowledge_base.indexed, as committed
    schema,      \* the excel_schemas row, as committed, or NoSchema
    file,        \* is stored_file_path on disk
    chunks,      \* Qdrant points of the data source: a batch per indexer
    cache,       \* orchestrator._processed_cache[stored_file_path]
    kind,        \* which handler runs the request
    pc,          \* where the handler is
    tx,          \* flushed and uncommitted writes of its session
    crashes

committed == <<row, indexedFlag, schema>>
vars == <<committed, file, chunks, cache, kind, pc, tx, crashes>>

----------------------------------------------------------------------------
\* ProcessingStatus, and "absent" for no row.  MAPPING and ENRICHING are
\* declared in the code and never assigned.
Status == {"absent", "pending", "extracting", "completed", "failed"}

\* content: the row holds a semantic schema or an enrichment.
SchemaRow == [status : Status, ready : BOOLEAN, content : BOOLEAN]
NoSchema == [status |-> "absent", ready |-> FALSE, content |-> FALSE]
NewSchema == [NoSchema EXCEPT !.status = "pending"]

\* ExcelSchema.mark_extracting, mark_completed, mark_failed.
Extracting(s) == [s EXCEPT !.status = "extracting"]
Completed(content) ==
    [status |-> "completed", ready |-> TRUE, content |-> content]
Failed(s) == [s EXCEPT !.status = "failed", !.ready = FALSE]

\* What one session holds between a flush and the end of its transaction.
Tx == [created : BOOLEAN, deleted : BOOLEAN, meta : BOOLEAN, schema : SchemaRow]
NoTx ==
    [created |-> FALSE, deleted |-> FALSE, meta |-> FALSE, schema |-> NoSchema]

RequestKinds == {"upload", "process", "force", "index", "unindex", "delete"}
\* The two halves of process_in_background, run after the upload's commit.
Background == {"background", "backgroundIndex"}

FirstStep ==
    [upload |-> "persist", process |-> "fetch", force |-> "fetch",
     index |-> "indexFetch", unindex |-> "unindex", delete |-> "deleteFetch"]

Terminal == {"ok", "failed"}
Steps == Terminal \cup
    {"idle", "persist", "insertRow", "fetch", "lookup", "insert", "refetch",
     "checkFile", "mark", "extract", "llm", "markFailed", "raise", "commit",
     "indexFetch", "readFile", "embed", "upsert", "saveMeta", "unindex",
     "deleteFetch", "unlink", "dropChunks", "deleteRow", "leaked"}

TypeOK ==
    /\ row \in {"none", "live", "gone"}
    /\ indexedFlag \in BOOLEAN
    /\ schema \in SchemaRow
    /\ file \in BOOLEAN
    /\ chunks \in SUBSET Requests
    /\ cache \in {"empty", "unready", "ready"}
    /\ kind \in [Requests -> RequestKinds \cup Background]
    /\ pc \in [Requests -> Steps]
    /\ tx \in [Requests -> Tx]
    /\ crashes \in 0..MaxCrashes

Init ==
    /\ row = "none" /\ indexedFlag = FALSE /\ schema = NoSchema
    /\ file = FALSE /\ chunks = {} /\ cache = "empty"
    /\ kind = [r \in Requests |-> "upload"]
    /\ pc = [r \in Requests |-> "idle"]
    /\ tx = [r \in Requests |-> NoTx]
    /\ crashes = 0

----------------------------------------------------------------------------
(* PostgreSQL: the uncommitted writes of others a statement waits for.     *)

Others(r) == Requests \ {r}
WritesSchema(r) == tx[r].schema # NoSchema
\* The excel_schemas row as the session of r sees it.
Seen(r) == IF WritesSchema(r) THEN tx[r].schema ELSE schema

\* INSERT INTO excel_schemas waits for an uncommitted row with the same
\* data_source_id and, through the foreign key, for a DELETE of the parent.
InsertWaits(r) == \E o \in Others(r) :
    tx[o].deleted \/ (WritesSchema(o) /\ schema = NoSchema)
UpdateWaits(r) == \E o \in Others(r) : tx[o].deleted \/ WritesSchema(o)
MetaWaits(r) == \E o \in Others(r) : tx[o].deleted \/ tx[o].meta
\* DELETE FROM data_sources cascades to excel_schemas.
DeleteWaits(r) == UpdateWaits(r) \/ MetaWaits(r)

----------------------------------------------------------------------------
(* Control shared by the handlers.                                         *)

At(r, step) == pc[r] = step
Goto(r, step) == pc' = [pc EXCEPT ![r] = step]
FlushSchema(r, s) == tx' = [tx EXCEPT ![r].schema = s]
EndTx(r) == tx' = [tx EXCEPT ![r] = NoTx]

\* Mutant: get_session raises without rolling back, and keeps its row locks.
RaiseUnrolled(r) ==
    Goto(r, IF kind[r] \in Background THEN "leaked" ELSE "failed") /\ UNCHANGED tx

\* A handler raises.  get_session rolls a request's session back;
\* process_in_background logs the exception and leaves its transaction open.
Raise(r) ==
    IF kind[r] \in Background
    THEN Goto(r, "leaked") /\ UNCHANGED tx
    ELSE Goto(r, "failed") /\ EndTx(r)

\* The handler is done: an upload may have scheduled process_in_background
\* (auto_process), which indexes once its processing half has committed.
Continue(r) ==
    \/ /\ kind[r] # "background"
       /\ Goto(r, "ok") /\ UNCHANGED kind
    \/ /\ kind[r] = "upload"
       /\ Goto(r, "fetch") /\ kind' = [kind EXCEPT ![r] = "background"]
    \/ /\ kind[r] = "background"
       /\ Goto(r, "indexFetch") /\ kind' = [kind EXCEPT ![r] = "backgroundIndex"]

\* A client sends a request; it knows the id only after the upload's commit.
Start(r, k) ==
    /\ At(r, "idle")
    /\ IF k = "upload" THEN \A o \in Requests : At(o, "idle") ELSE row # "none"
    /\ kind' = [kind EXCEPT ![r] = k]
    /\ Goto(r, FirstStep[k])
    /\ UNCHANGED <<committed, file, chunks, cache, tx, crashes>>

\* The commit at the end of get_session or inside process_in_background.
Commit(r) ==
    /\ At(r, "commit")
    /\ row' = IF tx[r].created THEN "live" ELSE IF tx[r].deleted THEN "gone" ELSE row
    /\ indexedFlag' = (indexedFlag \/ tx[r].meta)
    /\ schema' = IF tx[r].deleted THEN NoSchema ELSE Seen(r)
    /\ EndTx(r)
    /\ Continue(r)
    /\ UNCHANGED <<file, chunks, cache, crashes>>

\* The connection is lost at the commit: PostgreSQL rolls back.
CommitFails(r) ==
    /\ At(r, "commit")
    /\ "postgres" \in Faults
    /\ Goto(r, "failed")
    /\ EndTx(r)
    /\ UNCHANGED <<committed, file, chunks, cache, kind, crashes>>

\* An abandoned session is garbage collected and its transaction rolled back.
Reclaim(r) ==
    /\ At(r, "leaked")
    /\ Goto(r, "failed")
    /\ EndTx(r)
    /\ UNCHANGED <<committed, file, chunks, cache, kind, crashes>>

\* The server process dies: requests, sessions and the cache are lost.
Crash ==
    /\ crashes < MaxCrashes
    /\ crashes' = crashes + 1
    /\ pc' = [r \in Requests |->
                 IF pc[r] \in Terminal \cup {"idle"} THEN pc[r] ELSE "failed"]
    /\ tx' = [r \in Requests |-> NoTx]
    /\ cache' = "empty"
    /\ UNCHANGED <<committed, file, chunks, kind>>

----------------------------------------------------------------------------
(* upload_sheet, DataSourceService.create_data_source.                     *)

\* Validation and metadata extraction come before anything is written.
RejectUpload(r) ==
    /\ At(r, "persist")
    /\ Raise(r)
    /\ UNCHANGED <<committed, file, chunks, cache, kind, crashes>>

PersistFile(r) ==
    /\ At(r, "persist")
    /\ file' = TRUE
    /\ Goto(r, "insertRow")
    /\ UNCHANGED <<committed, chunks, cache, kind, tx, crashes>>

InsertRow(r) ==
    /\ At(r, "insertRow")
    /\ tx' = [tx EXCEPT ![r].created = TRUE]
    /\ Goto(r, "commit")
    /\ UNCHANGED <<committed, file, chunks, cache, kind, crashes>>

----------------------------------------------------------------------------
(* ExcelAgentService.process_data_source.                                  *)

FetchDataSource(r) ==
    /\ At(r, "fetch")
    /\ IF row = "live" THEN Goto(r, "lookup") /\ UNCHANGED tx ELSE Raise(r)
    /\ UNCHANGED <<committed, file, chunks, cache, kind, crashes>>

\* Without force_reprocess a completed or running schema is returned as is.
LookupSchema(r) ==
    /\ At(r, "lookup")
    /\ IF kind[r] # "force" /\ schema.status \in {"completed", "extracting"}
       THEN Continue(r)
       ELSE /\ Goto(r, IF schema = NoSchema THEN "insert" ELSE "checkFile")
            /\ UNCHANGED kind
    /\ UNCHANGED <<committed, file, chunks, cache, tx, crashes>>

\* The flush of the new row.  A row that is there, or a parent that is not,
\* is an IntegrityError: the session rolls back and looks again.
InsertSchema(r) ==
    /\ At(r, "insert")
    /\ ~InsertWaits(r)
    /\ IF schema = NoSchema /\ row = "live"
       THEN FlushSchema(r, NewSchema) /\ Goto(r, "checkFile")
       ELSE Goto(r, "refetch") /\ UNCHANGED tx
    /\ UNCHANGED <<committed, file, chunks, cache, kind, crashes>>

\* Only a completed schema can be used: with no row the IntegrityError is
\* raised again, and after the rollback, which expired data_source, reading
\* data_source.stored_file_path raises (lazy loading under an AsyncSession).
Refetch(r) ==
    /\ At(r, "refetch")
    /\ IF kind[r] # "force" /\ schema.status = "completed"
       THEN Continue(r) /\ UNCHANGED tx
       ELSE Raise(r) /\ UNCHANGED kind
    /\ UNCHANGED <<committed, file, chunks, cache, crashes>>

CheckFile(r) ==
    /\ At(r, "checkFile")
    /\ Goto(r, IF file THEN "mark" ELSE "markFailed")
    /\ UNCHANGED <<committed, file, chunks, cache, kind, tx, crashes>>

\* Mutant: mark_extracting is not flushed before process_workbook.
MarkExtractingUnflushed(r) ==
    /\ At(r, "mark")
    /\ Goto(r, "extract")
    /\ UNCHANGED <<committed, file, chunks, cache, kind, tx, crashes>>

\* Mutant: mark_extracting is committed, to show progress to other sessions.
MarkExtractingCommitted(r) ==
    /\ At(r, "mark")
    /\ ~UpdateWaits(r)
    /\ schema' = Extracting(Seen(r))
    /\ Goto(r, "extract")
    /\ EndTx(r)
    /\ UNCHANGED <<row, indexedFlag, file, chunks, cache, kind, crashes>>

\* The flush of mark_extracting; no row to update is a StaleDataError.
MarkExtracting(r) ==
    /\ At(r, "mark")
    /\ ~UpdateWaits(r)
    /\ IF Seen(r) = NoSchema
       THEN Raise(r)
       ELSE FlushSchema(r, Extracting(Seen(r))) /\ Goto(r, "extract")
    /\ UNCHANGED <<committed, file, chunks, cache, kind, crashes>>

\* The flush of mark_failed that comes before the handler raises.
MarkFailed(r) ==
    /\ At(r, "markFailed")
    /\ ~UpdateWaits(r)
    /\ IF Seen(r) = NoSchema
       THEN Raise(r)
       ELSE FlushSchema(r, Failed(Seen(r))) /\ Goto(r, "raise")
    /\ UNCHANGED <<committed, file, chunks, cache, kind, crashes>>

\* Mutant: the failure is committed before the handler raises.
RaiseErrorCommitted(r) ==
    /\ At(r, "raise")
    /\ schema' = Seen(r)
    /\ Goto(r, "failed")
    /\ EndTx(r)
    /\ UNCHANGED <<row, indexedFlag, file, chunks, cache, kind, crashes>>

RaiseError(r) ==
    /\ At(r, "raise")
    /\ Raise(r)
    /\ UNCHANGED <<committed, file, chunks, cache, kind, crashes>>

\* process_workbook returned a usable workbook: mark_completed and its flush.
Complete(r, content) ==
    /\ FlushSchema(r, Completed(content))
    /\ Goto(r, "commit")

\* process_workbook, up to the end of phase A: a cached result, a manifest,
\* or a failure (always one when the file is not there).
Extract(r) ==
    /\ At(r, "extract")
    /\ IF kind[r] # "force" /\ cache = "ready"
       THEN Complete(r, TRUE)
       ELSE \/ file /\ Goto(r, "llm") /\ UNCHANGED tx
            \/ Goto(r, "markFailed") /\ UNCHANGED tx
    /\ UNCHANGED <<committed, file, chunks, cache, kind, crashes>>

\* Phases B and C: each may fail without failing the workbook, which is
\* cached and marked completed even when both do.
MapAndEnrich(r) ==
    /\ At(r, "llm")
    /\ \/ \E mapped, enriched \in BOOLEAN :
             /\ "openai" \in Faults \/ (mapped /\ enriched)
             /\ cache' = IF mapped \/ enriched THEN "ready" ELSE "unready"
             /\ Complete(r, mapped \/ enriched)
       \/ Goto(r, "markFailed") /\ UNCHANGED <<cache, tx>>
    /\ UNCHANGED <<committed, file, chunks, kind, crashes>>

----------------------------------------------------------------------------
(* DataSourceService.index_to_knowledge_base and KnowledgeBaseService.     *)

IndexFetch(r) ==
    /\ At(r, "indexFetch")
    /\ IF row = "live" THEN Goto(r, "readFile") /\ UNCHANGED tx ELSE Raise(r)
    /\ UNCHANGED <<committed, file, chunks, cache, kind, crashes>>

ReadFile(r) ==
    /\ At(r, "readFile")
    /\ IF file THEN Goto(r, "embed") /\ UNCHANGED tx ELSE Raise(r)
    /\ UNCHANGED <<committed, file, chunks, cache, kind, crashes>>

\* ensure_collection, chunking and embedding.  A workbook may give no chunk,
\* and a batch that OpenAI refuses gives none either (embed_texts logs it).  It
\* raises if the workbook cannot be parsed or the collection not be created,
\* and without a chunk also where Upsert does.
Embed(r) ==
    /\ At(r, "embed")
    /\ \/ Goto(r, "upsert") /\ UNCHANGED tx
       \/ Goto(r, "saveMeta") /\ UNCHANGED tx
       \/ Raise(r)
    /\ UNCHANGED <<committed, file, chunks, cache, kind, crashes>>

\* Chunk ids are fresh, so an upsert adds a batch and replaces none.  The flush
\* of meta_info raises before it waits when the analysis is no JSON (see
\* Serializable in WorkbookAnalysis).
Upsert(r) ==
    /\ At(r, "upsert")
    /\ \/ /\ chunks' = chunks \cup {r}
          /\ \/ Goto(r, "saveMeta") /\ UNCHANGED tx
             \/ Raise(r)
       \/ "qdrant" \in Faults /\ Raise(r) /\ UNCHANGED chunks
    /\ UNCHANGED <<committed, file, cache, kind, crashes>>

\* The flush of meta_info; no row to update is a StaleDataError.
SaveMeta(r) ==
    /\ At(r, "saveMeta")
    /\ ~MetaWaits(r)
    /\ IF row = "live"
       THEN tx' = [tx EXCEPT ![r].meta = TRUE] /\ Goto(r, "commit")
       ELSE Raise(r)
    /\ UNCHANGED <<committed, file, chunks, cache, kind, crashes>>

\* Mutant: DELETE /index cleans up the stored file as well.
UnindexAndUnlink(r) ==
    /\ At(r, "unindex")
    /\ chunks' = {} /\ file' = FALSE
    /\ Continue(r)
    /\ UNCHANGED <<committed, cache, tx, crashes>>

\* delete_from_knowledge_base: Qdrant only, meta_info is left as it is.
Unindex(r) ==
    /\ At(r, "unindex")
    /\ \/ chunks' = {} /\ Continue(r) /\ UNCHANGED tx
       \/ "qdrant" \in Faults /\ Raise(r) /\ UNCHANGED <<chunks, kind>>
    /\ UNCHANGED <<committed, file, cache, crashes>>

----------------------------------------------------------------------------
(* DataSourceService.delete_data_source.                                   *)

DeleteFetch(r) ==
    /\ At(r, "deleteFetch")
    /\ IF row = "live" THEN Goto(r, "unlink") /\ UNCHANGED tx ELSE Raise(r)
    /\ UNCHANGED <<committed, file, chunks, cache, kind, crashes>>

\* An error of unlink is logged and the deletion goes on.
Unlink(r) ==
    /\ At(r, "unlink")
    /\ file' = FALSE \/ ("disk" \in Faults /\ UNCHANGED file)
    /\ Goto(r, "dropChunks")
    /\ UNCHANGED <<committed, chunks, cache, kind, tx, crashes>>

\* So is an error of Qdrant.
DropChunks(r) ==
    /\ At(r, "dropChunks")
    /\ chunks' = {} \/ ("qdrant" \in Faults /\ UNCHANGED chunks)
    /\ Goto(r, "deleteRow")
    /\ UNCHANGED <<committed, file, cache, kind, tx, crashes>>

\* session.delete and its flush; deleting a row that is gone is a warning.
DeleteRow(r) ==
    /\ At(r, "deleteRow")
    /\ ~DeleteWaits(r)
    /\ tx' = [tx EXCEPT ![r].deleted = (row = "live")]
    /\ Goto(r, "commit")
    /\ UNCHANGED <<committed, file, chunks, cache, kind, crashes>>

----------------------------------------------------------------------------
Upload(r) == RejectUpload(r) \/ PersistFile(r) \/ InsertRow(r)
Process(r) ==
    \/ FetchDataSource(r) \/ LookupSchema(r) \/ InsertSchema(r) \/ Refetch(r)
    \/ CheckFile(r) \/ MarkExtracting(r) \/ Extract(r) \/ MapAndEnrich(r)
    \/ MarkFailed(r) \/ RaiseError(r)
Index(r) ==
    \/ IndexFetch(r) \/ ReadFile(r) \/ Embed(r) \/ Upsert(r) \/ SaveMeta(r)
    \/ Unindex(r)
Delete(r) == DeleteFetch(r) \/ Unlink(r) \/ DropChunks(r) \/ DeleteRow(r)
End(r) == Commit(r) \/ CommitFails(r) \/ Reclaim(r)

Step(r) == Upload(r) \/ Process(r) \/ Index(r) \/ Delete(r) \/ End(r)

Next ==
    \/ \E r \in Requests : Step(r) \/ (\E k \in RequestKinds : Start(r, k))
    \/ Crash

Spec == Init /\ [][Next]_vars

\* asyncio resumes every handler, PostgreSQL grants every lock that is
\* released, and abandoned sessions are collected.  Clients and crashes owe
\* nothing.
FairSpec == Spec /\ \A r \in Requests : WF_vars(Step(r))

----------------------------------------------------------------------------
(* Properties.                                                             *)

\* At most one request runs the extraction and LLM phases on the data source:
\* the flush of mark_extracting (or of the new row) is a lock that serialises
\* the background task, POST /process and forced reprocessing.
Running(r) == pc[r] \in {"extract", "llm"}
OnePipeline == \A r, o \in Requests : Running(r) /\ Running(o) => r = o

\* Whatever fails or crashes, a schema that other sessions can see is one
\* that finished: never pending, extracting or failed.
OnlyFinishedIsVisible ==
    schema # NoSchema => schema.status = "completed" /\ schema.ready

\* No schema outlives its data source, though processing and deletion run
\* side by side and both take several statements.
SchemaHasDataSource == schema # NoSchema => row = "live"

\* A request that lost the race for the new row, to the background task or to
\* another click on Process File, finds the winner's finished schema: the
\* IntegrityError handler has something to return unless the data source is
\* gone (HANDBOOK.md:1237).
LostRaceIsRecovered ==
    \A r \in Requests :
        At(r, "refetch") /\ row = "live" => schema.status = "completed"

\* A listed data source lacks its stored file only while a deletion is on its
\* way or after one that removed the file and failed to remove the row.
FileLostOnlyByDelete ==
    row = "live" /\ ~file =>
        \E r \in Requests :
            kind[r] = "delete" /\ pc[r] \in {"dropChunks", "deleteRow", "commit", "failed"}

\* No processing, forced or failed, takes readiness away: only deletion does.
ReadyIsStable == [][schema.ready => schema'.ready \/ row' = "gone"]_vars

\* The code implements ProcessingLease: a request holds the lease while its
\* session has an uncommitted excel_schemas write.
Phase == CASE row = "none" -> "none"
           [] row = "gone" -> "deleted"
           [] OTHER -> IF schema.ready THEN "ready" ELSE "unprocessed"
Holders == {r \in Requests : WritesSchema(r)}
Lease == INSTANCE ProcessingLease WITH phase <- Phase, holders <- Holders
LeaseSpec == Lease!Spec

\* Every request, background task included, comes to an end: the waits for
\* each other's uncommitted rows form no cycle and no lock is kept for ever.
EveryRequestEnds == \A r \in Requests : ~At(r, "idle") ~> pc[r] \in Terminal

\* Claims of the documentation that the code does not keep.

Quiet == \A r \in Requests : pc[r] \in Terminal \cup {"idle"}

\* "Fully delete a data source: file, Qdrant chunks, DB row" once everything
\* has come to rest (data_source.py:259).
DeletedLeavesNoChunks == row = "gone" /\ Quiet => chunks = {}

\* "Both complete before the workbook is marked Ready for queries"
\* (HANDBOOK.md:235): ready means that indexing is done as well.
ReadyMeansIndexed == schema.ready => indexedFlag

\* "Ready if we have either schema or enrichment" (orchestrator.py:191).
ReadyMeansUnderstood == schema.ready => schema.content
============================================================================
