# A verification of the workbook analysis service

TLA+ specifications of the back end of the repository (`src/core`): users upload Excel
workbooks, which are processed and indexed in the background, and then ask questions about
them in conversations; Claude answers with tools, and every number in an answer is audited
before it is shown. TLC checks the specifications on small instances, TLAPS proves theorems
for every instance.

- [The system](#the-system): the parts, their state, how they interact, what is hard
- [The modules](#the-modules): what models what, and how state and actions correspond
- [The runs](#the-runs): what is checked, with which bounds and which fairness
- [The proofs](#the-proofs): what holds for every value of the constants
- [Findings](#findings): where code and documentation disagree
- [Not modelled](#not-modelled) and [the plan](#the-plan)

Paths are relative to `src/core` unless they begin with `src/`.

## The system

One server process (FastAPI, asyncio) over PostgreSQL, Qdrant, the uploads directory and two
remote services, OpenAI (embeddings, schema mapping) and Anthropic (answers). A request owns
one SQLAlchemy session: `get_session` (`database/session.py:161`) commits it when the handler
returns and rolls it back when the handler raises. An upload schedules
`process_in_background`, which goes on in the same process with the session of its request.

### Components

| component | state it keeps | operations | who it talks to |
|---|---|---|---|
| data source service (`services/data_source.py`, `api/v1/routes/data_sources.py`) | rows of `data_sources` with `meta_info`; files in the uploads directory | upload, index, remove from the index, delete; list, get, search | sessions, the knowledge base, workbook processing (background task) |
| workbook processing (`services/excel_agent.py:56`, `models/excel_schema.py`) | rows of `excel_schemas`, one per data source: status and `is_ready_for_queries` | `process_data_source`, forced or not | the orchestrator; called by `POST /process` and by the background task |
| orchestrator and agents (`agents/`) | `_processed_cache` per file, in the process | `process_workbook`: extract, map, enrich | OpenAI |
| knowledge base (`vector/`) | points of a Qdrant collection | chunk, embed, upsert; delete by data source; search | OpenAI, Qdrant |
| sessions (`database/session.py`) | uncommitted writes and row locks | flush, commit, rollback | PostgreSQL, READ COMMITTED |
| questions (`services/excel_agent.py:273`) | rows of `query_history` | `ask_question`; history, suggestions | conversations, coordinator |
| conversations and usage (`services/conversation.py`, `models/conversation.py`) | rows of `conversations` (totals, active entity), `conversation_messages`, `llm_usage` | create, add a message, record usage, delete | sessions |
| coordinator (`rosetta/coordinator.py`) | the locals of a turn | `answer`, `_run_tool_loop` | Anthropic, tools, explainer, auditor, answer cache |
| conversation state (`rosetta/conversation.py`) | `_ANSWER_CACHES` per conversation, in the process; the active entity | load, persist, look up an answer | coordinator |
| formula explainer (`rosetta/specialists/`) | none | prose for a backward trace | Anthropic |
| citation auditor (`rosetta/auditor.py`) | none | verdict on a text, given the log of tool calls and the workbook | coordinator |
| tools, evaluator, graph, analytics (`rosetta/`) | the evaluator's memo | values, traces, goal seek, sensitivity, filters | parsed workbook |
| workbook parser and structural audit (`rosetta/parser.py`, `audit.py`) | none | Excel to cells, formulas, pivots | openpyxl |
| answer presentation (`rosetta/bridge.py`, `pricing.py`, `reasoning.py`) | none | response fields, prices | questions |
| accounts (`services/auth.py`, `api/v1/routes/auth.py`) | rows of `users`; tokens are kept by clients only | log in with Google, refresh, authenticate a request | Google, sessions |
| response cache (`cache/`) | Redis keys, of functions and per tenant | the `cached` decorator, removal by prefix, values of a tenant | Redis |
| repository layer, middleware, configuration, logging | none of the application's | | |
| web client (`src/ui`) | the conversation id | displays, uploads, asks | the API |

### What is hard

- **Requests on one data source interleave.** The background task of an upload, `Process file`,
  forced reprocessing, indexing and deletion may run side by side. Nothing in the
  application locks; what excludes them is when their flushes wait for each other's
  uncommitted rows.
- **A flush is not a commit.** `mark_failed` is flushed and then rolled back by the exception
  that follows it; `mark_extracting` is never visible to anyone; an `IntegrityError` inside a
  handler ends its transaction.
- **State outside the database does not roll back.** The file, the Qdrant points, the
  orchestrator's cache and the answer cache keep what a failed request did.
- **The background task swallows exceptions** and leaves its transaction, with its row locks,
  to the garbage collector. Nothing restarts it after a crash.
- **A turn holds the conversation for minutes.** The question is stored before the model is
  called, and its flush locks the conversation's row until the turn commits. Turns are
  serialised by that lock though the code names no lock; what was loaded before it (totals,
  active entity) is stale behind it.
- **Locks are taken in different orders**: a question takes conversation then schema, the
  cascade of a data source schema then conversation. PostgreSQL fails one of the two.
- **Agents are shared.** One orchestrator with one agent of each kind serves every workbook; its
  enricher counts tokens in a field that each run resets, and enriches sheets side by side.
- **A cache knows nothing of writers.** A value read before a removal may be stored after it.
- **The model may write anything**: no text, numbers nobody computed, tools without end, a
  request for a specialist whose prose is new again.

### What correctness means

| component | properties |
|---|---|
| processing | one pipeline at a time; others see nothing but finished schemas; readiness is taken away by deletion only; the loser of the race for the schema row finds the winner's result; every request ends |
| data sources | no schema without data source; a file is lost to deletions only; a deleted data source leaves nothing behind (violated) |
| coordinator | what is returned as verified passed the audit, wherever the text came from; bounded calls of the model; every question ends; follow-ups keep their context (violated) |
| conversations | the model answers from the current history; a turn's rows outlive it; replies and usage records go together; totals are backed by records and equal them (the latter violated) |
| knowledge base | every vector belongs to its text, whatever batches are refused; a job's chunks appear at once and only once; indexing again replaces them (violated, finding 18); a search finds nothing of others; every job ends |
| worksheet analysis and manifest | each row is in one region and one section; statistics and column analysis agree; each column is in one chunk, with all of its purpose; an analysis can be stored (violated) |
| formulas | cycles are found and depths are right; a trace shows what feeds into a cell |
| what-if tools | what is remembered is what the formulas define, unless an unsupported formula is reported (violated for old values, finding 10); exactly the changed cells are reported; all impacted cells are recomputed (violated) |
| goal seek | the bracket keeps the goal; what a search without an answer has missed is a jump of the function |
| analytics | what several tools tell of one column agrees; a filter and its opposite share out the rows |
| citation auditor | what passes is grounded in results or the workbook; more results never spoil an answer |
| enrichment | one fault of the replies does not empty the record; sheets are filed under their names; tokens are the workbook's own |
| accounts | racing logins of one address get one account; a disabled account stays out; nobody waits for ever |
| response cache | nothing read before a removal is served after it; Redis's failures do not repeat a call's function; tenants stay apart |

## The modules

| module | models | lines |
|---|---|---|
| `ProcessingLease` | abstract: what readers of a data source are promised | |
| `DataSources` | data source service, workbook processing, orchestrator, knowledge base, sessions | `data_source.py`, `data_sources.py`, `excel_agent.py:56-236`, `orchestrator.py`, `knowledge_base.py` |
| `DataSourcesProofs` | theorems about `DataSources` | |
| `VerifiedAnswers` | abstract: what whoever asks is promised | |
| `Coordinator` | one conversation's turns, answer cache, delegation, audit, retry | `coordinator.py`, `conversation.py`, `auditor.py` (its verdict) |
| `Conversations` | the requests that share a conversation | `excel_agent.py:273-496`, `conversation.py` (service and model), the cascades of the migrations |
| `ConversationsProofs` | theorems about `Conversations` | |
| `WorkbookAnalysis` | the analysis of a worksheet and its division into chunks, as operators | `vector/excel_parser.py`, `vector/chunk_generator.py` |
| `Indexing` | jobs on the Qdrant collection, call by call | `vector/knowledge_base.py`, `embedding.py`, `client.py` |
| `SheetReading` | sheets that grow row by row, of any contents, and what is said of them | inputs of `WorkbookAnalysis` |
| `IndexingProofs` | theorems about `Indexing` and `SheetReading` | |
| `Evaluator` | the formula evaluator: memo, evaluation stack, overrides, failures | `rosetta/evaluator.py` |
| `WhatIf` | the tools `what_if` and `scenario_recalc`, over two evaluators | `rosetta/tools.py`, `graph.py:68-86` |
| `Accounts` | logins, refreshes and authenticated requests over the users table | `services/auth.py`, `api/v1/routes/auth.py`, `models/user.py` |
| `AccountsProofs` | theorems about `Accounts` | |
| `ResponseCache` | the decorator, removals and values of tenants over one Redis | `cache/` |
| `ResponseCacheProofs` | theorems about `ResponseCache` | |
| `Enrichment` | the orchestrator's phases, reply by reply, for workbooks side by side | `agents/orchestrator.py`, `semantic_enricher.py`, `mapper.py` |
| `EnrichmentProofs` | theorems about `Enrichment` and `SheetLayouts` | |
| `GoalSeek` | bracketing and bisection of any function | `rosetta/analytics/goal_seek.py` |
| `EvaluatorProofs` | theorems and lemmas about `Evaluator`, of any solution of the formulas | |
| `AnsweringProofs` | theorems about `Coordinator` with its `Auditor`, `WhatIf` and `GoalSeek` | |
| `SheetManifest` | header row, merged and coloured regions, sections and columns of a worksheet, as operators | `agents/extractor.py` |
| `SheetLayouts` | sheets that grow row by row and header by header, of any looks, and what is said of them | inputs of `SheetManifest` |
| `FormulaGraph` | references, edges, cycles and depths of formulas, and the backward trace, as operators | `rosetta/parser.py`, `formula_parser.py`, `audit.py`, `graph.py:21-66` |
| `Auditor` | claims of an answer and how they are matched, as operators | `rosetta/auditor.py` |
| `Analytics` | the table view, its predicates and the tools over it, as operators | `rosetta/analytics/view.py`, `aggregators.py`, `filters.py` |
| `MCDataSources`, `MCConversations`, `MCIndexing`, `MCWorkbook`, `MCWhatIf`, `MCAccounts`, `MCResponseCache`, `MCEnrichment`, `MCGoalSeek` | definitions for TLC | |

`Conversations` and `Coordinator` are two views of one operation. `Coordinator` is a
turn from the inside and takes it that turns of a conversation follow each other;
`Conversations` is a turn from the outside (a number of calls of the model between two writes)
and checks that the history that such a turn works from stays the current one (`HistoryIsCurrent`). `DataSources` and `Conversations` meet in the
deletion of a data source: its file, chunks and schema are in the first, the cascade to
conversations and its lock order in the second (kind `drop`). `Enrichment` takes apart the step
`MapAndEnrich` of `DataSources`, and `Auditor` the verdict `Accepts` of `Coordinator`.

### DataSources

One data source, since data sources share no row, file or chunk. Each request has a program
counter `pc[r]`; the handler it runs is `kind[r]`. `row`, `schema` and `indexedFlag` are
the database as committed, `tx[r]` what the session of `r` has flushed and not committed.
PostgreSQL is the four operators `InsertWaits`, `UpdateWaits`, `MetaWaits` and `DeleteWaits`:
a statement waits for uncommitted writes of the same row, an insert also for one of the same
unique key or for the deletion of its parent.

| action | code |
|---|---|
| `PersistFile`, `InsertRow`, `RejectUpload` | `create_data_source`, before and after the file is written |
| `Commit`, `CommitFails`, `Raise`, `Reclaim` | how `get_session` and `process_in_background` end; `Reclaim` is the collection of a session left open |
| `Continue` | what follows a handler: nothing, the background task, or its indexing half |
| `FetchDataSource` ... `RaiseError` | `process_data_source`, one action per statement that another session can see or disturb |
| `Extract`, `MapAndEnrich` | `process_workbook`: phase A, then phases B and C with their failures |
| `IndexFetch` ... `SaveMeta`, `Unindex` | indexing and `DELETE /index` |
| `DeleteFetch` ... `DeleteRow` | `delete_data_source`, which goes on when disk or Qdrant fail |
| `Crash` | the process dies: sessions, requests and the orchestrator's cache are gone |

A failure of a service is a disjunct enabled by `Faults`; outcomes that need no fault (a
workbook that cannot be read, one that yields no chunk) are always possible.

### Coordinator

A text is a record: does it say anything (`kind`), can every claim in it be verified
(`grounded`), what does it cite first. The model and the specialist choose any of them. The actions follow
`answer()` from top to bottom: `CacheHit`, `NoApiKey`, `CacheMiss`; `ToolUse`, `EndTurn`,
`CallFails` in the loop; `Delegate`; `NoVerdict`, `AuditPasses`, `AuditRetry`,
`AuditGivesUp`; `Passed`, `Unknown`. `Accepts` is the auditor's verdict: it rejects claims,
so a text without claims passes. `context` in entries and answers, and `calls`, are history (the latter
saturates above the bound, so that it neither blocks a step nor hides that the bound was passed).

### Conversations

Rows of messages and usage records are tagged with their request; those of a request that is
not `done` are uncommitted. `locks[r]` are the row locks of its transaction, `Wanted` what the
statement of a step has to lock. `seen[r]` is what the session loaded of the totals and keeps
(identity map). `cost` counts tokens as the coordinator does, `spent` as Anthropic does.
SQLAlchemy sends the update of the conversation before the insert of a message, in
dependency order, so the message's `created_at` is taken under the row lock and messages are
ordered as they were flushed; what the properties tell apart is which are there, so `log` and `history`
are sets. `Recorded` counts the tokens of the usage records as pairs of a record and a number.

### WorkbookAnalysis and Indexing

`WorkbookAnalysis` has no state. A cell is two classes of values, since the parser reads the
workbook twice: `raw` (a constant, a formula, a formula with SUM in it) and `value` (what is
cached). Classes are as coarse as the parser's tests: whole numbers apart from fractions because
pandas makes int64 of the first, zero and false because Python holds them for false. Operators are named after the
methods: `AnalyzeColumn`, `DetectDataRegions`, `SummaryStatistics`, `HasPatterns`,
`SheetChunks`, `WorkbookChunks`. `SheetReading` grows sheets row by row, and states what is true of each. The chunks
of columns come in the order of the first column of each purpose (the order of the dictionary in `_create_column_chunks`); the k-th of these columns is
named by how many of them are up to it, so that it can be reasoned about without sorting.

`Indexing` takes apart what `DataSources` has as the steps `Embed`, `Upsert` and `Unindex`, and
adds search and server starts. A job is an operation with its locals and a program counter;
a step of a job runs up to its next await. A data source is indexed by any number of jobs, one after
the other or at once: by the background task of the upload and as often as `POST /{id}/index` ("to re-index") asks for it. A call that
times out, loses its connection or is ended with the process fails its job, and leaves a command (`lost`) which Qdrant may
carry out all the same, at once or after anything else. `Initialized` is extraction (`WorkbookChunks` for a
workbook); the vector of a text is the text, so a vector that belongs to another chunk is seen.

| action | code |
|---|---|
| `ListCollections`, `CreateCollection` | `ensure_collection`, which checks and then creates, and the extraction that follows |
| `EmbedBatch` | one batch of `embed_texts`; refused, it becomes empty embeddings |
| `Upsert` | `_upload_chunks` of what has an embedding |
| `EmbedQuery`, `Query` | `search` |
| `Count`, `RemovePoints` | `delete_data_source` |
| `QdrantFails`, `Restart` | a call fails; the process ends |
| `QdrantIsLate` | the command of a job that failed is carried out |

### Evaluator and WhatIf

`Evaluator` is `value_of` with Python's call stack made explicit. Formulas are a parameter:
`Formula(p, values)` tells what the formula `p` does once the cells that it has read had these values
(reads another cell, has a value, raises). This covers every function of the evaluator,
lookups that choose what they read included, and every failure of the tokenizer and the
parser. `ev` is a record, so that `WhatIf` can have two of them.

| action | code |
|---|---|
| `Overridden`, `Memoized`, `Missing`, `Constant`, `Circular` | the early returns of `value_of`, in order |
| `Enter`, `Read`, `Finish`, `Fail` | the call of `_eval_formula`, its calls of `value_of`, its return, its exception |
| `TooDeep` | RecursionError, which the `except` of the innermost formula catches |

`WhatIf` is one call of a tool: `NextOrigin`, `Expand`, `Searched` are `forward_impacted` from each
overridden cell; `Compare`, `ScenarioStep`, `AskBase`, `BaseStep`, `Compared` the loop over what it
found, with `_resolved_value` for the old value. What it reports is compared with a *solution* of the workbook, a
parameter: `Solves(book, given, s)` says that `s.exact` satisfies the equations of the formulas of `s.part`, which is
closed under reading, and that `s.rank` falls along every read. `SolutionAssumption` says that `Solution` gives one for each
workbook and scenario; `MCWhatIf` computes it by recursion (`SmallSolution`), and TLC evaluates the assumption.

### Accounts

A login is a chain of statements, `FindByGoogleId`, `FindByEmail`, `CheckAgain`, `InsertUser`,
`UpdateLastLogin`, and other requests come between any two. `users` is the table as committed,
`draft[r]` what a request has flushed; `Clash` are the unique indexes, for which a `Flush`
waits and is then refused. `Refresh` and `GetCurrentUser` look the account up again, since a
token is kept by nobody. `Disable` is an administrator's update; `barred[r]` is history, the
accounts that were disabled when `r` began. `Commit` and `Abort` are how the session ends.

### ResponseCache

A task is a call of a decorated function (`BeginCall`, `Get`, `Read`, `Run`, `Set`, and `RunUncached` without
the cache or after an exception), a removal by prefix (`BeginRemove`, `DeleteNext`, `FinishRemove`, `FailRemove`) or an
operation on a value of a tenant. A step is one command of Redis. The
function is awaited, so its reading (`Read`) and its return (`Run`, `RunUncached`) are two steps, and writes and whole removals come between; a `Set`
that timed out may be carried out later (`RedisIsLate`). `Write` changes what functions
read, which makes a new version; `Expire` drops an entry. Keys are built as `custom_key_maker.py` does, from parts
that are told apart.

### Enrichment

A job is a call of `process_data_source`. The three agents are shared by all jobs, as is `total`, the
field of the enricher in which tokens are counted; `Begin` extracts or finds the workbook in the orchestrator's cache, `Map` is the
reply to the mapper, `EnrichSheet` a reply for any sheet that still waits, `Summarize` the reply on the
workbook. Every reply may be none, unusable, with questions, with an empty list of them (or no such field, for which the code puts `[]`), with null
for the list, or for a sheet of another name. `spent`, `crossed` and `spoilt`, which counts what is amiss, are history.

### GoalSeek

The target is any function of the input: `asked` holds what it has answered so far, and a new point
may get any answer, as may one that is not a number. Outputs are distances from the goal, inputs integers, so that neighbours
exist as they do for floats. `Baseline`, `GivenBounds`, `AutoBracket`, `Grow` and `Verify` lead to `Bisect`; `GiveUp` is
the best estimate. Its names (`SeekSpec`, `stage`) are those of no other module, so that `AnsweringProofs` can extend it and the others together, as it can `WhatIf` (`ToolSpec`).

### SheetManifest, FormulaGraph, Auditor, Analytics

These have no state: each is a translation of pure functions, with the property that relates
several of them at its end; `MCWorkbook` grows their inputs step by step.

- `SheetManifest`: a cell is a class of values and a colour. `Headers` are the merged ranges in
  row order (`InOrder`: the k-th has k up to it, with the order of openpyxl for those of one row), so that they can be reasoned about
  without sorting; `SheetLayouts` grows sheets and states what is true of each; `DetectSections` goes by headers, or else by colours; `HeaderRow` and `SampleData` are what
  the mapper gets.
- `FormulaGraph`: a book is cells in reading order with the references of each. `Parse` expands ranges
  and names to edges; `Search` is the recursive search for cycles with its colours and its stack, written as a
  fold, `Depth` the recursion with its memo, `Trace` the recursion of `backward_trace`.
- `Auditor`: an answer is a sequence of tokens. `NumbersOf`, `RefsOf`, `Sentences` and
  `Asserted` are the claims; `NumberVerified`, `RefMatches` and `Categories` how they are matched;
  `Passes` is the verdict. Numbers are integers, `Unit` of which make one. Upper and lower case are not told apart, and digits
  within names are not read.
- `Analytics`: a table is columns, labels and the values below. `ResolveColumn`, `Filter` and
  `ValueMatches` are the view; each tool is an operator of its name on what `Using` found. Fractions are exact, where the code
  rounds as floats do; the standard deviation and the limits of how many values or groups are listed are left out.

During development `Auditor` was compared with the Python auditor on 24,696 answers and `Analytics` with the
Python tools on 900 random tables; they agreed on all.

## The runs

| run | shows | bounds |
|---|---|---|
| `lifecycle` | the safety of processing, indexing and deletion, and that `DataSources` implements `ProcessingLease` | 3 requests, all faults, 1 crash |
| `lifecycle_live` | every request on a data source ends | 2 requests, all faults, 1 crash |
| `lifecycle_delete` | **violated**: a deletion leaves no chunks | 2 requests, no fault |
| `coordinator` | only audited answers pass, bounded calls, every question ends, and `Coordinator` implements `VerifiedAnswers` | 2 questions, 1 entity, 2 tool turns, 1 retry |
| `conversations` | current histories, replies recorded, totals backed, and every request ends though deadlocks occur | 3 requests, 2 calls a turn |
| `indexing` | vectors and texts, separation of users, chunks at once and only once, every job ends | 2 jobs, 2 users, 2 data sources, batches of 2, 4 files |
| `workbook` | regions, statistics and chunks of columns, sections, cycles, depths, traces, audits and table tools on every small input | sheets of 5 kinds of cells up to 2 by 3 and 3 by 2, with an empty row above or none; layouts of 3 rows and 2 headers; books of 3 cells and 4 references; answers of 3 tokens, 2 books, results of one call or none; tables of 2 columns and 3 rows |
| `what_if` | the evaluator's memory and the reported changes | 5 cells, 146 workbooks (73, with stored values and without), 3 scenarios, given targets and all impacted |
| `accounts` | one account per address, disabled accounts, every request ends | 3 requests, 2 Google accounts of one address, with an account from before or without |
| `cache` | freshness after removal, no work repeated, tenants apart | 3 tasks, 2 functions of one prefix, 2 tenants, 1 user, 1 change |
| `enrichment` | one fault of the replies, names of sheets, tokens | 2 jobs, a file of two sheets and one of one |
| `goal_seek` | the goal stays in the bracket; what is missed is a jump | bounds up to 7 apart, 2 extensions, 3 halvings, 4 outputs |

**The properties of passing runs.** `OnePipeline`: mutual exclusion of extraction and LLM
phases, by the flush of `mark_extracting`. `OnlyFinishedIsVisible`, `ReadyIsStable`: what
others can see survives failures, rollbacks and crashes at any statement.
`FileLostOnlyByDelete`: disk and database agree while deletion runs.
`LostRaceIsRecovered`: the `IntegrityError` handler has something to return. `LeaseSpec`,
`TurnSpec`: refinements. `PassedIsVerified`: no path, cached, delegated or retried, returns an
unaudited text as verified. `HistoryIsCurrent`,
`TurnsKeepTheirRows`: consequences of the row lock that the question's flush takes;
`RepliesAreRecorded`, `TotalIsBacked`: several flushes behave as one write.
`EveryRequestEnds`, `EveryQuestionEnds`, `EveryJobEnds`: nothing waits or runs for ever.
`VectorsAreOfTheirText`, `IndexedAtOnce`: embeddings, which are given to
texts by position, stay with them when batches are refused; all of a job's chunks appear at once and at most once, as many as it reports, or, when
a failed request was carried out, unreported. Two jobs do double the chunks of a data source, which the property allows: it says that nothing else does. `SearchStaysWithin`: the filter is
what keeps users apart. `Regions`, `ColumnsAgree`, `Sections`: analyses that are made
separately fit together. `GraphSummary`, `Traces`: recursive searches with colours, memos and depth limits against
reachability. `ClaimsAreGrounded`: matching with all its tolerances against a direct reading of the
answer, sentence by sentence; and no further result of a tool spoils an answer. `AnswersAgree`: filters, groups, bins, ranks, scenarios and lookups of
one column, found on separate ways. `StaleIsReported`: with the overrides, a stored value is taken for a computed one only in
a cycle or where the output tells of a formula that failed; without them, it need not tell (finding 10), so that the property lets an old value be
stale where such a formula failed. Cells on cycles and their readers are exempt, since their formulas define no value. `ChangesAreExact`: against a solution of the
formulas' equations and the paths between cells, neither of which the code computes. `OneAccountPerAddress`, `DisabledStayOut`: check-then-insert and tokens without a record, held together by unique indexes and fresh lookups.
`FreshAfterRemoval`: nothing read before a removal is served after it, except what the code lets through: a call that was anywhere between its
function's reading and the end of its store (late commands of Redis included) when the removal began may store an older value at any time after.
`WorkDoneOnce`: a call's function returns at most once, as the handlers of Redis's failures do not repeat it. (A function that raises is
started a second time, finding 14.) `TenantsApart`: keys of tenants and users do not meet, and tell
whose they are. `OneFaultIsCovered`, `SheetsUnderTheirNames`, `TokensAreTheirOwn`: results by position, names chosen by
the language model, and a shared counter. `GoalStaysInside`, `OnlyJumpsAreMissed`: the invariant of bisection, and what it means for the answer.
Each of them is broken by a plausible change of one definition; the changed definition
stands before the original, with a comment that begins with "Mutant". `TypeOK` is stated in each module with state; TLC finds it
invariant on the instances, and it is proved where a theorem says so.

Some properties name the code's exceptions instead of hiding them: a column of letters as a label (`LabelsAreNoLetters`), a sheet with two
headers in one row (`SharedRows`), a goal met at the low end (`LowEndHits`). Each is a finding below.

**Why the bounds are enough.** Two requests can race; the third is the upload (or the question
that creates the conversation), or a bystander that sees what the two do. No
property speaks of more than two requests and another one. One crash covers a crash at every
statement; after it, clients start requests on what it left. Two tool turns and one retry (the code's number)
distinguish the first, the last and an intermediate call. Two indexers race to create the collection; batches of 2 cut the five and six
chunks of the small workbook into a full, an intermediate and a partial one. Sheets of 3 rows have a first, a middle and a
last row, and 3 columns have two of one purpose with another between them. The small workbooks
have cycles, chains, a diamond, a lookup that chooses what it reads, a formula the evaluator cannot evaluate, a missing cell and a range without edges; the depth limits are 2
edges (code: 12) and 3 formulas (code: Python's stack), which one chain of four exceeds. Three requests of `Accounts` are two
that race and one that uses what came of them, or an administrator's victim; two tasks of the cache race while a third has removed. A book of three cells has self-references, cycles of two and three that
share a cell, and chains longer than the trace is deep; three tokens are a claim, its negation and another claim. Bounds seven apart are narrowed to neighbours in three halvings, or not.
Requests of `DataSources` are
symmetric (safety run only; no symmetry where liveness is checked). `CHECK_DEADLOCK` is off
where all requests may be done: then the system stops, as it should.

**Fairness.** Weak fairness of each request's `Step`: asyncio resumes every handler, a
remote call answers or fails (both clients have timeouts), PostgreSQL grants a lock that is
released and resolves deadlocks (`deadlock_timeout`), and abandoned sessions are collected.
Weak fairness suffices for the waits: a blocked statement stays enabled once the rows it waits
for are free, or the rows are taken by another request that ends itself, and requests are
finitely many. `Coordinator` has weak fairness of `Answering`, `Indexing` of each job's `Run` and `Accounts` of each request's `Step`. That a failed command is carried out after all, administrators, clients, crashes,
restarts, broken connections and the passing of the cache's lifetime are never assumed.

That the tools of `WhatIf` end is not checked as a property: the code guards its search and its evaluator twice each (cells seen and a depth
limit; a set of cells under evaluation and Python's stack), so that no single fault would show.

## The proofs

`DataSourcesProofs` proves for every set of requests, every set of faults and any number of
crashes (assuming only `FaultsAssumption` and `CrashAssumption`, which TLC evaluates):

| theorem | says |
|---|---|
| `Invariance` | `IInv`, below, holds throughout |
| `TypeCorrect` | `TypeOK` |
| `MutualExclusion` | `OnePipeline` |
| `VisibleSchemas` | `OnlyFinishedIsVisible` |
| `RaceRecovery` | `LostRaceIsRecovered` |
| `StoredFile` | `FileLostOnlyByDelete` |
| `Stability` | `ReadyIsStable` |
| `ImplementsLease` | `DataSources` refines `ProcessingLease` |

The safety properties are not inductive: that two requests do not both run the pipeline
depends on who has written the schema row, which depends on whose flushes waited.
`IInv` adds what the code relies on without saying so:

- `LockInv`: two sessions never hold uncommitted writes of the schema row, and none of them
  beside an uncommitted deletion of its parent;
- `SessionInv`: what a session has written fits its place in the handler (one that runs
  the pipeline has the schema row as `extracting`, one that has written nothing is before its
  first flush, ...);
- `UploadInv`: while an upload runs to its first commit, nobody else does, since no client knows
  the id;
- `DeleteInv`: a deletion takes its steps in order, and one about to commit has deleted the row or
  found it gone.

One lemma per action shows that it preserves `IInv`; `NextInv` collects them, and each
theorem reads its property off `IInv`. TLC checked `IInv` on the instance of `lifecycle`
before it was proved. The refinement maps each step to one of the lease or to a stutter, with
`holders` the sessions that have an uncommitted schema row.

`AnsweringProofs` proves of `Coordinator`, for any questions, any cells, any number of tool turns (at least one)
and of audit retries (`EntityAssumption`, `BoundAssumption`):

| theorem | says |
|---|---|
| `Invariance` | `IInv` of `AnsweringProofs` holds throughout |
| `TypeCorrect` | `TypeOK` |
| `OnlyVerifiedPasses` | `PassedIsVerified` |
| `ImplementsVerifiedAnswers` | `Coordinator` refines `VerifiedAnswers` |

Its invariant adds that a text about to be returned was accepted (`AuditInv`), that so was
every fresh entry of the cache (`CacheInv`), and that each attempt has its own budget of calls
(`CallInv`), from which the bound of a turn, (retries + 1) times the tool turns, follows by the
lemmas on `Budget`; so the counter of calls never saturates.

`EvaluatorProofs` proves of `Evaluator`, for all workbooks, overrides, formulas and values, with `Typed` (values are
values, formulas read cells, the stack holds an evaluation):

| theorem | says |
|---|---|
| `NothingWithinItself` | `NoRepeats`: no cell is evaluated within its own evaluation, cyclic workbooks included |
| `RememberedValuesAreRight` | `RightUnlessReported`: what is remembered of an acyclic part is what its formulas define, as long as nothing of the part is noted as unsupported |

The second is about any solution of the workbook (`Given(s)`: `Typed` and `Solves`). The
invariant has to speak of the evaluations under way: each has read exact values only (`Runs`), waits for
the next one on the stack (`Waits`), and ranks fall up the stack (`Falls`); so no formula of the part meets itself, and
the stored value that `Circular` returns is never taken for one of the part. The lemmas take the solution as a
parameter, so that `AnsweringProofs` can cite them of the two evaluators of a tool (`S` and `B`); `AskedFor` says for which
cell an evaluator is at work, and that its answer is for that cell.

`AnsweringProofs` proves of `WhatIf`, for all workbooks, formulas, scenarios, targets and limits (`InputAssumption`,
`SolutionAssumption`, `MaxDepthAssumption`, `DepthAssumption`, which TLC evaluates), with `WellTypedInputs`, the same of every input
as `Typed` (a hypothesis of the theorems and not an assumption of the module, since it speaks of all sequences of values):

| theorem | says |
|---|---|
| `ToolTypeCorrect` | `ToolTypeOK` |
| `NothingStaleUnreported` | `StaleIsReported` |
| `ReportedChangesAreExact` | `ChangesAreExact` |

The last rests on three arguments. The *search* (`SearchInv`, `Frontier`): what is queued is seen, at the distance that it is queued with and no
less; distances in the queue differ by one at most, the least first; and what was taken from it has had its children
seen. So all that is nearer than the head has been seen (`LayersAreSeen`, from the last edge before which a path is inside the
cells seen, `PathLeaves`), a cell is first met at its least distance, and when the queue is empty nothing within the limit is left out (`FrontierEnds`);
`found` is then the union over the origins taken (`FoundSoFar`). The *evaluators*: the invariant of `EvaluatorProofs`, of each, with its own
overrides. The *comparison* (`CompareInv`): no evaluator is at work but for the cell that is compared, so an answer left by one is
for that cell (`ComparedIsExact`), and what has been reported is right of the cells compared so far; and, whatever failed, each reported change is right in
its new value if nothing failed with the overrides, and in its old one if nothing failed without (`RightChanges`), which with the evaluators' invariants is `NothingStaleUnreported`. All three were checked by TLC on the instance of
`what_if` before they were proved. A cell that meets its own depth limit (finding 13 is about `backward_trace`, which searches in depth) cannot spoil a search in breadth.

`AccountsProofs` proves for any requests, Google accounts, addresses and earlier accounts
(`IdentityAssumption`, `NoneAssumption`):

| theorem | says |
|---|---|
| `AccountsTypeCorrect` | `TypeOK` |
| `LoginsShareTheAccount` | `OneAccountPerAddress` |
| `DisabledAccountsStayOut` | `DisabledStayOut` |

What a login knows when it writes was read statements before. The invariant says why it still holds:
committed rows are apart (`RowsApart`), what is flushed is apart from them and from each
other, because a flush waits for those it clashes with (`DraftsApart`), and no write changes an address or
takes `is_active` back (`Located`, `StillBarred`).

`AnsweringProofs` proves of `GoalSeek`, for every function, bounds, tolerance and limit:

| theorem | says |
|---|---|
| `BracketKeepsTheGoal` | `GoalStaysInside` |
| `EstimatesMissJumps` | `OnlyJumpsAreMissed` |

The invariant of the first adds what the search has asked about the points it holds (`Learnt`). The second is
about arithmetic: after i iterations the bracket is at most 2 ^ (MaxIter - i) wide (`Narrows`), and since the
prover knows nothing of powers, `PowerDoubles` gets 2 ^ (n + 1) from the number of subsets of an interval.

`ConversationsProofs` proves for any requests and any number of calls of the model (`CallsAssumption`):

| theorem | says |
|---|---|
| `TypeCorrect` | `TypeOK` |
| `AnswersFromTheConversation` | `HistoryIsCurrent` |
| `TurnsAreNotUprooted` | `TurnsKeepTheirRows` |
| `RepliesMeanRecords` | `RepliesAreRecorded` |
| `TotalNeverAhead` | `TotalIsBacked` |

The code takes no lock on purpose; it is safe because of the row locks that its statements take. So the invariant
first says which of them a handler has at each step (`Held`), that nobody shares one (`Exclusive`) and that only one
request creates the conversation (`CreatedOnce`). From these follows that a turn is alone with its
conversation from its first flush to its commit (`TurnsAreAlone`). On that rest in turn the rows (`Parented`,
`TurnsKeepTheirRows`), the messages and usage records (`RowsFit`, `HistoryIsCurrent`) and the totals: what a session read
of the total is covered by committed records (`Backed`), and its own record is there before it commits. The total is
bounded, not equal: `TotalsMatchUsage` does not hold (finding 6).

`ResponseCacheProofs` proves for any tasks, functions, tenants and users and any number of changes of the data
(the assumptions of the module: the words that keys begin with are single ones other than "tenant", identifiers are
not such words):

| theorem | says |
|---|---|
| `TypeCorrect` | `TypeOK` |
| `CallsWorkOnce` | `WorkDoneOnce` |
| `RemovalsRefresh` | `FreshAfterRemoval` |
| `TenantsStayApart` | `TenantsApart` |

A removal deletes key by key while calls go on storing. The invariant therefore speaks of each removal under way
(`RemovalsSweep`): a key of its prefix is still on its list or holds nothing older than the removal, and nothing older
is about to be stored by a call that has read (`Holds`: from its reading to the end of its store, a late command included); at its end this becomes a floor under what is stored and held (`StoredIsFresh`,
`HeldIsFresh`, `FloorsRise`). For the tenants, the keys of different tenants or users differ (from the shape of keys
as sequences of parts), so a key keeps what was stored for its own scope (`ScopesAreApart`).

`EnrichmentProofs` proves for any jobs, any workbooks with any number of sheets, each listed once
(`SheetsAssumption`, `NoneAssumption`):

| theorem | says |
|---|---|
| `TypeCorrect` | `TypeOK` |
| `OneFaultLeavesQuestions` | `OneFaultIsCovered` |
| `SheetsAreNamed` | `SheetsUnderTheirNames` |
| `AloneTokensAreOwn` | `TokensAreTheirOwn` |
| `SectionsAreParted` | `Sections`, of sheets of any size, with any merged ranges and colours |

The invariant keeps books of what went wrong (`Spoiling`): a schema that lists nothing and each bad sheet have a
fault of their own, so with one fault and two sheets one sheet is good, and its questions are recorded, or
those of a sheet that took its name, which lists some too: a sheet that takes another's name and lists nothing has two faults (`Doubly`), and does empty the
record of two sheets. Among several enrichments of one name the last is
kept; that there is a last one for a list of any length (`LastPlace`, which the paths of `AnsweringProofs` need as well) is the one induction over data here: the sets of
places from i on are well-founded under inclusion (`FS_StrictSubsetOrderingWellFounded` and `WFMin`). `Counting` says that the shared count is that
of the workbook that is enriched alone. What is about one job is one predicate, `JobInv`, which
steps of others leave alone (`SameIsKept`).

`SectionsAreParted` needs no assumption. Sections by headers and sections by colours are both cuts (`IsCut`): tops in order, each with a
bottom above the next top. That headers are a list in which nothing is before what it comes after is `InOrderListsAll`, for any finite set in any order: a
member is numbered by how many are up to it, and an injection between sets of one size is onto. A row belongs to the last top above it
(`EachRowIsInOne`), and what is left of a section is an interval (`LeftIsBelow`). That no header stands beside another is what keeps the last row from
growing as headers are read (`RowsAfter`).

`IndexingProofs` proves for any jobs, users, data sources, files, batch size and limit
under `IndexingAssumption` and `ExtractionAssumption` (what is extracted from a file is a list; TLC evaluates both with
the run `indexing`):

| theorem | says |
|---|---|
| `TextsKeepTheirVectors` | `VectorsAreOfTheirText` |
| `SearchesStayWithin` | `SearchStaysWithin` |
| `ChunksComeAtOnce` | `IndexedAtOnce` |
| `RowsAreParted` | `Regions`, of sheets of any size, contents and first row |
| `ColumnsAreSaidAlike` | `ColumnsAgree`, of the same |

`_upload_chunks` pairs texts and vectors by position, so the invariant is their alignment while batches come and are
refused (`Aligned`): there are as many vectors as texts sent, each that of the text at its place or empty. An indexer
works for the owner of its data source and a search has found only points of its user (`Within`); points carry the owner, and their names
are those of jobs that have stored theirs (`PointsFit`). That a job's names are never used twice is why an upsert, or a failed one carried out later,
adds points once, and as many as it reports: the names are a bijection from the places with a vector.

The last two need `SheetAssumption`, which says only what cells, sizes and places are (TLC evaluates it with the run `workbook`), and hold of every sheet whose rows have
one width (`IsSheet`, which is inductive). For `RowsAreParted`, the totals row and the end of the data region are decided by one condition, and the header
region ends above the second row (`RegionsOfASheet`). For `ColumnsAreSaidAlike`, a column in which all is numbers has as many of that type as cells, more than
of any other (`NumbersDecide`); and the columns that are first of their purpose are numbered without a gap (`PlacesAreAll`, an injection between finite
sets of one size), each purpose has a first column (`FirstOfColumns`), and no chunk before or behind those of columns is of their type (`ChunksOfASheet`).

Three theorems of `AnsweringProofs` are about the verdict that `Coordinator` has as `Accepts`, for any answer, results and workbook:

| theorem | says |
|---|---|
| `MoreResultsOnlyHelp` | `EvidenceOnlyHelps`: passing is monotone in the results of tools, from the monotony of each universe and each match |
| `NoFabricatedNumbers` | `NumbersAreWitnessed`: the tolerances of the auditor never add up to more than a thousand or half a percent |
| `CitedSheetsAreKnown` | `SheetsAreKnown`: the sheet of a cited cell is known, and its name ends what is written before the cell |

`NumbersAreWitnessed` and `SheetsAreKnown` are two of the three parts of `ClaimsAreGrounded`; they suppose that numbers are numbers and words are words
(`IsSaid`), and the first a positive `Unit`. For the first, rounding to a thousand is off by half of one (`RoundedIsNear`), and taking magnitudes brings
numbers no further apart. For the second, of the suffixes that are sheets there is a longest. The third part, `QualitiesAreFound`, is about
sentences, which are made by folds (`SplitAtBreaks`), and is only model-checked.

**Only model-checked**: liveness (out of the prover's reach, with ENABLED); the properties of `FormulaGraph` and `Analytics` and `QualitiesAreFound` (sorting, folds and
recursions over data, for which the library's induction theorems cannot be instantiated); that a workbook has a solution (the assumption that TLC
evaluates, for `SmallSolution`) and the violation.

## Findings

1. `DeletedLeavesNoChunks` (`services/data_source.py:287`): a deletion between an indexer's
   reading of the file and its upsert leaves the chunks in Qdrant for good.
2. `ReadyMeansIndexed` (`api/v1/routes/data_sources.py:160`): readiness is committed before
   indexing starts, and `POST /process` never indexes; the handbook says both complete first.
3. `ReadyMeansUnderstood` (`models/excel_schema.py:154`): `mark_completed` sets readiness whatever
   the orchestrator found; the flag it computes is not read.
4. `FollowUpsUseContext` (`rosetta/coordinator.py:235`): the answer cache's key is the question's
   text, so a follow-up repeated after the active entity changed gets the older entity's answer.
5. `PassedSaysSomething` (`rosetta/coordinator.py:335`): a reply without text passes the audit for want of
   claims, is labelled verified and cached.
6. `TotalsMatchUsage` (`models/conversation.py:121`): totals are read before the row lock and
   written after it: of two concurrent turns one is lost.
7. `EveryCallRecorded` (`services/excel_agent.py:474`): a turn that raises after calls of the
   model records no usage; the explainer's tokens are never counted.
8. `AnalysisIsSerializable` (`vector/excel_parser.py:717`): the sum of a gapless column of whole numbers is a
   numpy int64, the deviation of a single number NaN, and two numeric columns of one name give a Series; the flush
   of the analysis fails after the chunks were written.
9. `AllImpactedAreRecomputed` (`rosetta/graph.py:73`): cells more than 12 edges away, or fed through
   whole-column ranges or ranges of more than 5000 cells, are not recomputed.
10. `rosetta/evaluator.py:65`: a formula that cannot be evaluated is worth what is stored, where the handbook
   and the module's docstring say None. Of those that failed without the overrides, which old values come from, the output says nothing
   (`rosetta/tools.py:856`, 1458), where the docstring (18) says they are reported.

11. `rosetta/analytics/goal_seek.py:127`: a goal met exactly at the low end of the bracket is lost, and what is
   returned is called solved; the best estimate (143) leaves out the ends of the bracket, and the warning of the docstring is given nowhere.
12. `agents/extractor.py:386`: two merged headers in one row give a section that ends before it begins.
13. `rosetta/graph.py:48`: a cell expanded just above the depth limit is not expanded again where it is nearer.
14. `cache/custom_key_maker.py:27`: the decorator's key has neither arguments nor tenant. `cache/tenant_cache.py:269`: with
   Redis, invalidation of a tenant or a user removes nothing. `cache/cache_manager.py:67`: an exception of the
   function is taken for one of the cache, and the function runs again. `dependencies/cache.py:22` returns the `Depends` marker.
15. `agents/semantic_enricher.py:587`: a reply without usage metadata is lost.
16. `rosetta/auditor.py:33`: the row of a reference, from its second digit on, is read as a number of its own, so that correct references to rows from 10 on may be
   rejected. 388: any number up to 500 passes once a small number was found. 107: sentences end at the `!` of references.
17. `rosetta/analytics/view.py:214`: letters of a found column are looked up among the labels again; 311: `in` does not coerce.
   `aggregators.py:30`: `count` counts numbers, not rows.
18. `vector/knowledge_base.py:576`: chunk ids are fresh and nothing is removed first, so indexing again, which
   `api/v1/routes/data_sources.py:298` offers, doubles the chunks; so does a request that timed out, was carried out and is made again.
19. `services/excel_agent.py:156`: an enrichment without questions (`semantic_enricher.py:778`) hides those of the schema, "still useful as
   fallback" (`orchestrator.py:165`).

1 has a run. 2 to 7 and 9 are stated as properties that do not hold, in `DataSources`, `Coordinator`, `Conversations` and
`WhatIf`, and TLC finds each violated when it is put in the place of the invariants of
`lifecycle_delete` (3 also with `Faults <- AllFaults`, since OpenAI has to fail), `coordinator` (4 with two entities),
`conversations` or `what_if`. The others are parts of the models (the exceptions that properties name) or were met while translating.

## Not modelled

Every part is listed in `PROJECT.json`. Left out on purpose: pivot tables, labels and the wording of audit findings (text processing
without control), presentation and pricing (pure mappings), sensitivity, statistics, time series, data quality
and SQL tools (pure functions of floats or of DuckDB), registration and login by password (no route reaches them), logging, configuration, middleware, the repository layer (the services
do not use it) and the web client. Within the modelled parts: the content of prompts, chunks and
answers, similarity scores, titles, `file_upload_usage`, memory use of
`_ANSWER_CACHES`, the `QueryHistory` rows themselves (their lock is modelled), the SHORT block of an answer (which is not audited).
Conversations of two data sources are not in one model: nothing stops a question from naming a conversation about another workbook.

## The plan

Done: everything in the table of modules. What would come next, in this order:

1. A conversation with two data sources, with the answer cache of `Coordinator`.
2. The remaining tools of `rosetta/tools.py` as operators over `FormulaGraph`.

Recursive reference definitions stay in modules without theorems.
