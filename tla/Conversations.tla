--------------------------- MODULE Conversations ---------------------------
(***************************************************************************)
(* The requests that share one conversation: questions, each a turn with   *)
(* calls of the model between two writes, deletions of the conversation    *)
(* and of its data source.  Every request owns one SQLAlchemy session.     *)
(*                                                                         *)
(* Rows are added when they are flushed and tagged with their request: the *)
(* rows of a request that is not "done" are hidden from the others (READ   *)
(* COMMITTED) and go if it is rolled back.  Messages keep the order of     *)
(* their inserts (created_at), which no property is about: log is a set.   *)
(* locks[r] are the row locks the transaction of r holds until its end.    *)
(***************************************************************************)
EXTENDS Naturals, FiniteSets

CONSTANTS
    Requests,   \* HTTP requests
    MaxCalls    \* bound: calls of the model in a turn, a token each

ASSUME CallsAssumption == MaxCalls \in Nat

VARIABLES
    source,    \* is the data_sources row there, with its excel_schemas row
    row,       \* the conversations row, as committed
    total,     \* its total_input_tokens + total_output_tokens, as committed
    log,       \* conversation_messages rows
    usage,     \* llm_usage rows
    kind,      \* which handler runs the request
    pc,        \* where the handler is
    locks,     \* row locks held by its transaction
    seen,      \* the total its session read when it loaded the conversation
    history,   \* state.messages, given to the model
    cost,      \* tokens of the turn: turn_input_tokens + turn_output_tokens
    spent      \* tokens that were really used for the request (history)

database == <<source, row, total>>
vars == <<database, log, usage, kind, pc, locks, seen, history, cost, spent>>

----------------------------------------------------------------------------
Locks == {"source", "schema", "conversation", "messages"}
Roles == {"user", "assistant"}
Message == [by : Requests, role : Roles]
UsageRow == [by : Requests, tokens : Nat]

\* first: a question without a conversation_id, which creates one.
\* drop: the deletion of the data source, whose file and chunks are the
\* matter of DataSources.
RequestKinds == {"first", "ask", "delete", "drop"}
FirstStep ==
    [first |-> "create", ask |-> "load", delete |-> "loadDoomed",
     drop |-> "dropSource"]

\* What the statement of a step has to lock.
Wanted(step) ==
    CASE step \in {"create", "dropSource"} -> {"source"}
      [] step \in {"storeQuery", "dropSchema"} -> {"schema"}
      [] step \in {"storeQuestion", "deleteRow", "dropRow"} -> {"conversation"}
      [] step \in {"deleteMessages", "dropMessages"} -> {"messages"}
      [] OTHER -> {}

Terminal == {"done", "failed"}
Steps == Terminal \cup
    {"idle", "create", "load", "storeQuestion", "storeQuery", "prepare", "model",
     "reply", "storeError", "commit", "loadDoomed", "deleteMessages", "deleteRow",
     "dropSource", "dropSchema", "dropRow", "dropMessages"}

TypeOK ==
    /\ source \in BOOLEAN
    /\ row \in {"none", "live", "gone"}
    /\ total \in Nat
    /\ log \in SUBSET Message
    /\ usage \in SUBSET UsageRow
    /\ kind \in [Requests -> RequestKinds]
    /\ pc \in [Requests -> Steps]
    /\ locks \in [Requests -> SUBSET Locks]
    /\ seen \in [Requests -> Nat]
    /\ history \in [Requests -> SUBSET Message]
    /\ cost \in [Requests -> 0..MaxCalls]
    /\ spent \in [Requests -> 0..MaxCalls]

Init ==
    /\ source = TRUE /\ row = "none" /\ total = 0
    /\ log = {} /\ usage = {}
    /\ kind = [r \in Requests |-> "first"]
    /\ pc = [r \in Requests |-> "idle"]
    /\ locks = [r \in Requests |-> {}]
    /\ seen = [r \in Requests |-> 0]
    /\ history = [r \in Requests |-> {}]
    /\ cost = [r \in Requests |-> 0]
    /\ spent = [r \in Requests |-> 0]

----------------------------------------------------------------------------
(* PostgreSQL.                                                             *)

At(r, step) == pc[r] = step
Goto(r, step) == pc' = [pc EXCEPT ![r] = step]
Others(r) == Requests \ {r}

WaitsFor(r, o) == r # o /\ Wanted(pc[r]) \cap locks[o] # {}
Granted(r) == \A o \in Others(r) : ~WaitsFor(r, o)
Lock(r) == locks' = [locks EXCEPT ![r] = @ \cup Wanted(pc[r])]

\* The conversation as r sees it: its own, uncommitted, or the committed one.
Exists(r) == row = "live" \/ (kind[r] = "first" /\ row = "none")
Visible(r) == {m \in log : m.by = r \/ At(m.by, "done")}
Replied(r) == [by |-> r, role |-> "assistant"] \in log
Insert(r, role) == log' = log \cup {[by |-> r, role |-> role]}

\* Mutant: get_session raises without rolling back.
RollbackForgotten(failing) ==
    /\ pc' = [r \in Requests |-> IF r \in failing THEN "failed" ELSE pc[r]]
    /\ log' = {m \in log : m.by \notin failing}
    /\ usage' = {u \in usage : u.by \notin failing}
    /\ UNCHANGED <<database, kind, locks, seen, history, cost, spent>>

\* The transactions of these requests end without a commit.
Rollback(failing) ==
    /\ pc' = [r \in Requests |-> IF r \in failing THEN "failed" ELSE pc[r]]
    /\ locks' = [r \in Requests |-> IF r \in failing THEN {} ELSE locks[r]]
    /\ log' = {m \in log : m.by \notin failing}
    /\ usage' = {u \in usage : u.by \notin failing}
    /\ UNCHANGED <<database, kind, seen, history, cost, spent>>

\* The commit of get_session.  The session writes the total as a number, and
\* only if add_cost changed what it had loaded.
Commit(r) ==
    /\ At(r, "commit")
    /\ source' = (source /\ kind[r] # "drop")
    /\ row' = CASE kind[r] = "first" -> "live"
                [] kind[r] \in {"delete", "drop"} -> IF row = "none" THEN row ELSE "gone"
                [] OTHER -> row
    /\ log' = IF kind[r] \in {"delete", "drop"} THEN {} ELSE log
    /\ total' = IF Replied(r) /\ cost[r] > 0 THEN seen[r] + cost[r] ELSE total
    /\ Goto(r, "done")
    /\ locks' = [locks EXCEPT ![r] = {}]
    /\ UNCHANGED <<usage, kind, seen, history, cost, spent>>

\* The connection breaks, the client is gone or the request is rejected:
\* get_session rolls back.
Abort(r) ==
    /\ pc[r] \notin Terminal \cup {"idle"}
    /\ Rollback({r})

\* A lock has one holder, so a request waits for one other: where everyone in a
\* set waits and is waited for within the set, they wait in a cycle.
Deadlocked(r) ==
    \E cycle \in SUBSET Requests :
        /\ r \in cycle
        /\ \A o \in cycle : /\ \E x \in cycle : WaitsFor(o, x)
                            /\ \E x \in cycle : WaitsFor(x, o)

\* A deadlock is detected and one of its transactions, any, is chosen to fail:
\* the statement raises and get_session rolls back.
DeadlockVictim(r) ==
    /\ ~Granted(r) /\ Deadlocked(r)
    /\ Rollback({r})

\* The server process dies.
Crash == Rollback({r \in Requests : pc[r] \notin Terminal \cup {"idle"}})

\* A client learns the conversation's id from the answer that created it.
Start(r, k) ==
    /\ At(r, "idle")
    /\ CASE k = "first" ->
              row = "none" /\ \A o \in Others(r) :
                  kind[o] = "first" => pc[o] \in {"idle", "failed"}
         [] k \in {"ask", "delete"} -> row # "none"
         [] k = "drop" -> TRUE
    /\ kind' = [kind EXCEPT ![r] = k]
    /\ Goto(r, FirstStep[k])
    /\ UNCHANGED <<database, log, usage, locks, seen, history, cost, spent>>

----------------------------------------------------------------------------
(* ExcelAgentService.ask_question.                                         *)

\* _get_data_source and create_conversation; the insert's foreign key waits
\* for a deletion of the data source.
CreateConversation(r) ==
    /\ At(r, "create") /\ Granted(r)
    /\ IF source
       THEN /\ locks' = [locks EXCEPT ![r] = @ \cup {"source", "conversation"}]
            /\ Goto(r, "storeQuestion")
            /\ UNCHANGED <<database, log, usage, kind, seen, history, cost, spent>>
       ELSE Rollback({r})

\* get_conversation, without a lock: what is loaded here is what the session
\* goes on seeing of this row (identity map).
LoadConversation(r) ==
    /\ At(r, "load")
    /\ IF source /\ Exists(r)
       THEN /\ seen' = [seen EXCEPT ![r] = total]
            /\ Goto(r, "storeQuestion")
            /\ UNCHANGED <<database, log, usage, kind, locks, history, cost, spent>>
       ELSE Rollback({r})

\* Mutant: add_cost leaves last_message_at alone when a message costs
\* nothing, so that the question's flush updates no conversations row.
StoreQuestionAlone(r) ==
    /\ At(r, "storeQuestion")
    /\ IF Exists(r)
       THEN /\ Insert(r, "user")
            /\ Goto(r, "storeQuery")
            /\ UNCHANGED <<database, usage, kind, locks, seen, history, cost, spent>>
       ELSE Rollback({r})

\* add_message of the question: last_message_at changes, so the flush updates
\* the conversations row, and locks it, before it inserts the message.  A row
\* that is gone is a NotFoundError or a StaleDataError.
StoreQuestion(r) ==
    /\ At(r, "storeQuestion") /\ Granted(r)
    /\ IF Exists(r)
       THEN /\ Insert(r, "user")
            /\ Lock(r)
            /\ Goto(r, "storeQuery")
            /\ UNCHANGED <<database, usage, kind, seen, history, cost, spent>>
       ELSE Rollback({r})

\* The insert of QueryHistory: its foreign key locks the excel_schemas row.
StoreQuery(r) ==
    /\ At(r, "storeQuery") /\ Granted(r)
    /\ IF source
       THEN /\ Lock(r)
            /\ Goto(r, "prepare")
            /\ UNCHANGED <<database, log, usage, kind, seen, history, cost, spent>>
       ELSE Rollback({r})

\* parse_workbook, rosetta_audit_workbook, load_state; any of them may raise.
Prepare(r) ==
    /\ At(r, "prepare")
    /\ \/ history' = [history EXCEPT ![r] = Visible(r)] /\ Goto(r, "model")
       \/ Goto(r, "storeError") /\ UNCHANGED history
    /\ UNCHANGED <<database, log, usage, kind, locks, seen, cost, spent>>

\* A call of the coordinator's tool loop, or of the formula explainer, whose
\* tokens the coordinator does not count.  A turn may take no call (a cached
\* answer, no API key).
CallModel(r) ==
    /\ At(r, "model") /\ spent[r] < MaxCalls
    /\ spent' = [spent EXCEPT ![r] = @ + 1]
    /\ \/ cost' = [cost EXCEPT ![r] = @ + 1]
       \/ cost[r] > 0 /\ UNCHANGED cost
    /\ UNCHANGED <<database, log, usage, kind, pc, locks, seen, history>>

\* rosetta_answer returns, or raises with what it has spent so far.
AnswerOrRaise(r) ==
    /\ At(r, "model")
    /\ Goto(r, "reply") \/ Goto(r, "storeError")
    /\ UNCHANGED <<database, log, usage, kind, locks, seen, history, cost, spent>>

\* Mutant: a turn without tokens is not worth a usage record.
StoreReplyBilledIfCostly(r) ==
    /\ At(r, "reply")
    /\ usage' = IF cost[r] > 0 THEN usage \cup {[by |-> r, tokens |-> cost[r]]} ELSE usage
    /\ Insert(r, "assistant")
    /\ Goto(r, "commit")
    /\ UNCHANGED <<database, kind, locks, seen, history, cost, spent>>

\* Mutant: a usage record that cannot be written is logged and skipped.
StoreReplyUnbilled(r) ==
    /\ At(r, "reply")
    /\ usage' \in {usage, usage \cup {[by |-> r, tokens |-> cost[r]]}}
    /\ Insert(r, "assistant")
    /\ Goto(r, "commit")
    /\ UNCHANGED <<database, kind, locks, seen, history, cost, spent>>

\* persist_state, record_llm_usage and add_message of the reply.
StoreReply(r) ==
    /\ At(r, "reply")
    /\ usage' = usage \cup {[by |-> r, tokens |-> cost[r]]}
    /\ Insert(r, "assistant")
    /\ Goto(r, "commit")
    /\ UNCHANGED <<database, kind, locks, seen, history, cost, spent>>

\* The except clause: the question stays without a reply and the request
\* commits.
StoreError(r) ==
    /\ At(r, "storeError")
    /\ Goto(r, "commit")
    /\ UNCHANGED <<database, log, usage, kind, locks, seen, history, cost, spent>>

----------------------------------------------------------------------------
(* Deletion of the conversation, or of the data source with its cascade.   *)

LoadDoomed(r) ==
    /\ At(r, "loadDoomed")
    /\ IF row = "live"
       THEN /\ Goto(r, "deleteMessages")
            /\ UNCHANGED <<database, log, usage, kind, locks, seen, history, cost, spent>>
       ELSE Rollback({r})

\* One DELETE after the other: the messages that were loaded, then the row
\* (session.delete); the parent, then what its foreign keys cascade to (drop).
\* Rows that are gone already are not an error.
NextDelete ==
    [deleteMessages |-> "deleteRow", deleteRow |-> "commit",
     dropSource |-> "dropSchema", dropSchema |-> "dropRow",
     dropRow |-> "dropMessages", dropMessages |-> "commit"]

DeleteRows(r) ==
    /\ pc[r] \in DOMAIN NextDelete /\ Granted(r)
    /\ Lock(r)
    /\ Goto(r, NextDelete[pc[r]])
    /\ UNCHANGED <<database, log, usage, kind, seen, history, cost, spent>>

----------------------------------------------------------------------------
Ask(r) ==
    \/ CreateConversation(r) \/ LoadConversation(r) \/ StoreQuestion(r)
    \/ StoreQuery(r) \/ Prepare(r) \/ CallModel(r) \/ AnswerOrRaise(r)
    \/ StoreReply(r) \/ StoreError(r)
Step(r) ==
    \/ Ask(r) \/ LoadDoomed(r) \/ DeleteRows(r) \/ Commit(r) \/ DeadlockVictim(r)

Next ==
    \/ \E r \in Requests :
         Step(r) \/ Abort(r) \/ (\E k \in RequestKinds : Start(r, k))
    \/ Crash

Spec == Init /\ [][Next]_vars

\* asyncio resumes every handler, the model answers or the call fails, and
\* PostgreSQL grants released locks and breaks deadlocks.  Clients, broken
\* connections and crashes owe nothing.
FairSpec == Spec /\ \A r \in Requests : WF_vars(Step(r))

----------------------------------------------------------------------------
(* Properties.                                                             *)

InTurn(r) == pc[r] \in {"storeQuery", "prepare", "model", "reply", "storeError"}
             \/ (At(r, "commit") /\ kind[r] \in {"first", "ask"})

\* What the model answers from is the conversation as it is when the reply is
\* stored: no other turn's messages have come or gone in between.
HistoryIsCurrent ==
    \A r \in Requests : pc[r] \in {"model", "reply"} => history[r] = Visible(r)

\* A turn that has begun does not lose its conversation or its data source,
\* whoever deletes them: what it spends can be stored.
TurnsKeepTheirRows ==
    \A r \in Requests : InTurn(r) => source /\ Exists(r)

\* Reply and usage record are written together or not at all.
RepliesAreRecorded ==
    row = "live" => \A r \in Requests :
        At(r, "done") /\ kind[r] \in {"first", "ask"} =>
            (Replied(r) <=> \E u \in usage : u.by = r)

\* The conversation's total never exceeds what is recorded for its turns:
\* updates of it may be lost, but none is counted twice or kept after a
\* rollback.
Tokens(rows) == UNION {{u} \X (1 .. u.tokens) : u \in rows}
Recorded == Cardinality(Tokens({u \in usage : At(u.by, "done")}))
TotalIsBacked == total <= Recorded

\* Every request ends: waits for locks are broken or come to an end.
EveryRequestEnds == \A r \in Requests : ~At(r, "idle") ~> pc[r] \in Terminal

\* Claims of the documentation that the code does not keep.

Quiet == \A r \in Requests : pc[r] \in Terminal \cup {"idle"}

\* Token counts are "aggregated in conversations.total_input_tokens"
\* (HANDBOOK.md:850).
TotalsMatchUsage == Quiet => total = Recorded

\* "Every coordinator call writes an LLMUsage row ... with real token counts"
\* (HANDBOOK.md:817), as long as nothing crashes or breaks.
EveryCallRecorded ==
    \A r \in Requests : At(r, "done") /\ spent[r] > 0 =>
        [by |-> r, tokens |-> spent[r]] \in usage
============================================================================
