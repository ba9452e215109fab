------------------------ MODULE ConversationsProofs ------------------------
(***************************************************************************)
(* A turn is alone with its conversation, for any requests and any number  *)
(* of calls: nobody's messages come or go while the model answers, its     *)
(* rows stay, and what is billed is recorded.                              *)
(*                                                                         *)
(* All rests on row locks that the code takes without saying so: which of  *)
(* them a handler has is told by where it is (Held), nobody shares one     *)
(* (Exclusive), and from the first flush of a turn to its commit one of    *)
(* them is that of the conversations row, which a deletion needs too.      *)
(***************************************************************************)
EXTENDS Conversations, FiniteSetTheorems, TLAPS

TurnSteps == {"storeQuery", "prepare", "model", "reply", "storeError"}
Asks(r) == kind[r] \in {"first", "ask"}
Active(r) == pc[r] \notin Terminal \cup {"idle"}

\* What the coordinator counts was used.
Counted == \A r \in Requests : cost[r] <= spent[r]

\* Which steps each handler takes.
StepsOf ==
    [first |-> TurnSteps \cup {"idle", "create", "storeQuestion", "commit"} \cup Terminal,
     ask |-> TurnSteps \cup {"load", "storeQuestion", "commit"} \cup Terminal,
     delete |-> {"loadDoomed", "deleteMessages", "deleteRow", "commit"} \cup Terminal,
     drop |-> {"dropSource", "dropSchema", "dropRow", "dropMessages", "commit"} \cup Terminal]

\* The locks of a handler are those of the statements behind it.
Passed(r, steps) == pc[r] \in steps \cup {"commit"}
HoldsSource(r) ==
    \/ kind[r] = "first" /\ Passed(r, TurnSteps \cup {"storeQuestion"})
    \/ kind[r] = "drop" /\ Passed(r, {"dropSchema", "dropRow", "dropMessages"})
HoldsSchema(r) ==
    \/ Asks(r) /\ Passed(r, TurnSteps \ {"storeQuery"})
    \/ kind[r] = "drop" /\ Passed(r, {"dropRow", "dropMessages"})
HoldsConversation(r) ==
    \/ kind[r] = "first" /\ Passed(r, TurnSteps \cup {"storeQuestion"})
    \/ kind[r] = "ask" /\ Passed(r, TurnSteps)
    \/ kind[r] = "delete" /\ At(r, "commit")
    \/ kind[r] = "drop" /\ Passed(r, {"dropMessages"})
HoldsMessages(r) ==
    \/ kind[r] = "delete" /\ Passed(r, {"deleteRow"})
    \/ kind[r] = "drop" /\ At(r, "commit")
HeldBy(r) ==
    /\ pc[r] \in StepsOf[kind[r]]
    /\ "source" \in locks[r] <=> HoldsSource(r)
    /\ "schema" \in locks[r] <=> HoldsSchema(r)
    /\ "conversation" \in locks[r] <=> HoldsConversation(r)
    /\ "messages" \in locks[r] <=> HoldsMessages(r)
Held == \A r \in Requests : HeldBy(r)
Exclusive == \A r, o \in Requests : r # o => locks[r] \cap locks[o] = {}

\* The conversation is created once: while one request creates it, no other
\* does, and there is none.
CreatedOnce ==
    /\ \A r \in Requests : kind[r] = "first" /\ Active(r) =>
         row = "none" /\ \A o \in Others(r) : kind[o] = "first" => pc[o] \in {"idle", "failed"}
    /\ \A r \in Requests : kind[r] = "first" /\ At(r, "done") => row # "none"
    /\ \A r \in Requests : kind[r] \in {"ask", "delete"} => row # "none"

\* A conversation is there with its data source only; one that is being
\* created will be.
Parented ==
    /\ ~source => row # "live"
    /\ \A r \in Requests : kind[r] = "first" /\ At(r, "storeQuestion") => source

\* Rows of requests that failed are gone, rows of those that did not start or
\* have not got that far are not there yet.
RowsFit ==
    /\ \A m \in log : \/ InTurn(m.by)
                      \/ At(m.by, "done") /\ Asks(m.by) /\ row # "none"
    /\ \A m \in log : m.role = "assistant" => pc[m.by] \in {"commit", "done"}
    /\ \A u \in usage : \/ At(u.by, "commit") /\ Asks(u.by)
                        \/ At(u.by, "done") /\ Asks(u.by) /\ row # "none"
    /\ row # "gone" => \A r \in Requests : Replied(r) <=> \E u \in usage : u.by = r

\* What a session saw of the total, and what it will write, is backed.
Backed ==
    /\ IsFiniteSet(Tokens(usage))
    /\ \A r \in Requests : seen[r] <= Recorded
    /\ \A r \in Requests : At(r, "commit") /\ Replied(r) => [by |-> r, tokens |-> cost[r]] \in usage

IInv ==
    /\ TypeOK /\ Counted /\ Held /\ Exclusive /\ CreatedOnce /\ Parented /\ RowsFit /\ Backed
    /\ TurnsKeepTheirRows /\ HistoryIsCurrent /\ TotalIsBacked

----------------------------------------------------------------------------
(* Locks.                                                                  *)

LInv == TypeOK /\ Counted /\ Held /\ Exclusive /\ CreatedOnce

Failing == SUBSET {r \in Requests : Active(r)}

\* Whatever fails, its locks are released.
LEMMA RollbackFreesLocks ==
    ASSUME LInv, NEW failing \in Failing, Rollback(failing)
    PROVE  LInv'
<1>. USE DEF LInv, Failing, Rollback, database
<1>1. TypeOK'
  BY DEF TypeOK, Steps, Terminal, Message, UsageRow
<1>2. Held'
  <2>. USE DEF HeldBy, HoldsSource, HoldsSchema, HoldsConversation, HoldsMessages, Passed,
             Asks, At
  <2>1. ASSUME NEW r \in failing
        PROVE  /\ pc'[r] = "failed" /\ locks'[r] = {} /\ kind'[r] \in RequestKinds
    BY DEF TypeOK
  <2>2. ASSUME NEW r \in Requests, r \notin failing
        PROVE  pc'[r] = pc[r] /\ locks'[r] = locks[r] /\ kind'[r] = kind[r]
    BY <2>2 DEF TypeOK
  <2>3. \A k \in RequestKinds : "failed" \in StepsOf[k]
    BY DEF RequestKinds, StepsOf, Terminal
  <2>. QED  BY <2>1, <2>2, <2>3 DEF Held, TurnSteps
<1>3. Exclusive'
  BY DEF TypeOK, Exclusive
<1>4. CreatedOnce'
  BY DEF TypeOK, CreatedOnce, Active, Terminal, Others, At
<1>5. Counted'
  BY DEF Counted
<1>. QED  BY <1>1, <1>2, <1>3, <1>4, <1>5

\* A request that is granted what it wants shares it with nobody.
LEMMA GrantedIsExclusive ==
    ASSUME LInv, NEW r \in Requests, Granted(r), NEW more \in SUBSET Wanted(pc[r]),
           locks' = [locks EXCEPT ![r] = @ \cup more]
    PROVE  Exclusive'
BY DEF LInv, TypeOK, Exclusive, Granted, WaitsFor, Others

\* Who takes no step has what he had.
LEMMA OthersHold ==
    ASSUME LInv, NEW r \in Requests, HeldBy(r)',
           \A o \in Others(r) : pc'[o] = pc[o] /\ kind'[o] = kind[o] /\ locks'[o] = locks[o]
    PROVE  Held'
BY DEF LInv, Held, HeldBy, HoldsSource, HoldsSchema, HoldsConversation, HoldsMessages, Passed,
       Asks, At, Others

\* A step of a handler to another: it is granted the locks of its statement.
Moves(r, more) ==
    /\ Active(r) /\ ~At(r, "commit")
    /\ kind' = kind /\ row' = row
    /\ pc' = [pc EXCEPT ![r] = pc'[r]] /\ pc'[r] \in Steps \ {"idle", "done", "failed"}
    /\ locks' = [locks EXCEPT ![r] = @ \cup more]

LEMMA MovesLock ==
    ASSUME LInv, TypeOK', Counted', NEW r \in Requests, NEW more \in SUBSET Locks, Moves(r, more),
           HeldBy(r)', Exclusive'
    PROVE  LInv'
<1>1. \A o \in Others(r) : pc'[o] = pc[o] /\ kind'[o] = kind[o] /\ locks'[o] = locks[o]
  BY DEF Moves, LInv, TypeOK, Others
<1>2. Held'
  BY <1>1, OthersHold
<1>3. CreatedOnce'
  BY <1>1 DEF LInv, CreatedOnce, Moves, Active, Others, At, Terminal
<1>. QED  BY <1>2, <1>3 DEF LInv

\* The same without a lock.
LEMMA MovesUnlocked ==
    ASSUME LInv, TypeOK', Counted', NEW r \in Requests, Moves(r, {}), HeldBy(r)'
    PROVE  LInv'
<1>1. locks' = locks
  BY DEF Moves, LInv, TypeOK
<1>2. Exclusive'
  BY <1>1 DEF LInv, Exclusive
<1>. QED  BY <1>2, MovesLock

LEMMA CreateLocks ==
    ASSUME LInv, NEW r \in Requests, CreateConversation(r), source
    PROVE  LInv'
<1>1. /\ At(r, "create") /\ Granted(r) /\ row' = row /\ kind' = kind
      /\ locks' = [locks EXCEPT ![r] = @ \cup {"source", "conversation"}]
      /\ pc' = [pc EXCEPT ![r] = "storeQuestion"]
      /\ UNCHANGED <<source, row, total, log, usage, kind, seen, history, cost, spent>>
  BY DEF CreateConversation, Goto, database
<1>2. TypeOK' /\ Counted'
  BY <1>1 DEF LInv, Counted, TypeOK, Steps, Locks
<1>3. kind[r] = "first"
  BY <1>1 DEF LInv, TypeOK, Held, HeldBy, StepsOf, At, RequestKinds, TurnSteps, Terminal
<1>4. HeldBy(r)'
  BY <1>1, <1>3 DEF LInv, TypeOK, Held, HeldBy, StepsOf, HoldsSource, HoldsSchema,
     HoldsConversation, HoldsMessages, Passed, Asks, At, TurnSteps
<1>5. \A o \in Others(r) : "source" \notin locks[o]
  BY <1>1 DEF Granted, WaitsFor, Wanted, At, Others
<1>6. row = "none" /\ \A o \in Others(r) : kind[o] = "first" => pc[o] \in {"idle", "failed"}
  BY <1>1, <1>3 DEF LInv, CreatedOnce, Active, At, Terminal
<1>7. \A o \in Others(r) : "conversation" \notin locks[o]
  BY <1>5, <1>6 DEF LInv, TypeOK, RequestKinds, CreatedOnce, Held, HeldBy, HoldsSource,
     HoldsConversation, Passed, At, TurnSteps, Others
<1>8. Exclusive'
  BY <1>1, <1>5, <1>7 DEF LInv, TypeOK, Exclusive, Others
<1>9. Moves(r, {"source", "conversation"})
  BY <1>1 DEF Moves, LInv, TypeOK, Active, At, Terminal, Steps
<1>. QED  BY <1>2, <1>4, <1>8, <1>9, MovesLock DEF Locks

\* What the statements of a step have to lock.
LEMMA WantedLocks ==
    ASSUME NEW step
    PROVE  /\ step \in {"create", "dropSource"} => Wanted(step) = {"source"}
           /\ step \in {"storeQuery", "dropSchema"} => Wanted(step) = {"schema"}
           /\ step \in {"storeQuestion", "deleteRow", "dropRow"} => Wanted(step) = {"conversation"}
           /\ step \in {"deleteMessages", "dropMessages"} => Wanted(step) = {"messages"}
           /\ Wanted(step) \in SUBSET Locks
BY DEF Wanted, Locks

LEMMA LoadLocks ==
    ASSUME LInv, NEW r \in Requests, LoadConversation(r), source /\ Exists(r)
    PROVE  LInv'
<1>1. /\ At(r, "load") /\ pc' = [pc EXCEPT ![r] = "storeQuestion"]
      /\ seen' = [seen EXCEPT ![r] = total]
      /\ UNCHANGED <<source, row, total, log, usage, kind, locks, history, cost, spent>>
  BY DEF LoadConversation, Goto, database
<1>2. TypeOK' /\ Counted'
  BY <1>1 DEF LInv, Counted, TypeOK, Steps
<1>3. kind[r] = "ask"
  BY <1>1 DEF LInv, TypeOK, Held, HeldBy, StepsOf, At, RequestKinds, TurnSteps, Terminal
<1>4. HeldBy(r)'
  BY <1>1, <1>3 DEF LInv, TypeOK, Held, HeldBy, StepsOf, HoldsSource, HoldsSchema,
     HoldsConversation, HoldsMessages, Passed, Asks, At, TurnSteps
<1>5. Moves(r, {})
  BY <1>1 DEF Moves, LInv, TypeOK, Active, At, Terminal, Steps
<1>. QED  BY <1>2, <1>4, <1>5, MovesUnlocked

LEMMA StoreQuestionLocks ==
    ASSUME LInv, NEW r \in Requests, StoreQuestion(r), Exists(r)
    PROVE  LInv'
<1>1. /\ At(r, "storeQuestion") /\ Granted(r) /\ pc' = [pc EXCEPT ![r] = "storeQuery"]
      /\ locks' = [locks EXCEPT ![r] = @ \cup Wanted(pc[r])]
      /\ log' = log \cup {[by |-> r, role |-> "user"]}
      /\ UNCHANGED <<source, row, total, usage, kind, seen, history, cost, spent>>
  BY DEF StoreQuestion, Goto, Lock, Insert, database
<1>2. Wanted(pc[r]) = {"conversation"}
  BY <1>1, WantedLocks DEF At
<1>3. TypeOK' /\ Counted'
  BY <1>1, <1>2 DEF LInv, Counted, TypeOK, Steps, Locks, Message, Roles
<1>4. Asks(r)
  BY <1>1 DEF LInv, TypeOK, Held, HeldBy, StepsOf, At, RequestKinds, TurnSteps, Terminal, Asks
<1>5. HeldBy(r)'
  BY <1>1, <1>2, <1>4 DEF LInv, TypeOK, Held, HeldBy, StepsOf, HoldsSource, HoldsSchema,
     HoldsConversation, HoldsMessages, Passed, Asks, At, TurnSteps
<1>6. Exclusive'
  BY <1>1, GrantedIsExclusive
<1>7. Moves(r, Wanted(pc[r]))
  BY <1>1 DEF Moves, LInv, TypeOK, Active, At, Terminal, Steps
<1>. QED  BY <1>3, <1>5, <1>6, <1>7, WantedLocks, MovesLock

LEMMA StoreQueryLocks ==
    ASSUME LInv, NEW r \in Requests, StoreQuery(r), source
    PROVE  LInv'
<1>1. /\ At(r, "storeQuery") /\ Granted(r) /\ pc' = [pc EXCEPT ![r] = "prepare"]
      /\ locks' = [locks EXCEPT ![r] = @ \cup Wanted(pc[r])]
      /\ UNCHANGED <<source, row, total, log, usage, kind, seen, history, cost, spent>>
  BY DEF StoreQuery, Goto, Lock, database
<1>2. Wanted(pc[r]) = {"schema"}
  BY <1>1, WantedLocks DEF At
<1>3. TypeOK' /\ Counted'
  BY <1>1, <1>2 DEF LInv, Counted, TypeOK, Steps, Locks
<1>4. Asks(r)
  BY <1>1 DEF LInv, TypeOK, Held, HeldBy, StepsOf, At, RequestKinds, TurnSteps, Terminal, Asks
<1>5. HeldBy(r)'
  BY <1>1, <1>2, <1>4 DEF LInv, TypeOK, Held, HeldBy, StepsOf, HoldsSource, HoldsSchema,
     HoldsConversation, HoldsMessages, Passed, Asks, At, TurnSteps
<1>6. Exclusive'
  BY <1>1, GrantedIsExclusive
<1>7. Moves(r, Wanted(pc[r]))
  BY <1>1 DEF Moves, LInv, TypeOK, Active, At, Terminal, Steps
<1>. QED  BY <1>3, <1>5, <1>6, <1>7, WantedLocks, MovesLock

\* The steps of a turn between its writes take no lock.
LEMMA AnsweringLocks ==
    ASSUME LInv, NEW r \in Requests,
           Prepare(r) \/ CallModel(r) \/ AnswerOrRaise(r) \/ StoreReply(r) \/ StoreError(r)
    PROVE  LInv'
<1>1. /\ pc[r] \in {"prepare", "model", "reply", "storeError"}
      /\ pc' = [pc EXCEPT ![r] = pc'[r]]
      /\ pc'[r] \in {"model", "storeError", "reply", "commit"}
      /\ UNCHANGED <<source, row, total, kind, locks, seen>>
  BY DEF Prepare, CallModel, AnswerOrRaise, StoreReply, StoreError, Goto, At, database,
         LInv, TypeOK
<1>2. TypeOK' /\ Counted'
  <2>. USE DEF Counted
  <2>1. CASE Prepare(r)
    BY <1>1, <2>1 DEF LInv, TypeOK, Prepare, Steps, Goto, Visible
  <2>2. CASE CallModel(r)
    BY <1>1, <2>2, CallsAssumption DEF LInv, TypeOK, CallModel, Steps
  <2>3. CASE AnswerOrRaise(r) \/ StoreError(r)
    BY <1>1, <2>3 DEF LInv, TypeOK, AnswerOrRaise, StoreError, Steps
  <2>4. CASE StoreReply(r)
    BY <1>1, <2>4, CallsAssumption DEF LInv, TypeOK, StoreReply, Insert, Steps, Message, Roles, UsageRow
  <2>. QED  BY <2>1, <2>2, <2>3, <2>4
<1>3. Asks(r)
  BY <1>1 DEF LInv, TypeOK, Held, HeldBy, StepsOf, RequestKinds, TurnSteps, Terminal, Asks
<1>4. HeldBy(r)'
  BY <1>1, <1>3 DEF LInv, TypeOK, Held, HeldBy, StepsOf, HoldsSource, HoldsSchema,
     HoldsConversation, HoldsMessages, Passed, Asks, At, TurnSteps
<1>5. Moves(r, {})
  BY <1>1 DEF Moves, LInv, TypeOK, Active, At, Terminal, Steps
<1>. QED  BY <1>2, <1>4, <1>5, MovesUnlocked

LEMMA LoadDoomedLocks ==
    ASSUME LInv, NEW r \in Requests, LoadDoomed(r), row = "live"
    PROVE  LInv'
<1>1. /\ At(r, "loadDoomed") /\ pc' = [pc EXCEPT ![r] = "deleteMessages"]
      /\ UNCHANGED <<source, row, total, log, usage, kind, locks, seen, history, cost, spent>>
  BY DEF LoadDoomed, Goto, database
<1>2. TypeOK' /\ Counted'
  BY <1>1 DEF LInv, Counted, TypeOK, Steps
<1>3. kind[r] = "delete"
  BY <1>1 DEF LInv, TypeOK, Held, HeldBy, StepsOf, At, RequestKinds, TurnSteps, Terminal
<1>4. HeldBy(r)'
  BY <1>1, <1>3 DEF LInv, TypeOK, Held, HeldBy, StepsOf, HoldsSource, HoldsSchema,
     HoldsConversation, HoldsMessages, Passed, Asks, At, TurnSteps
<1>5. Moves(r, {})
  BY <1>1 DEF Moves, LInv, TypeOK, Active, At, Terminal, Steps
<1>. QED  BY <1>2, <1>4, <1>5, MovesUnlocked

LEMMA DeleteLocks ==
    ASSUME LInv, NEW r \in Requests, DeleteRows(r)
    PROVE  LInv'
<1>1. /\ pc[r] \in {"deleteMessages", "deleteRow", "dropSource", "dropSchema", "dropRow",
                     "dropMessages"}
      /\ Granted(r) /\ pc' = [pc EXCEPT ![r] = NextDelete[pc[r]]]
      /\ locks' = [locks EXCEPT ![r] = @ \cup Wanted(pc[r])]
      /\ UNCHANGED <<source, row, total, log, usage, kind, seen, history, cost, spent>>
  BY DEF DeleteRows, Goto, Lock, database, NextDelete
<1>2. Wanted(pc[r]) \in SUBSET Locks
  BY WantedLocks
<1>3. TypeOK' /\ Counted'
  BY <1>1, <1>2 DEF LInv, Counted, TypeOK, Steps, NextDelete
<1>4. HeldBy(r)'
  <2>. USE DEF LInv, TypeOK, Held, HeldBy, StepsOf, HoldsSource, HoldsSchema, HoldsConversation,
               HoldsMessages, Passed, Asks, At, TurnSteps, NextDelete, Terminal, RequestKinds
  <2>1. CASE pc[r] = "deleteMessages"
    BY <1>1, <2>1, WantedLocks
  <2>2. CASE pc[r] = "deleteRow"
    BY <1>1, <2>2, WantedLocks
  <2>3. CASE pc[r] = "dropSource"
    BY <1>1, <2>3, WantedLocks
  <2>4. CASE pc[r] = "dropSchema"
    BY <1>1, <2>4, WantedLocks
  <2>5. CASE pc[r] = "dropRow"
    BY <1>1, <2>5, WantedLocks
  <2>6. CASE pc[r] = "dropMessages"
    BY <1>1, <2>6, WantedLocks
  <2>. QED  BY <1>1, <2>1, <2>2, <2>3, <2>4, <2>5, <2>6
<1>5. Exclusive'
  BY <1>1, GrantedIsExclusive
<1>6. Moves(r, Wanted(pc[r]))
  BY <1>1 DEF Moves, LInv, TypeOK, Active, At, Terminal, Steps, NextDelete
<1>. QED  BY <1>2, <1>3, <1>4, <1>5, <1>6, MovesLock

LEMMA StartLocks ==
    ASSUME LInv, NEW r \in Requests, NEW k \in RequestKinds, Start(r, k)
    PROVE  LInv'
<1>1. /\ At(r, "idle") /\ kind' = [kind EXCEPT ![r] = k]
      /\ pc' = [pc EXCEPT ![r] = FirstStep[k]]
      /\ UNCHANGED <<source, row, total, log, usage, locks, seen, history, cost, spent>>
      /\ k = "first" => row = "none" /\ \A o \in Others(r) :
                          kind[o] = "first" => pc[o] \in {"idle", "failed"}
      /\ k \in {"ask", "delete"} => row # "none"
  BY DEF Start, Goto, database
<1>2. TypeOK' /\ Counted'
  BY <1>1 DEF LInv, TypeOK, Counted, Steps, FirstStep, RequestKinds
<1>3. kind[r] = "first"
  BY <1>1 DEF LInv, TypeOK, Held, HeldBy, StepsOf, At, RequestKinds, TurnSteps, Terminal
<1>4. HeldBy(r)'
  <2>1. /\ "source" \notin locks[r] /\ "schema" \notin locks[r]
        /\ "conversation" \notin locks[r] /\ "messages" \notin locks[r]
    BY <1>1, <1>3 DEF LInv, Held, HeldBy, HoldsSource, HoldsSchema, HoldsConversation,
       HoldsMessages, Passed, Asks, At, TurnSteps
  <2>2. pc'[r] = FirstStep[k] /\ kind'[r] = k /\ locks'[r] = locks[r]
    BY <1>1 DEF LInv, TypeOK
  <2>. QED
    BY <2>1, <2>2 DEF HeldBy, StepsOf, HoldsSource, HoldsSchema, HoldsConversation,
       HoldsMessages, Passed, Asks, At, TurnSteps, FirstStep, RequestKinds
<1>5. \A o \in Others(r) : pc'[o] = pc[o] /\ kind'[o] = kind[o] /\ locks'[o] = locks[o]
  BY <1>1 DEF LInv, TypeOK, Others
<1>6. Held'
  BY <1>4, <1>5, OthersHold
<1>7. Exclusive'
  BY <1>1 DEF LInv, Exclusive
<1>8. CreatedOnce'
  <2>1. pc'[r] = FirstStep[k] /\ kind'[r] = k
    BY <1>1 DEF LInv, TypeOK
  <2>. QED
    BY <1>1, <1>5, <2>1 DEF LInv, CreatedOnce, Active, At, Others, Terminal, FirstStep, RequestKinds
<1>. QED  BY <1>2, <1>6, <1>7, <1>8 DEF LInv

LEMMA CommitLocks == ASSUME LInv, NEW r \in Requests, Commit(r) PROVE LInv'
<1>1. /\ At(r, "commit") /\ pc' = [pc EXCEPT ![r] = "done"]
      /\ locks' = [locks EXCEPT ![r] = {}]
      /\ UNCHANGED <<usage, kind, seen, history, cost, spent>>
      /\ source' \in BOOLEAN /\ total' \in {total, seen[r] + cost[r]} /\ log' \in SUBSET log
  <2>1. source' \in BOOLEAN
    BY DEF Commit, LInv, TypeOK
  <2>. QED  BY <2>1 DEF Commit, Goto
<1>2. row' = IF kind[r] = "first" THEN "live"
             ELSE IF kind[r] \in {"delete", "drop"} /\ row # "none" THEN "gone" ELSE row
  BY DEF Commit, LInv, TypeOK
<1>3. TypeOK' /\ Counted'
  BY <1>1, <1>2, CallsAssumption DEF LInv, TypeOK, Counted, Steps, Terminal
<1>4. HeldBy(r)'
  BY <1>1 DEF LInv, TypeOK, HeldBy, StepsOf, HoldsSource, HoldsSchema,
     HoldsConversation, HoldsMessages, Passed, Asks, At, TurnSteps, Terminal, RequestKinds
<1>5. \A o \in Others(r) : pc'[o] = pc[o] /\ kind'[o] = kind[o] /\ locks'[o] = locks[o]
  BY <1>1 DEF LInv, TypeOK, Others
<1>6. Held'
  BY <1>4, <1>5, OthersHold
<1>7. Exclusive'
  BY <1>1 DEF LInv, TypeOK, Exclusive
<1>8. CreatedOnce'
  <2>1. pc'[r] = "done" /\ kind'[r] = kind[r]
    BY <1>1 DEF LInv, TypeOK
  <2>2. kind[r] = "first" => \A o \in Others(r) : kind[o] = "first" => pc[o] \in {"idle", "failed"}
    BY <1>1 DEF LInv, CreatedOnce, Active, At, Terminal
  <2>. QED
    BY <1>1, <1>2, <1>5, <2>1, <2>2 DEF LInv, CreatedOnce, Active, At, Others, Terminal
<1>. QED  BY <1>3, <1>6, <1>7, <1>8 DEF LInv

\* The steps, those that fail taken together.
LEMMA Outcomes ==
    ASSUME LInv, Next
    PROVE  \/ \E failing \in Failing : Rollback(failing)
           \/ \E r \in Requests :
                 \/ CreateConversation(r) /\ source
                 \/ LoadConversation(r) /\ source /\ Exists(r)
                 \/ StoreQuestion(r) /\ Exists(r)
                 \/ StoreQuery(r) /\ source
                 \/ Prepare(r) \/ CallModel(r) \/ AnswerOrRaise(r) \/ StoreReply(r) \/ StoreError(r)
                 \/ LoadDoomed(r) /\ row = "live"
                 \/ DeleteRows(r)
                 \/ Commit(r)
                 \/ \E k \in RequestKinds : Start(r, k)
<1>1. CASE Crash
  BY <1>1 DEF Crash, Failing, Active
<1>2. ASSUME NEW r \in Requests, Rollback({r}), Active(r)
      PROVE  \E failing \in Failing : Rollback(failing)
  BY <1>2 DEF Failing
<1>3. ASSUME NEW r \in Requests, Step(r) \/ Abort(r), ~(\E failing \in Failing : Rollback(failing))
      PROVE  \/ CreateConversation(r) /\ source
             \/ LoadConversation(r) /\ source /\ Exists(r)
             \/ StoreQuestion(r) /\ Exists(r)
             \/ StoreQuery(r) /\ source
             \/ Prepare(r) \/ CallModel(r) \/ AnswerOrRaise(r) \/ StoreReply(r) \/ StoreError(r)
             \/ LoadDoomed(r) /\ row = "live"
             \/ DeleteRows(r)
             \/ Commit(r)
  <2>1. ~(Rollback({r}) /\ Active(r))
    BY <1>2, <1>3
  <2>2. ~Abort(r)
    BY <2>1 DEF Abort, Active
  <2>3. ~DeadlockVictim(r)
    <3>1. ASSUME DeadlockVictim(r) PROVE Active(r)
      <4>1. Wanted(pc[r]) # {}
        BY <3>1 DEF DeadlockVictim, Granted, WaitsFor
      <4>2. pc[r] \notin {"idle", "done", "failed"}
        BY <4>1 DEF Wanted
      <4>. QED  BY <4>2 DEF Active, Terminal
    <3>. QED  BY <2>1, <3>1 DEF DeadlockVictim
  <2>4. CASE CreateConversation(r) \/ LoadConversation(r)
    BY <2>1, <2>4 DEF CreateConversation, LoadConversation, Active, At, Terminal
  <2>5. CASE StoreQuestion(r) \/ StoreQuery(r)
    BY <2>1, <2>5 DEF StoreQuestion, StoreQuery, Active, At, Terminal
  <2>6. CASE LoadDoomed(r)
    BY <2>1, <2>6 DEF LoadDoomed, Active, At, Terminal
  <2>. QED  BY <1>3, <2>2, <2>3, <2>4, <2>5, <2>6 DEF Step, Ask
<1>. QED  BY <1>1, <1>3 DEF Next

LEMMA LocksKeep == ASSUME LInv, [Next]_vars PROVE LInv'
<1>1. CASE Next
  BY <1>1, Outcomes, RollbackFreesLocks, CreateLocks, LoadLocks, StoreQuestionLocks, StoreQueryLocks,
     AnsweringLocks, LoadDoomedLocks, DeleteLocks, CommitLocks, StartLocks
<1>2. CASE UNCHANGED vars
  BY <1>2 DEF vars, database, LInv, TypeOK, Counted, Held, HeldBy, HoldsSource, HoldsSchema,
     HoldsConversation, HoldsMessages, Passed, Asks, At, Exclusive, CreatedOnce, Active, Others
<1>. QED  BY <1>1, <1>2

----------------------------------------------------------------------------
(* Rows.                                                                   *)

\* Who is in a turn is alone with the conversation.
LEMMA TurnsAreAlone ==
    ASSUME LInv, NEW r \in Requests, InTurn(r) \/ At(r, "commit"), NEW o \in Others(r)
    PROVE  /\ ~InTurn(o) /\ ~At(o, "commit")
           /\ "conversation" \notin locks[o]
           /\ ~(kind[o] = "first" /\ At(o, "storeQuestion"))
           /\ At(o, "storeQuestion") => ~Granted(o)
<1>1. ASSUME NEW x \in Requests, InTurn(x) \/ At(x, "commit")
      PROVE  "conversation" \in locks[x]
  BY <1>1 DEF InTurn, At, LInv, TypeOK, Held, HeldBy, StepsOf, HoldsConversation, Passed,
     TurnSteps, RequestKinds, Terminal
<1>2. "conversation" \in locks[r] /\ locks[r] \cap locks[o] = {} /\ o \in Requests /\ o # r
  BY <1>1 DEF LInv, Exclusive, Others
<1>3. kind[o] = "first" /\ At(o, "storeQuestion") => "conversation" \in locks[o]
  BY <1>2 DEF LInv, Held, HeldBy, HoldsConversation, Passed, At
<1>4. At(o, "storeQuestion") => ~Granted(o)
  BY <1>2, WantedLocks DEF Granted, WaitsFor, At, Others
<1>. QED  BY <1>1, <1>2, <1>3, <1>4

RInv == LInv /\ Parented /\ TurnsKeepTheirRows

LEMMA CommitKeepsRows ==
    ASSUME RInv, NEW r \in Requests, Commit(r)
    PROVE  Parented' /\ TurnsKeepTheirRows'
<1>. USE DEF RInv
<1>1. /\ At(r, "commit") /\ pc' = [pc EXCEPT ![r] = "done"]
      /\ kind' = kind
      /\ source' = (source /\ kind[r] # "drop")
  BY DEF Commit, Goto
<1>2. row' = IF kind[r] = "first" THEN "live"
             ELSE IF kind[r] \in {"delete", "drop"} /\ row # "none" THEN "gone" ELSE row
  BY DEF Commit, LInv, TypeOK
<1>3. \A o \in Others(r) : /\ ~InTurn(o) /\ ~(kind[o] = "first" /\ At(o, "storeQuestion"))
                           /\ pc'[o] = pc[o]
  BY <1>1, TurnsAreAlone DEF LInv, TypeOK, Others
<1>4. pc'[r] = "done"
  BY <1>1 DEF LInv, TypeOK
<1>5. kind[r] = "first" => source
  BY <1>1 DEF TurnsKeepTheirRows, InTurn, At
<1>6. Parented'
  BY <1>1, <1>2, <1>3, <1>4, <1>5 DEF Parented, At, Others
<1>7. \A o \in Requests : ~InTurn(o)'
  BY <1>1, <1>3, <1>4 DEF InTurn, At, Others
<1>. QED  BY <1>6, <1>7 DEF TurnsKeepTheirRows

LEMMA RowsStay == ASSUME RInv, [Next]_vars PROVE RInv'
<1>. USE DEF RInv
<1>1. LInv'
  BY LocksKeep
<1>2. ASSUME NEW r \in Requests, Commit(r) PROVE Parented' /\ TurnsKeepTheirRows'
  BY <1>2, CommitKeepsRows
<1>3. ASSUME source' = source, row' = row, NEW r \in Requests,
             \A o \in Others(r) : pc'[o] = pc[o] /\ kind'[o] = kind[o],
             InTurn(r)' \/ (kind[r] = "first" /\ At(r, "storeQuestion"))' => source /\ Exists(r)'
      PROVE  Parented' /\ TurnsKeepTheirRows'
  <2>1. Parented'
    BY <1>3 DEF Parented, At, Others
  <2>2. \A o \in Others(r) : (InTurn(o)' <=> InTurn(o)) /\ (Exists(o)' <=> Exists(o))
    BY <1>3 DEF InTurn, At, Exists
  <2>. QED  BY <1>3, <2>1, <2>2 DEF TurnsKeepTheirRows, Others
<1>4. ASSUME NEW failing \in Failing, Rollback(failing) PROVE Parented' /\ TurnsKeepTheirRows'
  <2>1. source' = source /\ row' = row /\ kind' = kind
    BY <1>4 DEF Rollback, database
  <2>2. \A o \in Requests : pc'[o] = pc[o] \/ pc'[o] = "failed"
    BY <1>4 DEF Rollback
  <2>3. \A o \in Requests : (InTurn(o)' => InTurn(o)) /\ (Exists(o)' <=> Exists(o))
    BY <2>1, <2>2 DEF InTurn, At, Exists
  <2>. QED  BY <2>1, <2>2, <2>3 DEF Parented, TurnsKeepTheirRows, At
<1>5. ASSUME NEW r \in Requests, CreateConversation(r), source
      PROVE  Parented' /\ TurnsKeepTheirRows'
  <2>1. /\ source' = source /\ row' = row /\ kind' = kind /\ At(r, "create")
        /\ pc' = [pc EXCEPT ![r] = "storeQuestion"]
    BY <1>5 DEF CreateConversation, Goto, database
  <2>2. pc'[r] = "storeQuestion" /\ \A o \in Others(r) : pc'[o] = pc[o]
    BY <2>1 DEF LInv, TypeOK, Others
  <2>3. kind[r] = "first" => row = "none"
    BY <2>1 DEF LInv, CreatedOnce, Active, At, Terminal
  <2>. QED  BY <1>3, <1>5, <2>1, <2>2, <2>3 DEF InTurn, At, Exists
<1>6. ASSUME NEW r \in Requests, LoadConversation(r), source /\ Exists(r)
      PROVE  Parented' /\ TurnsKeepTheirRows'
  <2>1. /\ source' = source /\ row' = row /\ kind' = kind
        /\ pc' = [pc EXCEPT ![r] = "storeQuestion"]
    BY <1>6 DEF LoadConversation, Goto, database
  <2>2. pc'[r] = "storeQuestion" /\ \A o \in Others(r) : pc'[o] = pc[o]
    BY <2>1 DEF LInv, TypeOK, Others
  <2>. QED  BY <1>3, <1>6, <2>1, <2>2 DEF InTurn, At, Exists
<1>7. ASSUME NEW r \in Requests, StoreQuestion(r), Exists(r)
      PROVE  Parented' /\ TurnsKeepTheirRows'
  <2>1. /\ source' = source /\ row' = row /\ kind' = kind /\ At(r, "storeQuestion")
        /\ pc' = [pc EXCEPT ![r] = "storeQuery"]
    BY <1>7 DEF StoreQuestion, Goto, database
  <2>2. pc'[r] = "storeQuery" /\ \A o \in Others(r) : pc'[o] = pc[o]
    BY <2>1 DEF LInv, TypeOK, Others
  <2>3. source
    BY <1>7, <2>1 DEF Exists, Parented
  <2>. QED  BY <1>3, <1>7, <2>1, <2>2, <2>3 DEF InTurn, At, Exists
<1>8. ASSUME NEW r \in Requests,
             \/ StoreQuery(r) /\ source
             \/ Prepare(r) \/ CallModel(r) \/ AnswerOrRaise(r) \/ StoreReply(r) \/ StoreError(r)
      PROVE  Parented' /\ TurnsKeepTheirRows'
  <2>1. /\ source' = source /\ row' = row /\ kind' = kind
        /\ pc[r] \in {"storeQuery", "prepare", "model", "reply", "storeError"}
        /\ pc' = [pc EXCEPT ![r] = pc'[r]]
    BY <1>8 DEF StoreQuery, Prepare, CallModel, AnswerOrRaise, StoreReply, StoreError, Goto, At,
       database, LInv, TypeOK
  <2>2. \A o \in Others(r) : pc'[o] = pc[o]
    BY <2>1 DEF LInv, TypeOK, Others
  <2>3. source /\ Exists(r)
    BY <2>1 DEF TurnsKeepTheirRows, InTurn
  <2>. QED  BY <1>3, <2>1, <2>2, <2>3 DEF Exists
<1>9. ASSUME NEW r \in Requests, (LoadDoomed(r) /\ row = "live") \/ DeleteRows(r)
      PROVE  Parented' /\ TurnsKeepTheirRows'
  <2>1. /\ source' = source /\ row' = row /\ kind' = kind
        /\ pc[r] \in {"loadDoomed", "deleteMessages", "deleteRow", "dropSource", "dropSchema",
                      "dropRow", "dropMessages"}
        /\ pc' = [pc EXCEPT ![r] = pc'[r]]
        /\ pc'[r] \in {"deleteMessages", "deleteRow", "dropSchema", "dropRow", "dropMessages", "commit"}
    BY <1>9 DEF LoadDoomed, DeleteRows, NextDelete, Goto, At, database, LInv, TypeOK
  <2>2. \A o \in Others(r) : pc'[o] = pc[o]
    BY <2>1 DEF LInv, TypeOK, Others
  <2>3. kind[r] \notin {"first", "ask"}
    BY <2>1 DEF LInv, Held, HeldBy, StepsOf, TurnSteps, Terminal
  <2>. QED  BY <1>3, <2>1, <2>2, <2>3 DEF InTurn, At
<1>10. ASSUME NEW r \in Requests, NEW k \in RequestKinds, Start(r, k)
       PROVE  Parented' /\ TurnsKeepTheirRows'
  <2>1. /\ source' = source /\ row' = row
        /\ kind' = [kind EXCEPT ![r] = k] /\ pc' = [pc EXCEPT ![r] = FirstStep[k]]
    BY <1>10 DEF Start, Goto, database
  <2>2. /\ pc'[r] \in {"create", "load", "loadDoomed", "dropSource"}
        /\ \A o \in Others(r) : pc'[o] = pc[o] /\ kind'[o] = kind[o]
    BY <2>1 DEF LInv, TypeOK, Others, FirstStep, RequestKinds
  <2>. QED  BY <1>3, <2>1, <2>2 DEF InTurn, At
<1>11. CASE UNCHANGED vars
  <2>1. source' = source /\ row' = row /\ kind' = kind /\ pc' = pc
    BY <1>11 DEF vars, database
  <2>2. \A o \in Requests : (InTurn(o)' <=> InTurn(o)) /\ (Exists(o)' <=> Exists(o))
    BY <2>1 DEF InTurn, At, Exists
  <2>3. TurnsKeepTheirRows'
    BY <2>1, <2>2 DEF TurnsKeepTheirRows
  <2>4. Parented'
    BY <2>1 DEF Parented, At
  <2>. QED  BY <1>1, <2>3, <2>4
<1>. QED
  BY <1>1, <1>2, <1>4, <1>5, <1>6, <1>7, <1>8, <1>9, <1>10, <1>11, Outcomes

----------------------------------------------------------------------------
(* Messages and usage records.                                             *)

MInv == RInv /\ RowsFit /\ HistoryIsCurrent

\* A handler that is not in a turn has written nothing that can be seen.
LEMMA OfWhom ==
    ASSUME MInv
    PROVE  /\ \A m \in log : m \in Message /\ m.by \in Requests /\ m.role \in Roles
           /\ \A u \in usage : u \in UsageRow /\ u.by \in Requests
           /\ \A r \in Requests : Replied(r) => pc[r] \in {"commit", "done"}
BY DEF MInv, RInv, LInv, TypeOK, RowsFit, Message, UsageRow, Replied

\* A step of r that writes no row and ends nothing.
WritesNothing(r) ==
    /\ log' = log /\ usage' = usage /\ row' = row
    /\ \A o \in Others(r) : pc'[o] = pc[o] /\ kind'[o] = kind[o] /\ history'[o] = history[o]
    /\ pc[r] \notin {"commit", "done"} /\ pc'[r] # "done"
    /\ InTurn(r) => InTurn(r)'
    /\ pc'[r] \in {"model", "reply"} => history'[r] = Visible(r)
    /\ total' = total /\ seen'[r] \in {seen[r], total}
    /\ \A o \in Others(r) : cost'[o] = cost[o] /\ seen'[o] = seen[o]

LEMMA WritingNothing ==
    ASSUME MInv, NEW r \in Requests, WritesNothing(r)
    PROVE  RowsFit' /\ HistoryIsCurrent'
<1>. USE DEF MInv
<1>1. \A o \in Others(r) : InTurn(o)' <=> InTurn(o)
  BY DEF WritesNothing, InTurn, At
<1>2. \A o \in Requests : At(o, "done")' <=> At(o, "done")
  BY DEF WritesNothing, At, Others
<1>3. \A o \in Requests : Visible(o)' = Visible(o)
  BY <1>2, OfWhom DEF WritesNothing, Visible
<1>4. HistoryIsCurrent'
  BY <1>3 DEF WritesNothing, HistoryIsCurrent, Others
<1>5. \A o \in Requests : Replied(o)' <=> Replied(o)
  BY DEF WritesNothing, Replied
<1>6. (\A m \in log : \/ InTurn(m.by)
                      \/ At(m.by, "done") /\ Asks(m.by) /\ row # "none")'
  BY <1>1, <1>2, OfWhom DEF RowsFit, WritesNothing, Asks, At, Others
<1>7. (\A m \in log : m.role = "assistant" => pc[m.by] \in {"commit", "done"})'
  BY OfWhom DEF RowsFit, WritesNothing, Others
<1>8. (\A u \in usage : \/ At(u.by, "commit") /\ Asks(u.by)
                        \/ At(u.by, "done") /\ Asks(u.by) /\ row # "none")'
  BY OfWhom DEF RowsFit, WritesNothing, Others, At, Asks
<1>9. (row # "gone" => \A o \in Requests : Replied(o) <=> \E u \in usage : u.by = o)'
  BY <1>5 DEF RowsFit, WritesNothing
<1>. QED  BY <1>4, <1>6, <1>7, <1>8, <1>9 DEF RowsFit

LEMMA RollbackUnwrites ==
    ASSUME MInv, NEW failing \in Failing, Rollback(failing)
    PROVE  RowsFit' /\ HistoryIsCurrent'
<1>. USE DEF MInv
<1>1. /\ log' = {m \in log : m.by \notin failing}
      /\ usage' = {u \in usage : u.by \notin failing}
      /\ row' = row /\ kind' = kind /\ history' = history
  BY DEF Rollback, database
<1>2. \A o \in Requests : pc'[o] = IF o \in failing THEN "failed" ELSE pc[o]
  BY DEF Rollback
<1>3. \A o \in Requests : o \in failing => pc[o] # "done"
  BY DEF Failing, Active, Terminal
<1>4. \A o \in Requests : o \notin failing => Visible(o)' = Visible(o)
  BY <1>1, <1>2, <1>3, OfWhom DEF Visible, At
<1>5. HistoryIsCurrent'
  BY <1>1, <1>2, <1>4 DEF HistoryIsCurrent
<1>6. \A o \in Requests : Replied(o)' <=> Replied(o) /\ o \notin failing
  BY <1>1 DEF Replied
<1>7. (\A m \in log : \/ InTurn(m.by)
                      \/ At(m.by, "done") /\ Asks(m.by) /\ row # "none")'
  BY <1>1, <1>2, OfWhom DEF RowsFit, Asks, At, InTurn
<1>8. (\A m \in log : m.role = "assistant" => pc[m.by] \in {"commit", "done"})'
  BY <1>1, <1>2, OfWhom DEF RowsFit
<1>9. (\A u \in usage : \/ At(u.by, "commit") /\ Asks(u.by)
                        \/ At(u.by, "done") /\ Asks(u.by) /\ row # "none")'
  BY <1>1, <1>2, OfWhom DEF RowsFit, At, Asks
<1>10. (row # "gone" => \A o \in Requests : Replied(o) <=> \E u \in usage : u.by = o)'
  BY <1>1, <1>6 DEF RowsFit
<1>. QED  BY <1>5, <1>7, <1>8, <1>9, <1>10 DEF RowsFit

\* The question goes in when nobody is in a turn.
LEMMA QuestionFits ==
    ASSUME MInv, NEW r \in Requests, StoreQuestion(r), Exists(r)
    PROVE  RowsFit' /\ HistoryIsCurrent'
<1>. USE DEF MInv
<1>1. /\ At(r, "storeQuestion") /\ Granted(r) /\ pc' = [pc EXCEPT ![r] = "storeQuery"]
      /\ log' = log \cup {[by |-> r, role |-> "user"]}
      /\ row' = row /\ usage' = usage /\ kind' = kind /\ history' = history
  BY DEF StoreQuestion, Goto, Insert, database
<1>2. pc'[r] = "storeQuery" /\ \A o \in Others(r) : pc'[o] = pc[o]
  BY <1>1 DEF RInv, LInv, TypeOK, Others
<1>3. \A o \in Others(r) : ~InTurn(o)
  BY <1>1, TurnsAreAlone DEF RInv, Others
<1>4. HistoryIsCurrent'
  BY <1>2, <1>3 DEF HistoryIsCurrent, InTurn, Others
<1>5. \A o \in Requests : Replied(o)' <=> Replied(o)
  BY <1>1 DEF Replied
<1>6. (\A m \in log : \/ InTurn(m.by)
                      \/ At(m.by, "done") /\ Asks(m.by) /\ row # "none")'
  BY <1>1, <1>2, OfWhom DEF RowsFit, Asks, At, InTurn, Others
<1>7. (\A m \in log : m.role = "assistant" => pc[m.by] \in {"commit", "done"})'
  BY <1>1, <1>2, OfWhom DEF RowsFit, At, Others
<1>8. (\A u \in usage : \/ At(u.by, "commit") /\ Asks(u.by)
                        \/ At(u.by, "done") /\ Asks(u.by) /\ row # "none")'
  BY <1>1, <1>2, OfWhom DEF RowsFit, At, Asks, Others
<1>9. (row # "gone" => \A o \in Requests : Replied(o) <=> \E u \in usage : u.by = o)'
  BY <1>1, <1>5 DEF RowsFit
<1>. QED  BY <1>4, <1>6, <1>7, <1>8, <1>9 DEF RowsFit

\* The reply goes in with its usage record.
LEMMA ReplyFits ==
    ASSUME MInv, NEW r \in Requests, StoreReply(r)
    PROVE  RowsFit' /\ HistoryIsCurrent'
<1>. USE DEF MInv
<1>1. /\ At(r, "reply") /\ pc' = [pc EXCEPT ![r] = "commit"]
      /\ log' = log \cup {[by |-> r, role |-> "assistant"]}
      /\ usage' = usage \cup {[by |-> r, tokens |-> cost[r]]}
      /\ row' = row /\ kind' = kind /\ history' = history
  BY DEF StoreReply, Goto, Insert, database
<1>2. pc'[r] = "commit" /\ \A o \in Others(r) : pc'[o] = pc[o]
  BY <1>1 DEF RInv, LInv, TypeOK, Others
<1>3. \A o \in Others(r) : ~InTurn(o)
  BY <1>1, TurnsAreAlone DEF RInv, InTurn, At
<1>4. HistoryIsCurrent'
  BY <1>2, <1>3 DEF HistoryIsCurrent, InTurn, Others
<1>5. Asks(r)
  BY <1>1 DEF RInv, LInv, TypeOK, Held, HeldBy, StepsOf, RequestKinds, TurnSteps, Terminal, Asks, At
<1>6. \A o \in Requests : Replied(o)' <=> Replied(o) \/ o = r
  BY <1>1 DEF Replied
<1>7. (\A m \in log : \/ InTurn(m.by)
                      \/ At(m.by, "done") /\ Asks(m.by) /\ row # "none")'
  BY <1>1, <1>2, <1>5, OfWhom DEF RowsFit, Asks, At, InTurn, Others
<1>8. (\A m \in log : m.role = "assistant" => pc[m.by] \in {"commit", "done"})'
  BY <1>1, <1>2, OfWhom DEF RowsFit, At, Others
<1>9. (\A u \in usage : \/ At(u.by, "commit") /\ Asks(u.by)
                        \/ At(u.by, "done") /\ Asks(u.by) /\ row # "none")'
  BY <1>1, <1>2, <1>5, OfWhom DEF RowsFit, At, Asks, Others
<1>10. (row # "gone" => \A o \in Requests : Replied(o) <=> \E u \in usage : u.by = o)'
  <2>1. (\E u \in usage' : u.by = r) /\ Replied(r)'
    <3>1. [by |-> r, tokens |-> cost[r]] \in usage'
      BY <1>1
    <3>. QED  BY <3>1, <1>6
  <2>2. \A o \in Others(r) : (\E u \in usage' : u.by = o) <=> (\E u \in usage : u.by = o)
    BY <1>1 DEF Others
  <2>. QED  BY <2>1, <2>2, <1>1, <1>6 DEF RowsFit, Others
<1>. QED  BY <1>4, <1>7, <1>8, <1>9, <1>10 DEF RowsFit

\* A commit, of a turn or of a deletion, happens when nobody is in a turn.
LEMMA CommitFits ==
    ASSUME MInv, NEW r \in Requests, Commit(r)
    PROVE  RowsFit' /\ HistoryIsCurrent'
<1>. USE DEF MInv
<1>1. /\ At(r, "commit") /\ pc' = [pc EXCEPT ![r] = "done"]
      /\ usage' = usage /\ kind' = kind /\ history' = history
      /\ log' = IF kind[r] \in {"delete", "drop"} THEN {} ELSE log
  BY DEF Commit, Goto
<1>2. row' = IF kind[r] = "first" THEN "live"
             ELSE IF kind[r] \in {"delete", "drop"} /\ row # "none" THEN "gone" ELSE row
  BY DEF Commit, RInv, LInv, TypeOK
<1>3. pc'[r] = "done" /\ \A o \in Others(r) : pc'[o] = pc[o]
  BY <1>1 DEF RInv, LInv, TypeOK, Others
<1>4. \A o \in Others(r) : ~InTurn(o) /\ ~At(o, "commit")
  BY <1>1, TurnsAreAlone DEF RInv
<1>5. kind[r] \in {"ask", "delete"} => row # "none"
  BY DEF RInv, LInv, CreatedOnce
<1>6. row # "none" => row' # "none"
  BY <1>2
<1>7. HistoryIsCurrent'
  BY <1>3, <1>4 DEF HistoryIsCurrent, InTurn, Others
<1>8. (\A m \in log : \/ InTurn(m.by)
                      \/ At(m.by, "done") /\ Asks(m.by) /\ row # "none")'
  <2>. SUFFICES ASSUME NEW m \in log'
                PROVE  (At(m.by, "done") /\ Asks(m.by) /\ row # "none")'
    OBVIOUS
  <2>1. m \in log /\ m.by \in Requests /\ kind[r] \in {"first", "ask"}
    BY <1>1, OfWhom DEF RInv, LInv, TypeOK, RequestKinds
  <2>2. CASE m.by = r
    BY <2>1, <2>2, <1>1, <1>2, <1>3, <1>5 DEF At, Asks
  <2>3. CASE m.by # r
    BY <2>1, <2>3, <1>1, <1>3, <1>4, <1>6 DEF RowsFit, At, Asks, Others
  <2>. QED  BY <2>2, <2>3
<1>9. (\A m \in log : m.role = "assistant" => pc[m.by] \in {"commit", "done"})'
  BY <1>1, <1>3, OfWhom DEF RowsFit, Others
<1>10. (\A u \in usage : \/ At(u.by, "commit") /\ Asks(u.by)
                         \/ At(u.by, "done") /\ Asks(u.by) /\ row # "none")'
  <2>. SUFFICES ASSUME NEW u \in usage
                PROVE  (At(u.by, "done") /\ Asks(u.by) /\ row # "none")'
    BY <1>1
  <2>1. CASE u.by = r
    BY <2>1, <1>1, <1>2, <1>3, <1>5 DEF RowsFit, At, Asks
  <2>2. CASE u.by # r
    BY <2>2, <1>1, <1>3, <1>4, <1>6, OfWhom DEF RowsFit, At, Asks, Others
  <2>. QED  BY <2>1, <2>2
<1>11. (row # "gone" => \A o \in Requests : Replied(o) <=> \E u \in usage : u.by = o)'
  <2>1. CASE kind[r] \in {"first", "ask"}
    <3>1. log' = log /\ (row' # "gone" => row # "gone")
      <4>1. kind[r] = "first" => row = "none"
        BY <1>1 DEF RInv, LInv, CreatedOnce, Active, At, Terminal
      <4>. QED  BY <4>1, <2>1, <1>1, <1>2
    <3>. QED  BY <1>1, <3>1 DEF RowsFit, Replied
  <2>2. CASE kind[r] = "drop" /\ row = "none"
    <3>1. usage = {}
      BY <2>2, <1>4, OfWhom DEF RowsFit, At, Asks, Others
    <3>. QED  BY <3>1, <2>2, <1>1 DEF Replied
  <2>3. CASE kind[r] \in {"delete", "drop"} /\ row # "none"
    BY <2>3, <1>2
  <2>. QED
    BY <2>1, <2>2, <2>3, <1>5 DEF RInv, LInv, TypeOK, RequestKinds
<1>. QED  BY <1>7, <1>8, <1>9, <1>10, <1>11 DEF RowsFit

\* All steps but the two writes of a turn, the commit and the rollbacks.
LEMMA QuietSteps ==
    ASSUME MInv, NEW r \in Requests,
           \/ CreateConversation(r) /\ source
           \/ LoadConversation(r) /\ source /\ Exists(r)
           \/ StoreQuery(r) /\ source
           \/ Prepare(r) \/ CallModel(r) \/ AnswerOrRaise(r) \/ StoreError(r)
           \/ LoadDoomed(r) /\ row = "live"
           \/ DeleteRows(r)
           \/ \E k \in RequestKinds : Start(r, k)
    PROVE  WritesNothing(r)
<1>. USE DEF MInv
<1>1. LInv
  BY DEF RInv
<1>2. ASSUME \/ CreateConversation(r) /\ source
             \/ LoadDoomed(r) /\ row = "live"
             \/ DeleteRows(r)
      PROVE  WritesNothing(r)
  <2>1. /\ log' = log /\ usage' = usage /\ row' = row /\ kind' = kind /\ history' = history
        /\ total' = total /\ seen' = seen /\ cost' = cost
        /\ pc' = [pc EXCEPT ![r] = pc'[r]]
        /\ pc[r] \in {"create", "loadDoomed", "deleteMessages", "deleteRow",
                      "dropSource", "dropSchema", "dropRow", "dropMessages"}
        /\ pc'[r] \in {"storeQuestion", "deleteMessages", "deleteRow", "dropSchema", "dropRow",
                       "dropMessages", "commit"}
    BY <1>1, <1>2 DEF CreateConversation, LoadDoomed, DeleteRows, NextDelete, Goto,
       At, database, LInv, TypeOK
  <2>. QED
    BY <1>1, <2>1 DEF WritesNothing, LInv, TypeOK, InTurn, At, Others
<1>3. ASSUME LoadConversation(r), source, Exists(r) PROVE WritesNothing(r)
  <2>1. /\ log' = log /\ usage' = usage /\ row' = row /\ kind' = kind /\ history' = history
        /\ total' = total /\ seen' = [seen EXCEPT ![r] = total] /\ cost' = cost
        /\ pc' = [pc EXCEPT ![r] = "storeQuestion"] /\ At(r, "load")
    BY <1>3 DEF LoadConversation, Goto, database
  <2>. QED
    BY <1>1, <2>1 DEF WritesNothing, LInv, TypeOK, InTurn, At, Others
<1>4. ASSUME \/ StoreQuery(r) /\ source
             \/ Prepare(r) \/ CallModel(r) \/ AnswerOrRaise(r) \/ StoreError(r)
      PROVE  WritesNothing(r)
  <2>1. /\ log' = log /\ usage' = usage /\ row' = row /\ kind' = kind
        /\ total' = total /\ seen' = seen /\ cost' = [cost EXCEPT ![r] = cost'[r]]
        /\ pc' = [pc EXCEPT ![r] = pc'[r]] /\ history' = [history EXCEPT ![r] = history'[r]]
        /\ pc[r] \in {"storeQuery", "prepare", "model", "storeError"}
        /\ pc'[r] \in {"prepare", "model", "reply", "storeError", "commit"}
        /\ pc'[r] \in {"model", "reply"} => history'[r] = Visible(r)
    <3>1. CASE StoreQuery(r) /\ source
      <4>1. /\ At(r, "storeQuery") /\ pc' = [pc EXCEPT ![r] = "prepare"]
            /\ UNCHANGED <<total, seen, cost, log, usage, row, kind, history>>
        BY <3>1 DEF StoreQuery, Goto, database
      <4>. QED  BY <1>1, <4>1 DEF At, LInv, TypeOK
    <3>2. CASE StoreError(r)
      BY <1>1, <3>2 DEF StoreError, Goto, At, database, LInv, TypeOK
    <3>3. CASE Prepare(r)
      BY <1>1, <3>3 DEF Prepare, Goto, At, database, LInv, TypeOK
    <3>4. CASE CallModel(r)
      BY <1>1, <3>4 DEF CallModel, Goto, At, database, LInv, TypeOK, HistoryIsCurrent
    <3>5. CASE AnswerOrRaise(r)
      BY <1>1, <3>5 DEF AnswerOrRaise, Goto, At, database, LInv, TypeOK, HistoryIsCurrent
    <3>. QED  BY <1>4, <3>1, <3>2, <3>3, <3>4, <3>5
  <2>2. Asks(r)
    BY <1>1, <2>1 DEF LInv, TypeOK, Held, HeldBy, StepsOf, RequestKinds, TurnSteps, Terminal, Asks
  <2>. QED
    BY <1>1, <2>1, <2>2 DEF WritesNothing, LInv, TypeOK, InTurn, At, Others, Asks
<1>5. ASSUME NEW k \in RequestKinds, Start(r, k) PROVE WritesNothing(r)
  <2>1. /\ UNCHANGED <<log, usage, row, history, total, seen, cost>> /\ At(r, "idle")
        /\ kind' = [kind EXCEPT ![r] = k] /\ pc' = [pc EXCEPT ![r] = FirstStep[k]]
    BY <1>5 DEF Start, Goto, database
  <2>2. pc'[r] \in {"create", "load", "loadDoomed", "dropSource"}
    BY <1>1, <2>1 DEF LInv, TypeOK, FirstStep, RequestKinds
  <2>. QED
    BY <1>1, <2>1, <2>2 DEF WritesNothing, LInv, TypeOK, InTurn, At, Others
<1>. QED  BY <1>2, <1>3, <1>4, <1>5

\* The steps that write, and the others.
LEMMA Writers ==
    ASSUME MInv, Next
    PROVE  \/ \E failing \in Failing : Rollback(failing)
           \/ \E r \in Requests : \/ WritesNothing(r) \/ StoreReply(r) \/ Commit(r)
                                  \/ StoreQuestion(r) /\ Exists(r)
<1>1. LInv
  BY DEF MInv, RInv
<1>. QED  BY <1>1, QuietSteps, Outcomes

LEMMA MessagesFit == ASSUME MInv, [Next]_vars PROVE MInv'
<1>. USE DEF MInv
<1>1. RInv'
  BY RowsStay
<1>2. CASE Next
  BY <1>1, <1>2, Writers, WritingNothing, RollbackUnwrites, QuestionFits, ReplyFits, CommitFits
<1>3. CASE UNCHANGED vars
  <2>1. /\ row' = row /\ kind' = kind /\ pc' = pc /\ log' = log /\ usage' = usage
        /\ history' = history
    BY <1>3 DEF vars, database
  <2>2. HistoryIsCurrent'
    BY <2>1 DEF HistoryIsCurrent, Visible, At
  <2>3. RowsFit'
    BY <2>1 DEF RowsFit, InTurn, At, Asks, Replied
  <2>. QED  BY <1>1, <2>2, <2>3
<1>. QED  BY <1>2, <1>3

----------------------------------------------------------------------------
(* The total.                                                              *)

BInv == MInv /\ Backed /\ TotalIsBacked

Paid == {u \in usage : At(u.by, "done")}

\* The tokens of more rows are more, by those of the rows that were added.
LEMMA TokensAdd ==
    ASSUME NEW some, NEW all, some \subseteq all, IsFiniteSet(Tokens(all))
    PROVE  /\ IsFiniteSet(Tokens(some))
           /\ Cardinality(Tokens(some)) \in Nat /\ Cardinality(Tokens(all)) \in Nat
           /\ Cardinality(Tokens(some)) <= Cardinality(Tokens(all))
           /\ \A u \in all : u \notin some /\ u.tokens \in Nat =>
                Cardinality(Tokens(some)) + u.tokens <= Cardinality(Tokens(all))
<1>1. Tokens(some) \in SUBSET Tokens(all)
  BY DEF Tokens
<1>2. /\ IsFiniteSet(Tokens(some)) /\ Cardinality(Tokens(some)) \in Nat
      /\ Cardinality(Tokens(all)) \in Nat /\ Cardinality(Tokens(some)) <= Cardinality(Tokens(all))
  BY <1>1, FS_Subset, FS_CardinalityType
<1>3. ASSUME NEW u \in all, u \notin some, u.tokens \in Nat
      PROVE  Cardinality(Tokens(some)) + u.tokens <= Cardinality(Tokens(all))
  <2>. DEFINE Added == {u} \X (1 .. u.tokens)
  <2>1. IsFiniteSet(Added) /\ Cardinality(Added) = u.tokens
    <3>1. IsFiniteSet({u}) /\ Cardinality({u}) = 1
      BY FS_Singleton
    <3>2. IsFiniteSet(1 .. u.tokens) /\ Cardinality(1 .. u.tokens) = u.tokens
      BY <1>3, FS_Interval
    <3>3. IsFiniteSet(Added) /\ Cardinality(Added) = Cardinality({u}) * Cardinality(1 .. u.tokens)
      BY <3>1, <3>2, FS_Product
    <3>. QED  BY <3>1, <3>2, <3>3, <1>3
  <2>2. Tokens(some) \cap Added = {}
    BY <1>3 DEF Tokens
  <2>3. Tokens(some) \cup Added \in SUBSET Tokens(all)
    BY <1>1 DEF Tokens
  <2>. HIDE DEF Added
  <2>4. Cardinality(Tokens(some) \cup Added) = Cardinality(Tokens(some)) + u.tokens
    <3>1. Cardinality(Tokens(some) \cap Added) = 0
      BY <2>2, FS_EmptySet
    <3>2. Cardinality(Tokens(some) \cup Added)
            = Cardinality(Tokens(some)) + Cardinality(Added) - Cardinality(Tokens(some) \cap Added)
      BY <1>2, <2>1, FS_Union
    <3>. QED  BY <1>2, <1>3, <2>1, <3>1, <3>2
  <2>. QED  BY <2>3, <2>4, FS_Subset
<1>. QED  BY <1>2, <1>3

\* What is recorded is a number.
LEMMA RecordedIsNat == ASSUME Backed PROVE Recorded \in Nat
<1>1. Recorded = Cardinality(Tokens(Paid)) /\ Paid \subseteq usage
  BY DEF Recorded, Paid
<1>. QED  BY <1>1, TokensAdd DEF Backed

\* A step that ends no request leaves the paid rows as they are.
LEMMA PaidStays ==
    ASSUME Backed, Paid' = Paid
    PROVE  Recorded' = Recorded
BY DEF Recorded, Paid

LEMMA WritingNothingPays ==
    ASSUME BInv, NEW r \in Requests, WritesNothing(r)
    PROVE  Backed' /\ TotalIsBacked'
<1>. USE DEF BInv
<1>1. Paid' = Paid
  BY OfWhom DEF Paid, WritesNothing, At, Others
<1>2. Recorded' = Recorded
  BY <1>1, PaidStays
<1>3. \A o \in Requests : seen'[o] <= Recorded
  BY DEF WritesNothing, Backed, TotalIsBacked, Others
<1>4. ASSUME NEW o \in Requests, (At(o, "commit") /\ Replied(o))'
      PROVE  [by |-> o, tokens |-> cost'[o]] \in usage'
  <2>1. Replied(o) /\ o # r
    BY <1>4, OfWhom DEF WritesNothing, Replied
  <2>. QED  BY <1>4, <2>1 DEF WritesNothing, Backed, At, Others
<1>. QED  BY <1>2, <1>3, <1>4 DEF Backed, TotalIsBacked, WritesNothing

LEMMA RollbackPays ==
    ASSUME BInv, NEW failing \in Failing, Rollback(failing)
    PROVE  Backed' /\ TotalIsBacked'
<1>. USE DEF BInv
<1>1. /\ log' \subseteq log /\ usage' = {u \in usage : u.by \notin failing}
      /\ total' = total /\ seen' = seen /\ cost' = cost
  BY DEF Rollback, database
<1>2. \A o \in Requests : pc'[o] = IF o \in failing THEN "failed" ELSE pc[o]
  BY DEF Rollback
<1>3. \A o \in failing : pc[o] # "done"
  BY DEF Failing, Active, Terminal
<1>4. Paid' = Paid
  BY <1>1, <1>2, <1>3, OfWhom DEF Paid, At
<1>5. Recorded' = Recorded
  BY <1>4, PaidStays
<1>6. IsFiniteSet(Tokens(usage'))
  BY <1>1, TokensAdd DEF Backed
<1>7. ASSUME NEW o \in Requests, (At(o, "commit") /\ Replied(o))'
      PROVE  [by |-> o, tokens |-> cost'[o]] \in usage'
  BY <1>1, <1>2, <1>7 DEF Backed, At, Replied
<1>. QED  BY <1>1, <1>5, <1>6, <1>7 DEF Backed, TotalIsBacked

LEMMA QuestionPays ==
    ASSUME BInv, NEW r \in Requests, StoreQuestion(r), Exists(r)
    PROVE  Backed' /\ TotalIsBacked'
<1>. USE DEF BInv
<1>1. /\ At(r, "storeQuestion") /\ pc' = [pc EXCEPT ![r] = "storeQuery"]
      /\ log' = log \cup {[by |-> r, role |-> "user"]}
      /\ UNCHANGED <<usage, total, seen, cost>>
  BY DEF StoreQuestion, Goto, Insert, database
<1>2. pc'[r] = "storeQuery" /\ \A o \in Others(r) : pc'[o] = pc[o]
  BY <1>1 DEF MInv, RInv, LInv, TypeOK, Others
<1>3. Paid' = Paid
  BY <1>1, <1>2, OfWhom DEF Paid, At, Others
<1>4. Recorded' = Recorded
  BY <1>3, PaidStays
<1>5. \A o \in Requests : Replied(o)' <=> Replied(o)
  BY <1>1 DEF Replied
<1>6. ASSUME NEW o \in Requests, (At(o, "commit") /\ Replied(o))'
      PROVE  [by |-> o, tokens |-> cost'[o]] \in usage'
  BY <1>1, <1>2, <1>5, <1>6 DEF Backed, At, Others
<1>. QED  BY <1>1, <1>4, <1>6 DEF Backed, TotalIsBacked

\* The record of a reply does not count before its commit.
LEMMA ReplyPays ==
    ASSUME BInv, NEW r \in Requests, StoreReply(r)
    PROVE  Backed' /\ TotalIsBacked'
<1>. USE DEF BInv
<1>1. /\ At(r, "reply") /\ pc' = [pc EXCEPT ![r] = "commit"]
      /\ log' = log \cup {[by |-> r, role |-> "assistant"]}
      /\ usage' = usage \cup {[by |-> r, tokens |-> cost[r]]}
      /\ UNCHANGED <<total, seen, cost>>
  BY DEF StoreReply, Goto, Insert, database
<1>2. pc'[r] = "commit" /\ \A o \in Others(r) : pc'[o] = pc[o]
  BY <1>1 DEF MInv, RInv, LInv, TypeOK, Others
<1>3. Paid' = Paid
  BY <1>1, <1>2, OfWhom DEF Paid, At, Others
<1>4. Recorded' = Recorded
  BY <1>3, PaidStays
<1>5. \A o \in Others(r) : Replied(o)' <=> Replied(o)
  BY <1>1 DEF Replied, Others
<1>6. ASSUME NEW o \in Requests, (At(o, "commit") /\ Replied(o))'
      PROVE  [by |-> o, tokens |-> cost'[o]] \in usage'
  BY <1>1, <1>2, <1>5, <1>6 DEF Backed, At, Others
<1>7. IsFiniteSet(Tokens(usage'))
  <2>1. cost[r] \in Nat
    BY CallsAssumption DEF MInv, RInv, LInv, TypeOK
  <2>2. Tokens(usage') \subseteq Tokens(usage) \cup ({[by |-> r, tokens |-> cost[r]]} \X (1 .. cost[r]))
    BY <1>1 DEF Tokens
  <2>3. IsFiniteSet({[by |-> r, tokens |-> cost[r]]} \X (1 .. cost[r]))
    <3>1. IsFiniteSet({[by |-> r, tokens |-> cost[r]]})
      BY FS_Singleton
    <3>2. IsFiniteSet(1 .. cost[r])
      BY <2>1, FS_Interval
    <3>. QED  BY <3>1, <3>2, FS_Product
  <2>. QED  BY <2>2, <2>3, FS_Union, FS_Subset DEF Backed
<1>. QED  BY <1>1, <1>4, <1>6, <1>7 DEF Backed, TotalIsBacked

\* A commit adds its own tokens to a total that was backed when it was read,
\* and its record to what backs it.
LEMMA CommitPays ==
    ASSUME BInv, NEW r \in Requests, Commit(r)
    PROVE  Backed' /\ TotalIsBacked'
<1>. USE DEF BInv
<1>1. /\ At(r, "commit") /\ pc' = [pc EXCEPT ![r] = "done"]
      /\ UNCHANGED <<usage, seen, cost>> /\ log' \subseteq log
      /\ total' = IF Replied(r) /\ cost[r] > 0 THEN seen[r] + cost[r] ELSE total
  BY DEF Commit, Goto
<1>2. pc'[r] = "done" /\ \A o \in Others(r) : pc'[o] = pc[o]
  BY <1>1 DEF MInv, RInv, LInv, TypeOK, Others
<1>3. Paid \subseteq Paid' /\ \A u \in usage : u.by = r => u \in Paid' /\ u \notin Paid
  BY <1>1, <1>2, OfWhom DEF Paid, At, Others
<1>4. Recorded = Cardinality(Tokens(Paid)) /\ Recorded' = Cardinality(Tokens(Paid'))
  BY DEF Recorded, Paid
<1>5. IsFiniteSet(Tokens(Paid'))
  BY <1>1, TokensAdd DEF Backed, Paid
<1>6. Recorded \in Nat /\ Recorded' \in Nat /\ Recorded <= Recorded'
  BY <1>3, <1>4, <1>5, TokensAdd
<1>7. Replied(r) => Recorded + cost[r] <= Recorded'
  <2>. SUFFICES ASSUME Replied(r) PROVE Recorded + cost[r] <= Recorded'
    OBVIOUS
  <2>. DEFINE own == [by |-> r, tokens |-> cost[r]]
  <2>1. own \in Paid' /\ own \notin Paid /\ own.tokens = cost[r] /\ cost[r] \in Nat
    BY <1>1, <1>3, CallsAssumption DEF Backed, MInv, RInv, LInv, TypeOK
  <2>. HIDE DEF own
  <2>. QED  BY <2>1, <1>3, <1>4, <1>5, TokensAdd
<1>8. total' <= Recorded' /\ \A o \in Requests : seen'[o] <= Recorded'
  <2>1. /\ total \in Nat /\ cost[r] \in Nat /\ \A o \in Requests : seen[o] \in Nat /\ seen[o] <= Recorded
        /\ total <= Recorded
    BY CallsAssumption DEF MInv, RInv, LInv, TypeOK, Backed, TotalIsBacked
  <2>. QED  BY <2>1, <1>1, <1>6, <1>7
<1>9. ASSUME NEW o \in Requests, (At(o, "commit") /\ Replied(o))'
      PROVE  [by |-> o, tokens |-> cost'[o]] \in usage'
  BY <1>1, <1>2, <1>9 DEF Backed, At, Replied, Others
<1>. QED  BY <1>1, <1>8, <1>9 DEF Backed, TotalIsBacked

LEMMA TotalStaysBacked == ASSUME BInv, [Next]_vars PROVE BInv'
<1>. USE DEF BInv
<1>1. MInv'
  BY MessagesFit
<1>2. CASE Next
  BY <1>1, <1>2, Writers, WritingNothingPays, RollbackPays, QuestionPays, ReplyPays, CommitPays
<1>3. CASE UNCHANGED vars
  <2>1. pc' = pc /\ log' = log /\ usage' = usage /\ total' = total /\ seen' = seen /\ cost' = cost
    BY <1>3 DEF vars, database
  <2>2. Recorded' = Recorded
    BY <2>1 DEF Recorded, At
  <2>3. Backed' /\ TotalIsBacked'
    BY <2>1, <2>2 DEF Backed, TotalIsBacked, At, Replied
  <2>. QED  BY <1>1, <2>3
<1>. QED  BY <1>2, <1>3

LEMMA Begin == ASSUME Init PROVE BInv
<1>1. LInv
  BY CallsAssumption DEF Init, LInv, TypeOK, RequestKinds, Steps, Counted, Held, HeldBy, StepsOf,
     HoldsSource, HoldsSchema, HoldsConversation, HoldsMessages, Passed, Asks, At, TurnSteps, Terminal,
     Exclusive, CreatedOnce, Active
<1>2. RowsFit
  BY DEF Init, RowsFit, Replied
<1>3. Parented /\ TurnsKeepTheirRows /\ HistoryIsCurrent
  BY DEF Init, Parented, TurnsKeepTheirRows, HistoryIsCurrent, InTurn, At
<1>4. Backed /\ TotalIsBacked
  <2>1. usage = {} /\ total = 0 /\ (\A r \in Requests : seen[r] = 0 /\ pc[r] = "idle")
    BY DEF Init
  <2>2. Tokens(usage) = {} /\ Tokens(Paid) = {} /\ Recorded = Cardinality(Tokens(Paid))
    BY <2>1 DEF Tokens, Paid, Recorded
  <2>3. Recorded = 0 /\ IsFiniteSet(Tokens(usage))
    BY <2>2, FS_EmptySet
  <2>. QED  BY <2>1, <2>3 DEF Backed, TotalIsBacked, At
<1>. QED  BY <1>1, <1>2, <1>3, <1>4 DEF BInv, MInv, RInv

LEMMA Always == Spec => []BInv
<1>1. Init => BInv
  BY Begin
<1>2. BInv /\ [Next]_vars => BInv'
  BY TotalStaysBacked
<1>. QED  BY <1>1, <1>2, PTL DEF Spec

----------------------------------------------------------------------------
(* What the requests of a conversation can rely on.                        *)

\* Every variable has its type: no row is of a request that does not exist,
\* no turn costs more than its calls.
THEOREM TypeCorrect == Spec => []TypeOK
<1>1. BInv => TypeOK
  BY DEF BInv, MInv, RInv, LInv
<1>. QED  BY <1>1, Always, PTL

\* Two handlers are never in their turns at once, and what the model answers
\* from is the conversation as it is when the reply is stored: the row lock of
\* the question's flush keeps other turns, and deletions, out until the commit.
THEOREM AnswersFromTheConversation == Spec => []HistoryIsCurrent
<1>1. BInv => HistoryIsCurrent
  BY DEF BInv, MInv
<1>. QED  BY <1>1, Always, PTL

\* From its first flush on a turn has its conversation and its data source:
\* deletions of either wait for its locks.
THEOREM TurnsAreNotUprooted == Spec => []TurnsKeepTheirRows
<1>1. BInv => TurnsKeepTheirRows
  BY DEF BInv, MInv, RInv
<1>. QED  BY <1>1, Always, PTL

\* Of a committed turn there is a reply if and only if there is a usage record,
\* whatever crashed, broke or was rolled back before.
THEOREM RepliesMeanRecords == Spec => []RepliesAreRecorded
<1>1. BInv => RepliesAreRecorded
  BY DEF BInv, MInv, RowsFit, RepliesAreRecorded
<1>. QED  BY <1>1, Always, PTL

\* The total of the conversation can fall behind what is recorded for its
\* turns (two sessions that loaded the same total), and never get ahead.
THEOREM TotalNeverAhead == Spec => []TotalIsBacked
<1>1. BInv => TotalIsBacked
  BY DEF BInv
<1>. QED  BY <1>1, Always, PTL
============================================================================
