-------------------------- MODULE AnsweringProofs --------------------------
(***************************************************************************)
(* How a question is answered: the coordinator's loop, and two of the      *)
(* tools that Claude calls in it.                                          *)
(*                                                                         *)
(* Coordinator, for any questions, any cells, any number of tool turns and *)
(* any number of audit retries.  PassedIsVerified speaks of the last       *)
(* answer only.  To be inductive it needs to know that the audit stands    *)
(* behind every text on its way out (AuditInv) and behind every text that  *)
(* may be repeated (CacheInv).  The bound on the calls needs to know how   *)
(* many of them each attempt had (CallInv).                                *)
(*                                                                         *)
(* Auditor, for any answer, any results and any workbook: more results     *)
(* never spoil an answer that passes, its numbers are witnessed and the    *)
(* sheets that it cites are known.                                         *)
(*                                                                         *)
(* WhatIf, for any workbook, any formulas and any scenario.  The search in *)
(* breadth for what an override reaches keeps its queue sorted by          *)
(* distance (Frontier), so a cell is first met at its least distance and   *)
(* the limit cuts off none that is within it.  The comparison needs to     *)
(* know for which cell the last answer of each evaluator is (CompareInv);  *)
(* that it is right is EvaluatorProofs's, of both evaluators.              *)
(*                                                                         *)
(* GoalSeek, for any function, any bounds and any limits.  The bisection   *)
(* keeps the goal inside its bracket, unless the low end was on the goal   *)
(* when it began: an output that it goes on from is beyond the tolerance,  *)
(* so it has a sign, and the half that is kept has the change of signs     *)
(* that the whole had, or the high end that is on the goal.  Each          *)
(* iteration halves the bracket, so one of at most 2 ^ MaxIter has         *)
(* narrowed to neighbours when the search gives up.                        *)
(***************************************************************************)
EXTENDS Coordinator, WhatIf, GoalSeek, SequenceTheorems, FiniteSetTheorems, FunctionTheorems,
        WellFoundedInduction, TLAPS

CONSTANTS
    Unit,    \* of the auditor's numbers
    Values   \* of cells

\* What Accepts stands for.
Audit == INSTANCE Auditor

\* What may be returned as verified.
Verified(t) == t.kind # "sentinel" /\ Accepts(t)

\* A text that is about to be returned was accepted by the audit.
AuditInv == pc = "answered" => Verified(turn.text)

\* So was a text that is kept to be repeated.
CacheInv == \A q \in Questions : cache[q].state = "fresh" => Verified(cache[q].text)

\* Each attempt has its own MaxToolTurns calls, the last of which may be the
\* one that answers.
Budget(attempts) == attempts * MaxToolTurns
CallInv ==
    /\ pc = "lookup" => turn = FirstTurn(turn.question)
    /\ pc = "request" =>
          /\ turn.toolTurns < MaxToolTurns
          /\ turn.calls <= Budget(turn.retries) + turn.toolTurns
    /\ pc \in {"delegate", "check", "partial", "answered"} =>
          turn.calls > 0 /\ turn.calls <= Budget(turn.retries + 1)

IInv == TypeOK /\ AuditInv /\ CacheInv /\ CallInv /\ PassedIsVerified

----------------------------------------------------------------------------
(* Arithmetic of the budget, and the shape of texts, entries and turns.    *)

LEMMA Budgets ==
    ASSUME NEW n \in Nat
    PROVE  /\ Budget(n) \in Nat
           /\ Budget(n + 1) = Budget(n) + MaxToolTurns
           /\ n = 0 => Budget(n) = 0
  BY BoundAssumption DEF Budget

LEMMA BudgetsOrdered ==
    ASSUME NEW n \in Nat, NEW m \in Nat, n <= m
    PROVE  Budget(n) <= Budget(m)
<1> DEFINE k == m - n
<1>1. k \in Nat /\ m = n + k
  OBVIOUS
<1>2. (n + k) * MaxToolTurns = n * MaxToolTurns + k * MaxToolTurns
  BY <1>1, BoundAssumption
<1>3. k * MaxToolTurns \in Nat /\ n * MaxToolTurns \in Nat
  BY <1>1, BoundAssumption
<1>4. QED
  BY <1>1, <1>2, <1>3 DEF Budget

LEMMA Texts ==
    /\ Wordless("empty") \in Text /\ Wordless("sentinel") \in Text
    /\ Prose \subseteq Text
    /\ \A t \in Text, c \in Context : [t EXCEPT !.cites = c] \in Text
  BY DEF Wordless, Text, Prose, Context

LEMMA FirstTurns == ASSUME NEW q \in Questions PROVE FirstTurn(q) \in Turn
  BY Texts, BoundAssumption DEF FirstTurn, Turn

LEMMA TurnFields ==
    ASSUME NEW u \in Turn
    PROVE  /\ u.question \in Questions /\ u.text \in Text /\ u.calls \in Nat
           /\ u.toolTurns \in Nat
           /\ u.retries \in Nat /\ u.retries <= MaxAuditRetries
           /\ u.retries + 1 \in Nat /\ u.retries + 1 <= MaxAuditRetries + 1
<1>1. /\ u.question \in Questions /\ u.text \in Text /\ u.calls \in Nat
      /\ u.toolTurns \in 0..MaxToolTurns /\ u.retries \in 0..MaxAuditRetries
  BY DEF Turn
<1>2. QED
  BY <1>1, BoundAssumption

LEMMA Nothing == NoEntry \in Entry /\ NoAnswer \in Answers /\ NoEntity \in Context
  BY Texts DEF NoEntry, NoAnswer, Entry, Answers, Context

\* A turn that returns leaves a well-formed state behind it.
LEMMA Returns ==
    ASSUME IInv, NEW a \in Answers, Return(a), active' \in Context,
           cache' \in [Questions -> Entry], CacheInv',
           a.status = "passed" => Verified(a.text)
    PROVE  IInv'
<1>1. pc' = "idle" /\ answer' = a /\ turn' \in Turn
  BY FirstTurns DEF Return, IInv, TypeOK, Turn
<1>2. TypeOK'
  BY <1>1 DEF TypeOK, Steps
<1>3. AuditInv' /\ CallInv'
  BY <1>1 DEF AuditInv, CallInv
<1>4. PassedIsVerified'
  BY <1>1 DEF PassedIsVerified, Verified, Accepts
<1>5. QED
  BY <1>2, <1>3, <1>4 DEF IInv

----------------------------------------------------------------------------
(* Every step preserves IInv.                                              *)

LEMMA InitInv == Init => IInv
<1> SUFFICES ASSUME Init PROVE IInv
  OBVIOUS
<1>1. TypeOK
  BY FirstTurns, Nothing DEF Init, TypeOK, Steps
<1>2. AuditInv /\ CacheInv /\ CallInv /\ PassedIsVerified
  BY DEF Init, AuditInv, CacheInv, CallInv, PassedIsVerified, NoEntry, NoAnswer
<1>3. QED
  BY <1>1, <1>2 DEF IInv

\* The steps before the first call of the model, and those of time and restarts.
LEMMA OutsideInv ==
    ASSUME IInv,
           \/ CacheMiss \/ Restart
           \/ \E q \in Questions : Ask(q) \/ Expire(q)
    PROVE  IInv'
<1> USE DEF IInv
<1>1. CASE CacheMiss
  <2>1. turn.toolTurns = 0 /\ turn.calls = 0 /\ turn.retries = 0
    BY <1>1 DEF CacheMiss, CallInv, FirstTurn
  <2>2. TypeOK' /\ CallInv'
    BY <1>1, <2>1, Budgets, BoundAssumption DEF CacheMiss, TypeOK, Steps, CallInv
  <2>3. AuditInv' /\ CacheInv' /\ PassedIsVerified'
    BY <1>1 DEF CacheMiss, AuditInv, CacheInv, PassedIsVerified, Verified, Accepts
  <2>4. QED
    BY <2>2, <2>3
<1>2. CASE Restart
  <2>1. TypeOK'
    BY <1>2, FirstTurns, Nothing DEF Restart, TypeOK, Steps, Turn
  <2>2. AuditInv' /\ CacheInv' /\ CallInv' /\ PassedIsVerified'
    BY <1>2 DEF Restart, AuditInv, CacheInv, CallInv, PassedIsVerified, NoEntry, NoAnswer
  <2>3. QED
    BY <2>1, <2>2
<1>3. ASSUME NEW q \in Questions, Ask(q)
      PROVE  IInv'
  <2>1. TypeOK' /\ CallInv'
    BY <1>3, FirstTurns DEF Ask, TypeOK, Steps, CallInv, FirstTurn
  <2>2. AuditInv' /\ CacheInv' /\ PassedIsVerified'
    BY <1>3 DEF Ask, AuditInv, CacheInv, PassedIsVerified, Verified, Accepts
  <2>3. QED
    BY <2>1, <2>2
<1>4. ASSUME NEW q \in Questions, Expire(q)
      PROVE  IInv'
  <2>1. TypeOK'
    BY <1>4 DEF Expire, TypeOK, Entry
  <2>2. CacheInv'
    BY <1>4 DEF Expire, CacheInv, TypeOK
  <2>3. AuditInv' /\ CallInv' /\ PassedIsVerified'
    BY <1>4 DEF Expire, AuditInv, CallInv, PassedIsVerified, Verified, Accepts
  <2>4. QED
    BY <2>1, <2>2, <2>3
<1>5. QED
  BY <1>1, <1>2, <1>3, <1>4

\* A call of the model: it was in the budget of the attempt.
LEMMA CallsInv ==
    ASSUME IInv, ToolUse \/ EndTurn
    PROVE  /\ IInv'
           /\ turn.calls < Budget(MaxAuditRetries + 1)
           /\ turn'.calls = turn.calls + 1 /\ turn'.question = turn.question
           /\ pc # "idle" /\ pc' # "idle" /\ UNCHANGED cache
<1> USE DEF IInv
<1>1. /\ pc = "request" /\ turn \in Turn
      /\ turn.retries \in Nat /\ turn.retries + 1 \in Nat
      /\ turn.retries + 1 <= MaxAuditRetries + 1 /\ MaxAuditRetries + 1 \in Nat
  <2>1. pc = "request" /\ turn \in Turn
    BY DEF ToolUse, EndTurn, TypeOK
  <2>2. QED
    BY <2>1, TurnFields, BoundAssumption
<1>2. /\ turn.calls \in Nat /\ turn.toolTurns \in Nat
      /\ turn.toolTurns < MaxToolTurns
      /\ turn.calls <= Budget(turn.retries) + turn.toolTurns
  BY <1>1, TurnFields DEF CallInv
<1>3. /\ Budget(turn.retries) \in Nat
      /\ Budget(turn.retries + 1) = Budget(turn.retries) + MaxToolTurns
  BY <1>1, Budgets
<1>4. turn.calls < Budget(turn.retries + 1)
  BY <1>2, <1>3, BoundAssumption
<1>5. turn.calls < Budget(MaxAuditRetries + 1)
  <2>1. Budget(turn.retries + 1) <= Budget(MaxAuditRetries + 1)
    BY <1>1, BudgetsOrdered
  <2>2. Budget(MaxAuditRetries + 1) \in Nat
    BY <1>1, Budgets
  <2>3. QED
    BY <1>2, <1>3, <1>4, <2>1, <2>2, BoundAssumption
<1>c. Counted(turn.calls) = turn.calls + 1
  <2>1. Budget(MaxAuditRetries + 1) = CallBound /\ CallBound \in Nat
    BY BoundAssumption DEF Budget, CallBound
  <2>2. QED
    BY <1>2, <1>5, <2>1 DEF Counted
<1>6. CASE ToolUse
  <2>1. /\ turn' = [turn EXCEPT !.toolTurns = turn.toolTurns + 1,
                      !.calls = turn.calls + 1, !.text = Wordless("sentinel")]
        /\ turn' \in Turn
    <3>1. turn' = [turn EXCEPT !.toolTurns = turn.toolTurns + 1,
                     !.calls = turn.calls + 1, !.text = Wordless("sentinel")]
      BY <1>6, <1>c DEF ToolUse
    <3>2. turn.toolTurns + 1 \in 0..MaxToolTurns /\ turn.calls + 1 \in Nat
      BY <1>2, BoundAssumption
    <3>3. QED
      BY <1>1, <3>1, <3>2, Texts DEF Turn
  <2>2. /\ turn'.toolTurns = turn.toolTurns + 1 /\ turn'.retries = turn.retries
        /\ turn'.calls = turn.calls + 1 /\ turn'.question = turn.question
    BY <1>1, <2>1 DEF Turn
  <2>3. /\ pc' \in {"check", "request"}
        /\ pc' = "request" => turn.toolTurns + 1 # MaxToolTurns
        /\ UNCHANGED <<active, cache, answer>>
    BY <1>6 DEF ToolUse
  <2>4. TypeOK'
    BY <2>1, <2>3 DEF TypeOK, Steps
  <2>5. CallInv'
    <3>1. turn'.calls > 0 /\ turn'.calls <= Budget(turn'.retries + 1)
      BY <1>2, <1>3, <1>4, <2>2, BoundAssumption
    <3>2. pc' = "request" =>
            /\ turn'.toolTurns < MaxToolTurns
            /\ turn'.calls <= Budget(turn'.retries) + turn'.toolTurns
      BY <1>2, <1>3, <2>2, <2>3, BoundAssumption
    <3>3. pc' # "lookup"
      BY <2>3
    <3>4. QED
      BY <3>1, <3>2, <3>3 DEF CallInv, Budget
  <2>6. AuditInv' /\ CacheInv' /\ PassedIsVerified'
    BY <2>3 DEF AuditInv, CacheInv, PassedIsVerified, Verified, Accepts
  <2>7. QED
    BY <1>1, <1>5, <2>2, <2>3, <2>4, <2>5, <2>6
<1>7. CASE EndTurn
  <2>1. PICK t \in Prose \cup {Wordless("empty")} :
          /\ turn' = [turn EXCEPT !.calls = turn.calls + 1, !.text = t]
          /\ pc' \in {"check", "delegate"}
    BY <1>7, <1>c DEF EndTurn
  <2>2. UNCHANGED <<active, cache, answer>>
    BY <1>7 DEF EndTurn
  <2>3. turn' \in Turn
    <3>1. t \in Text /\ turn.calls + 1 \in Nat
      BY <1>2, Texts
    <3>2. QED
      BY <1>1, <2>1, <3>1 DEF Turn
  <2>4. /\ turn'.retries = turn.retries
        /\ turn'.calls = turn.calls + 1 /\ turn'.question = turn.question
    BY <1>1, <2>1 DEF Turn
  <2>5. TypeOK'
    BY <2>1, <2>2, <2>3 DEF TypeOK, Steps
  <2>6. CallInv'
    <3>1. turn'.calls > 0 /\ turn'.calls <= Budget(turn'.retries + 1)
      BY <1>2, <1>3, <1>4, <2>4, BoundAssumption
    <3>2. QED
      BY <2>1, <3>1 DEF CallInv, Budget
  <2>7. AuditInv' /\ CacheInv' /\ PassedIsVerified'
    BY <2>1, <2>2 DEF AuditInv, CacheInv, PassedIsVerified, Verified, Accepts
  <2>8. QED
    BY <1>1, <1>5, <2>1, <2>2, <2>4, <2>5, <2>6, <2>7
<1>8. QED
  BY <1>6, <1>7

\* The way from a reply to a verdict, which makes no call.
LEMMA VerdictInv ==
    ASSUME IInv,
           \/ Delegate \/ NoVerdict \/ AuditPasses \/ AuditRetry \/ AuditGivesUp
    PROVE  /\ IInv'
           /\ turn'.calls = turn.calls /\ turn'.question = turn.question
           /\ pc # "idle" /\ pc' # "idle" /\ UNCHANGED cache
<1> USE DEF IInv
<1>1. /\ pc \in {"delegate", "check"} /\ turn \in Turn
      /\ UNCHANGED <<active, cache, answer>>
  BY DEF Delegate, NoVerdict, AuditPasses, AuditRetry, AuditGivesUp, Audited, TypeOK
<1>2. turn.calls > 0 /\ turn.calls <= Budget(turn.retries + 1)
  BY <1>1 DEF CallInv
<1>3. CacheInv' /\ PassedIsVerified'
  BY <1>1 DEF CacheInv, PassedIsVerified, Verified, Accepts
<1>4. CASE Delegate
  <2>1. PICK t \in Text : turn' = [turn EXCEPT !.text = t] /\ pc' = "check"
    BY <1>4, Texts DEF Delegate
  <2>2. /\ turn' \in Turn /\ turn'.calls = turn.calls
        /\ turn'.retries = turn.retries /\ turn'.question = turn.question
    BY <1>1, <2>1 DEF Turn
  <2>3. TypeOK' /\ AuditInv' /\ CallInv'
    BY <1>1, <1>2, <2>1, <2>2 DEF TypeOK, Steps, AuditInv, CallInv, Budget
  <2>4. QED
    BY <1>1, <1>3, <2>1, <2>2, <2>3
<1>5. CASE NoVerdict \/ AuditPasses \/ AuditGivesUp
  <2>1. /\ turn' = turn /\ pc' \in {"partial", "answered"}
        /\ pc' = "answered" => Verified(turn.text)
    BY <1>5 DEF NoVerdict, AuditPasses, AuditGivesUp, Audited, Verified
  <2>2. TypeOK' /\ AuditInv' /\ CallInv'
    BY <1>1, <1>2, <2>1 DEF TypeOK, Steps, AuditInv, CallInv, Budget, Verified, Accepts
  <2>3. QED
    BY <1>1, <1>3, <2>1, <2>2
<1>6. CASE AuditRetry
  <2>1. /\ turn' = [turn EXCEPT !.retries = turn.retries + 1, !.toolTurns = 0]
        /\ turn.retries < MaxAuditRetries /\ pc' = "request"
    BY <1>6 DEF AuditRetry
  <2>2. turn.retries + 1 \in 0..MaxAuditRetries /\ 0 \in 0..MaxToolTurns
    BY <1>1, <2>1, TurnFields, BoundAssumption
  <2>3. turn' \in Turn
    BY <1>1, <2>1, <2>2 DEF Turn
  <2>4. /\ turn'.calls = turn.calls /\ turn'.question = turn.question
        /\ turn'.retries = turn.retries + 1 /\ turn'.toolTurns = 0
    BY <1>1, <2>1 DEF Turn
  <2>5. turn'.calls <= Budget(turn'.retries) + turn'.toolTurns
    BY <1>1, <1>2, <2>4, TurnFields, Budgets
  <2>6. TypeOK' /\ AuditInv' /\ CallInv'
    BY <1>1, <2>1, <2>3, <2>4, <2>5, BoundAssumption
       DEF TypeOK, Steps, AuditInv, CallInv, Budget
  <2>7. QED
    BY <1>1, <1>3, <2>1, <2>4, <2>6
<1>7. QED
  BY <1>4, <1>5, <1>6

\* A turn that ends with nothing new to repeat.
LEMMA NoAnswerInv ==
    ASSUME IInv, CacheHit \/ NoApiKey \/ CallFails \/ Unknown
    PROVE  /\ IInv'
           /\ pc \in Steps \ {"idle"} /\ pc' = "idle" /\ UNCHANGED cache
           /\ turn' = FirstTurn(turn.question)
           /\ turn.question \in Questions
<1> USE DEF IInv
<1>1. pc \in Steps \ {"idle"} /\ UNCHANGED cache /\ turn \in Turn
  BY DEF CacheHit, NoApiKey, CallFails, Unknown, TypeOK
<1>2. CacheInv' /\ cache' \in [Questions -> Entry] /\ turn.question \in Questions
  BY <1>1, TurnFields DEF CacheInv, TypeOK, Verified, Accepts
<1>3. PICK a \in Answers : Return(a) /\ (a.status = "passed" => Verified(a.text))
  <2>1. CASE CacheHit
    <3>1. cache[turn.question] \in Entry /\ Verified(cache[turn.question].text)
      BY <1>2, <2>1 DEF CacheHit, Hit, CacheInv, TypeOK
    <3> DEFINE e == cache[turn.question]
               b == [status |-> "passed", text |-> e.text, cached |-> TRUE,
                     context |-> e.context]
    <3>2. b \in Answers
      BY <3>1 DEF Entry, Answers
    <3>3. Return(b)
      BY <2>1 DEF CacheHit
    <3>4. QED
      BY <3>1, <3>2, <3>3
  <2>2. CASE NoApiKey \/ CallFails
    BY <2>2, Nothing DEF NoApiKey, CallFails, Answers
  <2>3. CASE Unknown
    <3>1. PICK c \in Context :
            Return([status |-> "unknown", text |-> [turn.text EXCEPT !.cites = c],
                    cached |-> FALSE, context |-> active])
      BY <2>3 DEF Unknown
    <3>2. [turn.text EXCEPT !.cites = c] \in Text /\ active \in Context
      BY <1>1, TurnFields, Texts DEF TypeOK
    <3> DEFINE b == [status |-> "unknown", text |-> [turn.text EXCEPT !.cites = c],
                     cached |-> FALSE, context |-> active]
    <3>3. b \in Answers /\ b.status # "passed"
      BY <3>2 DEF Answers
    <3>4. Return(b)
      BY <3>1
    <3>5. QED
      BY <3>3, <3>4
  <2>4. QED
    BY <2>1, <2>2, <2>3
<1>4. active' \in Context
  <2>1. CASE UNCHANGED active
    BY <2>1 DEF TypeOK
  <2>2. CASE Unknown
    <3>1. PICK c \in Context : Mentions([turn.text EXCEPT !.cites = c])
      BY <2>2 DEF Unknown
    <3>2. [turn.text EXCEPT !.cites = c].cites = c
      BY <1>1, TurnFields DEF Text
    <3>3. QED
      BY <3>1, <3>2 DEF Mentions, TypeOK
  <2>3. QED
    BY <2>1, <2>2 DEF CacheHit, NoApiKey, CallFails
<1>5. IInv'
  BY <1>2, <1>3, <1>4, Returns
<1>6. QED
  BY <1>1, <1>2, <1>3, <1>5 DEF Return

\* A turn that ends with an answer, which may be repeated.
LEMMA PassedInv ==
    ASSUME IInv, Passed
    PROVE  /\ IInv'
           /\ pc = "answered" /\ pc' = "idle"
           /\ turn' = FirstTurn(turn.question)
           /\ turn.question \in Questions
           /\ \A q \in Questions : cache'[q].state =
                IF q = turn.question THEN "fresh" ELSE cache[q].state
<1> USE DEF IInv
<1>1. /\ pc = "answered" /\ turn.question \in Questions /\ turn.text \in Text
      /\ Verified(turn.text) /\ active \in Context
      /\ cache \in [Questions -> Entry]
  BY TurnFields DEF Passed, TypeOK, AuditInv
<1> DEFINE e == [state |-> "fresh", text |-> turn.text, context |-> active]
           a == [status |-> "passed", text |-> turn.text, cached |-> FALSE,
                 context |-> active]
<1>2. e \in Entry /\ a \in Answers
  BY <1>1 DEF Entry, Answers
<1>3. cache' = [cache EXCEPT ![turn.question] = e] /\ Return(a)
  BY DEF Passed
<1>4. cache' \in [Questions -> Entry]
  BY <1>1, <1>2, <1>3
<1>5. \A q \in Questions : cache'[q] = IF q = turn.question THEN e ELSE cache[q]
  BY <1>1, <1>3
<1>6. CacheInv'
  BY <1>1, <1>5 DEF CacheInv, Verified, Accepts
<1>7. active' \in Context
  BY <1>1 DEF Passed, Mentions, Text
<1>8. IInv'
  BY <1>1, <1>2, <1>3, <1>4, <1>6, <1>7, Returns
<1>9. QED
  BY <1>1, <1>3, <1>5, <1>8 DEF Return

LEMMA NextInv == IInv /\ [Next]_vars => IInv'
<1> SUFFICES ASSUME IInv, [Next]_vars PROVE IInv'
  OBVIOUS
<1>1. CASE UNCHANGED vars
  BY <1>1 DEF vars, IInv, TypeOK, AuditInv, CacheInv, CallInv, PassedIsVerified,
     Verified, Accepts, Budget
<1>2. CASE Next
  BY <1>2, OutsideInv, CallsInv, VerdictInv, NoAnswerInv, PassedInv DEF Next, Answering
<1>3. QED
  BY <1>1, <1>2

----------------------------------------------------------------------------
(* The theorems.                                                           *)

\* The inductive invariant holds throughout: whatever the model and the
\* specialist write, the audit stands behind every text that is about to be
\* returned or kept, and every attempt stays within its calls.
THEOREM Invariance == Spec => []IInv
  BY InitInv, NextInv, PTL DEF Spec

\* The types, and with them the bounds of answer()'s two counters.
THEOREM TypeCorrect == Spec => []TypeOK
<1>1. IInv => TypeOK
  BY DEF IInv
<1>2. QED
  BY <1>1, Invariance, PTL

\* No unverified claim and no sentinel comes back as passed, from the loop,
\* from the specialist, after a retry or from the cache.
THEOREM OnlyVerifiedPasses == Spec => []PassedIsVerified
<1>1. IInv => PassedIsVerified
  BY DEF IInv
<1>2. QED
  BY <1>1, Invariance, PTL

----------------------------------------------------------------------------
(* The code implements VerifiedAnswers.                                    *)

Fresh == {q \in Questions : cache[q].state = "fresh"}

LEMMA TurnStep ==
    ASSUME IInv, Answering
    PROVE  [Turns!Next]_Turns!vars
<1>1. PICK q \in Questions : turn.question = q
  BY TurnFields DEF IInv, TypeOK
<1>2. CASE ToolUse \/ EndTurn
  <2>1. turn.calls < MaxToolTurns * (MaxAuditRetries + 1)
    BY <1>2, CallsInv, BoundAssumption DEF Budget
  <2>2. Turns!Call
    BY <1>2, <2>1, CallsInv DEF Turns!Call, CallBound, Budget
  <2>3. QED
    BY <2>2 DEF Turns!Next
<1>3. CASE CacheMiss \/ Delegate \/ NoVerdict \/ AuditPasses \/ AuditRetry \/ AuditGivesUp
  <2>1. /\ turn'.calls = turn.calls /\ turn'.question = turn.question
        /\ pc # "idle" /\ pc' # "idle" /\ UNCHANGED cache
    BY <1>3, VerdictInv DEF CacheMiss
  <2>2. QED
    BY <2>1 DEF Turns!vars
<1>4. CASE NoApiKey \/ CallFails \/ Unknown
  <2>1. Turns!GiveUp
    BY <1>4, NoAnswerInv DEF Turns!GiveUp, FirstTurn
  <2>2. QED
    BY <2>1 DEF Turns!Next
<1>5. CASE CacheHit
  <2>1. q \in Fresh
    BY <1>1, <1>5 DEF CacheHit, Hit, Fresh
  <2>2. /\ pc # "idle" /\ pc' = "idle" /\ turn'.calls = 0
        /\ Fresh' = Fresh \cup {q}
    BY <1>1, <1>5, <2>1, NoAnswerInv DEF FirstTurn, Fresh
  <2>3. Turns!Answer(q)
    BY <1>1, <2>1, <2>2 DEF Turns!Answer, Fresh
  <2>4. QED
    BY <2>3 DEF Turns!Next
<1>6. CASE Passed
  <2>1. turn.calls # 0
    BY <1>6, PassedInv, TurnFields DEF IInv, CallInv, TypeOK
  <2>2. /\ pc # "idle" /\ pc' = "idle" /\ turn'.calls = 0
        /\ Fresh' = Fresh \cup {q}
    BY <1>1, <1>6, PassedInv DEF FirstTurn, Fresh
  <2>3. Turns!Answer(q)
    BY <1>1, <2>1, <2>2 DEF Turns!Answer, Fresh
  <2>4. QED
    BY <2>3 DEF Turns!Next
<1>7. QED
  BY <1>2, <1>3, <1>4, <1>5, <1>6 DEF Answering

\* The steps that are no part of a turn.
LEMMA TurnOther ==
    ASSUME IInv,
           \/ Restart \/ UNCHANGED vars
           \/ \E q \in Questions : Ask(q) \/ Expire(q)
    PROVE  [Turns!Next]_Turns!vars
<1>1. CASE Restart
  <2>1. Fresh' = {} /\ turn'.calls = 0 /\ pc' = "idle"
    BY <1>1 DEF Restart, Fresh, NoEntry, FirstTurn
  <2>2. Turns!Restart
    BY <2>1 DEF Turns!Restart, Fresh
  <2>3. QED
    BY <2>2 DEF Turns!Next
<1>2. ASSUME NEW q \in Questions, Ask(q)
      PROVE  [Turns!Next]_Turns!vars
  <2>1. Turns!Ask(q)
    BY <1>2 DEF Ask, Turns!Ask, FirstTurn
  <2>2. QED
    BY <2>1 DEF Turns!Next
<1>3. ASSUME NEW q \in Questions, Expire(q)
      PROVE  [Turns!Next]_Turns!vars
  <2>1. Fresh' = Fresh \ {q}
    BY <1>3 DEF Expire, Fresh, IInv, TypeOK, Entry
  <2>2. Turns!Forget(q)
    BY <1>3, <2>1 DEF Expire, Turns!Forget, Fresh
  <2>3. QED
    BY <2>2 DEF Turns!Next
<1>4. CASE UNCHANGED vars
  BY <1>4 DEF vars, Turns!vars
<1>5. QED
  BY <1>1, <1>2, <1>3, <1>4

\* A turn is what VerifiedAnswers promises: answered from the audit or from an
\* answer that was verified before, within (MaxAuditRetries + 1) attempts of
\* MaxToolTurns calls.
THEOREM ImplementsVerifiedAnswers == Spec => TurnSpec
<1>1. Init => Turns!Init
  BY DEF Init, Turns!Init, FirstTurn, NoEntry
<1>2. IInv /\ [Next]_vars => [Turns!Next]_Turns!vars
  BY TurnStep, TurnOther DEF Next
<1>3. QED
  BY <1>1, <1>2, Invariance, PTL DEF Spec, TurnSpec, Turns!Spec

----------------------------------------------------------------------------
(* The audit is monotone in its evidence: whatever the answer, the tools   *)
(* and the workbook are, what is known grows with the results.             *)

LEMMA NumbersGrow ==
    ASSUME NEW results, NEW more, NEW book, results \subseteq more
    PROVE  Audit!Numbers(results, book) \subseteq Audit!Numbers(more, book)
<1>1. Audit!Leaves(results, "number") \subseteq Audit!Leaves(more, "number")
    BY DEF Audit!Leaves
<1>2. Audit!ToolNumbers(results) \subseteq Audit!ToolNumbers(more)
    BY <1>1 DEF Audit!ToolNumbers
<1> QED BY <1>2 DEF Audit!Numbers

LEMMA RefsGrow ==
    ASSUME NEW results, NEW more, NEW book, results \subseteq more
    PROVE  Audit!Refs(results, book) \subseteq Audit!Refs(more, book)
<1>1. Audit!Leaves(results, "ref") \subseteq Audit!Leaves(more, "ref")
    BY DEF Audit!Leaves
<1>2. Audit!ToolRefs(results) \subseteq Audit!ToolRefs(more)
    BY <1>1 DEF Audit!ToolRefs
<1> QED BY <1>2 DEF Audit!Refs

LEMMA CategoriesGrow ==
    ASSUME NEW results, NEW more, NEW book, results \subseteq more
    PROVE  Audit!Categories(results, book) \subseteq Audit!Categories(more, book)
<1>1. Audit!Leaves(results, "text") \subseteq Audit!Leaves(more, "text")
    BY DEF Audit!Leaves
<1>2. Audit!ToolCategories(results) \subseteq Audit!ToolCategories(more)
    BY <1>1 DEF Audit!ToolCategories
<1> QED BY <1>2 DEF Audit!Categories

----------------------------------------------------------------------------
(* A claim that is verified stays so. *)

LEMMA MatchesGrow ==
    ASSUME NEW target, NEW few, NEW many, few \subseteq many, Audit!NumberMatches(target, few)
    PROVE  Audit!NumberMatches(target, many)
BY DEF Audit!NumberMatches

LEMMA VerifiedGrows ==
    ASSUME NEW claim, NEW few, NEW many, few \subseteq many, Audit!NumberVerified(claim, few)
    PROVE  Audit!NumberVerified(claim, many)
BY MatchesGrow DEF Audit!NumberVerified

LEMMA RefMatchesGrows ==
    ASSUME NEW ref, NEW few, NEW many, few \subseteq many, Audit!RefMatches(ref, few)
    PROVE  Audit!RefMatches(ref, many)
BY DEF Audit!RefMatches

\* The results of more calls never spoil an answer that passes: what a retry of
\* the coordinator adds to the log of the tools takes no claim away (audit).
THEOREM MoreResultsOnlyHelp ==
    ASSUME NEW said, NEW results, NEW more, NEW book
    PROVE  Audit!EvidenceOnlyHelps(said, results, more, book)
<1> SUFFICES ASSUME results \subseteq more, Audit!Passes(said, results, book)
             PROVE  Audit!Passes(said, more, book)
    BY DEF Audit!EvidenceOnlyHelps
<1>1. \A claim \in Audit!NumbersOf(said) : Audit!NumberVerified(claim, Audit!Numbers(more, book))
    BY NumbersGrow, VerifiedGrows DEF Audit!Passes
<1>2. \A ref \in Audit!RefsOf(said, book.sheets) :
          ref.sheet # Audit!Unknown /\ Audit!RefMatches(ref, Audit!Refs(more, book))
    BY RefsGrow, RefMatchesGrows DEF Audit!Passes
<1>3. \A t \in Audit!Tokens(said, "name") : <<t.word>> \in Audit!KnownNames(book)
    BY DEF Audit!Passes
<1>4. \A keyword \in Audit!Asserted(said) : Audit!Category[keyword] \in Audit!Categories(more, book)
    BY CategoriesGrow DEF Audit!Passes
<1> QED BY <1>1, <1>2, <1>3, <1>4 DEF Audit!Passes

----------------------------------------------------------------------------

\* A set of places has a last one.
LEMMA LastPlace ==
    ASSUME NEW n \in Nat, NEW I, I \subseteq 1 .. n, I # {}
    PROVE  \E i \in I : \A k \in I : k <= i
<1> DEFINE T == {i .. n : i \in I}
<1>1. PICK t \in T : \A u \in T : <<u, t>> \notin StrictSubsetOrdering(1 .. n)
  <2>1. IsFiniteSet(1 .. n)
    BY FS_Interval
  <2>2. T \subseteq FiniteSubsetsOf(1 .. n)
    <3>1. ASSUME NEW i \in I PROVE i .. n \in FiniteSubsetsOf(1 .. n)
      <4>1. i .. n \subseteq 1 .. n
        OBVIOUS
      <4>2. QED
        BY <2>1, <4>1, FS_Subset DEF FiniteSubsetsOf
    <3>2. QED
      BY <3>1
  <2>3. T # {}
    OBVIOUS
  <2>4. QED
    BY <2>1, <2>2, <2>3, WFMin, FS_StrictSubsetOrderingWellFounded
<1>2. PICK i \in I : t = i .. n
  OBVIOUS
<1>3. ASSUME NEW k \in I, k > i PROVE FALSE
  <2>1. k .. n \in T /\ k .. n \subseteq i .. n /\ i .. n \subseteq 1 .. n
    BY <1>3
  <2>2. i \in i .. n /\ i \notin k .. n
    BY <1>3
  <2>3. <<k .. n, i .. n>> \in StrictSubsetOrdering(1 .. n)
    BY <2>1, <2>2 DEF StrictSubsetOrdering
  <2>4. QED
    BY <1>1, <1>2, <2>1, <2>3
<1>4. QED
  BY <1>3

----------------------------------------------------------------------------
(* What passes the audit is grounded, whatever the answer, the results and *)
(* the workbook are: each tolerance of the auditor is bounded, and so is   *)
(* what they come to together; and a sheet that it finds before a cell was *)
(* written there.                                                          *)

LEMMA MagnitudeIs ==
    ASSUME NEW a \in Int
    PROVE  Audit!Magnitude(a) \in Nat /\ (Audit!Magnitude(a) = a \/ Audit!Magnitude(a) = -a)
BY DEF Audit!Magnitude

\* Rounding to a thousand is off by half of one at most.
LEMMA RoundedIsNear ==
    ASSUME Unit \in Nat \ {0}, NEW a \in Int
    PROVE  /\ Audit!Rounded(a) \in Int
           /\ Audit!Magnitude(Audit!Rounded(a) - a) <= 500 * Unit
<1> DEFINE k == 1000 * Unit
           below == a \div k
           rest == a % k
           floor == below * k
<1>1. k \in Nat \ {0}
    OBVIOUS
<1>2. below \in Int /\ rest \in Int /\ 0 <= rest /\ rest < k
    BY <1>1
<1>3. a = k * below + rest
    <2> HIDE DEF k
    <2> QED BY <1>1
<1>4. floor \in Int /\ a = floor + rest
    <2> HIDE DEF k, below, rest
    <2>0. \A x, y \in Int : x * y = y * x /\ x * y \in Int
        OBVIOUS
    <2>1. below * k = k * below /\ below * k \in Int
        <3>1. below \in Int /\ k \in Int
            BY <1>1, <1>2
        <3> QED BY <2>0, <3>1
    <2>2. floor = k * below /\ floor \in Int
        BY <2>1
    <2> HIDE DEF floor
    <2>3. a = floor + rest
        BY <1>3, <2>2
    <2> QED BY <2>2, <2>3
<1>5. (below + 1) * k = floor + k
    <2> \A x, y \in Int : (x + 1) * y = x * y + y
        OBVIOUS
    <2>1. below \in Int /\ k \in Int
        BY <1>1, <1>2
    <2> HIDE DEF k, below
    <2> QED BY <2>1
<1>6. CASE Audit!Rounded(a) = floor /\ 2 * rest <= k
    BY <1>1, <1>2, <1>4, <1>6 DEF Audit!Magnitude
<1>7. CASE Audit!Rounded(a) = floor + k /\ 2 * rest >= k
    BY <1>1, <1>2, <1>4, <1>7 DEF Audit!Magnitude
<1>8. \/ Audit!Rounded(a) = floor /\ 2 * rest <= k
      \/ Audit!Rounded(a) = floor + k /\ 2 * rest >= k
    BY <1>1, <1>2, <1>5 DEF Audit!Rounded
<1> QED BY <1>6, <1>7, <1>8

\* What is near a number is off by its tolerance, half a percent or a thousand.
LEMMA NearIsNear ==
    ASSUME Unit \in Nat \ {0}, NEW a \in Int, NEW b \in Int, Audit!Near(a, b)
    PROVE  \/ Audit!Magnitude(a - b) <= 1000 * Unit
           \/ Audit!Magnitude(a - b) <= Audit!Magnitude(b) \div 200
<1>1. CASE Audit!Magnitude(a - b) <= Audit!Magnitude(b) \div 200
    BY <1>1
<1>2. CASE Audit!Magnitude(a - b) <= Unit \div 2
    <2>1. Unit \div 2 \in Int /\ Unit \div 2 <= 1000 * Unit
        OBVIOUS
    <2> QED BY <1>2, <2>1, MagnitudeIs
<1>3. CASE Audit!Magnitude(a - Audit!Rounded(b)) <= 500 * Unit
    BY <1>3, RoundedIsNear DEF Audit!Magnitude
<1> QED BY <1>1, <1>2, <1>3 DEF Audit!Near

LEMMA MatchesAreWitnessed ==
    ASSUME Unit \in Nat \ {0}, NEW a \in Int, NEW universe, universe \subseteq Int,
           Audit!NumberMatches(a, universe)
    PROVE  Audit!IsWitnessed(a, universe)
<1>1. PICK b \in universe :
        \/ a = b
        \/ b = 0 /\ Audit!Magnitude(a) < Unit \div 2
        \/ Audit!Near(a, b)
        \/ Audit!Near(Audit!Magnitude(a), Audit!Magnitude(b))
    BY DEF Audit!NumberMatches
<1> DEFINE off == Audit!Magnitude(Audit!Magnitude(a) - Audit!Magnitude(b))
           share == Audit!Magnitude(b) \div 200
<1>2. b \in Int /\ Audit!Magnitude(a) \in Nat /\ Audit!Magnitude(b) \in Nat
    BY MagnitudeIs
<1>3. Audit!Magnitude(Audit!Magnitude(b)) = Audit!Magnitude(b)
    BY <1>2 DEF Audit!Magnitude
<1>4. share \in Int /\ 0 <= share
    BY <1>2
<1>5. off <= 1000 * Unit \/ off <= share
    <2>1. CASE a = b
        BY <2>1, <1>2 DEF Audit!Magnitude
    <2>2. CASE b = 0 /\ Audit!Magnitude(a) < Unit \div 2
        <3>1. Unit \div 2 \in Int /\ Unit \div 2 <= 1000 * Unit
            OBVIOUS
        <3> QED BY <2>2, <3>1 DEF Audit!Magnitude
    <2>3. CASE Audit!Near(a, b)
        <3>1. off <= Audit!Magnitude(a - b)
            BY <1>2 DEF Audit!Magnitude
        <3>2. off \in Int /\ Audit!Magnitude(a - b) \in Int
            BY <1>2 DEF Audit!Magnitude
        <3>3. \/ Audit!Magnitude(a - b) <= 1000 * Unit
              \/ Audit!Magnitude(a - b) <= share
            BY <1>2, <2>3, NearIsNear
        <3> HIDE DEF share, off
        <3> QED BY <1>4, <3>1, <3>2, <3>3
    <2>4. CASE Audit!Near(Audit!Magnitude(a), Audit!Magnitude(b))
        BY <1>2, <1>3, <2>4, NearIsNear
    <2> QED BY <1>1, <2>1, <2>2, <2>3, <2>4
<1>6. ASSUME NEW m \in Int, NEW n \in Int
      PROVE  m <= Audit!Max({m, n}) /\ n <= Audit!Max({m, n}) /\ Audit!Max({m, n}) \in Int
    <2>1. \E x \in {m, n} : \A y \in {m, n} : x >= y
        OBVIOUS
    <2>2. Audit!Max({m, n}) \in {m, n} /\ \A y \in {m, n} : Audit!Max({m, n}) >= y
        BY <2>1 DEF Audit!Max
    <2> QED BY <2>2
<1>7. off \in Int
    BY <1>2 DEF Audit!Magnitude
<1>8. off <= Audit!Max({1000 * Unit, share})
    <2> DEFINE big == 1000 * Unit
    <2>1. big \in Int /\ (off <= big \/ off <= share)
        BY <1>5
    <2> HIDE DEF off, share, big
    <2>2. /\ big <= Audit!Max({big, share}) /\ share <= Audit!Max({big, share})
          /\ Audit!Max({big, share}) \in Int
        BY <1>4, <1>6, <2>1
    <2>3. off <= Audit!Max({big, share})
        BY <1>4, <1>7, <2>1, <2>2
    <2> QED BY <2>3 DEF big
<1> DEFINE P(v) == Audit!Magnitude(Audit!Magnitude(a) - Audit!Magnitude(v))
                     <= Audit!Max({1000 * Unit, Audit!Magnitude(v) \div 200})
<1>9. P(b)
    BY <1>8
<1> HIDE DEF P
<1>10. \E v \in universe : P(v)
    BY <1>9
<1> QED BY <1>10 DEF P, Audit!IsWitnessed

\* What is at the end of some words is a suffix of them.
LEMMA EndIsSuffix ==
    ASSUME NEW W, NEW words \in Seq(W), NEW s \in Seq(W), NEW d \in Nat,
           Len(words) = Len(s) + d, \A i \in 1 .. Len(s) : s[i] = words[i + d]
    PROVE  Audit!IsSuffix(s, words)
<1> DEFINE r == Audit!Reverse(s)
           q == Audit!Reverse(words)
           n == Len(s)
<1>1. /\ r \in Seq(W) /\ Len(r) = n /\ n \in Nat
      /\ \A i \in 1 .. n : r[i] = s[(n - i) + 1]
    BY DEF Audit!Reverse
<1>2. /\ q \in Seq(W) /\ Len(q) = Len(words)
      /\ \A i \in 1 .. Len(words) : q[i] = words[(Len(words) - i) + 1]
    BY DEF Audit!Reverse
<1> HIDE DEF r, q
<1>3. ASSUME NEW i \in 1 .. n
      PROVE  r[i] = q[i]
    <2>1. (n - i) + 1 \in 1 .. n /\ i \in 1 .. Len(words)
        BY <1>1
    <2>2. ((n - i) + 1) + d = (Len(words) - i) + 1
        BY <1>1
    <2> QED BY <1>1, <1>2, <2>1, <2>2
<1>4. SubSeq(r, 1, n) = SubSeq(q, 1, n)
    BY <1>1, <1>2, <1>3
<1> QED BY <1>1, <1>2, <1>4 DEF Audit!IsSuffix, Audit!IsPrefix, r, q

LEMMA SuffixesAreSuffixes ==
    ASSUME NEW W, NEW words \in Seq(W), NEW s \in Audit!Suffixes(words)
    PROVE  s \in Seq(W) /\ Len(s) <= Len(words) /\ Audit!IsSuffix(s, words)
<1>1. CASE s = <<>>
    <2> DEFINE d == Len(words)
    <2>1. s \in Seq(W) /\ Len(s) = 0 /\ Len(words) \in Nat
        BY <1>1
    <2>2. d \in Nat /\ Len(words) = Len(s) + d /\ \A i \in 1 .. Len(s) : s[i] = words[i + d]
        BY <2>1
    <2> HIDE DEF d
    <2>3. Audit!IsSuffix(s, words)
        BY <2>1, <2>2, EndIsSuffix
    <2> QED BY <2>1, <2>3
<1>2. ASSUME NEW l \in 1 .. Len(words), s = SubSeq(words, l, Len(words))
      PROVE  s \in Seq(W) /\ Len(s) <= Len(words) /\ Audit!IsSuffix(s, words)
    <2> DEFINE d == l - 1
    <2>1. /\ s \in Seq(W) /\ Len(s) = Len(words) - l + 1
          /\ \A i \in 1 .. Len(words) - l + 1 : s[i] = words[l + i - 1]
        BY <1>2, SubSeqProperties
    <2>2. d \in Nat /\ Len(words) \in Nat /\ Len(words) = Len(s) + d
        BY <2>1
    <2>3. \A i \in 1 .. Len(s) : s[i] = words[i + d]
        <3>1. ASSUME NEW i \in 1 .. Len(s) PROVE s[i] = words[i + d]
            <4>1. i + d = l + i - 1 /\ i \in 1 .. Len(words) - l + 1
                BY <2>1, <2>2
            <4> QED BY <2>1, <4>1
        <3> QED BY <3>1
    <2> HIDE DEF d
    <2>4. Audit!IsSuffix(s, words)
        BY <2>1, <2>2, <2>3, EndIsSuffix
    <2>5. Len(s) <= Len(words)
        BY <2>1, <2>2
    <2> QED BY <2>1, <2>4, <2>5
<1> QED BY <1>1, <1>2 DEF Audit!Suffixes

\* The sheet that is found before a cell was written there, if one is.
LEMMA SheetBeforeIsWritten ==
    ASSUME NEW W, NEW words \in Seq(W), NEW sheets
    PROVE  /\ \/ Audit!LastWord(words) = Audit!Unknown
              \/ Audit!IsSuffix(Audit!LastWord(words), words)
           /\ \/ Audit!SheetBefore(words, sheets) = Audit!Unknown
              \/ Audit!IsSuffix(Audit!SheetBefore(words, sheets), words)
<1> DEFINE named == Audit!Suffixes(words) \cap sheets
<1>1. \/ Audit!LastWord(words) = Audit!Unknown
      \/ Audit!IsSuffix(Audit!LastWord(words), words)
    <2>1. ASSUME words # <<>>
          PROVE  Audit!IsSuffix(<<words[Len(words)]>>, words)
        <3>1. Len(words) - 1 \in Nat /\ words[Len(words)] \in W
            BY <2>1
        <3> DEFINE s == <<words[Len(words)]>>
        <3>2. /\ s \in Seq(W) /\ Len(words) = Len(s) + (Len(words) - 1)
              /\ \A i \in 1 .. Len(s) : s[i] = words[i + (Len(words) - 1)]
            BY <3>1
        <3> QED BY <3>1, <3>2, EndIsSuffix
    <2> QED BY <2>1 DEF Audit!LastWord, Audit!Last
<1>2. CASE named = {}
    BY <1>1, <1>2 DEF Audit!SheetBefore
<1>3. CASE named # {}
    <2> DEFINE I == {Len(name) + 1 : name \in named}
    <2>1. \A name \in named : Len(name) \in Nat /\ Len(name) <= Len(words)
        BY SuffixesAreSuffixes
    <2>2. Len(words) + 1 \in Nat /\ I \subseteq 1 .. (Len(words) + 1) /\ I # {}
        BY <1>3, <2>1
    <2>3. PICK k \in I : \A m \in I : m <= k
        BY <2>2, LastPlace
    <2>4. \E name \in named : \A other \in named : Len(other) <= Len(name)
        <3>1. PICK name \in named : k = Len(name) + 1
            OBVIOUS
        <3>2. ASSUME NEW other \in named PROVE Len(other) <= Len(name)
            <4>1. Len(other) + 1 \in I
                OBVIOUS
            <4>2. Len(other) + 1 <= k
                BY <2>3, <4>1
            <4> QED BY <2>1, <3>1, <4>2
        <3> QED BY <3>2
    <2>5. Audit!SheetBefore(words, sheets) \in named
        BY <1>3, <2>4 DEF Audit!SheetBefore
    <2> QED BY <1>1, <2>5, SuffixesAreSuffixes
<1> QED BY <1>1, <1>2, <1>3

\* Numbers are numbers, and what is written before a cell is words.
IsSaid(said) ==
    /\ \A t \in Audit!Tokens(said, "number") : t.value \in Int
    /\ \E W : \A t \in Audit!Tokens(said, "ref") : t.words \in Seq(W)

\* No answer passes the audit with a number that is off from every witnessed one
\* by more than both a thousand and half a percent of that one, whatever tolerances,
\* roundings and signs combine; of a percentage, it or its hundredth (auditor.audit).
THEOREM NoFabricatedNumbers ==
    ASSUME Unit \in Nat \ {0}, NEW said, NEW results, NEW book, IsSaid(said),
           Audit!Numbers(results, book) \subseteq Int, Audit!Passes(said, results, book)
    PROVE  Audit!NumbersAreWitnessed(said, results, book)
<1> DEFINE universe == Audit!Numbers(results, book)
<1>1. SUFFICES ASSUME NEW t \in Audit!Tokens(said, "number"), t.value # 0
               PROVE  \/ Audit!IsWitnessed(t.value, universe)
                      \/ t.percent /\ Audit!IsWitnessed(t.value \div 100, universe)
    BY DEF Audit!NumbersAreWitnessed
<1>2. t.value \in Int /\ t.value \div 100 \in Int
    BY DEF IsSaid
<1>3. Audit!Claim(t.value, t.percent) \in Audit!NumbersOf(said)
    BY DEF Audit!NumbersOf
<1>4. Audit!NumberVerified(Audit!Claim(t.value, t.percent), universe)
    BY <1>3 DEF Audit!Passes
<1>5. \/ Audit!NumberMatches(t.value, universe)
      \/ t.percent /\ Audit!NumberMatches(t.value \div 100, universe)
    BY <1>1, <1>4 DEF Audit!NumberVerified, Audit!Claim
<1> QED BY <1>2, <1>5, MatchesAreWitnessed

\* Each cell that an answer cites and that passes is of a sheet of which the tools
\* or the workbook know a cell, and the name of that sheet is what is written
\* before the cell, however many words it has.
THEOREM CitedSheetsAreKnown ==
    ASSUME NEW said, NEW results, NEW book, IsSaid(said), Audit!Passes(said, results, book)
    PROVE  Audit!SheetsAreKnown(said, results, book)
<1>1. SUFFICES ASSUME NEW t \in Audit!Tokens(said, "ref")
               PROVE  \E ref \in Audit!Refs(results, book) : Audit!IsSuffix(ref.sheet, t.words)
    BY DEF Audit!SheetsAreKnown
<1>2. PICK W : t.words \in Seq(W)
    BY DEF IsSaid
<1>3. PICK ref \in Audit!RefsOfToken(t, book.sheets) :
        \/ ref.sheet = t.words
        \/ ref.sheet = Audit!LastWord(t.words)
        \/ ref.sheet = Audit!SheetBefore(t.words, book.sheets)
    BY DEF Audit!RefsOfToken, Audit!Ref
<1>4. ref \in Audit!RefsOf(said, book.sheets)
    BY <1>3 DEF Audit!RefsOf
<1>5. ref.sheet # Audit!Unknown /\ Audit!RefMatches(ref, Audit!Refs(results, book))
    BY <1>4 DEF Audit!Passes
<1>6. Audit!IsSuffix(t.words, t.words)
    <2>1. /\ 0 \in Nat /\ Len(t.words) = Len(t.words) + 0
          /\ \A i \in 1 .. Len(t.words) : t.words[i] = t.words[i + 0]
        BY <1>2
    <2> QED BY <1>2, <2>1, EndIsSuffix
<1>7. Audit!IsSuffix(ref.sheet, t.words)
    BY <1>2, <1>3, <1>5, <1>6, SheetBeforeIsWritten
<1>8. \E known \in Audit!Refs(results, book) : known.sheet = ref.sheet
    BY <1>5 DEF Audit!RefMatches
<1> QED BY <1>7, <1>8

----------------------------------------------------------------------------
(* The evaluators of a scenario. *)

S == INSTANCE EvaluatorProofs WITH ev <- scenario
B == INSTANCE EvaluatorProofs WITH ev <- base, overrides <- <<>>

----------------------------------------------------------------------------
(* Paths, and the search in breadth.                                       *)

\* SetToSeq lists a finite set.
LEMMA SetToSeqLists ==
    ASSUME NEW U, IsFiniteSet(U)
    PROVE  /\ SetToSeq(U) \in Seq(U)
           /\ \A x \in U : \E i \in DOMAIN SetToSeq(U) : SetToSeq(U)[i] = x
<1> DEFINE n == Cardinality(U)
           list == SetToSeq(U)
<1>1. n \in Nat /\ IsFiniteSet(1 .. n) /\ Cardinality(1 .. n) = n
  BY FS_CardinalityType, FS_Interval
<1>2. PICK f : f \in Bijection(1 .. n, U)
  <2>1. PICK m \in Nat : ExistsBijection(1 .. m, U)
    BY FS_NatBijection
  <2>2. m = n
    BY <2>1, FS_CountingElements
  <2>3. QED
    BY <2>1, <2>2 DEF ExistsBijection
<1>3. f \in [1 .. n -> U] /\ IsInjective(f)
  BY <1>2 DEF Bijection, Injection
<1>4. list \in [1 .. n -> U] /\ IsInjective(list)
  BY <1>3 DEF SetToSeq
<1> HIDE DEF list
<1>5. list \in Surjection(1 .. n, U)
  BY <1>1, <1>4, FS_Injection DEF Injection
<1>6. \A x \in U : \E i \in 1 .. n : list[i] = x
  BY <1>5 DEF Surjection
<1>7. QED
  BY <1>1, <1>4, <1>6 DEF list

LEMMA ReachesItself == ASSUME NEW c \in Cells PROVE Reaches(c, c, 0)
<1> DEFINE path == [i \in 0 .. 0 |-> c]
<1>1. path \in [0 .. 0 -> Cells] /\ path[0] = c /\ 0 .. 0 - 1 = {}
  OBVIOUS
<1> HIDE DEF path
<1>2. QED
  BY <1>1 DEF Reaches

LEMMA ReachesFurther ==
    ASSUME NEW c, NEW n \in Nat, NEW x, Reaches(c, x, n), NEW y \in Cells, y \in DependedBy(x)
    PROVE  Reaches(c, y, n + 1)
<1>1. PICK path \in [0 .. n -> Cells] :
        /\ path[0] = c /\ path[n] = x
        /\ \A i \in 0 .. n - 1 : path[i + 1] \in DependedBy(path[i])
  BY DEF Reaches
<1> DEFINE longer == [i \in 0 .. n + 1 |-> IF i = n + 1 THEN y ELSE path[i]]
<1>2. longer \in [0 .. n + 1 -> Cells]
  OBVIOUS
<1>3. longer[0] = c /\ longer[n + 1] = y /\ longer[n] = x
  BY <1>1
<1>4. ASSUME NEW i \in 0 .. (n + 1) - 1 PROVE longer[i + 1] \in DependedBy(longer[i])
  <2>1. CASE i = n
    BY <1>3, <2>1
  <2>2. CASE i # n
    <3>1. i \in 0 .. n - 1 /\ longer[i] = path[i] /\ longer[i + 1] = path[i + 1]
      BY <2>2
    <3>2. QED
      BY <1>1, <3>1
  <2>3. QED
    BY <2>1, <2>2
<1> HIDE DEF longer
<1>5. QED
  BY <1>2, <1>3, <1>4 DEF Reaches

\* A path that leaves a set has a last edge before which it is inside.
LEMMA PathLeaves ==
    ASSUME NEW c, NEW n \in Nat, NEW y, Reaches(c, y, n), NEW inside, c \in inside, y \notin inside
    PROVE  \E k \in 0 .. n - 1, x \in inside \cap Cells :
             Reaches(c, x, k) /\ ~(DependedBy(x) \subseteq inside)
<1>1. PICK path \in [0 .. n -> Cells] :
        /\ path[0] = c /\ path[n] = y
        /\ \A i \in 0 .. n - 1 : path[i + 1] \in DependedBy(path[i])
  BY DEF Reaches
<1> DEFINE I == {i \in 1 .. n : path[i - 1] \in inside}
<1>2. n # 0
  BY <1>1
<1>3. 1 \in I
  BY <1>1, <1>2
<1>4. PICK i \in I : \A k \in I : k <= i
  <2> HIDE DEF I
  <2>1. I \subseteq 1 .. n
    BY DEF I
  <2>2. QED
    BY <1>3, <2>1, LastPlace
<1>5. path[i] \notin inside
  <2>1. CASE i = n
    BY <1>1, <2>1
  <2>2. CASE i # n
    <3>1. i + 1 \in 1 .. n /\ i + 1 \notin I
      BY <1>4, <2>2
    <3>2. QED
      BY <3>1
  <2>3. QED
    BY <2>1, <2>2
<1> DEFINE k == i - 1
           shorter == [j \in 0 .. k |-> path[j]]
<1>6. k \in 0 .. n - 1 /\ path[k] \in inside \cap Cells /\ k + 1 = i
  OBVIOUS
<1>7. Reaches(c, path[k], k)
  <2>1. shorter \in [0 .. k -> Cells] /\ shorter[0] = c /\ shorter[k] = path[k]
    BY <1>1, <1>6
  <2>2. ASSUME NEW j \in 0 .. k - 1 PROVE shorter[j + 1] \in DependedBy(shorter[j])
    <3>1. j \in 0 .. n - 1 /\ shorter[j] = path[j] /\ shorter[j + 1] = path[j + 1]
      OBVIOUS
    <3>2. QED
      BY <1>1, <3>1
  <2> HIDE DEF shorter, k
  <2>3. QED
    BY <2>1, <2>2 DEF Reaches
<1>8. path[i] \in DependedBy(path[k])
  BY <1>1, <1>6
<1> HIDE DEF k
<1>9. QED
  BY <1>5, <1>6, <1>7, <1>8

\* Cells within n edges of c.
Near(c, n) == {d \in Cells : \E k \in 0 .. n : Reaches(c, d, k)}

LEMMA NearGrows ==
    ASSUME NEW c, NEW n \in Int, NEW m \in Int, n <= m
    PROVE  Near(c, n) \subseteq Near(c, m)
BY DEF Near

LEMMA NearFurther ==
    ASSUME NEW c, NEW n \in Nat, NEW x \in Near(c, n), NEW y \in Cells, y \in DependedBy(x)
    PROVE  y \in Near(c, n + 1)
<1>1. PICK k \in 0 .. n : Reaches(c, x, k)
  BY DEF Near
<1>2. Reaches(c, y, k + 1) /\ k + 1 \in 0 .. n + 1
  BY <1>1, ReachesFurther
<1>3. QED
  BY <1>2 DEF Near

\* The search from c: what is queued is at the distance that it is queued with,
\* distances in the queue differ by one at most, and of what is not queued any
\* more the search has seen all that is an edge further.
Frontier(c, queue, seen) ==
    /\ queue \in Seq(Cells \X (0 .. MaxDepth))
    /\ c \in seen /\ seen \subseteq Near(c, MaxDepth)
    /\ \A i \in DOMAIN queue :
        queue[i][1] \in (seen \cap Near(c, queue[i][2])) \ Near(c, queue[i][2] - 1)
    /\ \A i, k \in DOMAIN queue : i < k =>
        queue[i][2] <= queue[k][2] /\ queue[k][2] <= queue[i][2] + 1
    /\ \A x \in seen :
        \/ \E i \in DOMAIN queue : queue[i][1] = x
        \/ x \notin Near(c, MaxDepth - 1)
        \/ DependedBy(x) \subseteq seen

\* All that is nearer than what is queued has been seen.
LEMMA LayersAreSeen ==
    ASSUME NEW c, NEW queue, NEW seen, Frontier(c, queue, seen),
           NEW n \in 0 .. MaxDepth, \A i \in DOMAIN queue : queue[i][2] >= n
    PROVE  Near(c, n) \subseteq seen
<1>1. SUFFICES ASSUME NEW y \in Near(c, n), y \notin seen PROVE FALSE
  OBVIOUS
<1>2. PICK m \in 0 .. n : Reaches(c, y, m)
  BY DEF Near
<1>3. PICK k \in 0 .. m - 1, x \in seen \cap Cells :
        Reaches(c, x, k) /\ ~(DependedBy(x) \subseteq seen)
  BY <1>1, <1>2, PathLeaves DEF Frontier
<1>4. MaxDepth \in Nat
  BY MaxDepthAssumption
<1>5. x \in Near(c, MaxDepth - 1)
  BY <1>3, <1>4 DEF Near
<1>6. PICK i \in DOMAIN queue : queue[i][1] = x
  BY <1>3, <1>5 DEF Frontier
<1>7. queue[i][2] \in 0 .. MaxDepth
  BY <1>6 DEF Frontier
<1>8. x \in Near(c, queue[i][2] - 1)
  BY <1>3, <1>7 DEF Near
<1>9. QED
  BY <1>6, <1>8 DEF Frontier

LEMMA FrontierBegins ==
    ASSUME NEW c \in Cells
    PROVE  Frontier(c, <<<<c, 0>>>>, {c})
<1>1. MaxDepth \in Nat
  BY MaxDepthAssumption
<1>2. c \in Near(c, 0) /\ c \in Near(c, MaxDepth) /\ Near(c, 0 - 1) = {}
  BY <1>1, ReachesItself DEF Near
<1>3. <<<<c, 0>>>> \in Seq(Cells \X (0 .. MaxDepth)) /\ DOMAIN <<<<c, 0>>>> = {1}
  BY <1>1
<1>4. QED
  BY <1>2, <1>3 DEF Frontier

\* A search that is over has found what is within reach.
LEMMA FrontierEnds ==
    ASSUME NEW c, NEW seen, Frontier(c, <<>>, seen)
    PROVE  seen \ {c} = ImpactedBy(c)
<1>1. MaxDepth \in 0 .. MaxDepth
  BY MaxDepthAssumption
<1>2. Near(c, MaxDepth) \subseteq seen
  BY <1>1, LayersAreSeen
<1>3. seen = Near(c, MaxDepth)
  BY <1>2 DEF Frontier
<1>4. QED
  BY <1>3 DEF Near, ImpactedBy

\* Pairs with a second that is the same are as many as their firsts.
LEMMA PairsAreFinite ==
    ASSUME NEW children, IsFiniteSet(children), NEW depth,
           NEW new, \A e : e \in new <=> \E y \in children : e = <<y, depth>>
    PROVE  IsFiniteSet(new)
<1> DEFINE f == [y \in children |-> <<y, depth>>]
<1>1. f \in Surjection(children, new)
  BY DEF Surjection
<1> HIDE DEF f
<1>2. QED
  BY <1>1, FS_Surjection

\* The queue after its head was taken, n entries being left of it, and others were put
\* at its end.
Lengthened(queue, new, n, longer) ==
    /\ n \in Nat /\ longer \in Seq(Cells \X (0 .. MaxDepth))
    /\ DOMAIN queue = 1 .. n + 1
    /\ \A i \in DOMAIN queue : queue[i] \in Cells \X (0 .. MaxDepth)
    /\ \A i \in DOMAIN longer : longer[i] \in Cells \X (0 .. MaxDepth)
    /\ \A i \in 1 .. n : i \in DOMAIN longer /\ longer[i] = queue[i + 1]
    /\ \A i \in DOMAIN longer : i \in Nat \ {0} /\ (i > n => longer[i] \in new)
    /\ \A x \in new : \E i \in DOMAIN longer : longer[i] = x

LEMMA QueueEffect ==
    ASSUME NEW queue \in Seq(Cells \X (0 .. MaxDepth)), queue # <<>>,
           NEW new, new \subseteq Cells \X (0 .. MaxDepth), IsFiniteSet(new)
    PROVE  Lengthened(queue, new, Len(queue) - 1, Tail(queue) \o SetToSeq(new))
<1> DEFINE Item == Cells \X (0 .. MaxDepth)
           list == SetToSeq(new)
           n == Len(queue) - 1
           longer == Tail(queue) \o list
<1>2. new \subseteq Item
  OBVIOUS
<1>3. list \in Seq(new) /\ \A x \in new : \E i \in DOMAIN list : list[i] = x
  BY SetToSeqLists
<1>4. list \in Seq(Item)
  BY <1>2, <1>3
<1> HIDE DEF list
<1>5. /\ n \in Nat /\ DOMAIN queue = 1 .. n + 1
      /\ Tail(queue) \in Seq(Item) /\ Len(Tail(queue)) = n
      /\ \A i \in 1 .. n : Tail(queue)[i] = queue[i + 1]
  <2>1. Len(queue) \in Nat /\ Len(queue) > 0 /\ DOMAIN queue = 1 .. Len(queue)
    BY EmptySeq, LenProperties
  <2>2. Tail(queue) \in Seq(Item) /\ Len(Tail(queue)) = n
        /\ \A i \in 1 .. n : Tail(queue)[i] = queue[i + 1]
    BY <2>1
  <2>3. QED
    BY <2>1, <2>2
<1> DEFINE tail == Tail(queue)
           m == Len(list)
<1>6. m \in Nat /\ DOMAIN list = 1 .. m /\ \A i \in 1 .. m : list[i] \in new
  BY <1>3, LenProperties, ElementOfSeq
<1> HIDE DEF tail, n, m
<1>7. /\ longer \in Seq(Item) /\ Len(longer) = n + m /\ DOMAIN longer = 1 .. n + m
      /\ \A i \in 1 .. n + m : longer[i] = IF i <= n THEN tail[i] ELSE list[i - n]
  <2>1. tail \in Seq(Item) /\ Len(tail) = n /\ Len(list) = m
    BY <1>5 DEF tail, m
  <2>2. longer = tail \o list
    BY DEF tail
  <2> HIDE DEF longer, m
  <2>3. /\ longer \in Seq(Item) /\ Len(longer) = n + m
        /\ \A i \in 1 .. n + m : longer[i] = IF i <= n THEN tail[i] ELSE list[i - n]
    BY <1>4, <2>1, <2>2, ConcatProperties
  <2>4. QED
    BY <2>3, LenProperties
<1> HIDE DEF longer
<1>8. \A i \in 1 .. n : i \in DOMAIN longer /\ longer[i] = queue[i + 1]
  BY <1>5, <1>6, <1>7 DEF tail
<1>9. ASSUME NEW i \in DOMAIN longer, i > n PROVE longer[i] \in new
  <2>1. i - n \in 1 .. m /\ longer[i] = list[i - n]
    BY <1>5, <1>6, <1>7, <1>9
  <2>2. QED
    BY <1>6, <2>1
<1>10. ASSUME NEW x \in new PROVE \E i \in DOMAIN longer : longer[i] = x
  <2>1. PICK k \in 1 .. m : list[k] = x
    BY <1>3, <1>6
  <2>2. k + n \in 1 .. n + m /\ ~(k + n <= n) /\ (k + n) - n = k
    BY <1>5, <1>6
  <2>3. longer[k + n] = x
    BY <1>7, <2>1, <2>2
  <2>4. QED
    BY <1>7, <2>2, <2>3
<1>11. \A i \in DOMAIN longer : i \in Nat \ {0}
  BY <1>5, <1>6, <1>7
<1>12. /\ \A i \in DOMAIN queue : queue[i] \in Item
       /\ \A i \in DOMAIN longer : longer[i] \in Item
  BY <1>7, LenProperties, ElementOfSeq
<1>13. QED
  BY <1>5, <1>7, <1>8, <1>9, <1>10, <1>11, <1>12 DEF Lengthened, longer, list, n

\* The search goes on as it began.
LEMMA FrontierMoves ==
    ASSUME NEW c, NEW queue, NEW seen, Frontier(c, queue, seen), queue # <<>>,
           \A y : DependedBy(y) \subseteq Cells /\ IsFiniteSet(DependedBy(y))
    PROVE  LET x == Head(queue)[1]
               depth == Head(queue)[2]
               children == IF depth >= MaxDepth THEN {} ELSE DependedBy(x) \ seen
           IN Frontier(c, Tail(queue) \o SetToSeq({<<y, depth + 1>> : y \in children}),
                       seen \cup children)
<1> DEFINE x == Head(queue)[1]
           depth == Head(queue)[2]
           children == IF depth >= MaxDepth THEN {} ELSE DependedBy(x) \ seen
           next == IF depth >= MaxDepth THEN depth ELSE depth + 1
           new == {<<y, depth + 1>> : y \in children}
           longer == Tail(queue) \o SetToSeq(new)
           more == seen \cup children
           n == Len(queue) - 1
<1>1. MaxDepth \in Nat /\ queue \in Seq(Cells \X (0 .. MaxDepth))
  BY MaxDepthAssumption DEF Frontier
<1>2. /\ Head(queue) = queue[1] /\ 1 \in DOMAIN queue
      /\ queue[1] \in Cells \X (0 .. MaxDepth)
  BY <1>1, EmptySeq, LenProperties, ElementOfSeq
<1>3. /\ x \in Cells /\ depth \in 0 .. MaxDepth /\ next \in 0 .. MaxDepth
      /\ x \in (seen \cap Near(c, depth)) \ Near(c, depth - 1)
      /\ x = queue[1][1] /\ depth = queue[1][2]
  BY <1>1, <1>2 DEF Frontier
<1>4. children \in SUBSET Cells /\ IsFiniteSet(children) /\ children \cap seen = {}
  BY FS_Subset, FS_EmptySet
<1>5. \A e : e \in new <=> \E y \in children : e = <<y, next>>
  BY <1>3
<1>6. children # {} => depth < MaxDepth /\ next = depth + 1 /\ children = DependedBy(x) \ seen
  BY <1>1, <1>3
<1>7. DependedBy(x) \subseteq more \/ x \notin Near(c, MaxDepth - 1)
  BY <1>1, <1>3
<1>8. \A e : e \in new <=> \E y \in children : e = <<y, depth + 1>>
  OBVIOUS
<1> HIDE DEF x, depth, children, next, new
<1>9. new \subseteq Cells \X (0 .. MaxDepth) /\ IsFiniteSet(new)
  <2>1. new \subseteq Cells \X (0 .. MaxDepth)
    BY <1>3, <1>4, <1>5
  <2>2. IsFiniteSet(children)
    BY <1>4
  <2>3. IsFiniteSet(new)
    BY <1>5, <2>2, PairsAreFinite
  <2>4. QED
    BY <2>1, <2>3
<1>10. Lengthened(queue, new, n, longer)
  BY <1>1, <1>9, QueueEffect
<1> HIDE DEF longer, n
<1>11. /\ n \in Nat /\ longer \in Seq(Cells \X (0 .. MaxDepth))
       /\ DOMAIN queue = 1 .. n + 1
       /\ \A i \in DOMAIN queue : queue[i] \in Cells \X (0 .. MaxDepth)
       /\ \A i \in DOMAIN longer : longer[i] \in Cells \X (0 .. MaxDepth)
       /\ \A i \in 1 .. n : i \in DOMAIN longer /\ longer[i] = queue[i + 1]
       /\ \A i \in DOMAIN longer : i \in Nat \ {0} /\ (i > n => longer[i] \in new)
       /\ \A e \in new : \E i \in DOMAIN longer : longer[i] = e
  BY <1>10 DEF Lengthened
<1>12. n \in Nat /\ DOMAIN queue = 1 .. n + 1 /\ \A i \in DOMAIN longer : i \in Nat \ {0}
  BY <1>11
\* An entry of the longer queue is one of the shorter or a child, and each is there.
<1>13. \A i \in 1 .. n : i \in DOMAIN longer /\ i + 1 \in DOMAIN queue /\ longer[i] = queue[i + 1]
  <2>1. \A i \in 1 .. n : i + 1 \in DOMAIN queue
    BY <1>12
  <2>2. \A i \in 1 .. n : i \in DOMAIN longer /\ longer[i] = queue[i + 1]
    BY <1>10 DEF Lengthened
  <2>3. QED
    BY <2>1, <2>2
<1>14. ASSUME NEW i \in DOMAIN longer, i > n
       PROVE  \E y \in children : longer[i] = <<y, depth + 1>>
  <2>1. longer[i] \in new
    BY <1>10, <1>14 DEF Lengthened
  <2>2. QED
    BY <1>8, <2>1
<1>15. ASSUME NEW y \in children
       PROVE  \E i \in DOMAIN longer : longer[i] = <<y, depth + 1>>
  <2>1. <<y, depth + 1>> \in new
    BY <1>8
  <2>2. QED
    BY <1>10, <2>1 DEF Lengthened
\* All that is queued is at the depth of the head or an edge further.
<1>16. ASSUME NEW i \in DOMAIN queue PROVE depth <= queue[i][2] /\ queue[i][2] <= depth + 1
  <2>1. CASE i = 1
    BY <1>3, <2>1
  <2>2. CASE i # 1
    <3>1. 1 \in DOMAIN queue /\ 1 < i
      BY <1>11, <2>2
    <3>2. QED
      BY <1>3, <3>1 DEF Frontier
  <2>3. QED
    BY <2>1, <2>2
<1>17. Near(c, depth) \subseteq seen
  BY <1>3, <1>16, LayersAreSeen
\* So the children are an edge further than the head.
<1>18. ASSUME NEW y \in children
       PROVE  /\ y \in Near(c, depth + 1) /\ y \notin Near(c, depth)
              /\ y \in Near(c, MaxDepth) /\ y \in more
  <2>1. depth < MaxDepth /\ y \in DependedBy(x) /\ y \in Cells /\ y \notin seen
    BY <1>4, <1>6
  <2>2. y \in Near(c, depth + 1)
    BY <1>3, <2>1, NearFurther
  <2>3. y \in Near(c, MaxDepth)
    BY <1>1, <1>3, <2>1, <2>2, NearGrows
  <2>4. QED
    BY <1>17, <2>1, <2>2, <2>3
<1>19. c \in more /\ more \subseteq Near(c, MaxDepth)
  BY <1>18 DEF Frontier
<1>20. ASSUME NEW i \in DOMAIN longer
       PROVE  \/ i \in 1 .. n /\ i + 1 \in DOMAIN queue /\ longer[i] = queue[i + 1]
              \/ i > n /\ \E y \in children : longer[i] = <<y, depth + 1>>
  <2>1. CASE i \in 1 .. n
    BY <1>13, <2>1
  <2>2. CASE i > n
    BY <1>14, <2>2
  <2>3. QED
    BY <1>12, <2>1, <2>2
<1>21. ASSUME NEW i \in DOMAIN longer
       PROVE  longer[i][1] \in (more \cap Near(c, longer[i][2])) \ Near(c, longer[i][2] - 1)
  <2>1. CASE i + 1 \in DOMAIN queue /\ longer[i] = queue[i + 1]
    BY <2>1 DEF Frontier
  <2>2. ASSUME NEW y \in children, longer[i] = <<y, depth + 1>>
        PROVE  longer[i][1] \in (more \cap Near(c, longer[i][2])) \ Near(c, longer[i][2] - 1)
    <3>1. (depth + 1) - 1 = depth
      BY <1>3
    <3>2. QED
      BY <1>18, <2>2, <3>1
  <2>3. QED
    BY <1>20, <2>1, <2>2
<1>22. ASSUME NEW i \in DOMAIN longer, NEW k \in DOMAIN longer, i < k
       PROVE  longer[i][2] <= longer[k][2] /\ longer[k][2] <= longer[i][2] + 1
  <2>1. CASE i \in 1 .. n /\ k \in 1 .. n
    <3>1. /\ i + 1 \in DOMAIN queue /\ longer[i] = queue[i + 1]
          /\ k + 1 \in DOMAIN queue /\ longer[k] = queue[k + 1] /\ i + 1 < k + 1
      <4>1. i + 1 < k + 1
        BY <1>22, <1>12, <2>1
      <4>2. QED
        BY <1>13, <2>1, <4>1
    <3>2. QED
      BY <3>1 DEF Frontier
  <2>2. CASE i \in 1 .. n /\ k > n
    <3>1. depth <= longer[i][2] /\ longer[i][2] <= depth + 1
      <4>1. i + 1 \in DOMAIN queue /\ longer[i] = queue[i + 1]
        BY <1>13, <2>2
      <4>2. QED
        BY <1>16, <4>1
    <3>2. longer[k][2] = depth + 1
      BY <1>14, <2>2
    <3>3. longer[i][2] \in Nat
      BY <1>11
    <3>4. QED
      BY <1>3, <3>1, <3>2, <3>3
  <2>3. CASE i > n /\ k > n
    <3>1. longer[i][2] = depth + 1 /\ longer[k][2] = depth + 1
      BY <1>14, <2>3
    <3>2. QED
      BY <1>3, <3>1
  <2>4. QED
    BY <1>22, <1>12, <2>1, <2>2, <2>3
<1>23. ASSUME NEW y \in more
       PROVE  \/ \E i \in DOMAIN longer : longer[i][1] = y
              \/ y \notin Near(c, MaxDepth - 1)
              \/ DependedBy(y) \subseteq more
  <2>1. CASE y \in children
    <3>1. PICK i \in DOMAIN longer : longer[i] = <<y, depth + 1>>
      BY <1>15, <2>1
    <3>2. QED
      BY <3>1
  <2>2. CASE y = x
    BY <1>7, <2>2
  <2>3. CASE y \in seen /\ y # x
    <3>1. \/ \E i \in DOMAIN queue : queue[i][1] = y
          \/ y \notin Near(c, MaxDepth - 1)
          \/ DependedBy(y) \subseteq seen
      BY <2>3 DEF Frontier
    <3>2. ASSUME NEW i \in DOMAIN queue, queue[i][1] = y
          PROVE  \E k \in DOMAIN longer : longer[k][1] = y
      <4>1. i # 1
        BY <1>3, <2>3, <3>2
      <4>2. i - 1 \in 1 .. n /\ (i - 1) + 1 = i
        BY <1>12, <4>1
      <4>3. QED
        BY <1>13, <3>2, <4>2
    <3>3. QED
      BY <3>1, <3>2
  <2>4. QED
    BY <2>1, <2>2, <2>3
<1>24. Frontier(c, longer, more)
  BY <1>11, <1>19, <1>21, <1>22, <1>23 DEF Frontier
<1>25. QED
  BY <1>24 DEF longer, new, x, depth, children
----------------------------------------------------------------------------
(* The tool. *)

\* The evaluators are those of EvaluatorProofs.
LEMMA ScenarioIs ==
    /\ Scenario!Step <=> S!Step
    /\ \A c : Scenario!Ask(c) <=> S!Ask(c)
    /\ Scenario!Idle <=> S!Idle
    /\ Scenario!NewEvaluator = S!NewEvaluator
    /\ Scenario!NoRepeats <=> S!NoRepeats
    /\ \A s : Scenario!RightUnlessReported(s) <=> S!RightUnlessReported(s)
    /\ \A book, given, s : Scenario!Solves(book, given, s) <=> S!Solves(book, given, s)
<1>1. Scenario!Step <=> S!Step
  BY DEF
   Scenario!Step, S!Step, Scenario!Overridden, S!Overridden, Scenario!Memoized, S!Memoized,
   Scenario!Missing, S!Missing, Scenario!Constant, S!Constant,
   Scenario!Circular, S!Circular, Scenario!Enter, S!Enter, Scenario!TooDeep, S!TooDeep,
   Scenario!Wants, S!Wants, Scenario!Fresh, S!Fresh, Scenario!FreshFormula, S!FreshFormula,
   Scenario!Give, S!Give, Scenario!Pop, S!Pop, Scenario!Memoize, S!Memoize,
   Scenario!Put, S!Put, Scenario!Stored, S!Stored, Scenario!FailedAs, S!FailedAs,
   Scenario!OnStack, S!OnStack, Scenario!Top, S!Top, Scenario!Read, S!Read,
   Scenario!Reading, S!Reading, Scenario!Doing, S!Doing, Scenario!DoingOf, S!DoingOf,
   Scenario!Finish, S!Finish, Scenario!Fail, S!Fail
<1>2. /\ \A c : Scenario!Ask(c) <=> S!Ask(c)
      /\ Scenario!Idle <=> S!Idle
      /\ Scenario!NewEvaluator = S!NewEvaluator
      /\ Scenario!NoRepeats <=> S!NoRepeats
      /\ \A s : Scenario!RightUnlessReported(s) <=> S!RightUnlessReported(s)
  BY DEF
   Scenario!Ask, S!Ask, Scenario!Idle, S!Idle, Scenario!NewEvaluator, S!NewEvaluator,
   Scenario!NoRepeats, S!NoRepeats, Scenario!RightUnlessReported, S!RightUnlessReported
<1>3. \A book, given, s : Scenario!Solves(book, given, s) <=> S!Solves(book, given, s)
  BY DEF Scenario!Solves, S!Solves
<1>4. QED
  BY <1>1, <1>2, <1>3

LEMMA BaseIs ==
    /\ Base!Step <=> B!Step
    /\ \A c : Base!Ask(c) <=> B!Ask(c)
    /\ Base!Idle <=> B!Idle
    /\ Base!NewEvaluator = B!NewEvaluator
    /\ Base!NoRepeats <=> B!NoRepeats
    /\ \A s : Base!RightUnlessReported(s) <=> B!RightUnlessReported(s)
    /\ \A book, given, s : Base!Solves(book, given, s) <=> B!Solves(book, given, s)
<1>1. Base!Step <=> B!Step
  BY DEF
   Base!Step, B!Step, Base!Overridden, B!Overridden, Base!Memoized, B!Memoized,
   Base!Missing, B!Missing, Base!Constant, B!Constant, Base!Circular, B!Circular,
   Base!Enter, B!Enter, Base!TooDeep, B!TooDeep, Base!Wants, B!Wants, Base!Fresh, B!Fresh,
   Base!FreshFormula, B!FreshFormula, Base!Give, B!Give, Base!Pop, B!Pop,
   Base!Memoize, B!Memoize, Base!Put, B!Put, Base!Stored, B!Stored,
   Base!FailedAs, B!FailedAs, Base!OnStack, B!OnStack, Base!Top, B!Top, Base!Read, B!Read,
   Base!Reading, B!Reading, Base!Doing, B!Doing, Base!DoingOf, B!DoingOf,
   Base!Finish, B!Finish, Base!Fail, B!Fail
<1>2. /\ \A c : Base!Ask(c) <=> B!Ask(c)
      /\ Base!Idle <=> B!Idle
      /\ Base!NewEvaluator = B!NewEvaluator
      /\ Base!NoRepeats <=> B!NoRepeats
      /\ \A s : Base!RightUnlessReported(s) <=> B!RightUnlessReported(s)
  BY DEF
   Base!Ask, B!Ask, Base!Idle, B!Idle, Base!NewEvaluator, B!NewEvaluator,
   Base!NoRepeats, B!NoRepeats, Base!RightUnlessReported, B!RightUnlessReported
<1>3. \A book, given, s : Base!Solves(book, given, s) <=> B!Solves(book, given, s)
  BY DEF Base!Solves, B!Solves
<1>4. QED
  BY <1>1, <1>2, <1>3

\* Workbooks and overrides hold values, and formulas read cells: of every input.
WellTypedInputs ==
    \A book \in Workbooks, given \in Scenarios \cup {<<>>} : S!WellTyped(book, given)

Known == workbook \in Workbooks /\ overrides \in Scenarios /\ targets \in Targets

\* What the search has found, from the overridden cells that it is through with and
\* from the one that it is at.
FoundFrom(cells) == UNION {ImpactedBy(c) : c \in cells}
SearchInv ==
    /\ search = [origins |-> search.origins, queue |-> search.queue,
                 seen |-> search.seen, found |-> search.found]
    /\ search.origins \subseteq DOMAIN overrides
    /\ phase \in {"search", "compare", "done"}
    /\ phase = "search" =>
        /\ targets = {}
        /\ \/ /\ search.queue = <<>> /\ search.origins = DOMAIN overrides
              /\ search.found = {}
           \/ \E c \in DOMAIN overrides \ search.origins :
              /\ Frontier(c, search.queue, search.seen)
              /\ search.found = FoundFrom(DOMAIN overrides \ (search.origins \cup {c}))
                                \cup (search.seen \ {c})
    /\ phase # "search" /\ targets = {} => search.found = FoundFrom(DOMAIN overrides)
    /\ targets # {} => search.found = {}

\* The cells to compare.
All == IF targets = {} THEN search.found ELSE targets

LEMMA DependedByIsFinite ==
    ASSUME Known
    PROVE  \A y : DependedBy(y) \subseteq Cells /\ IsFiniteSet(DependedBy(y))
<1>1. IsFiniteSet(DOMAIN workbook) /\ DOMAIN workbook \subseteq Cells
  BY InputAssumption DEF Known
<1>2. QED
  BY <1>1, FS_Subset DEF DependedBy

\* What is within reach depends on the workbook only.
LEMMA SameReach ==
    ASSUME workbook' = workbook
    PROVE  /\ \A c, queue, seen : Frontier(c, queue, seen)' <=> Frontier(c, queue, seen)
           /\ \A c : ImpactedBy(c)' = ImpactedBy(c)
           /\ \A cells : FoundFrom(cells)' = FoundFrom(cells)
<1>1. \A c : DependedBy(c)' = DependedBy(c)
  BY DEF DependedBy
<1>2. \A c, d, n : Reaches(c, d, n)' <=> Reaches(c, d, n)
  BY <1>1 DEF Reaches
<1>3. \A c, n : Near(c, n)' = Near(c, n)
  BY <1>2 DEF Near
<1>4. \A c : ImpactedBy(c)' = ImpactedBy(c)
  BY <1>2 DEF ImpactedBy
<1>5. \A c, queue, seen : Frontier(c, queue, seen)' <=> Frontier(c, queue, seen)
  BY <1>1, <1>3 DEF Frontier
<1>6. \A cells : FoundFrom(cells)' = FoundFrom(cells)
  BY <1>4 DEF FoundFrom
<1>7. QED
  BY <1>4, <1>5, <1>6

\* With no queue, what was found is what is within reach of the cells taken.
LEMMA FoundSoFar ==
    ASSUME SearchInv, phase = "search", search.queue = <<>>
    PROVE  search.found = FoundFrom(DOMAIN overrides \ search.origins)
<1>1. CASE search.origins = DOMAIN overrides /\ search.found = {}
  BY <1>1 DEF FoundFrom
<1>2. CASE \E c \in DOMAIN overrides \ search.origins :
             /\ Frontier(c, search.queue, search.seen)
             /\ search.found = FoundFrom(DOMAIN overrides \ (search.origins \cup {c}))
                               \cup (search.seen \ {c})
  <2>1. PICK c \in DOMAIN overrides \ search.origins :
             /\ Frontier(c, <<>>, search.seen)
             /\ search.found = FoundFrom(DOMAIN overrides \ (search.origins \cup {c}))
                               \cup (search.seen \ {c})
    BY <1>2
  <2>2. search.seen \ {c} = ImpactedBy(c)
    BY <2>1, FrontierEnds
  <2>3. DOMAIN overrides \ search.origins
          = (DOMAIN overrides \ (search.origins \cup {c})) \cup {c}
    OBVIOUS
  <2>4. QED
    BY <2>1, <2>2, <2>3 DEF FoundFrom
<1>3. QED
  BY <1>1, <1>2 DEF SearchInv

LEMMA NextOriginFinds ==
    ASSUME SearchInv, Known, NextOrigin
    PROVE  SearchInv'
<1>1. PICK c \in search.origins :
        search' = [search EXCEPT !.origins = @ \ {c}, !.queue = <<<<c, 0>>>>, !.seen = {c}]
  BY DEF NextOrigin
<1>2. /\ search' = [origins |-> search.origins \ {c}, queue |-> <<<<c, 0>>>>,
                    seen |-> {c}, found |-> search.found]
      /\ phase = "search" /\ phase' = phase /\ search.queue = <<>>
      /\ UNCHANGED <<workbook, overrides, targets>>
  BY <1>1 DEF NextOrigin, Searching, inputs, SearchInv
<1>3. c \in Cells /\ c \in DOMAIN overrides
  BY InputAssumption DEF SearchInv, Known
<1>4. Frontier(c, <<<<c, 0>>>>, {c})
  BY <1>3, FrontierBegins
<1>5. search.found = FoundFrom(DOMAIN overrides \ search.origins)
  BY <1>2, FoundSoFar
<1>6. c \in DOMAIN overrides \ (search.origins \ {c})
  BY <1>3
<1>7. DOMAIN overrides \ ((search.origins \ {c}) \cup {c}) = DOMAIN overrides \ search.origins
  OBVIOUS
<1>8. search.found = FoundFrom(DOMAIN overrides \ ((search.origins \ {c}) \cup {c}))
                      \cup ({c} \ {c})
  BY <1>5, <1>7
<1>9. Frontier(c, search.queue, search.seen)'
  BY <1>2, <1>4, SameReach
<1>10. FoundFrom(DOMAIN overrides \ (search.origins \cup {c}))'
        = FoundFrom(DOMAIN overrides \ ((search.origins \ {c}) \cup {c}))
  BY <1>2, SameReach
<1>11. QED
  BY <1>2, <1>6, <1>8, <1>9, <1>10 DEF SearchInv

LEMMA ExpandFinds ==
    ASSUME SearchInv, Known, Expand
    PROVE  SearchInv'
<1> DEFINE x == Head(search.queue)[1]
           depth == Head(search.queue)[2]
           children == IF depth >= MaxDepth THEN {} ELSE DependedBy(x) \ search.seen
           longer == Tail(search.queue) \o SetToSeq({<<y, depth + 1>> : y \in children})
<1>1. /\ search' = [search EXCEPT !.queue = longer, !.seen = @ \cup children,
                                  !.found = @ \cup children]
      /\ phase = "search" /\ phase' = phase /\ search.queue # <<>>
      /\ UNCHANGED <<workbook, overrides, targets>>
  BY DEF Expand, Searching, inputs
<1>2. PICK c \in DOMAIN overrides \ search.origins :
        /\ Frontier(c, search.queue, search.seen)
        /\ search.found = FoundFrom(DOMAIN overrides \ (search.origins \cup {c}))
                          \cup (search.seen \ {c})
  BY <1>1 DEF SearchInv
<1>3. Frontier(c, longer, search.seen \cup children)
  BY <1>1, <1>2, FrontierMoves, DependedByIsFinite
<1>4. c \in search.seen /\ children \cap search.seen = {}
  BY <1>2 DEF Frontier
<1> HIDE DEF longer, children
<1>5. search' = [origins |-> search.origins, queue |-> longer,
                 seen |-> search.seen \cup children, found |-> search.found \cup children]
  BY <1>1 DEF SearchInv
<1>6. search.found \cup children = FoundFrom(DOMAIN overrides \ (search.origins \cup {c}))
                                   \cup ((search.seen \cup children) \ {c})
  BY <1>2, <1>4
<1>7. Frontier(c, search.queue, search.seen)'
  BY <1>1, <1>3, <1>5, SameReach
<1>8. FoundFrom(DOMAIN overrides \ (search.origins \cup {c}))'
        = FoundFrom(DOMAIN overrides \ (search.origins \cup {c}))
  BY <1>1, <1>5, SameReach
<1>9. QED
  BY <1>1, <1>2, <1>5, <1>6, <1>7, <1>8 DEF SearchInv

LEMMA SearchedFinds ==
    ASSUME SearchInv, Known, Searched
    PROVE  SearchInv'
<1>1. /\ phase = "search" /\ phase' = "compare" /\ UNCHANGED search
      /\ search.queue = <<>> /\ search.origins = {}
      /\ UNCHANGED <<workbook, overrides, targets>>
  BY DEF Searched, Searching, inputs
<1>2. search.found = FoundFrom(DOMAIN overrides)
  BY <1>1, FoundSoFar
<1>3. FoundFrom(DOMAIN overrides)' = FoundFrom(DOMAIN overrides)
  BY <1>1, SameReach
<1>4. QED
  BY <1>1, <1>2, <1>3 DEF SearchInv

\* And the search is left alone afterwards.
LEMMA FoundStays ==
    ASSUME SearchInv, UNCHANGED <<workbook, overrides, targets, search>>,
           phase # "search", phase' \in {"compare", "done"}
    PROVE  SearchInv'
<1>1. \A c : Frontier(c, search.queue, search.seen)' <=> Frontier(c, search.queue, search.seen)
  BY SameReach
<1>2. \A c : FoundFrom(DOMAIN overrides \ (search.origins \cup {c}))'
              = FoundFrom(DOMAIN overrides \ (search.origins \cup {c}))
  BY SameReach
<1>3. FoundFrom(DOMAIN overrides)' = FoundFrom(DOMAIN overrides)
  BY SameReach
<1>4. QED
  BY <1>1, <1>2, <1>3 DEF SearchInv

----------------------------------------------------------------------------
(* The comparison; s is the solution with the overrides, t that without. *)

\* Supported, of these.
Fine(s, t) ==
    /\ scenario.unsupported \cup base.unsupported = {}
    /\ s.part = Cells /\ t.part = Cells
    /\ \A c \in DOMAIN workbook : workbook[c].value \in {None, t.exact[c]}

\* What is to be reported of some cells.
ChangesOf(s, t, cells) ==
    {[ref |-> c, old |-> t.exact[c], new |-> s.exact[c]] :
        c \in {d \in cells \cap DOMAIN workbook : t.exact[d] # s.exact[d]}}

\* What is reported is right, as far as no formula failed.
RightChange(s, t, change) ==
    /\ scenario.unsupported \cap s.part = {} /\ change.ref \in s.part =>
         change.new = s.exact[change.ref]
    /\ Resolvable(change.ref) /\ change.ref \in t.part /\ base.unsupported \cap t.part = {} =>
         change.old = t.exact[change.ref]
RightChanges(s, t) == \A change \in changes : RightChange(s, t, change)

\* What has been compared is reported right; no evaluator is at work but for the cell
\* that is being compared; and what they answer is an answer for that cell.
CompareInv(s, t) ==
    /\ phase = "search" => todo = {} /\ current = <<>> /\ changes = {}
    /\ phase # "search" => todo \subseteq All
    /\ phase = "done" => todo \cap DOMAIN workbook = {} /\ current = <<>>
    /\ current \in {<<>>} \cup {<<c>> : c \in todo \cap DOMAIN workbook}
    /\ phase # "search" /\ Fine(s, t) => changes = ChangesOf(s, t, All \ todo)
    /\ RightChanges(s, t)
    /\ current = <<>> => S!Idle /\ B!Idle /\ base.answer = <<>>
    /\ current # <<>> =>
        /\ scenario.unsupported \cap s.part = {} => S!AskedFor(s, scenario, current[1])
        /\ base.unsupported \cap t.part = {} =>
            (B!Idle /\ base.answer = <<>>) \/ B!AskedFor(t, base, current[1])

ToolInv(s, t) ==
    /\ WellTypedInputs /\ Known /\ SearchInv
    /\ S!IInv(s) /\ B!IInv(t) /\ CompareInv(s, t)

\* The search does not touch the evaluators.
LEMMA SearchKeeps ==
    ASSUME NEW s, NEW t, ToolInv(s, t), NextOrigin \/ Expand \/ Searched
    PROVE  ToolInv(s, t)'
<1>1. /\ phase = "search" /\ UNCHANGED <<workbook, overrides, targets>>
      /\ UNCHANGED <<scenario, base, current, changes>>
      /\ \/ phase' = "search" /\ todo' = todo
         \/ phase' = "compare" /\ todo' = search'.found
  BY DEF NextOrigin, Expand, Searched, Searching, inputs
<1>2. SearchInv'
  BY NextOriginFinds, ExpandFinds, SearchedFinds DEF ToolInv
<1>3. S!IInv(s)' /\ B!IInv(t)'
  BY <1>1, S!RestKeeps, B!RestKeeps DEF ToolInv, S!vars, B!vars
<1>4. CompareInv(s, t)'
  <2>1. targets = {} /\ changes = {} /\ current = <<>> /\ S!Idle /\ B!Idle /\ base.answer = <<>>
    BY <1>1 DEF ToolInv, SearchInv, CompareInv
  <2>2. S!Idle' /\ B!Idle'
    BY <1>1, <2>1 DEF S!Idle, B!Idle
  <2>3. phase' # "search" => todo' = All'
    BY <1>1, <2>1 DEF All
  <2>4. phase' # "search" => changes' = ChangesOf(s, t, All \ todo)'
    <3>1. phase' # "search" => All' \ todo' = {}
      BY <2>3
    <3>2. QED
      BY <1>1, <2>1, <3>1 DEF ChangesOf
  <2>5. RightChanges(s, t)'
    BY <1>1, <2>1 DEF RightChanges
  <2>6. QED
    BY <1>1, <2>1, <2>2, <2>3, <2>4, <2>5 DEF ToolInv, CompareInv
<1>5. QED
  BY <1>1, <1>2, <1>3, <1>4 DEF ToolInv, Known, WellTypedInputs

\* What a step of the comparison leaves alone.
LEMMA Compares ==
    ASSUME NEW s, NEW t, ToolInv(s, t), Comparing, phase' \in {"compare", "done"},
           S!IInv(s)', B!IInv(t)', CompareInv(s, t)'
    PROVE  ToolInv(s, t)'
<1>1. UNCHANGED <<workbook, overrides, targets, search>> /\ phase = "compare"
  BY DEF Comparing, inputs
<1>2. SearchInv'
  <2>1. SearchInv /\ phase # "search"
    BY <1>1 DEF ToolInv
  <2>2. QED
    BY <1>1, <2>1, FoundStays
<1>3. QED
  BY <1>1, <1>2 DEF ToolInv, Known, WellTypedInputs

\* What was right to report still is, while the same cells have been compared.
LEMMA ChangesStay ==
    ASSUME NEW s, NEW t, ToolInv(s, t), Comparing, UNCHANGED <<todo, changes>>,
           scenario.unsupported \subseteq scenario'.unsupported,
           base.unsupported \subseteq base'.unsupported
    PROVE  /\ Fine(s, t)' => changes' = ChangesOf(s, t, All \ todo)'
           /\ RightChanges(s, t)'
<1>1. UNCHANGED <<workbook, overrides, targets, search>> /\ phase = "compare"
  BY DEF Comparing, inputs
<1>2. Fine(s, t)' => Fine(s, t)
  BY <1>1 DEF Fine
<1>3. Fine(s, t) => changes = ChangesOf(s, t, All \ todo)
  BY <1>1 DEF ToolInv, CompareInv
<1>4. ChangesOf(s, t, All \ todo)' = ChangesOf(s, t, All \ todo)
  BY <1>1 DEF ChangesOf, All
<1>5. ASSUME NEW change \in changes PROVE RightChange(s, t, change)'
  <2>1. RightChange(s, t, change)
    BY DEF ToolInv, CompareInv, RightChanges
  <2>2. Resolvable(change.ref)' <=> Resolvable(change.ref)
    BY <1>1 DEF Resolvable
  <2>3. QED
    BY <2>1, <2>2 DEF RightChange
<1>6. RightChanges(s, t)'
  BY <1>5 DEF RightChanges
<1>7. QED
  BY <1>2, <1>3, <1>4, <1>6

LEMMA CompareKeeps ==
    ASSUME NEW s, NEW t, ToolInv(s, t), Compare
    PROVE  ToolInv(s, t)'
<1>1. PICK c \in todo \cap DOMAIN workbook : current' = <<c>> /\ S!Ask(c)
  BY ScenarioIs DEF Compare
<1>2. /\ Comparing /\ current = <<>> /\ UNCHANGED <<base, todo, changes, phase>>
      /\ UNCHANGED <<workbook, overrides, targets, search>> /\ phase = "compare"
  BY DEF Compare, Comparing, inputs
<1>3. c \in Cells
  BY InputAssumption DEF ToolInv, Known
<1>4. S!IInv(s)' /\ B!IInv(t)'
  BY <1>1, <1>2, <1>3, S!StepKeeps, B!RestKeeps DEF ToolInv, B!vars
<1>5. S!AskedFor(s, scenario', c) /\ scenario'.unsupported = scenario.unsupported
  BY <1>1, <1>3, S!AskIsExact DEF ToolInv
<1>6. S!AskedFor(s, scenario, current[1])'
  BY <1>1, <1>5 DEF S!AskedFor
<1>7. (B!Idle /\ base.answer = <<>>)'
  BY <1>2 DEF ToolInv, CompareInv, B!Idle
<1>8. (Fine(s, t)' => changes' = ChangesOf(s, t, All \ todo)') /\ RightChanges(s, t)'
  BY <1>2, <1>5, ChangesStay
<1>9. todo' \subseteq All'
  BY <1>2 DEF ToolInv, CompareInv, All
<1>10. CompareInv(s, t)'
  BY <1>1, <1>2, <1>6, <1>7, <1>8, <1>9 DEF CompareInv
<1>11. QED
  BY <1>2, <1>4, <1>10, Compares

LEMMA ScenarioStepKeeps ==
    ASSUME NEW s, NEW t, ToolInv(s, t), ScenarioStep
    PROVE  ToolInv(s, t)'
<1>1. /\ Comparing /\ S!Step /\ UNCHANGED <<base, todo, current, changes, phase>>
      /\ UNCHANGED <<workbook, overrides, targets, search>> /\ phase = "compare"
  BY ScenarioIs DEF ScenarioStep, Comparing, inputs
<1>2. S!IInv(s)' /\ B!IInv(t)'
  BY <1>1, S!StepKeeps, B!RestKeeps DEF ToolInv, B!vars
<1>3. ~S!Idle /\ current # <<>>
  BY <1>1, S!InvariantSays DEF ToolInv, CompareInv
<1>4. scenario.unsupported \subseteq scenario'.unsupported
  BY <1>1, S!StepReports DEF ToolInv, S!IInv
<1>5. scenario'.unsupported \cap s.part = {} => S!AskedFor(s, scenario', current[1])
  BY <1>1, <1>3, S!StepIsExact DEF ToolInv, CompareInv
<1>6. (scenario.unsupported \cap s.part = {} => S!AskedFor(s, scenario, current[1]))'
  BY <1>1, <1>5 DEF S!AskedFor
<1>7. (base.unsupported \cap t.part = {} =>
        (B!Idle /\ base.answer = <<>>) \/ B!AskedFor(t, base, current[1]))'
  BY <1>1, <1>3 DEF ToolInv, CompareInv, B!AskedFor, B!Idle
<1>8. (Fine(s, t)' => changes' = ChangesOf(s, t, All \ todo)') /\ RightChanges(s, t)'
  BY <1>1, <1>4, ChangesStay
<1>9. todo' \subseteq All' /\ current' \in {<<>>} \cup {<<c>> : c \in todo' \cap DOMAIN workbook'}
  BY <1>1 DEF ToolInv, CompareInv, All
<1>10. CompareInv(s, t)'
  BY <1>1, <1>3, <1>6, <1>7, <1>8, <1>9 DEF CompareInv
<1>11. QED
  BY <1>1, <1>2, <1>10, Compares

LEMMA AskBaseKeeps ==
    ASSUME NEW s, NEW t, ToolInv(s, t), AskBase
    PROVE  ToolInv(s, t)'
<1>1. /\ Comparing /\ current # <<>> /\ B!Ask(current[1])
      /\ UNCHANGED <<scenario, todo, current, changes, phase>>
      /\ UNCHANGED <<workbook, overrides, targets, search>> /\ phase = "compare"
  BY BaseIs DEF AskBase, Comparing, inputs
<1>2. current[1] \in Cells
  BY <1>1, InputAssumption DEF ToolInv, Known, CompareInv
<1>3. S!IInv(s)' /\ B!IInv(t)'
  BY <1>1, <1>2, B!StepKeeps, S!RestKeeps DEF ToolInv, S!vars
<1>4. B!AskedFor(t, base', current[1]) /\ base'.unsupported = base.unsupported
  BY <1>1, <1>2, B!AskIsExact DEF ToolInv
<1>5. B!AskedFor(t, base, current[1])'
  BY <1>1, <1>4 DEF B!AskedFor
<1>6. (scenario.unsupported \cap s.part = {} => S!AskedFor(s, scenario, current[1]))'
  BY <1>1 DEF ToolInv, CompareInv, S!AskedFor
<1>7. (Fine(s, t)' => changes' = ChangesOf(s, t, All \ todo)') /\ RightChanges(s, t)'
  BY <1>1, <1>4, ChangesStay
<1>8. todo' \subseteq All' /\ current' \in {<<>>} \cup {<<c>> : c \in todo' \cap DOMAIN workbook'}
  BY <1>1 DEF ToolInv, CompareInv, All
<1>9. CompareInv(s, t)'
  BY <1>1, <1>5, <1>6, <1>7, <1>8 DEF CompareInv
<1>10. QED
  BY <1>1, <1>3, <1>9, Compares

LEMMA BaseStepKeeps ==
    ASSUME NEW s, NEW t, ToolInv(s, t), BaseStep
    PROVE  ToolInv(s, t)'
<1>1. /\ Comparing /\ B!Step /\ UNCHANGED <<scenario, todo, current, changes, phase>>
      /\ UNCHANGED <<workbook, overrides, targets, search>> /\ phase = "compare"
  BY BaseIs DEF BaseStep, Comparing, inputs
<1>2. S!IInv(s)' /\ B!IInv(t)'
  BY <1>1, B!StepKeeps, S!RestKeeps DEF ToolInv, S!vars
<1>3. ~B!Idle /\ current # <<>>
  BY <1>1, B!InvariantSays DEF ToolInv, CompareInv
<1>4. base.unsupported \subseteq base'.unsupported
  BY <1>1, B!StepReports DEF ToolInv, B!IInv
<1>5. base'.unsupported \cap t.part = {} => B!AskedFor(t, base', current[1])
  BY <1>1, <1>3, B!StepIsExact DEF ToolInv, CompareInv
<1>6. (base.unsupported \cap t.part = {} => B!AskedFor(t, base, current[1]))'
  BY <1>1, <1>5 DEF B!AskedFor
<1>7. (scenario.unsupported \cap s.part = {} => S!AskedFor(s, scenario, current[1]))'
  BY <1>1, <1>3 DEF ToolInv, CompareInv, S!AskedFor
<1>8. (Fine(s, t)' => changes' = ChangesOf(s, t, All \ todo)') /\ RightChanges(s, t)'
  BY <1>1, <1>4, ChangesStay
<1>9. todo' \subseteq All' /\ current' \in {<<>>} \cup {<<c>> : c \in todo' \cap DOMAIN workbook'}
  BY <1>1 DEF ToolInv, CompareInv, All
<1>10. CompareInv(s, t)'
  BY <1>1, <1>3, <1>6, <1>7, <1>8, <1>9 DEF CompareInv
<1>11. QED
  BY <1>1, <1>2, <1>10, Compares

LEMMA ToolDoneKeeps ==
    ASSUME NEW s, NEW t, ToolInv(s, t), ToolDone
    PROVE  ToolInv(s, t)'
<1>1. /\ Comparing /\ current = <<>> /\ todo \cap DOMAIN workbook = {} /\ phase' = "done"
      /\ UNCHANGED <<scenario, base, todo, current, changes>>
      /\ UNCHANGED <<workbook, overrides, targets, search>> /\ phase = "compare"
  BY DEF ToolDone, Comparing, inputs
<1>2. S!IInv(s)' /\ B!IInv(t)'
  BY <1>1, S!RestKeeps, B!RestKeeps DEF ToolInv, S!vars, B!vars
<1>3. (Fine(s, t)' => changes' = ChangesOf(s, t, All \ todo)') /\ RightChanges(s, t)'
  BY <1>1, ChangesStay
<1>4. (S!Idle /\ B!Idle /\ base.answer = <<>>)'
  BY <1>1 DEF ToolInv, CompareInv, S!Idle, B!Idle
<1>5. todo' \subseteq All'
  BY <1>1 DEF ToolInv, CompareInv, All
<1>6. CompareInv(s, t)'
  BY <1>1, <1>3, <1>4, <1>5 DEF CompareInv
<1>7. QED
  BY <1>1, <1>2, <1>6, Compares

\* What the cell compared was worth and is worth, if all is supported.
LEMMA ComparedIsExact ==
    ASSUME NEW s, NEW t, ToolInv(s, t), Compared, Fine(s, t)
    PROVE  scenario.answer[1] = s.exact[current[1]] /\ Old(current[1]) = t.exact[current[1]]
<1> DEFINE c == current[1]
<1>1. /\ current # <<>> /\ S!Idle /\ B!Idle /\ (Resolvable(c) => base.answer # <<>>)
  BY ScenarioIs, BaseIs DEF Compared
<1>2. c \in DOMAIN workbook /\ c \in Cells
  BY <1>1, InputAssumption DEF ToolInv, Known, CompareInv
<1>3. scenario.answer[1] = s.exact[c]
  BY <1>1, <1>2 DEF ToolInv, CompareInv, Fine, S!AskedFor, S!Idle
<1>4. CASE Resolvable(c)
  <2>1. B!AskedFor(t, base, c)
    BY <1>1, <1>4 DEF ToolInv, CompareInv, Fine
  <2>2. base.answer[1] = t.exact[c]
    BY <1>1, <1>2, <2>1 DEF Fine, B!AskedFor, B!Idle
  <2>3. QED
    BY <1>3, <1>4, <2>2 DEF Old
<1>5. CASE ~Resolvable(c)
  <2>1. Old(c) = workbook[c].value
    BY <1>5 DEF Old
  <2>2. CASE workbook[c].value = None
    <3>1. ~workbook[c].computed
      BY <1>5, <2>2 DEF Resolvable
    <3>2. B!Solves(workbook, <<>>, t) /\ c \in t.part \ DOMAIN <<>>
      BY <1>2 DEF ToolInv, B!IInv, B!Given, Fine
    <3>3. t.exact[c] = workbook[c].value
      BY <1>2, <3>1, <3>2 DEF B!Solves
    <3>4. QED
      BY <1>3, <2>1, <3>3
  <2>3. CASE workbook[c].value # None
    BY <1>2, <1>3, <2>1, <2>3 DEF Fine
  <2>4. QED
    BY <2>2, <2>3
<1>6. QED
  BY <1>4, <1>5

\* What of it is right, as far as no formula failed.
LEMMA ComparedIsRight ==
    ASSUME NEW s, NEW t, ToolInv(s, t), Compared, NEW change,
           change = [ref |-> current[1], old |-> Old(current[1]), new |-> scenario.answer[1]]
    PROVE  RightChange(s, t, change)
<1> DEFINE c == current[1]
<1>1. /\ current # <<>> /\ S!Idle /\ B!Idle /\ (Resolvable(c) => base.answer # <<>>)
  BY ScenarioIs, BaseIs DEF Compared
<1>2. change.ref = c /\ change.old = Old(c) /\ change.new = scenario.answer[1]
  OBVIOUS
<1>3. ASSUME scenario.unsupported \cap s.part = {}, c \in s.part
      PROVE  scenario.answer[1] = s.exact[c]
  BY <1>1, <1>3 DEF ToolInv, CompareInv, S!AskedFor, S!Idle
<1>4. ASSUME Resolvable(c), c \in t.part, base.unsupported \cap t.part = {}
      PROVE  Old(c) = t.exact[c]
  <2>1. B!AskedFor(t, base, c)
    BY <1>1, <1>4 DEF ToolInv, CompareInv
  <2>2. base.answer[1] = t.exact[c]
    BY <1>1, <1>4, <2>1 DEF B!AskedFor, B!Idle
  <2>3. QED
    BY <1>4, <2>2 DEF Old
<1>5. QED
  BY <1>2, <1>3, <1>4 DEF RightChange

LEMMA ComparedKeeps ==
    ASSUME NEW s, NEW t, ToolInv(s, t), Compared
    PROVE  ToolInv(s, t)'
<1> DEFINE c == current[1]
           new == scenario.answer[1]
<1>1. /\ Comparing /\ current # <<>> /\ S!Idle /\ B!Idle
      /\ changes' = IF new = Old(c) THEN changes
                    ELSE changes \cup {[ref |-> c, old |-> Old(c), new |-> new]}
      /\ todo' = todo \ {c} /\ current' = <<>> /\ base' = [base EXCEPT !.answer = <<>>]
      /\ UNCHANGED <<scenario, phase>>
      /\ UNCHANGED <<workbook, overrides, targets, search>> /\ phase = "compare"
  BY ScenarioIs, BaseIs DEF Compared, Comparing, inputs
<1>2. B!IInv(t)' /\ base'.unsupported = base.unsupported /\ base'.answer = <<>> /\ B!Idle'
  BY <1>1, B!AnswersAreFree DEF ToolInv
<1>3. S!IInv(s)' /\ S!Idle'
  BY <1>1, S!RestKeeps DEF ToolInv, S!vars, S!Idle
<1>4. c \in todo \cap DOMAIN workbook /\ todo \subseteq All
  BY <1>1 DEF ToolInv, CompareInv
<1>5. Fine(s, t)' => Fine(s, t)
  BY <1>1, <1>2 DEF Fine
<1>6. ASSUME Fine(s, t) PROVE changes' = ChangesOf(s, t, All \ (todo \ {c}))
  <2>1. new = s.exact[c] /\ Old(c) = t.exact[c]
    BY <1>6, ComparedIsExact
  <2>2. changes = ChangesOf(s, t, All \ todo)
    BY <1>1, <1>6 DEF ToolInv, CompareInv
  <2>3. All \ (todo \ {c}) = (All \ todo) \cup {c}
    BY <1>4
  <2>4. CASE new = Old(c)
    BY <1>1, <1>4, <2>1, <2>2, <2>3, <2>4 DEF ChangesOf
  <2>5. CASE new # Old(c)
    <3>1. changes' = ChangesOf(s, t, All \ todo)
                      \cup {[ref |-> c, old |-> t.exact[c], new |-> s.exact[c]]}
      BY <1>1, <2>1, <2>2, <2>5
    <3>2. QED
      BY <1>4, <2>1, <2>3, <2>5, <3>1 DEF ChangesOf
  <2>6. QED
    BY <2>4, <2>5
<1>7. ChangesOf(s, t, All \ todo)' = ChangesOf(s, t, All \ (todo \ {c}))
  BY <1>1 DEF ChangesOf, All
<1>8. todo' \subseteq All'
  BY <1>1, <1>4 DEF All
<1>9. RightChanges(s, t)'
  <2>1. SUFFICES ASSUME NEW change \in changes' PROVE RightChange(s, t, change)'
    BY DEF RightChanges
  <2>2. RightChange(s, t, change)
    <3>1. CASE change \in changes
      BY <3>1 DEF ToolInv, CompareInv, RightChanges
    <3>2. CASE change = [ref |-> c, old |-> Old(c), new |-> new]
      BY <3>2, ComparedIsRight
    <3>3. QED
      BY <1>1, <3>1, <3>2
  <2>3. Resolvable(change.ref)' <=> Resolvable(change.ref)
    BY <1>1 DEF Resolvable
  <2>4. QED
    BY <1>1, <1>2, <2>2, <2>3 DEF RightChange
<1>10. CompareInv(s, t)'
  BY <1>1, <1>2, <1>3, <1>5, <1>6, <1>7, <1>8, <1>9 DEF CompareInv
<1>11. QED
  BY <1>1, <1>2, <1>3, <1>10, Compares

LEMMA ToolBegins ==
    ASSUME NEW s, NEW t, ToolInit, WellTypedInputs,
           s = Solution(workbook, overrides), t = Solution(workbook, <<>>)
    PROVE  ToolInv(s, t)
<1>1. /\ Known /\ scenario = S!NewEvaluator /\ base = B!NewEvaluator
      /\ search = [origins |-> DOMAIN overrides, queue |-> <<>>, seen |-> {}, found |-> {}]
      /\ todo = targets /\ current = <<>> /\ changes = {}
      /\ phase = IF targets = {} THEN "search" ELSE "compare"
  BY ScenarioIs, BaseIs DEF ToolInit, Known
<1>2. SearchInv
  BY <1>1 DEF SearchInv
<1>3. S!IInv(s) /\ S!Idle
  <2>1. S!Given(s)
    <3>1. S!Typed
      BY <1>1 DEF WellTypedInputs, Known, S!Typed
    <3>2. S!Solves(workbook, overrides, s)
      BY <1>1, SolutionAssumption, ScenarioIs DEF Known
    <3>3. QED
      BY <3>1, <3>2 DEF S!Given
  <2>2. QED
    BY <1>1, <2>1, S!NewIsExact
<1>4. B!IInv(t) /\ B!Idle /\ base.answer = <<>>
  <2>1. B!Given(t)
    <3>1. S!WellTyped(workbook, <<>>) /\ Scenario!Solves(workbook, <<>>, t)
      BY <1>1, SolutionAssumption DEF WellTypedInputs, Known
    <3>2. B!WellTyped(workbook, <<>>) /\ B!Solves(workbook, <<>>, t)
      BY <3>1 DEF S!WellTyped, B!WellTyped, S!Frame, B!Frame, Scenario!Solves, B!Solves
    <3>3. QED
      BY <3>2 DEF B!Given, B!Typed
  <2>2. QED
    BY <1>1, <2>1, B!NewIsExact
<1>5. CompareInv(s, t)
  BY <1>1, <1>3, <1>4 DEF CompareInv, All, ChangesOf, RightChanges
<1>6. QED
  BY <1>1, <1>2, <1>3, <1>4, <1>5 DEF ToolInv

LEMMA ToolRests ==
    ASSUME NEW s, NEW t, ToolInv(s, t), UNCHANGED toolVars
    PROVE  ToolInv(s, t)'
<1>1. /\ UNCHANGED <<workbook, overrides, targets, search, scenario, base>>
      /\ UNCHANGED <<todo, current, changes, phase>>
  BY DEF toolVars, inputs
<1>2. S!IInv(s)' /\ B!IInv(t)'
  BY <1>1, S!RestKeeps, B!RestKeeps DEF ToolInv, S!vars, B!vars
<1>3. CompareInv(s, t)'
  <2>1. RightChanges(s, t)'
    BY <1>1 DEF ToolInv, CompareInv, RightChanges, RightChange, Resolvable
  <2>2. QED
    BY <1>1, <2>1 DEF ToolInv, CompareInv, S!Idle, B!Idle, S!AskedFor, B!AskedFor, All, Fine,
       ChangesOf
<1>4. SearchInv'
  <2>1. \A c : Frontier(c, search.queue, search.seen)' <=> Frontier(c, search.queue, search.seen)
    BY <1>1, SameReach
  <2>2. \A c : FoundFrom(DOMAIN overrides \ (search.origins \cup {c}))'
                = FoundFrom(DOMAIN overrides \ (search.origins \cup {c}))
    BY <1>1, SameReach
  <2>3. FoundFrom(DOMAIN overrides)' = FoundFrom(DOMAIN overrides)
    BY <1>1, SameReach
  <2>4. QED
    BY <1>1, <2>1, <2>2, <2>3 DEF ToolInv, SearchInv
<1>5. QED
  BY <1>1, <1>2, <1>3, <1>4 DEF ToolInv, Known, WellTypedInputs

\* The invariant, of the solutions of the inputs.
SolvedInv ==
    \A s, t : s = Solution(workbook, overrides) /\ t = Solution(workbook, <<>>) => ToolInv(s, t)

LEMMA ToolInvariance == ToolSpec /\ WellTypedInputs => []SolvedInv
<1>1. ToolInit /\ WellTypedInputs => SolvedInv
  BY ToolBegins DEF SolvedInv
<1>2. SolvedInv /\ [ToolNext]_toolVars => SolvedInv'
  <2>1. SUFFICES ASSUME SolvedInv, [ToolNext]_toolVars, NEW s, NEW t,
                        s = Solution(workbook, overrides)', t = Solution(workbook, <<>>)'
                 PROVE  ToolInv(s, t)'
    BY DEF SolvedInv
  <2>2. UNCHANGED <<workbook, overrides>>
    BY <2>1 DEF ToolNext, toolVars, inputs, NextOrigin, Expand, Searched, Searching, Compare,
       ScenarioStep, AskBase, BaseStep, Compared, ToolDone, Comparing
  <2>3. ToolInv(s, t)
    BY <2>1, <2>2 DEF SolvedInv
  <2>4. QED
    BY <2>1, <2>3, SearchKeeps, CompareKeeps, ScenarioStepKeeps, AskBaseKeeps, BaseStepKeeps,
       ComparedKeeps, ToolDoneKeeps, ToolRests DEF ToolNext
<1>3. QED
  BY <1>1, <1>2, PTL DEF ToolSpec

LEMMA AllAreCells ==
    ASSUME NEW s, NEW t, ToolInv(s, t)
    PROVE  targets \subseteq Cells /\ (targets = {} => search.found \subseteq Cells)
<1>1. \A c : ImpactedBy(c) \subseteq Cells
  BY DEF ImpactedBy
<1>2. CASE phase # "search" /\ targets = {}
  BY <1>1, <1>2, InputAssumption DEF ToolInv, SearchInv, FoundFrom, Known
<1>3. CASE phase = "search"
  <2>1. \A c, queue, seen : Frontier(c, queue, seen) => seen \subseteq Cells
    BY DEF Frontier, Near
  <2>2. QED
    BY <1>1, <1>3, <2>1, InputAssumption DEF ToolInv, SearchInv, FoundFrom, Known
<1>4. QED
  BY <1>2, <1>3, InputAssumption DEF ToolInv, Known

\* All that is remembered of a scenario, and every new value in the output, is what the
\* formulas define, or the output tells of one that failed with the overrides
\* (evaluator.py:18, tools.py:856); every old value that had to be computed is what they
\* define without, or one failed there.  Cells that depend on a cycle are left out; other
\* than that, for every workbook and every scenario.
THEOREM NothingStaleUnreported ==
    ToolSpec /\ WellTypedInputs => []StaleIsReported
<1>1. SolvedInv => StaleIsReported
  <2>1. SUFFICES ASSUME SolvedInv PROVE StaleIsReported
    OBVIOUS
  <2>2. PICK s, t : s = Solution(workbook, overrides) /\ t = Solution(workbook, <<>>)
    OBVIOUS
  <2>3. S!IInv(s) /\ RightChanges(s, t)
    BY <2>1, <2>2 DEF SolvedInv, ToolInv, CompareInv
  <2>4. Scenario!RightUnlessReported(s)
    BY <2>3, S!InvariantSays, ScenarioIs
  <2>5. QED
    BY <2>2, <2>3, <2>4 DEF StaleIsReported, RightChanges, RightChange, Reported
<1>2. QED
  BY <1>1, ToolInvariance, PTL

\* The changes that a scenario reports are those that the formulas define, of the cells
\* within reach of an override or asked for (tools.py:1435-1448): the search in breadth
\* misses none, and the comparison mixes up no answers.
THEOREM ReportedChangesAreExact ==
    ToolSpec /\ WellTypedInputs => []ChangesAreExact
<1>1. SolvedInv => ChangesAreExact
  <2>1. SUFFICES ASSUME SolvedInv, phase = "done", Supported
                 PROVE  changes = {ChangeOf(c) : c \in ComparedCells \cap Changed}
    BY DEF ChangesAreExact
  <2>2. PICK s, t : s = Solution(workbook, overrides) /\ t = Solution(workbook, <<>>)
    OBVIOUS
  <2>3. ToolInv(s, t)
    BY <2>1, <2>2 DEF SolvedInv
  <2>4. Fine(s, t)
    BY <2>1, <2>2 DEF Supported, Fine, OldValue
  <2>5. changes = ChangesOf(s, t, All \ todo) /\ todo \cap DOMAIN workbook = {}
    BY <2>1, <2>3, <2>4 DEF ToolInv, CompareInv
  <2>6. All = ComparedCells
    BY <2>1, <2>3 DEF ToolInv, SearchInv, All, ComparedCells, FoundFrom
  <2>7. /\ \A c : ChangeOf(c) = [ref |-> c, old |-> t.exact[c], new |-> s.exact[c]]
        /\ Changed = {c \in DOMAIN workbook : t.exact[c] # s.exact[c]}
    BY <2>2 DEF ChangeOf, Changed, OldValue, NewValue
  <2>8. {d \in (All \ todo) \cap DOMAIN workbook : t.exact[d] # s.exact[d]}
          = ComparedCells \cap Changed
    BY <2>5, <2>6, <2>7
  <2>9. QED
    BY <2>5, <2>7, <2>8 DEF ChangesOf
<1>2. QED
  BY <1>1, ToolInvariance, PTL

\* The tool searches, then compares cells, and neither evaluator evaluates a cell within
\* itself.
THEOREM ToolTypeCorrect ==
    ToolSpec /\ WellTypedInputs => []ToolTypeOK
<1>1. SolvedInv => ToolTypeOK
  <2>1. SUFFICES ASSUME SolvedInv PROVE ToolTypeOK
    OBVIOUS
  <2>2. PICK s, t : s = Solution(workbook, overrides) /\ t = Solution(workbook, <<>>)
    OBVIOUS
  <2>3. ToolInv(s, t)
    BY <2>1, <2>2 DEF SolvedInv
  <2>4. Scenario!NoRepeats /\ Base!NoRepeats
    BY <2>3, S!InvariantSays, B!InvariantSays, ScenarioIs, BaseIs DEF ToolInv
  <2>5. todo \subseteq Cells /\ search.found \subseteq Cells
    BY <2>3, AllAreCells DEF ToolInv, SearchInv, CompareInv, All
  <2>6. QED
    BY <2>3, <2>4, <2>5 DEF ToolTypeOK, ToolInv, SearchInv
<1>2. QED
  BY <1>1, ToolInvariance, PTL

----------------------------------------------------------------------------
(* The search for a goal.                                                  *)

\* What the search has learnt about the points it holds.
Learnt ==
  /\ stage \in {"grow", "verify", "bisect"} => {lo, hi} \subseteq DOMAIN asked
  /\ stage \in {"verify", "bisect"} => {asked[lo], asked[hi]} \subseteq Outputs
  /\ stage = "bisect" => {ends[1], ends[2]} \subseteq DOMAIN asked

\* A bracket with an end on the goal, that end being the low one only where
\* the bisection has not begun to move.
SeekInv == SeekTypeOK /\ Learnt /\ GoalStaysInside

-----------------------------------------------------------------------------
\* What f has answered stays answered, and every answer is an output of the
\* target or not a number.
LEMMA AnswersStay ==
  ASSUME NEW points, NEW known \in Extensions(points),
         \A x \in DOMAIN asked : asked[x] \in Outcomes
  PROVE  /\ DOMAIN known = DOMAIN asked \cup points
         /\ \A x \in DOMAIN known : known[x] \in Outcomes
         /\ \A x \in DOMAIN asked : known[x] = asked[x]
<1>1. PICK new \in [points \ DOMAIN asked -> Outcomes] :
        known = [x \in DOMAIN asked \cup points |->
                   IF x \in DOMAIN asked THEN asked[x] ELSE new[x]]
  BY DEF Extensions
<1>. QED  BY <1>1

LEMMA IntegerArithmetic ==
  ASSUME NEW a \in Int
  PROVE  /\ Abs(a) \in Int
         /\ Abs(a) \div 4 \in Int
         /\ a \div 2 \in Int
         /\ Abs(0) = 0
BY DEF Abs

\* The search begins with nothing learnt.
LEMMA SeekInitInv == SeekInit => SeekInv
BY SeekAssumption DEF SeekInit, SeekInv, SeekTypeOK, Learnt, GoalStaysInside, NoReply

\* An answer ends the search, and leaves the rest as it was.
LEMMA ReturnKeeps ==
  ASSUME SeekInv, NEW kind \in {"error", "unsolved", "solved", "estimate"},
         NEW x \in Int, ReplyWith(kind, x),
         UNCHANGED <<x0, asked, tried, lo, hi, step, rounds, ends>>
  PROVE  SeekInv'
BY DEF SeekInv, SeekTypeOK, Learnt, GoalStaysInside, ReplyWith, Outcomes

LEMMA BaselineKeeps == ASSUME SeekInv, Baseline PROVE SeekInv'
<1>. USE DEF SeekInv, SeekTypeOK
<1>1. /\ DOMAIN asked' = DOMAIN asked \cup {x0}
      /\ \A x \in DOMAIN asked' : asked'[x] \in Outcomes
  BY AnswersStay DEF Baseline
<1>. QED  BY <1>1 DEF Baseline, ReplyWith, Learnt, GoalStaysInside

LEMMA GivenBoundsKeeps == ASSUME SeekInv, GivenBounds PROVE SeekInv'
<1>. USE DEF SeekInv, SeekTypeOK
<1>1. PICK a \in Inputs, b \in Inputs :
        lo' = a /\ hi' = b /\ asked' \in Extensions({a, b})
  BY DEF GivenBounds
<1>2. /\ DOMAIN asked' = DOMAIN asked \cup {a, b}
      /\ \A x \in DOMAIN asked' : asked'[x] \in Outcomes
  BY <1>1, AnswersStay
<1>3. a \in Int /\ b \in Int
  BY SeekAssumption
<1>. QED
  BY <1>1, <1>2, <1>3 DEF GivenBounds, ReplyWith, Learnt, GoalStaysInside, Outcomes

\* Asking around the input: only the bracket and what is known change.
LEMMA AroundKeeps ==
  ASSUME SeekInv, NEW s \in Int, Around(s), stage' = "grow", rounds' \in Nat,
         UNCHANGED <<x0, tried, ends, reply>>
  PROVE  SeekInv'
<1>. USE DEF SeekInv, SeekTypeOK
<1>1. /\ DOMAIN asked' = DOMAIN asked \cup {x0 - s, x0 + s}
      /\ \A x \in DOMAIN asked' : asked'[x] \in Outcomes
  BY AnswersStay DEF Around
<1>2. lo' = x0 - s /\ hi' = x0 + s /\ step' = s
  BY DEF Around
<1>. QED  BY <1>1, <1>2 DEF Learnt, GoalStaysInside

LEMMA AutoBracketKeeps == ASSUME SeekInv, AutoBracket PROVE SeekInv'
<1>1. x0 \in Int /\ rounds \in Nat
  BY DEF SeekInv, SeekTypeOK
<1>2. (IF Abs(x0) \div 4 > 1 THEN Abs(x0) \div 4 ELSE 1) \in Int
  BY <1>1, IntegerArithmetic
<1>. QED  BY <1>1, <1>2, AroundKeeps DEF AutoBracket

LEMMA GrowKeeps == ASSUME SeekInv, Grow PROVE SeekInv'
<1>1. step \in Int /\ rounds \in Nat
  BY DEF SeekInv, SeekTypeOK
<1>2. 2 * step \in Int /\ rounds + 1 \in Nat
  BY <1>1
<1>. QED  BY <1>2, AroundKeeps DEF Grow

LEMMA GrownKeeps == ASSUME SeekInv, Grown PROVE SeekInv'
<1>. USE DEF SeekInv, SeekTypeOK
<1>1. CASE NonNumeric \in {asked[lo], asked[hi]}
  BY <1>1, ReturnKeeps DEF Grown
<1>2. CASE NonNumeric \notin {asked[lo], asked[hi]}
  BY <1>2 DEF Grown, Learnt, GoalStaysInside, Outcomes
<1>. QED  BY <1>1, <1>2

\* The bisection begins with ends that do not lie on one side.
LEMMA VerifyKeeps == ASSUME SeekInv, Verify PROVE SeekInv'
<1>. USE DEF SeekInv, SeekTypeOK
<1>1. CASE SameSide(asked[lo], asked[hi])
  BY <1>1, ReturnKeeps DEF Verify
<1>2. CASE ~SameSide(asked[lo], asked[hi])
  <2>1. /\ ends' = <<lo, hi>> /\ rounds' = 0 /\ stage' = "bisect"
        /\ UNCHANGED <<x0, asked, tried, lo, hi, step, reply>>
    BY <1>2 DEF Verify
  <2>2. SeekTypeOK' /\ Learnt'
    BY <2>1 DEF Verify, Learnt
  <2>3. asked[lo] \in Int /\ asked[hi] \in Int /\ lo \in DOMAIN asked
    BY SeekAssumption DEF Verify, Learnt
  <2>4. GoalStaysInside'
    BY <1>2, <2>1, <2>3
      DEF GoalStaysInside, LowEndHits, SameSide, Opposite
  <2>. QED  BY <2>2, <2>4
<1>. QED  BY <1>1, <1>2

LEMMA BisectKeeps == ASSUME SeekInv, Bisect PROVE SeekInv'
<1>. USE DEF SeekInv, SeekTypeOK
<1>. DEFINE mid == (lo + hi) \div 2
<1>1. mid \in Int
  BY IntegerArithmetic
<1>2. /\ stage = "bisect" /\ rounds < MaxIter
      /\ asked' \in Extensions({mid})
      /\ UNCHANGED <<x0, step, ends>>
      /\ IF asked'[mid] = NonNumeric
           THEN ReplyWith("error", mid) /\ UNCHANGED <<tried, lo, hi, rounds>>
           ELSE /\ tried' = tried \cup {mid}
                /\ rounds' = rounds + 1
                /\ IF Abs(asked'[mid]) <= Tolerance
                     THEN ReplyWith("solved", mid) /\ UNCHANGED <<lo, hi>>
                     ELSE Halve(mid, asked'[mid]) /\ UNCHANGED <<stage, reply>>
  BY DEF Bisect
<1>. HIDE DEF mid
<1>3. /\ DOMAIN asked' = DOMAIN asked \cup {mid}
      /\ \A x \in DOMAIN asked' : asked'[x] \in Outcomes
      /\ \A x \in DOMAIN asked : asked'[x] = asked[x]
  BY <1>2, AnswersStay
<1>4. CASE asked'[mid] = NonNumeric
  BY <1>1, <1>2, <1>3, <1>4 DEF ReplyWith, Learnt, GoalStaysInside
<1>5. CASE asked'[mid] # NonNumeric /\ Abs(asked'[mid]) <= Tolerance
  BY <1>1, <1>2, <1>3, <1>5 DEF ReplyWith, Learnt, GoalStaysInside
<1>6. CASE asked'[mid] # NonNumeric /\ ~(Abs(asked'[mid]) <= Tolerance)
  <2>1. /\ Halve(mid, asked'[mid]) /\ UNCHANGED <<stage, reply>>
        /\ tried' = tried \cup {mid} /\ rounds' = rounds + 1
    BY <1>2, <1>6
  <2>2. \/ Opposite(asked[lo], asked'[mid]) /\ hi' = mid /\ lo' = lo
        \/ ~Opposite(asked[lo], asked'[mid]) /\ lo' = mid /\ hi' = hi
    BY <2>1 DEF Halve
  <2>3. asked'[mid] \in Outputs /\ {asked[lo], asked[hi]} \subseteq Outputs
    BY <1>2, <1>3, <1>6 DEF Learnt, Outcomes
  <2>4. SeekTypeOK'
    BY <1>1, <1>2, <1>3, <2>1, <2>2
  <2>5. Learnt'
    BY <1>2, <1>3, <2>1, <2>2, <2>3 DEF Learnt
  <2>6. /\ asked'[mid] \in Int /\ asked[lo] \in Int /\ asked[hi] \in Int
        /\ asked'[mid] # 0
    <3>1. Abs(0) <= Tolerance
      BY IntegerArithmetic, SeekAssumption
    <3>2. asked'[mid] # 0
      BY <1>6, <3>1
    <3>. QED  BY <2>3, <3>2, SeekAssumption
  <2>7. asked'[lo] = asked[lo] /\ asked'[hi] = asked[hi]
    BY <1>2, <1>3 DEF Learnt
  <2>8. LowEndHits' <=> LowEndHits
    BY <1>2, <1>3 DEF Learnt, LowEndHits
  <2>9. ~LowEndHits => Opposite(asked[lo], asked[hi]) \/ asked[hi] = 0
    BY <1>2 DEF GoalStaysInside
  <2>10. GoalStaysInside'
    BY <2>2, <2>6, <2>7, <2>8, <2>9 DEF GoalStaysInside, Opposite
  <2>. QED  BY <2>4, <2>5, <2>10
<1>. QED  BY <1>4, <1>5, <1>6

LEMMA GiveUpKeeps == ASSUME SeekInv, GiveUp PROVE SeekInv'
<1>1. PICK x \in tried : ReplyWith("estimate", x)
  BY DEF GiveUp, BestOf
<1>2. x \in Int
  BY DEF SeekInv, SeekTypeOK
<1>. QED  BY <1>1, <1>2, ReturnKeeps DEF GiveUp

LEMMA SeekStepKeeps == SeekInv /\ [SeekNext]_seekVars => SeekInv'
<1>. SUFFICES ASSUME SeekInv, [SeekNext]_seekVars PROVE SeekInv'
  OBVIOUS
<1>1. CASE UnknownName
  BY <1>1, ReturnKeeps DEF UnknownName, SeekInv, SeekTypeOK
<1>2. CASE UNCHANGED seekVars
  BY <1>2 DEF seekVars, SeekInv, SeekTypeOK, Learnt, GoalStaysInside, LowEndHits, Outcomes
<1>3. CASE Done
  BY <1>2, <1>3 DEF Done
<1>. QED
  BY <1>1, <1>2, <1>3, BaselineKeeps, GivenBoundsKeeps, AutoBracketKeeps,
     GrowKeeps, GrownKeeps, VerifyKeeps, BisectKeeps, GiveUpKeeps DEF SeekNext

-----------------------------------------------------------------------------
\* The goal stays inside the bracket of the bisection (goal_seek.py:98-130),
\* for every function, bounds, tolerance and limit.
THEOREM BracketKeepsTheGoal == SeekSpec => []GoalStaysInside
<1>1. SeekInv => GoalStaysInside
  BY DEF SeekInv
<1>. QED  BY <1>1, SeekInitInv, SeekStepKeeps, PTL DEF SeekSpec

-----------------------------------------------------------------------------
\* The bracket halves with each iteration, and what a search that is over has
\* missed is a jump.
Narrows ==
  stage = "bisect" /\ ends[2] - ends[1] <= 2 ^ MaxIter =>
    hi - lo <= 2 ^ (MaxIter - rounds)
Pending == stage # "done" => reply.kind = "none"
JumpInv ==
  /\ Narrows /\ Pending /\ OnlyJumpsAreMissed
  /\ stage = "bisect" => rounds <= MaxIter

\* A power of two counts the subsets of an interval, of which one more element
\* makes two of each.
LEMMA PowerDoubles ==
  ASSUME NEW n \in Nat
  PROVE  2 ^ n \in Nat /\ 2 ^ (n + 1) = 2 ^ n + 2 ^ n
<1>. DEFINE few == 1 .. n
            with == {U \cup {n + 1} : U \in SUBSET few}
            f == [U \in SUBSET few |-> U \cup {n + 1}]
<1>1. /\ IsFiniteSet(few) /\ Cardinality(few) = n
      /\ IsFiniteSet(1 .. n + 1) /\ Cardinality(1 .. n + 1) = n + 1
  BY FS_Interval
<1>2. /\ IsFiniteSet(SUBSET few) /\ Cardinality(SUBSET few) = 2 ^ n
      /\ Cardinality(SUBSET (1 .. n + 1)) = 2 ^ (n + 1)
  <2>. HIDE DEF few
  <2>. QED  BY <1>1, FS_SUBSET
<1>3. n + 1 \notin few
  OBVIOUS
<1>4. f \in Bijection(SUBSET few, with)
  <2>. HIDE DEF few
  <2>1. f \in [SUBSET few -> with] /\ \A V \in with : \E U \in SUBSET few : f[U] = V
    OBVIOUS
  <2>2. \A U, V \in SUBSET few : f[U] = f[V] => U = V
    BY <1>3
  <2>. HIDE DEF f, with
  <2>. QED  BY <2>1, <2>2, Fun_IsBij
<1>5. IsFiniteSet(with) /\ Cardinality(with) = 2 ^ n
  BY <1>2, <1>4, FS_Bijection DEF ExistsBijection
<1>6. SUBSET (1 .. n + 1) = (SUBSET few) \cup with
  <2>1. ASSUME NEW U \in SUBSET (1 .. n + 1), n + 1 \notin U
        PROVE  U \in SUBSET few
    BY <2>1
  <2>2. ASSUME NEW U \in SUBSET (1 .. n + 1), n + 1 \in U
        PROVE  U \in with
    <3>1. U \ {n + 1} \in SUBSET few
      OBVIOUS
    <3>2. U = (U \ {n + 1}) \cup {n + 1}
      BY <2>2
    <3>. QED  BY <3>1, <3>2
  <2>3. few \cup {n + 1} \subseteq 1 .. n + 1
    OBVIOUS
  <2>. HIDE DEF few
  <2>. QED  BY <2>1, <2>2, <2>3
<1>7. (SUBSET few) \cap with = {}
  <2>. HIDE DEF few
  <2>. QED  BY <1>3
<1>8. 2 ^ n \in Nat
  <2>. HIDE DEF few
  <2>. QED  BY <1>2, FS_CardinalityType
<1>9. 2 ^ (n + 1) = 2 ^ n + 2 ^ n - Cardinality({})
  <2>. HIDE DEF few, with
  <2>. QED  BY <1>2, <1>5, <1>6, <1>7, FS_Union
<1>. QED  BY <1>8, <1>9, FS_EmptySet

\* Both halves of a bracket are at most half as wide, rounded up.
LEMMA HalvesFit ==
  ASSUME NEW low \in Int, NEW high \in Int, NEW p \in Nat, high - low <= p + p
  PROVE  /\ high - ((low + high) \div 2) <= p
         /\ ((low + high) \div 2) - low <= p
OBVIOUS

LEMMA BisectNarrows ==
  ASSUME SeekInv, JumpInv, Bisect
  PROVE  Narrows' /\ (stage' = "bisect" => rounds' <= MaxIter)
<1>. SUFFICES ASSUME stage' = "bisect"
              PROVE  /\ rounds' <= MaxIter
                     /\ ends'[2] - ends'[1] <= 2 ^ MaxIter => hi' - lo' <= 2 ^ (MaxIter - rounds')
  BY DEF Narrows
<1>. DEFINE mid == (lo + hi) \div 2
<1>1. /\ stage = "bisect" /\ rounds < MaxIter /\ ends' = ends /\ rounds' = rounds + 1
      /\ Halve(mid, asked'[mid])
  BY DEF Bisect, ReplyWith
<1>2. /\ MaxIter \in Nat /\ rounds \in Nat /\ lo \in Int /\ hi \in Int
  BY SeekAssumption DEF SeekInv, SeekTypeOK
<1>3. PICK k \in Nat : MaxIter - rounds = k + 1 /\ MaxIter - rounds' = k
  <2>1. MaxIter - rounds - 1 \in Nat /\ MaxIter - rounds = (MaxIter - rounds - 1) + 1
        /\ MaxIter - rounds' = MaxIter - rounds - 1
    BY <1>1, <1>2
  <2>. QED  BY <2>1
<1>4. 2 ^ k \in Nat /\ 2 ^ (MaxIter - rounds) = 2 ^ k + 2 ^ k
  BY <1>3, PowerDoubles
<1>5. \/ hi' = mid /\ lo' = lo
      \/ lo' = mid /\ hi' = hi
  BY <1>1 DEF Halve
<1>6. ASSUME ends'[2] - ends'[1] <= 2 ^ MaxIter PROVE hi' - lo' <= 2 ^ (MaxIter - rounds')
  <2>1. hi - lo <= 2 ^ k + 2 ^ k
    BY <1>1, <1>4, <1>6 DEF JumpInv, Narrows
  <2>2. hi - mid <= 2 ^ k /\ mid - lo <= 2 ^ k
    BY <1>2, <1>4, <2>1, HalvesFit
  <2>. QED  BY <1>3, <1>5, <2>2
<1>. QED  BY <1>1, <1>2, <1>6

\* An estimate is returned when the iterations are over.
LEMMA GiveUpMissesJumps == ASSUME SeekInv, JumpInv, GiveUp PROVE OnlyJumpsAreMissed'
<1>1. /\ stage = "bisect" /\ rounds = MaxIter
      /\ UNCHANGED <<asked, lo, hi, ends>>
  BY DEF GiveUp
<1>2. MaxIter - rounds = 0 /\ 2 ^ 0 = 1
  BY <1>1, SeekAssumption
<1>3. ends[2] - ends[1] <= 2 ^ MaxIter => hi - lo <= 1
  BY <1>1, <1>2 DEF JumpInv, Narrows
<1>4. ~LowEndHits => Opposite(asked[lo], asked[hi]) \/ asked[hi] = 0
  BY <1>1 DEF SeekInv, GoalStaysInside
<1>. QED  BY <1>1, <1>3, <1>4 DEF OnlyJumpsAreMissed, LowEndHits

LEMMA JumpStep == SeekInv /\ JumpInv /\ [SeekNext]_seekVars => JumpInv'
<1>. SUFFICES ASSUME SeekInv, JumpInv, [SeekNext]_seekVars PROVE JumpInv'
  OBVIOUS
<1>. USE DEF JumpInv
<1>1. ASSUME stage' # "bisect", stage # "done",
             \/ stage' # "done" /\ UNCHANGED reply
             \/ \E kind \in {"error", "unsolved", "solved"}, x \in Int : ReplyWith(kind, x)
      PROVE  JumpInv'
  BY <1>1 DEF Narrows, Pending, OnlyJumpsAreMissed, ReplyWith
<1>2. CASE UnknownName \/ Baseline
  <2>1. x0 \in Int
    BY DEF SeekInv, SeekTypeOK
  <2>. QED  BY <1>1, <1>2, <2>1 DEF UnknownName, Baseline, ReplyWith
<1>3. CASE GivenBounds \/ AutoBracket
  <2>1. x0 \in Int
    BY DEF SeekInv, SeekTypeOK
  <2>. QED  BY <1>1, <1>3, <2>1 DEF GivenBounds, AutoBracket, ReplyWith
<1>4. CASE Grow \/ Grown
  <2>1. x0 \in Int
    BY DEF SeekInv, SeekTypeOK
  <2>. QED  BY <1>1, <1>4, <2>1 DEF Grow, Grown, ReplyWith
<1>5. CASE Verify
  <2>1. x0 \in Int /\ ends' \in Int \X Int /\ MaxIter \in Nat /\ lo \in Int /\ hi \in Int
    BY <1>5, SeekAssumption DEF SeekInv, SeekTypeOK, Verify
  <2>2. CASE SameSide(asked[lo], asked[hi])
    BY <1>1, <1>5, <2>1, <2>2 DEF Verify, ReplyWith
  <2>3. CASE ~SameSide(asked[lo], asked[hi])
    <3>1. /\ stage = "verify" /\ ends' = <<lo, hi>> /\ rounds' = 0 /\ stage' = "bisect"
          /\ UNCHANGED <<lo, hi, reply>>
      BY <1>5, <2>3 DEF Verify
    <3>2. MaxIter - rounds' = MaxIter /\ rounds' <= MaxIter
      BY <2>1, <3>1
    <3>. QED  BY <3>1, <3>2 DEF Narrows, Pending, OnlyJumpsAreMissed
  <2>. QED  BY <2>2, <2>3
<1>6. CASE Bisect
  <2>1. Narrows' /\ (stage' = "bisect" => rounds' <= MaxIter)
    BY <1>6, BisectNarrows
  <2>2. (lo + hi) \div 2 \in Int
    BY IntegerArithmetic DEF SeekInv, SeekTypeOK
  <2>3. Pending' /\ OnlyJumpsAreMissed'
    BY <1>6, <2>2 DEF Bisect, ReplyWith, Pending, OnlyJumpsAreMissed
  <2>. QED  BY <2>1, <2>3
<1>7. CASE GiveUp
  <2>1. stage' = "done"
    BY <1>7 DEF GiveUp, ReplyWith
  <2>. QED  BY <1>7, <2>1, GiveUpMissesJumps DEF Narrows, Pending
<1>8. CASE UNCHANGED seekVars
  BY <1>8 DEF seekVars, Narrows, Pending, OnlyJumpsAreMissed, LowEndHits
<1>9. CASE Done
  BY <1>8, <1>9 DEF Done
<1>. QED
  BY <1>2, <1>3, <1>4, <1>5, <1>6, <1>7, <1>8, <1>9 DEF SeekNext

\* An estimate (goal_seek.py:132) of a search whose iterations were enough for
\* its bracket has missed a jump over the goal between two neighbours, or the
\* goal at the high end, for every function, bracket, tolerance and limit.
THEOREM EstimatesMissJumps == SeekSpec => []OnlyJumpsAreMissed
<1>1. SeekInit => JumpInv
  BY DEF SeekInit, JumpInv, Narrows, Pending, OnlyJumpsAreMissed, NoReply
<1>2. SeekInv /\ JumpInv /\ [SeekNext]_seekVars => SeekInv' /\ JumpInv'
  BY SeekStepKeeps, JumpStep
<1>3. JumpInv => OnlyJumpsAreMissed
  BY DEF JumpInv
<1>. QED  BY SeekInitInv, <1>1, <1>2, <1>3, PTL DEF SeekSpec
=============================================================================
