---------------------------- MODULE Coordinator ----------------------------
(***************************************************************************)
(* coordinator.answer(): the turns of one conversation, each a question    *)
(* that is looked up in the conversation's answer cache or put to Claude   *)
(* in a loop of tool calls, audited, retried once and post-processed.      *)
(* Turns of one conversation follow each other (Conversations shows why).  *)
(*                                                                         *)
(* A text is abstracted to what the control tells apart: whether it says   *)
(* anything, whether every claim in it can be verified, and the first cell *)
(* it cites.  The text is the DETAILED block, the one that is audited; the *)
(* SHORT block of the same reply is not.                                   *)
(***************************************************************************)
EXTENDS Naturals

CONSTANTS
    Questions,        \* question_hash: the questions told apart by the cache
    Entities,         \* cell references an answer may cite
    NoEntity,
    MaxToolTurns,     \* MAX_TOOL_TURNS, 10 in the code
    MaxAuditRetries   \* MAX_AUDIT_RETRIES, 1 in the code

ASSUME EntityAssumption == NoEntity \notin Entities
ASSUME BoundAssumption == MaxToolTurns \in Nat \ {0} /\ MaxAuditRetries \in Nat

VARIABLES
    pc,       \* where answer() is; "idle" between turns
    active,   \* state.active_entity, persisted with the conversation
    cache,    \* state.answer_cache: an entry per question
    turn,     \* the locals of answer() and _run_tool_loop()
    answer    \* what the last turn returned

vars == <<pc, active, cache, turn, answer>>

----------------------------------------------------------------------------
Context == Entities \cup {NoEntity}

\* sentinel: MAX_TOOL_TURNS_SENTINEL.  empty: a reply without a text block,
\* for instance one that max_tokens cut off.
Text == [kind : {"prose", "empty", "sentinel"}, grounded : BOOLEAN, cites : Context]
Wordless(kind) == [kind |-> kind, grounded |-> FALSE, cites |-> NoEntity]
Prose == {t \in Text : t.kind = "prose"}

\* context is history: the active entity the cached answer was made with.
Entry ==
    [state : {"missing", "fresh", "expired"}, text : Text, context : Context]
NoEntry ==
    [state |-> "missing", text |-> Wordless("empty"), context |-> NoEntity]

Answers ==
    [status : {"none", "passed", "unknown", "error"}, text : Text,
     cached : BOOLEAN, context : Context]
NoAnswer ==
    [status |-> "none", text |-> Wordless("empty"), cached |-> FALSE,
     context |-> NoEntity]

\* toolTurns: of this attempt.  calls: of the model in this turn (history), counted up
\* to one more than there may be: enough to tell that they are too many.
CallBound == MaxToolTurns * (MaxAuditRetries + 1)
Counted(calls) == IF calls > CallBound THEN calls ELSE calls + 1
Turn ==
    [question : Questions, toolTurns : 0..MaxToolTurns,
     retries : 0..MaxAuditRetries, calls : Nat, text : Text]
FirstTurn(q) ==
    [question |-> q, toolTurns |-> 0, retries |-> 0, calls |-> 0,
     text |-> Wordless("empty")]

Steps == {"idle", "lookup", "request", "delegate", "check", "partial", "answered"}

TypeOK ==
    /\ pc \in Steps
    /\ active \in Context
    /\ cache \in [Questions -> Entry]
    /\ turn \in Turn
    /\ answer \in Answers

Init ==
    /\ pc = "idle"
    /\ active = NoEntity
    /\ cache = [q \in Questions |-> NoEntry]
    /\ turn \in {FirstTurn(q) : q \in Questions}
    /\ answer = NoAnswer

----------------------------------------------------------------------------
(* The turn begins.                                                        *)

\* A turn ends: its result goes to ask_question and its locals are gone.
Return(result) ==
    /\ answer' = result
    /\ pc' = "idle"
    /\ turn' = FirstTurn(turn.question)

Ask(q) ==
    /\ pc = "idle"
    /\ pc' = "lookup"
    /\ turn' = FirstTurn(q)
    /\ UNCHANGED <<active, cache, answer>>

\* ROSETTA_CACHE_TTL_SECS pass.
Expire(q) ==
    /\ cache[q].state = "fresh"
    /\ cache' = [cache EXCEPT ![q].state = "expired"]
    /\ UNCHANGED <<pc, active, turn, answer>>

Hit == cache[turn.question].state = "fresh"

\* The cached answer is returned as it is; active_entity is not touched.
CacheHit ==
    /\ pc = "lookup" /\ Hit
    /\ LET e == cache[turn.question] IN
         Return([status |-> "passed", text |-> e.text, cached |-> TRUE,
                 context |-> e.context])
    /\ UNCHANGED <<active, cache>>

\* _no_api_key_response: no key, or no SDK.
NoApiKey ==
    /\ pc = "lookup" /\ ~Hit
    /\ Return([NoAnswer EXCEPT !.status = "unknown"])
    /\ UNCHANGED <<active, cache>>

CacheMiss ==
    /\ pc = "lookup" /\ ~Hit
    /\ pc' = "request"
    /\ UNCHANGED <<active, cache, turn, answer>>

----------------------------------------------------------------------------
(* _run_tool_loop.                                                         *)

\* Claude asks for tools; after MAX_TOOL_TURNS the loop ends without a text.
ToolUse ==
    /\ pc = "request"
    /\ turn' = [turn EXCEPT !.toolTurns = @ + 1, !.calls = Counted(@),
                  !.text = Wordless("sentinel")]
    /\ pc' = IF turn.toolTurns + 1 = MaxToolTurns THEN "check" ELSE "request"
    /\ UNCHANGED <<active, cache, answer>>

\* end_turn, stop_sequence or max_tokens: the text blocks of the reply, which
\* may hold the delegation marker.
EndTurn ==
    /\ pc = "request"
    /\ \E t \in Prose \cup {Wordless("empty")} :
         /\ turn' = [turn EXCEPT !.calls = Counted(@), !.text = t]
         /\ pc' = "check" \/ (t \in Prose /\ pc' = "delegate")
    /\ UNCHANGED <<active, cache, answer>>

\* messages.create raises; ask_question returns success=False.
CallFails ==
    /\ pc = "request"
    /\ Return([NoAnswer EXCEPT !.status = "error"])
    /\ UNCHANGED <<active, cache>>

----------------------------------------------------------------------------
(* The verdict.                                                            *)

\* Mutant: the audit sees the text before the specialist's prose is in it.
DelegateAfterAudit ==
    /\ pc = "delegate"
    /\ \E t \in Prose : turn' = [turn EXCEPT !.text = t]
    /\ pc' = IF turn.text.grounded THEN "answered" ELSE "check"
    /\ UNCHANGED <<active, cache, answer>>

\* _maybe_delegate_to_explainer: the specialist's prose replaces the marker
\* before the audit, so the claims to verify may be new ones.
Delegate ==
    /\ pc = "delegate"
    /\ \E t \in Prose : turn' = [turn EXCEPT !.text = t]
    /\ pc' = "check"
    /\ UNCHANGED <<active, cache, answer>>

\* The loop came to no end: there is nothing to audit.
NoVerdict ==
    /\ pc = "check" /\ turn.text.kind = "sentinel"
    /\ pc' = "partial"
    /\ UNCHANGED <<active, cache, turn, answer>>

\* The auditor rejects claims: a text without claims passes.
Accepts(t) == t.grounded \/ t.kind # "prose"
Audited == pc = "check" /\ turn.text.kind # "sentinel"

AuditPasses ==
    /\ Audited /\ Accepts(turn.text)
    /\ pc' = "answered"
    /\ UNCHANGED <<active, cache, turn, answer>>

\* Mutant: violation_retries_used is not incremented.
AuditRetryUncounted ==
    /\ Audited /\ ~Accepts(turn.text)
    /\ turn.retries < MaxAuditRetries
    /\ turn' = [turn EXCEPT !.toolTurns = 0]
    /\ pc' = "request"
    /\ UNCHANGED <<active, cache, answer>>

\* The violations go back to Claude and the loop starts over.
AuditRetry ==
    /\ Audited /\ ~Accepts(turn.text)
    /\ turn.retries < MaxAuditRetries
    /\ turn' = [turn EXCEPT !.retries = @ + 1, !.toolTurns = 0]
    /\ pc' = "request"
    /\ UNCHANGED <<active, cache, answer>>

AuditGivesUp ==
    /\ Audited /\ ~Accepts(turn.text)
    /\ turn.retries >= MaxAuditRetries
    /\ pc' = "partial"
    /\ UNCHANGED <<active, cache, turn, answer>>

\* extract_entity_from_text: the first cell the returned text cites, if any.
Mentions(t) == active' = IF t.cites = NoEntity THEN active ELSE t.cites

\* A passed answer is cached.
Passed ==
    /\ pc = "answered"
    /\ Mentions(turn.text)
    /\ cache' = [cache EXCEPT ![turn.question] =
                   [state |-> "fresh", text |-> turn.text, context |-> active]]
    /\ Return([status |-> "passed", text |-> turn.text, cached |-> FALSE,
               context |-> active])

\* NO_ANSWER_MESSAGE cites nothing; _build_partial_answer lists the verified
\* claims and the rejected ones, and may cite any of their cells.
Unknown ==
    /\ pc = "partial"
    /\ \E c \in Context :
         LET t == [turn.text EXCEPT !.cites = c] IN
         /\ turn.text.kind = "sentinel" => c = NoEntity
         /\ Mentions(t)
         /\ Return([status |-> "unknown", text |-> t, cached |-> FALSE,
                    context |-> active])
    /\ UNCHANGED cache

\* The process restarts: the turn and _ANSWER_CACHES are lost.
Restart ==
    /\ pc' = "idle"
    /\ cache' = [q \in Questions |-> NoEntry]
    /\ turn' = FirstTurn(turn.question)
    /\ answer' = NoAnswer
    /\ UNCHANGED active

----------------------------------------------------------------------------
Answering ==
    \/ CacheHit \/ NoApiKey \/ CacheMiss \/ ToolUse \/ EndTurn \/ CallFails
    \/ Delegate \/ NoVerdict \/ AuditPasses \/ AuditRetry \/ AuditGivesUp
    \/ Passed \/ Unknown

Next ==
    \/ Answering \/ Restart
    \/ \E q \in Questions : Ask(q) \/ Expire(q)

Spec == Init /\ [][Next]_vars

\* Claude answers or the call fails: a turn that has begun is not abandoned.
\* Users, time and restarts owe nothing.
FairSpec == Spec /\ WF_vars(Answering)

----------------------------------------------------------------------------
(* Properties.                                                             *)

\* Whatever Claude and the specialist write and wherever the text comes from,
\* what is returned as passed makes no claim that cannot be verified, and is
\* not the sentinel.
PassedIsVerified ==
    answer.status = "passed" => answer.text.kind # "sentinel" /\ Accepts(answer.text)

\* A turn implements VerifiedAnswers: only audited answers are given and
\* kept, whatever is retried, and the calls of the model are bounded.
Turns == INSTANCE VerifiedAnswers WITH
    asked <- IF pc = "idle" THEN {} ELSE {turn.question},
    calls <- turn.calls,
    verified <- {q \in Questions : cache[q].state = "fresh"},
    MaxCalls <- CallBound
TurnSpec == Turns!Spec

\* A question that is asked is answered, given up or fails.
EveryQuestionEnds == pc = "lookup" ~> pc = "idle"

\* Claims of the documentation that the code does not keep.

\* "Follow-up questions inherit context" (HANDBOOK.md:48): what a question is
\* answered with was made for no entity at all or for the one active now.
FollowUpsUseContext == answer.cached => answer.context \in {NoEntity, active}

\* "there are no numbers for the auditor to reject" (coordinator.py:317): no
\* text without an answer in it comes back as verified.
PassedSaysSomething == answer.status = "passed" => answer.text.kind = "prose"
============================================================================
