-------------------------- MODULE VerifiedAnswers --------------------------
(***************************************************************************)
(* What the coordinator promises whoever asks: a question is answered,     *)
(* given up or fails; it is answered only by a text that passed the audit, *)
(* either now or in an earlier turn that may be repeated word for word;    *)
(* and a question costs a bounded number of calls of the model.            *)
(***************************************************************************)
EXTENDS Naturals

CONSTANTS Questions, MaxCalls

VARIABLES
    asked,     \* the question being answered, or none: a set of at most one
    calls,     \* calls of the model spent on it
    verified   \* the questions that have a verified answer to repeat

vars == <<asked, calls, verified>>

Init == asked = {} /\ calls = 0 /\ verified = {}

Ask(q) ==
    /\ asked = {}
    /\ asked' = {q} /\ calls' = 0
    /\ UNCHANGED verified

Call ==
    /\ asked # {} /\ calls < MaxCalls
    /\ calls' = calls + 1
    /\ UNCHANGED <<asked, verified>>

\* A verified answer costs a call, or was already there and costs none.
Answer(q) ==
    /\ asked = {q}
    /\ IF calls = 0 THEN q \in verified ELSE TRUE
    /\ asked' = {} /\ calls' = 0
    /\ verified' = verified \cup {q}

\* No answer: what was verified stays as it was.
GiveUp ==
    /\ asked # {}
    /\ asked' = {} /\ calls' = 0
    /\ UNCHANGED verified

\* A verified answer is repeated for a limited time.
Forget(q) ==
    /\ verified' = verified \ {q}
    /\ UNCHANGED <<asked, calls>>

\* The server keeps nothing.
Restart == asked' = {} /\ calls' = 0 /\ verified' = {}

Next ==
    \/ Call \/ GiveUp \/ Restart
    \/ \E q \in Questions : Ask(q) \/ Answer(q) \/ Forget(q)

Spec == Init /\ [][Next]_vars
============================================================================
