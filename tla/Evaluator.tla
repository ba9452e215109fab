----------------------------- MODULE Evaluator -----------------------------
(***************************************************************************)
(* The formula evaluator (rosetta/evaluator.py): value_of with its memo,   *)
(* its evaluation stack and its overrides.                                 *)
(*                                                                         *)
(* What a formula computes is a parameter.  Formula(p, values) tells what  *)
(* the formula p does when the cells it has read so far had these values:  *)
(* it reads another cell, or has a value, or raises.  So lookups, which    *)
(* choose what they read, are formulas too.                                *)
(***************************************************************************)
EXTENDS Naturals, Sequences

CONSTANTS
    Cells,          \* references, with a cell in the workbook or not
    None,           \* the value None
    Formula(_, _),  \* see above
    DepthLimit      \* evaluations within one another that Python's stack holds, > 0

VARIABLES
    workbook,   \* its cells: is there a formula, which, and the stored value
    overrides,  \* values given to cells in a scenario
    ev          \* the evaluator

vars == <<workbook, overrides, ev>>

\* want: the cell whose value is asked for, in a sequence of at most one;
\* answer: the value of the cell asked for last, from outside.
NewEvaluator == [memo |-> <<>>, unsupported |-> {}, stack |-> <<>>,
                 want |-> <<>>, answer |-> <<>>]
Idle == ev.stack = <<>> /\ ev.want = <<>>
Wants(c) == ev.want = <<c>>
Top == ev.stack[Len(ev.stack)]
OnStack(c) == \E i \in DOMAIN ev.stack : ev.stack[i].cell = c
Stored(c) == workbook[c].value

Put(memo, c, value) ==
    [d \in DOMAIN memo \cup {c} |-> IF d = c THEN value ELSE memo[d]]

\* The value goes to the formula that reads the cell, or to the caller.
Give(e, value) ==
    IF e.stack = <<>> THEN [e EXCEPT !.want = <<>>, !.answer = <<value>>]
    ELSE [e EXCEPT !.want = <<>>,
                   !.stack[Len(e.stack)].values = Append(@, value)]
Pop(e) == [e EXCEPT !.stack = SubSeq(@, 1, Len(@) - 1)]
Memoize(e, c, value) == [e EXCEPT !.memo = Put(@, c, value)]

----------------------------------------------------------------------------
(* value_of, in the order of its tests. *)

Ask(c) == Idle /\ ev' = [ev EXCEPT !.want = <<c>>, !.answer = <<>>]

Overridden(c) ==
    /\ Wants(c) /\ c \in DOMAIN overrides
    /\ ev' = Give(ev, overrides[c])

Memoized(c) ==
    /\ Wants(c) /\ c \notin DOMAIN overrides
    /\ c \in DOMAIN ev.memo
    /\ ev' = Give(ev, ev.memo[c])

Fresh(c) == Wants(c) /\ c \notin DOMAIN overrides /\ c \notin DOMAIN ev.memo

Missing(c) ==
    /\ Fresh(c) /\ c \notin DOMAIN workbook
    /\ ev' = Give(ev, None)

Constant(c) ==
    /\ Fresh(c) /\ c \in DOMAIN workbook /\ ~workbook[c].computed
    /\ ev' = Give(Memoize(ev, c, Stored(c)), Stored(c))

FreshFormula(c) == Fresh(c) /\ c \in DOMAIN workbook /\ workbook[c].computed

\* A formula that is being evaluated is worth what is stored.
Circular(c) ==
    /\ FreshFormula(c) /\ OnStack(c)
    /\ ev' = Give(ev, Stored(c))

Enter(c) ==
    /\ FreshFormula(c) /\ ~OnStack(c)
    /\ Len(ev.stack) < DepthLimit
    /\ ev' = [ev EXCEPT !.want = <<>>,
                        !.stack = Append(@, [cell |-> c, values |-> <<>>])]

----------------------------------------------------------------------------
(* _eval_formula: the formula on top goes on with what it has read. *)

Reading == ev.want = <<>> /\ ev.stack # <<>>
DoingOf(frame) == Formula(workbook[frame.cell].formula, frame.values)
Doing == DoingOf(Top)

Read ==
    /\ Reading /\ Doing.kind = "read"
    /\ ev' = [ev EXCEPT !.want = <<Doing.cell>>]

Finish ==
    /\ Reading /\ Doing.kind = "value"
    /\ ev' = Give(Memoize(Pop(ev), Top.cell, Doing.value), Doing.value)

\* Mutant: the cell is not noted.
FailedQuietly(e, c) == Give(Memoize(e, c, Stored(c)), Stored(c))
\* An exception: the cell is noted, and worth what is stored.
FailedAs(e, c) ==
    Give([Memoize(e, c, Stored(c)) EXCEPT !.unsupported = @ \cup {c}], Stored(c))

Fail ==
    /\ Reading /\ Doing.kind = "raise"
    /\ ev' = FailedAs(Pop(ev), Top.cell)

\* RecursionError, which is caught like any other: in the formula that is
\* asked for, or in the one that asks.
TooDeep(c) ==
    /\ Wants(c) /\ Len(ev.stack) >= DepthLimit
    /\ \/ FreshFormula(c) /\ ~OnStack(c) /\ ev' = FailedAs(ev, c)
       \/ ev' = FailedAs(Pop(ev), Top.cell)

Step ==
    \/ \E c \in Cells :
        \/ Overridden(c) \/ Memoized(c) \/ Missing(c) \/ Constant(c)
        \/ Circular(c) \/ Enter(c) \/ TooDeep(c)
    \/ Read
    \/ Finish
    \/ Fail

Init == ev = NewEvaluator
Next == (Step \/ \E c \in Cells : Ask(c)) /\ UNCHANGED <<workbook, overrides>>
Spec == Init /\ [][Next]_vars

----------------------------------------------------------------------------
(* Properties. *)

\* No cell is evaluated within its own evaluation, and no evaluation goes
\* deeper than the stack: the guard on the evaluation stack is enough.
NoRepeats ==
    /\ Len(ev.stack) <= DepthLimit
    /\ \A i, k \in DOMAIN ev.stack : ev.stack[i].cell = ev.stack[k].cell => i = k

\* A solution of a workbook with the values given to some of its cells: exact
\* holds what the formulas of the cells in part define, part being acyclic and
\* closed under reading: rank falls along every read, and runs holds what
\* formulas have read at each point.
Solves(book, given, s) ==
    /\ \A c \in s.part : s.rank[c] \in Nat
    /\ \A c \in s.part \cap DOMAIN given : s.exact[c] = given[c]
    /\ \A c \in s.part \ DOMAIN given :
        /\ c \notin DOMAIN book => s.exact[c] = None
        /\ c \in DOMAIN book /\ ~book[c].computed => s.exact[c] = book[c].value
        /\ c \in DOMAIN book /\ book[c].computed =>
             [cell |-> c, values |-> <<>>] \in s.runs
    /\ \A frame \in s.runs : frame.cell \in s.part =>
        LET doing == Formula(book[frame.cell].formula, frame.values)
        IN /\ doing.kind = "read" =>
                /\ doing.cell \in s.part /\ s.rank[doing.cell] < s.rank[frame.cell]
                /\ [cell |-> frame.cell,
                    values |-> Append(frame.values, s.exact[doing.cell])] \in s.runs
           /\ doing.kind = "value" => s.exact[frame.cell] = doing.value

\* As long as no cell of the part is noted as unsupported, all that is
\* remembered of it is right.
RightUnlessReported(s) ==
    ev.unsupported \cap s.part = {} =>
        \A c \in s.part \cap DOMAIN ev.memo : ev.memo[c] = s.exact[c]
============================================================================
