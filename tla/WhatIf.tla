------------------------------- MODULE WhatIf -------------------------------
(***************************************************************************)
(* The tools what_if and scenario_recalc (rosetta/tools.py): which cells   *)
(* depend on the overridden ones (graph.py, forward_impacted), what they   *)
(* are worth with the overrides and without, and which have changed.       *)
(* what_if overrides one cell; scenario_recalc overrides several, and may  *)
(* be told which cells to compare.                                         *)
(***************************************************************************)
EXTENDS Naturals, Sequences, FiniteSets, SequencesExt

CONSTANTS
    Cells, None, Formula(_, _), DepthLimit,  \* see Evaluator
    Workbooks,  \* the parsed workbooks; depends holds the edges of a cell
    Scenarios,  \* what may be overridden
    Targets,    \* target_refs; {} for all that is impacted
    MaxDepth,   \* of forward_impacted, in edges
    Solution(_, _)  \* what the cells of a workbook are worth, with the values
                    \* given: see Solves in Evaluator

ASSUME MaxDepthAssumption == MaxDepth \in Nat
ASSUME DepthAssumption == DepthLimit \in Nat \ {0}
ASSUME InputAssumption ==
    /\ \A book \in Workbooks : IsFiniteSet(DOMAIN book) /\ DOMAIN book \subseteq Cells
    /\ \A given \in Scenarios : DOMAIN given \subseteq Cells
    /\ \A chosen \in Targets : chosen \subseteq Cells

VARIABLES
    workbook, overrides, targets,
    search,     \* origins left, queue and seen of the search; what it found
    scenario,   \* the evaluator with the overrides
    base,       \* the one without, for cells without a stored value
    todo,       \* cells still to compare
    current,    \* the one being compared, in a sequence of at most one
    changes,
    phase       \* "search", "compare", "done"

inputs == <<workbook, overrides, targets>>
toolVars == <<inputs, search, scenario, base, todo, current, changes, phase>>

Scenario == INSTANCE Evaluator WITH ev <- scenario
Base == INSTANCE Evaluator WITH ev <- base, overrides <- <<>>

ASSUME SolutionAssumption ==
    \A book \in Workbooks, given \in Scenarios \cup {<<>>} :
        Scenario!Solves(book, given, Solution(book, given))

ToolInit ==
    /\ workbook \in Workbooks /\ overrides \in Scenarios /\ targets \in Targets
    /\ search = [origins |-> DOMAIN overrides, queue |-> <<>>, seen |-> {}, found |-> {}]
    /\ scenario = Scenario!NewEvaluator /\ base = Base!NewEvaluator
    /\ todo = targets /\ current = <<>> /\ changes = {}
    /\ phase = IF targets = {} THEN "search" ELSE "compare"

----------------------------------------------------------------------------
(* forward_impacted, from each of the overridden cells. *)
\* Only cells of the workbook know what depends on them.
DependedBy(c) == {d \in DOMAIN workbook : c \in DOMAIN workbook \cap workbook[d].depends}

Searching == phase = "search" /\ UNCHANGED <<inputs, scenario, base, current, changes>>

NextOrigin ==
    /\ Searching /\ search.queue = <<>>
    /\ \E c \in search.origins :
        search' = [search EXCEPT !.origins = @ \ {c}, !.queue = <<<<c, 0>>>>, !.seen = {c}]
    /\ UNCHANGED <<todo, phase>>

Expand ==
    /\ Searching /\ search.queue # <<>>
    /\ LET c == Head(search.queue)[1]
           depth == Head(search.queue)[2]
           children == IF depth >= MaxDepth THEN {} ELSE DependedBy(c) \ search.seen
       IN search' = [search EXCEPT
            !.queue = Tail(@) \o SetToSeq({<<d, depth + 1>> : d \in children}),
            !.seen = @ \cup children, !.found = @ \cup children]
    /\ UNCHANGED <<todo, phase>>

Searched ==
    /\ Searching /\ search.queue = <<>> /\ search.origins = {}
    /\ todo' = search.found /\ phase' = "compare"
    /\ UNCHANGED search

----------------------------------------------------------------------------
(* The comparison of each cell; the order is that of a Python set. *)

Comparing == phase = "compare" /\ UNCHANGED <<inputs, search>>

\* Cells that are not in the workbook are skipped.
Compare ==
    /\ Comparing /\ current = <<>>
    /\ \E c \in todo \cap DOMAIN workbook :
        current' = <<c>> /\ Scenario!Ask(c)
    /\ UNCHANGED <<base, todo, changes, phase>>

ScenarioStep ==
    /\ Comparing /\ Scenario!Step
    /\ UNCHANGED <<base, todo, current, changes, phase>>

\* _resolved_value: what is stored, or else what the formula gives.
Resolvable(c) == workbook[c].value = None /\ workbook[c].computed
AskBase ==
    /\ Comparing /\ current # <<>> /\ Scenario!Idle
    /\ Resolvable(current[1]) /\ base.answer = <<>> /\ Base!Ask(current[1])
    /\ UNCHANGED <<scenario, todo, current, changes, phase>>

BaseStep ==
    /\ Comparing /\ Base!Step
    /\ UNCHANGED <<scenario, todo, current, changes, phase>>

\* Mutant: what is stored, even if nothing is.
OldStored(c) == workbook[c].value
Old(c) == IF Resolvable(c) THEN base.answer[1] ELSE workbook[c].value

Compared ==
    /\ Comparing /\ current # <<>> /\ Scenario!Idle /\ Base!Idle
    /\ Resolvable(current[1]) => base.answer # <<>>
    /\ LET c == current[1]
           new == scenario.answer[1]
       IN /\ changes' = IF new = Old(c) THEN changes
                        ELSE changes \cup {[ref |-> c, old |-> Old(c), new |-> new]}
          /\ todo' = todo \ {c}
    /\ current' = <<>> /\ base' = [base EXCEPT !.answer = <<>>]
    /\ UNCHANGED <<scenario, phase>>

ToolDone ==
    /\ Comparing /\ current = <<>> /\ todo \cap DOMAIN workbook = {}
    /\ phase' = "done"
    /\ UNCHANGED <<scenario, base, todo, current, changes>>

ToolNext ==
    \/ NextOrigin \/ Expand \/ Searched
    \/ Compare \/ ScenarioStep \/ AskBase \/ BaseStep \/ Compared \/ ToolDone
ToolSpec == ToolInit /\ [][ToolNext]_toolVars

----------------------------------------------------------------------------
(* Properties. *)

ToolTypeOK ==
    /\ phase \in {"search", "compare", "done"}
    /\ todo \subseteq Cells /\ search.found \subseteq Cells
    /\ Scenario!NoRepeats /\ Base!NoRepeats

\* What the output tells of formulas that failed (tools.py:856, 1458): only of those
\* that failed with the overrides.
Reported == scenario.unsupported

\* "Unsupported formulas return None and are reported in what-if output"
\* (evaluator.py:18), as far as it holds, for cells that depend on no cycle.  All that
\* is remembered of a scenario and every new value in the output is what the formulas
\* define, or the output tells of a formula that failed.  An old value that is not
\* stored is what the formulas define without the overrides, unless one of them failed:
\* of that one the output need not tell, when it is overridden or not read in the
\* scenario.
StaleIsReported ==
    LET new == Solution(workbook, overrides)
        old == Solution(workbook, <<>>)
    IN /\ Scenario!RightUnlessReported(new)
       /\ \A change \in changes :
            /\ Reported \cap new.part = {} /\ change.ref \in new.part =>
                 change.new = new.exact[change.ref]
            /\ Resolvable(change.ref) /\ change.ref \in old.part
                 /\ base.unsupported \cap old.part = {} =>
                 change.old = old.exact[change.ref]

\* Cells between which there is a path of n edges.
Reaches(c, d, n) ==
    \E path \in [0 .. n -> Cells] :
        /\ path[0] = c /\ path[n] = d
        /\ \A i \in 0 .. n - 1 : path[i + 1] \in DependedBy(path[i])
ImpactedBy(c) == {d \in Cells \ {c} : \E n \in 0 .. MaxDepth : Reaches(c, d, n)}
ComparedCells ==
    IF targets = {} THEN UNION {ImpactedBy(c) : c \in DOMAIN overrides} ELSE targets

OldValue(c) == Solution(workbook, <<>>).exact[c]
NewValue(c) == Solution(workbook, overrides).exact[c]
Changed == {c \in DOMAIN workbook : OldValue(c) # NewValue(c)}
ChangeOf(c) == [ref |-> c, old |-> OldValue(c), new |-> NewValue(c)]

\* No cycles, no unsupported formulas, and what is stored is what Excel computes.
Supported ==
    /\ scenario.unsupported \cup base.unsupported = {}
    /\ Solution(workbook, overrides).part = Cells /\ Solution(workbook, <<>>).part = Cells
    /\ \A c \in DOMAIN workbook : workbook[c].value \in {None, OldValue(c)}

\* Of the cells that are compared, which are those within reach of an override
\* (graph.py:68) or those that were asked for, the ones that the overrides change are
\* reported and no others, with their old values and their new (tools.py:1435-1448).
ChangesAreExact ==
    phase = "done" /\ Supported =>
        changes = {ChangeOf(c) : c \in ComparedCells \cap Changed}

\* "real recomputation of all impacted cells" (src/README.md:12).
AllImpactedAreRecomputed ==
    phase = "done" /\ Supported /\ targets = {} =>
        Changed \subseteq DOMAIN overrides \cup {change.ref : change \in changes}
============================================================================
