---------------------------- MODULE FormulaGraph ----------------------------
(***************************************************************************)
(* What parse_workbook (rosetta/parser.py) makes of a workbook's formulas: *)
(* the edges between cells, the cycles, the depth; and the trace that      *)
(* graph.py draws of it.  A book is the cells in the order in which they   *)
(* are read, the references of each, in the order of the formula (none for *)
(* a constant), the named ranges, in the order in which they are defined,  *)
(* and the notes of the authors.                                           *)
(***************************************************************************)
EXTENDS Integers, Sequences, FiniteSets, SequencesExt, FiniteSetsExt

CONSTANTS
    TraceDepth,      \* max_depth of backward_trace, 8
    RecursionLimit   \* of Python, 1000 by default

\* A reference is a cell, a range small enough to be expanded, a whole column
\* or a range of more than 5000 cells, or a name.
References(book, cell) ==
    IF cell \in DOMAIN book.formulas THEN book.formulas[cell] ELSE <<>>
InBook(book, cell) == cell \in Range(book.cells)
Edge(kind, ref) == [kind |-> kind, ref |-> ref]
Unique(s) == FoldLeft(LAMBDA seen, e : IF e \in Range(seen) THEN seen ELSE Append(seen, e),
                      <<>>, s)

\* expand_range: cells one by one, or one logical edge for too many.
Expand(reference) ==
    IF reference.kind = "range"
    THEN [i \in DOMAIN reference.cells |-> Edge("cell", reference.cells[i])]
    ELSE <<Edge(reference.kind, reference.ref)>>

\* The first name that is equal but for its case, on whatever sheet.
Resolve(book, name) ==
    LET named == SelectSeq(book.names, LAMBDA n : n.name = name)
    IN IF named = <<>> THEN <<>> ELSE FlattenSeq([i \in DOMAIN Head(named).refs |->
                                                    Expand(Head(named).refs[i])])

\* depends_on: what the formula refers to, and then what its names stand for.
DependsOn(book, cell) ==
    LET names == SelectSeq(References(book, cell), LAMBDA r : r.kind = "name")
        others == SelectSeq(References(book, cell), LAMBDA r : r.kind # "name")
    IN Unique(FlattenSeq([i \in DOMAIN others |-> Expand(others[i])])
              \o FlattenSeq([i \in DOMAIN names |-> Resolve(book, names[i].ref)]))
CellEdges(book, cell) ==
    LET cells == SelectSeq(DependsOn(book, cell), LAMBDA e : e.kind = "cell")
    IN [i \in DOMAIN cells |-> cells[i].ref]
\* The model that parse_workbook makes, as far as the cells and their edges go.
Parse(book) ==
    [cells |-> book.cells, comments |-> book.comments, iterates |-> book.iterates,
     edges |-> [c \in Range(book.cells) |-> CellEdges(book, c)]]

----------------------------------------------------------------------------
(* _detect_circular: a search from each cell, and every edge back into the *)
(* stack is a cycle, unless one of the same cells is known.                *)

EdgesOf(book, cell) == IF InBook(book, cell) THEN book.edges[cell] ELSE <<>>

SameCells(chain, other) == Range(chain) = Range(other)
\* Mutant: the way to the cycle is taken for a part of it.
WholeStack(search, cell) == Append(search.stack, cell)
Chain(search, cell) ==
    LET start == CHOOSE i \in DOMAIN search.stack : search.stack[i] = cell
    IN SubSeq(search.stack, start, Len(search.stack)) \o <<cell>>
AddCycle(cycles, chain) ==
    IF \E i \in DOMAIN cycles : SameCells(cycles[i], chain)
    THEN cycles ELSE Append(cycles, chain)

\* deepest is what the recursion needs of the stack of Python.
RECURSIVE Search(_, _, _)
Search(book, search, cell) ==
    CASE ~InBook(book, cell) \/ cell \in search.black -> search
      [] InBook(book, cell) /\ cell \in Range(search.stack) ->
           [search EXCEPT !.cycles = AddCycle(@, Chain(search, cell))]
      [] OTHER ->
           LET entered == [search EXCEPT !.stack = Append(@, cell),
                             !.deepest = Max({@, Len(search.stack) + 1})]
               left == FoldLeft(LAMBDA s, c : Search(book, s, c),
                                entered, EdgesOf(book, cell))
           IN [left EXCEPT !.stack = search.stack, !.black = @ \cup {cell}]
NewSearch == [stack |-> <<>>, black |-> {}, cycles |-> <<>>, deepest |-> 0]
FullSearch(book) ==
    FoldLeft(LAMBDA search, cell : Search(book, search, cell), NewSearch, book.cells)
DetectCircular(book) == FullSearch(book).cycles

\* A RecursionError fails the whole parse.
Parses(book) == FullSearch(book).deepest <= RecursionLimit

\* A cycle is intentional by a comment that says so on one of its cells, or
\* because the workbook is set to iterate.  An audit tells of the others as errors.
Intentional(book, chain) == book.iterates \/ Range(chain) \cap book.comments # {}
CircularErrors(book) ==
    {i \in DOMAIN DetectCircular(book) : ~Intentional(book, DetectCircular(book)[i])}

----------------------------------------------------------------------------
(* _approx_max_depth: memo is shared by all cells, also of what was        *)
(* clipped at a cell that is being visited.                                *)

RECURSIVE Depth(_, _, _, _)
Depth(book, memo, visiting, cell) ==
    CASE cell \in DOMAIN memo -> [memo |-> memo, depth |-> memo[cell]]
      [] cell \notin DOMAIN memo /\ cell \in visiting -> [memo |-> memo, depth |-> 0]
      [] OTHER ->
           LET below(state, c) ==
                   LET d == Depth(book, state.memo, visiting \cup {cell}, c)
                   IN [memo |-> d.memo, depth |-> Max({state.depth, 1 + d.depth})]
               best == FoldLeft(below, [memo |-> memo, depth |-> 0],
                               EdgesOf(book, cell))
           IN [best EXCEPT !.memo = [c \in DOMAIN @ \cup {cell} |->
                                        IF c = cell THEN best.depth ELSE @[c]]]
\* Mutant: the depth of the cell that is asked for last.
DepthOfLast(book) ==
    FoldLeft(LAMBDA state, cell : Depth(book, state.memo, {}, cell),
             [memo |-> [c \in {} |-> 0], depth |-> 0], book.cells).depth
MaxDepth(book) ==
    FoldLeft(LAMBDA state, cell :
               LET d == Depth(book, state.memo, {}, cell)
               IN [memo |-> d.memo, depth |-> Max({state.depth, d.depth})],
             [memo |-> [c \in {} |-> 0], depth |-> 0], book.cells).depth

----------------------------------------------------------------------------
(* backward_trace: the tree of what feeds into a cell, each cell unfolded  *)
(* where it is first met; shown are the cells that the tree has nodes for. *)

RECURSIVE Trace(_, _, _, _)
Trace(book, state, cell, depth) ==
    LET shown == [state EXCEPT !.shown = @ \cup {cell}]
    IN IF ~InBook(book, cell) \/ cell \in state.visited \/ depth >= TraceDepth THEN shown
       ELSE FoldLeft(LAMBDA s, c : Trace(book, s, c, depth + 1),
                     [shown EXCEPT !.visited = @ \cup {cell}], EdgesOf(book, cell))
\* Mutant: one level less.
TraceFromOne(book, cell) ==
    Trace(book, [shown |-> {}, visited |-> {}], cell, 1).shown
BackwardTrace(book, cell) ==
    Trace(book, [shown |-> {}, visited |-> {}], cell, 0).shown

----------------------------------------------------------------------------
(* Properties.                                                             *)

Successors(book, cells) == UNION {Range(EdgesOf(book, c)) : c \in cells}
\* Cells that there is a path to, of at least one edge and at most n.
Within(book, cell, n) ==
    FoldLeft(LAMBDA cells, i : cells \cup Successors(book, cells \cup {cell}),
             {}, [i \in 1 .. n |-> i])
Reachable(book, cell) == Within(book, cell, Len(book.cells) + 1)
Cyclic(book) == {c \in Range(book.cells) : c \in Reachable(book, c)}
\* The groups of cells that depend on each other.
Components(book) ==
    LET reach == [c \in Range(book.cells) |-> Reachable(book, c)]
    IN {{d \in reach[c] \cap Range(book.cells) : c \in reach[d]} :
          c \in {d \in Range(book.cells) : d \in reach[d]}}

\* What is reported as a cycle is one, no two of the same cells, and every
\* group of cells that depend on each other has one, which is an error when
\* nobody has said anything about the group (parser.py:497-610).
CyclesAreFound(book) ==
    LET cycles == DetectCircular(book)
        errors == CircularErrors(book)
    IN /\ \A k \in DOMAIN cycles :
            /\ Len(cycles[k]) >= 2 /\ Head(cycles[k]) = Last(cycles[k])
            /\ \A i \in 1 .. Len(cycles[k]) - 1 :
                  cycles[k][i + 1] \in Range(EdgesOf(book, cycles[k][i]))
            /\ IsInjective(Tail(cycles[k]))
       /\ \A k, l \in DOMAIN cycles : SameCells(cycles[k], cycles[l]) => k = l
       /\ \A group \in Components(book) : \E k \in DOMAIN cycles :
            /\ Range(cycles[k]) \subseteq group
            /\ ~book.iterates /\ group \cap book.comments = {} => k \in errors

\* How deep a chain of formulas is from a cell: the most edges of a path.
Longest(book) ==
    Max({0} \cup {n \in 1 .. Len(book.cells) : \E c \in Range(book.cells) :
            FoldLeft(LAMBDA cells, i : Successors(book, cells), {c},
                     [i \in 1 .. n |-> i]) # {}})
\* Without cycles the depth is that of the longest chain (parser.py:613-633),
\* and a workbook is parsed when the stack of Python is as deep as that, or
\* whatever its depth when formulas refer to cells that were read before.
ReadsUpwards(book) ==
    \A i \in DOMAIN book.cells :
        Range(EdgesOf(book, book.cells[i])) \subseteq {book.cells[k] : k \in 1 .. i - 1}
DepthIsExact(book) ==
    Cyclic(book) = {} =>
        /\ MaxDepth(book) = Longest(book)
        /\ Longest(book) < RecursionLimit \/ ReadsUpwards(book) => Parses(book)

\* A trace shows all that feeds into a cell, unless some chain is longer than
\* the trace is deep; where one is, it may miss what is nearer as well
\* (graph.py:33-66).
TraceIsComplete(book) ==
    \A c \in Range(book.cells) :
        LET all == Reachable(book, c)
        IN /\ BackwardTrace(book, c) \subseteq all \cup {c}
           /\ Cyclic(book) = {} /\ Longest(book) <= TraceDepth
              => BackwardTrace(book, c) = all \cup {c}
============================================================================
