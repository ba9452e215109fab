--------------------------- MODULE SheetLayouts ---------------------------
(***************************************************************************)
(* Worksheets whose layout grows row by row and header by header, and what *)
(* the extractor makes of each of them.                                    *)
(***************************************************************************)
EXTENDS SheetManifest

CONSTANTS
    Looks,       \* what a row may look like
    Spans,       \* <<first column, last column>> of merged ranges
    MostRows, MostMerged

VARIABLE layout

RangesOver(rows) ==
    {[top |-> top, bottom |-> bottom, left |-> span[1], right |-> span[2]] :
        top \in 1 .. rows, bottom \in 1 .. rows, span \in Spans}
\* No cell is in two merged ranges.
Apart(a, b) ==
    \/ a.bottom < b.top \/ b.bottom < a.top
    \/ a.right < b.left \/ b.right < a.left

FirstLook == layout \in [rows : [{1} -> Looks], merged : {<<>>}]
AddLook ==
    /\ Len(layout.rows) < MostRows /\ layout.merged = <<>>
    /\ \E row \in Looks : layout' = [layout EXCEPT !.rows = Append(@, row)]
AddHeader ==
    /\ Len(layout.merged) < MostMerged
    /\ \E range \in RangesOver(Len(layout.rows)) :
         /\ range.top <= range.bottom
         /\ \A i \in DOMAIN layout.merged : Apart(range, layout.merged[i])
         /\ layout' = [layout EXCEPT !.merged = Append(@, range)]
LayoutSpec == FirstLook /\ [][AddLook \/ AddHeader]_layout

----------------------------------------------------------------------------
(* Properties.                                                             *)

\* Rows are partitioned into sections (_detect_sections).
Sections == SectionsPartition(layout)
============================================================================
