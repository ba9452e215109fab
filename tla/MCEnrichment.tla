---------------------------- MODULE MCEnrichment ----------------------------
(* Enrichment of a workbook of two sheets and a workbook of one. *)
EXTENDS Enrichment, TLC
CONSTANTS book, note, s1, s2
SmallSheetsOf == [f \in Files |-> IF f = book THEN <<s1, s2>> ELSE <<s1>>]
Symmetry == Permutations(Jobs)
============================================================================
