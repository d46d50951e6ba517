---------------------------- MODULE MCCellGraph ----------------------------
(* Small instances of CellGraph for TLC. *)
EXTENDS CellGraph, TLC
CONSTANTS a, b, x
NotebookCells == Permutations({a, b})
=============================================================================
