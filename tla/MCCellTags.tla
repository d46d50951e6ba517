----------------------------- MODULE MCCellTags -----------------------------
(* CellTags on a notebook of two cells, and a cell without an id.          *)
EXTENDS CellTags, TLC

CONSTANTS a, b, c, t

NotebookCells == Permutations({a, b})
=============================================================================
