----------------------------- MODULE MCSlicing -----------------------------
(* Slicing with contents of one and two statements over two symbols.       *)
EXTENDS Slicing, TLC

CONSTANTS x, y, c1, c2
Stmt1(R, s) == [use |-> R, def |-> s]
MCContents == {
    <<Stmt1({}, x)>>, <<Stmt1({x}, y)>>, <<Stmt1({y}, x)>>,
    <<Stmt1({}, x), Stmt1({x}, y)>>,
    <<Stmt1({x}, x), Stmt1({x, y}, y)>> }
CellSymmetry == Permutations(Cells)
=============================================================================
