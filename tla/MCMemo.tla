------------------------------- MODULE MCMemo -------------------------------
(* Memo on a chain of two memoized contents and one that updates itself.   *)
EXTENDS Memo, TLC

CONSTANTS b, x, y
MCContents == {<<x, b>>, <<y, x>>, <<x, x>>}
CellSymmetry == Permutations(Cells)

\* A list and a tuple that compare as equal, two arrays, and a list that holds
\* an object without a comparable form, which an update drops or adds.
Value(type, item) == [type |-> type, items |-> <<item>>, rest |-> 0]
List == Value("list", 1)
Tuple == Value("tuple", 1)
Array1 == Value("array", 2)
Array2 == Value("array", 3)
Other == Value("other", 1)
MCValues == {List, Tuple, Array1, Array2, Other}
MCLiterals == MCValues \ {Array2}
MCCompute == List :> Other @@ Tuple :> Array1 @@ Array1 :> List @@ Array2 :> Other @@ Other :> Tuple
MCUpdated == List :> Other @@ Other :> List @@ Array1 :> Array2 @@ Array2 :> Array1 @@ Tuple :> Tuple
MCLarge == {List, Array1}

\* Two numbers, for the condition that the guide states.
Zero == Value("int", 0)
One == Value("int", 1)
DocValues == {Zero, One}
DocCompute == Zero :> One @@ One :> Zero
DocUpdated == Zero :> Zero @@ One :> One
DocLarge == {One}
=============================================================================
