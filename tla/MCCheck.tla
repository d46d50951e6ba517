------------------------------- MODULE MCCheck -------------------------------
\* Check on short notebooks, some of which are edited.
EXTENDS Check

Dag == [schedule |-> "dag_based", inOrder |-> TRUE, pull |-> TRUE]
AnyOrder == [Dag EXCEPT !.inOrder = FALSE]
NoPull == [Dag EXCEPT !.pull = FALSE]
LiveOnly == [Dag EXCEPT !.schedule = "liveness_based"]
Mixed == [Dag EXCEPT !.schedule = "hybrid_dag_liveness_based"]
SomeSettings == {Dag, AnyOrder, NoPull, LiveOnly, Mixed}

Code(r, w) == [reads |-> r, writes |-> w, sets |-> {}]
Magic(s) == [reads |-> {}, writes |-> {}, sets |-> {s}]
X == Code({}, {"x"})
Y == Code({"x"}, {"y"})
Z == Code({"y"}, {"z"})
Update == Code({"x"}, {"x"})
SomeContents == {Code({"z"}, {"x"}), Code({"x", "y"}, {}), Magic(AnyOrder)}

Both == <<<<"a", X>>, <<"b", Y>>>>
Chain == Append(Both, <<"c", Z>>)
Sum == <<<<"a", X>>, <<"b", Code({}, {"y"})>>, <<"c", Code({"x", "y"}, {})>>>>
Again == <<<<"a", X>>, <<"b", Y>>, <<"c", X>>, <<"d", Code({"x", "y"}, {})>>>>
Fold == <<<<"a", X>>, <<"b", Update>>, <<"c", Y>>>>
SomeNotebooks ==
    {[cells |-> Both, sets |-> SomeSettings, runs |-> 3, edits |-> 1],
     [cells |-> <<<<"a", Code({}, {"z"})>>, <<"b", Code({"x", "y"}, {})>>>>, sets |-> {Dag},
      runs |-> 3, edits |-> 2],
     [cells |-> Sum, sets |-> {Dag, LiveOnly, Mixed}, runs |-> 5, edits |-> 0],
     [cells |-> Chain, sets |-> {Dag}, runs |-> 4, edits |-> 1],
     [cells |-> Chain, sets |-> {LiveOnly}, runs |-> 4, edits |-> 1],
     [cells |-> Fold, sets |-> {Dag, LiveOnly}, runs |-> 4, edits |-> 0],
     [cells |-> Fold, sets |-> {Dag}, runs |-> 3, edits |-> 1],
     [cells |-> Again, sets |-> {Dag}, runs |-> 5, edits |-> 0],
     [cells |-> Append(Chain, <<"d", Code({"z"}, {})>>), sets |-> {Dag}, runs |-> 5, edits |-> 0]}
=============================================================================
