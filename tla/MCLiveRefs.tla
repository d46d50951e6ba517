----------------------------- MODULE MCLiveRefs -----------------------------
(* One name has an attribute; a function reads it and calls h, or shadows   *)
(* the name and calls g.  In other cells g only calls h, and h reads x.     *)
EXTENDS LiveRefs
CONSTANTS x, y, xf, g, h
MCBase == [r \in Attrs |-> x]
MCTests == {{y}}
MCBodies == {[params |-> {}, reads |-> {xf}, calls |-> {h}],
             [params |-> {x}, reads |-> {x, y}, calls |-> {g}]}
MCDefined == [f \in Funs |-> IF f = g THEN [params |-> {}, reads |-> {}, calls |-> {h}]
                                   ELSE [params |-> {}, reads |-> {x}, calls |-> {}]]
==============================================================================
