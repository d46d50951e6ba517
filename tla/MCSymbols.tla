------------------------------ MODULE MCSymbols ------------------------------
(* All members are of one object.  No step reads `last`, so that states that *)
(* differ in it alone need not be told apart.                               *)
EXTENDS Symbols, TLC
CONSTANTS o
MCOwner == [m \in Mems |-> o]
Symmetry == Permutations(Vars) \cup Permutations(Mems)
View == <<now, val, ts, required, edges, nsWait, updated>>
==============================================================================
