------------------------------ MODULE Staleness ------------------------------
(***************************************************************************)
(* What an update owes to the symbols that were computed before it.        *)
(*                                                                         *)
(* The symbols form two graphs: `from`, who was computed from whom, and    *)
(* `holds`, which symbol denotes the object that another one is a member   *)
(* of.  A statement changes some symbols.  It has to make stale whatever   *)
(* is reached from them, may make stale nothing else, and clears the       *)
(* staleness only of what it is about.                                     *)
(***************************************************************************)
EXTENDS FiniteSets, Naturals

CONSTANT Syms  \* a finite set

VARIABLES
    from,     \* <<p, c>>: c was computed from p
    holds,    \* <<a, m>>: m is a member of the object that a denotes
    stale,    \* the symbols that wait for a cell to run again
    renewed,  \* the symbols that the running cell has given a value
    last      \* the last statement: its target, what it changed, what it read

vars == <<from, holds, stale, renewed, last>>

\* The symbols reached from S by steps in R.
From(S, R) ==
    LET reach[n \in 0..Cardinality(Syms)] ==
            IF n = 0 THEN S
            ELSE LET near == reach[n - 1] IN near \cup {e[2] : e \in {r \in R : r[1] \in near}}
    IN reach[Cardinality(Syms)]
Reversed(R) == {<<e[2], e[1]>> : e \in R}

\* The walk stops at what the statement has read, and does not go from a symbol
\* with a new value to its object or its members.  From a symbol of an object it goes
\* down to the members only if it cannot have come up to that symbol from one of
\* them: an object that waits for a member does not make the other members stale.
Owed(C, D, H, new) ==
    LET on == {e \in from : e[2] \notin C \cup D}
        up == {e \in Reversed(H) : e[1] \notin new /\ e[2] \notin C \cup D}
        down == {e \in H : e[1] \notin new /\ e[2] \notin C \cup D}
        first == {e[2] : e \in {e \in on : e[1] \in C}}
        Mates(a) == {e[2] : e \in {e \in H : e[1] = a}}
        Besides(a) == From(first, on \cup up \cup {e \in down : e[2] \notin Mates(a)})
        sure == {a \in {e[1] : e \in down} : Mates(a) \cap Besides(a) = {}}
    IN From(first, on \cup up \cup {e \in down : e[1] \in sure}) \ new
Allowed(C, H) == From(C, from \cup H \cup Reversed(H))

\* Symbol s is given a value, which changes C.
Update(s, C) ==
    /\ s \in C
    /\ \E before \in {stale}, after \in {stale'}, H0 \in {holds}, H \in {holds'}, new \in {renewed'} :
          /\ Owed(C, last'.read, H, new) \subseteq after
          /\ after \ before \subseteq Allowed(C, H)
          /\ before \ after \subseteq From(C, H0 \cup Reversed(H0) \cup H \cup Reversed(H))
          /\ s \in after => \E m \in Syms : <<s, m>> \in H

\* Symbol s is given the object it had: nothing changes but where it comes from.
Keep(s) ==
    /\ stale' \subseteq stale
    /\ stale \ stale' \subseteq From({s}, holds \cup Reversed(holds))
    /\ UNCHANGED holds

NextCell ==
    /\ last'.target = {} /\ renewed' = {}
    /\ UNCHANGED <<from, holds, stale>>

Init ==
    /\ from = {} /\ holds = {} /\ stale = {} /\ renewed = {}
    /\ last = [target |-> {}, changed |-> {}, read |-> {}]

Next ==
    \/ \E s \in last'.target : Update(s, last'.changed) \/ (last'.changed = {} /\ Keep(s))
    \/ NextCell

Spec == Init /\ [][Next]_vars

==============================================================================
