------------------------------- MODULE Symbols -------------------------------
(***************************************************************************)
(* Symbols, their timestamps, and how an update makes others stale.        *)
(*                                                                         *)
(* A global variable has a symbol, and so has each member of an object that *)
(* was given a value.  A symbol is stale ("waiting") when something it was *)
(* computed from, or something it contains, has been updated since.        *)
(* The update protocol finds the symbols concerned by a walk along         *)
(* dependencies, aliases and members; it goes through Python sets, in an   *)
(* order that nothing fixes.                                               *)
(*                                                                         *)
(* An assignment of a value that no symbol can be part of (a number)       *)
(* assigns Atom.                                                           *)
(***************************************************************************)
EXTENDS Naturals, FiniteSets

CONSTANTS
    Vars,      \* global variables
    Mems,      \* members of objects
    Objs,      \* objects
    Owner,     \* the object of a member
    Atom,      \* any immutable value
    None,      \* no symbol
    MaxCells,  \* bound: cells that run
    MaxDeps,   \* bound: symbols that an expression reads
    MaxEdges   \* bound: dependencies at a time

ASSUME SymbolsAssumption ==
    /\ IsFiniteSet(Vars) /\ IsFiniteSet(Mems) /\ Vars \cap Mems = {}
    /\ Owner \in [Mems -> Objs]
    /\ Atom \notin Objs /\ None \notin Objs \cup {Atom}
    /\ MaxCells \in Nat /\ MaxDeps \in Nat /\ MaxEdges \in Nat

Syms == Vars \cup Mems

VARIABLES
    now,       \* the cell that is running; Timestamp.current()
    val,       \* obj: what a symbol denotes, None for no symbol
    ts,        \* _timestamp
    required,  \* required_timestamp, 0 when uninitialized
    edges,     \* children and parents: <<p, c>> when c was computed from p
    nsWait,    \* namespace_waiting_symbols: the members their object waits for
    updated,   \* flow.updated_symbols and tracer.this_stmt_updated_symbols
    last       \* history: the last statement's target, what it changed and what it read

vars == <<now, val, ts, required, edges, nsWait, updated, last>>

Nothing == [target |-> {}, changed |-> {}, read |-> {}]

Init ==
    /\ now = 1
    /\ val = [s \in Syms |-> None]
    /\ ts = [s \in Syms |-> 0] /\ required = [s \in Syms |-> 0]
    /\ edges = {} /\ nsWait = {} /\ updated = {} /\ last = Nothing

-----------------------------------------------------------------------------
(* A step of the tracer works on a copy of the state.                      *)

W == [val |-> val, ts |-> ts, required |-> required, edges |-> edges,
      nsWait |-> nsWait, updated |-> updated, last |-> Nothing]
Becomes(w) ==
    /\ val' = w.val /\ ts' = w.ts /\ required' = w.required /\ edges' = w.edges
    /\ nsWait' = w.nsWait /\ updated' = w.updated /\ last' = w.last

Aliases(w, o) == {s \in Syms : w.val[s] = o}
Containers(w, s) == IF s \in Mems THEN Aliases(w, Owner[s]) ELSE {}
Members(w, s) == {m \in Mems : Owner[m] = w.val[s] /\ w.val[m] # None}
Children(w, s) == {c \in Syms : <<s, c>> \in w.edges}
Parents(w, s) == {p \in Syms : <<p, s>> \in w.edges}

\* The symbols reached from S by steps of Step.
Closure(S, Step(_)) ==
    LET reach[n \in 0..Cardinality(Syms)] ==
            IF n = 0 THEN S
            ELSE LET near == reach[n - 1] IN near \cup UNION {Step(s) : s \in near}
    IN reach[Cardinality(Syms)]

\* is_shallow_stale and is_waiting, while no cell has reset the baseline
ShallowStale(w, s) == w.ts[s] < w.required[s]
Waiting(w, s) == ShallowStale(w, s) \/ \E m \in w.nsWait : Owner[m] = w.val[s]

\* refresh, of each symbol of R
Refresh(w, R) ==
    [w EXCEPT !.ts = [t \in Syms |-> IF t \in R THEN now ELSE w.ts[t]],
              !.nsWait = {m \in @ : \A t \in R : w.val[t] # Owner[m]}]

-----------------------------------------------------------------------------
(* UpdateProtocol.  A walk `q` has the symbols seen and those it marked:    *)
(* stale, or told to their object; `q.from` is the state and `q.sym` the    *)
(* symbol that was updated.  Each part of the walk gives the set of the     *)
(* walks that it may end in.                                                *)

\* Step for each symbol of S, one after the other, in any order.  What is updated and
\* the aliases of an object are sets; children and members are kept in an order that
\* the model does not have.
InAnyOrder(q, S, Step(_, _)) ==
    LET after[T \in SUBSET S] ==
            IF T = {} THEN {q}
            ELSE UNION {UNION {Step(r, t) : r \in after[T \ {t}]} : t \in T}
    IN after[S]

\* _collect_updated_symbols_and_refresh_namespaces
Collected(w, S, descendants) ==
    Closure(S, LAMBDA s : Containers(w, s) \cup IF descendants THEN Members(w, s) ELSE {})
Collect(w, C) ==
    [w EXCEPT !.required = [s \in Syms |-> IF s \in C THEN 0 ELSE w.required[s]],
              !.nsWait = @ \ C, !.updated = @ \cup C, !.last.changed = C]

See(q, s) == [q EXCEPT !.seen = @ \cup {s}]
Mark(q, s) == [q EXCEPT !.stale = @ \cup {s}]

RECURSIVE ToDeps(_, _), ToContainers(_, _), ToMembers(_, _)

\* _propagate_waiting_to_deps
ToChildren(q, s) == InAnyOrder(q, Children(q.from, s) \ q.seen, ToDeps)
ToDepsPlain(q, s) ==  \* mutant: what contains a symbol is not told
    LET marked == IF s \in q.from.updated \/ s = q.sym THEN {See(q, s)}
                  ELSE ToMembers(Mark(See(q, s), s), s)
    IN IF s \in q.seen THEN {q} ELSE UNION {ToChildren(r, s) : r \in marked}
ToDeps(q, s) ==
    LET marked == IF s \in q.from.updated \/ s = q.sym THEN {See(q, s)}
                  ELSE UNION {ToMembers(r, s) : r \in ToContainers(Mark(q, s), s)}
    IN IF s \in q.seen THEN {q} ELSE UNION {ToChildren(r, s) : r \in marked}

\* _propagate_waiting_to_namespace_parents: first the objects that the object is in,
\* then what was computed from a symbol of the object.
ToContainers(q, s) ==
    LET C == Containers(q.from, s)
        waits == [See(q, s) EXCEPT !.told = @ \cup {s}]
        below == UNION {Children(q.from, a) : a \in C}
    IN IF s \in q.seen THEN {q}
       ELSE IF s \notin Mems THEN {See(q, s)}
       ELSE UNION {InAnyOrder(r, below \ r.seen, ToDeps) :
                      r \in InAnyOrder(waits, C \ waits.seen, ToContainers)}

\* _propagate_waiting_to_namespace_children
ToMembers(q, s) == InAnyOrder(q, Members(q.from, s) \ q.seen, ToDeps)

\* __call__: symbol s has been updated, from D.
Protocol(w, s, D, mutated) ==
    LET direct == IF mutated THEN Aliases(w, w.val[s]) ELSE {s}
        C == Collected(w, direct, mutated)
        w1 == Collect(w, C)
        w2 == Refresh(w1, {t \in direct \ {s} : ~Waiting(w1, t)})
        q == [from |-> w2, sym |-> s, seen |-> C \cup D, stale |-> {}, told |-> {}]
        ahead == {t \in C : ~(Children(w2, t) \subseteq q.seen)}  \* the others do nothing
    IN {[w2 EXCEPT !.required = [t \in Syms |-> IF t \in r.stale THEN now ELSE w2.required[t]],
                   !.nsWait = @ \cup r.told] : r \in InAnyOrder(q, ahead, ToChildren)}

\* update_deps: what may come out of it.  kind: "assign", "alias" (a simple
\* assignment), "augment", "mutate" or "delete"; same: is the object the one the
\* symbol had?
UpdateDeps(w, s, deps, kind, same) ==
    LET overwrite == /\ kind \in {"assign", "alias", "delete"}
                     /\ s \notin deps /\ \A d \in deps : s \notin Parents(w, d)
        D == deps \ {s}
        gone == IF overwrite THEN {<<p, s>> : p \in Parents(w, s) \ D} ELSE {}
        propagate == kind \in {"mutate", "delete"} \/ ~(same /\ w.val[s] \in Objs)
        w1 == [w EXCEPT !.edges = (@ \ gone) \cup {<<d, s>> : d \in D},
                        !.required[s] = 0, !.last.target = {s}, !.last.read = D]
        w2 == Refresh(w1, IF propagate /\ kind # "alias"
                          THEN Closure({s}, LAMBDA t : Members(w, t)) ELSE {s})
    IN {[v EXCEPT !.updated = @ \cup {s}] :
           v \in IF propagate THEN Protocol(w2, s, D, kind = "mutate") ELSE {w2}}

-----------------------------------------------------------------------------
(* Statements                                                              *)

Exists == {s \in Syms : val[s] # None}
Reads == {D \in SUBSET Exists : Cardinality(D) <= MaxDeps}

\* What a target denotes: a variable, or a member of the object of one.
Targets == Vars \cup {m \in Mems : \E x \in Vars : val[x] = Owner[m]}

\* upsert_symbol_for_name, then the update
Store(s, v, D, kind) ==
    /\ \E w \in UpdateDeps([W EXCEPT !.val[s] = v], s, D, kind, val[s] = v) :
          Cardinality(w.edges) <= MaxEdges /\ Becomes(w)
    /\ UNCHANGED now

\* s = f(D), a number
Assign(s, D) == Store(s, Atom, D, "assign")

\* s = f(D), a new object
Create(s, o, D) ==
    /\ \A t \in Syms : val[t] # o
    /\ \A m \in Mems : Owner[m] = o => val[m] = None /\ s # m
    /\ Store(s, o, D, "assign")

\* s = t
Alias(s, t) == val[t] \in Objs /\ Store(s, val[t], {t}, "alias")

\* s += f(D), a number
Augment(s, D) == val[s] = Atom /\ Store(s, Atom, D \cup {s}, "augment")

\* s.method(D), which changes the object
Mutate(s, D) == val[s] \in Objs /\ Store(s, val[s], D, "mutate")

\* The symbol is collected as garbage: mark_garbage, collect_self_garbage.  The code
\* collects when the cell has ended; until then, an update of what a deleted symbol
\* was computed from still walks through it, which is left out.
CollectedGarbage(w, s) ==
    [w EXCEPT !.val[s] = None, !.ts[s] = 0, !.required[s] = 0,
              !.edges = {e \in @ : s \notin {e[1], e[2]}},
              !.nsWait = @ \ {s}, !.updated = @ \ {s}]

\* del s
Delete(s) ==
    /\ val[s] # None
    /\ \E w \in UpdateDeps(W, s, {}, "delete", FALSE) : Becomes(CollectedGarbage(w, s))
    /\ UNCHANGED now

NextCell ==
    /\ now < MaxCells
    /\ now' = now + 1 /\ updated' = {} /\ last' = Nothing
    /\ UNCHANGED <<val, ts, required, edges, nsWait>>

Next ==
    \/ \E s \in Targets, D \in Reads :
          Assign(s, D) \/ Augment(s, D) \/ Mutate(s, D) \/ (\E o \in Objs : Create(s, o, D))
    \/ \E s \in Targets, t \in Exists : Alias(s, t)
    \/ \E s \in Targets : Delete(s)
    \/ NextCell

Spec == Init /\ [][Next]_vars

-----------------------------------------------------------------------------
(* Properties                                                              *)

TypeOK ==
    /\ now \in 1..MaxCells
    /\ val \in [Syms -> Objs \cup {Atom, None}]
    /\ ts \in [Syms -> 0..now] /\ required \in [Syms -> 0..now]
    /\ edges \subseteq Exists \X Exists
    /\ nsWait \subseteq Mems /\ updated \subseteq Syms

(* The abstract specification.                                             *)
Abstract == INSTANCE Staleness WITH
    from <- edges,
    holds <- {e \in Syms \X Mems : val[e[1]] = Owner[e[2]] /\ val[e[2]] # None},
    stale <- {s \in Syms : Waiting(W, s)},
    renewed <- {s \in Syms : ts[s] = now} \cup updated,
    last <- last

\* Every statement marks what it owes, and nothing beyond what it may.
Implements == Abstract!Spec

=============================================================================
