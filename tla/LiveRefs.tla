------------------------------- MODULE LiveRefs -------------------------------
(***************************************************************************)
(* Static liveness of a cell, next to what the cell may do when it runs.   *)
(*                                                                         *)
(* ComputeLiveSymbolRefs visits a cell's statements in order and collects  *)
(* the references that are live (the cell reads them from the notebook),   *)
(* dead (it gives them a value of its own) and modified.  A step of this   *)
(* specification adds one statement, or the head, the middle or the end of *)
(* a block: `visitor` is then what the visitor has collected, and `paths`  *)
(* the runs that the statements allow, each with what it has written, what *)
(* it has read of the notebook and which functions it has called.          *)
(*                                                                         *)
(* A reference is a name or an attribute of a name.  A cell defines a      *)
(* function at most once.  Expressions are what they read.                 *)
(***************************************************************************)
EXTENDS Naturals, Sequences, FiniteSets, SequencesExt, FiniteSetsExt

CONSTANTS
    Names,     \* global names, but for those of functions
    Attrs,     \* attributes of names, as references
    Base,      \* the name of an attribute's object
    Funs,      \* names that only `def` binds
    Bodies,    \* what a function's body may be: params, reads and calls
    Defined,   \* the functions that other cells have defined, with their bodies
    Tests,     \* what a block's head, a default or an argument may read
    MaxStmts,  \* bound: statements, blocks included
    MaxNest    \* bound: blocks in blocks

Body == [params : SUBSET Names, reads : SUBSET (Names \cup Attrs), calls : SUBSET Funs]

ASSUME LiveRefsAssumption ==
    /\ IsFiniteSet(Names) /\ IsFiniteSet(Attrs) /\ IsFiniteSet(Funs)
    /\ Base \in [Attrs -> Names]
    /\ Names \cap Attrs = {} /\ Funs \cap (Names \cup Attrs) = {}
    /\ Bodies \subseteq Body
    /\ DOMAIN Defined \subseteq Funs /\ Defined \in [DOMAIN Defined -> Body]
    /\ Tests \subseteq SUBSET (Names \cup Attrs)
    /\ MaxStmts \in Nat /\ MaxNest \in Nat

Refs == Names \cup Attrs \cup Funs
AtMostOne(S) == {{}} \cup {{s} : s \in S}
Reads == AtMostOne(Names \cup Attrs)

VARIABLES
    visitor,  \* live, dead, modified
    funcs,    \* _func_ast_by_name
    blocks,   \* the blocks around, innermost last
    paths,    \* runs of the innermost block so far: wrote, read, and as calls
              \* the functions called, each after what the run had written and
              \* with the functions that the visitor had seen
    hidden,   \* history: references that a lambda or a comprehension hid
    inlined,  \* history: references that were found in the body of a function
    failed,   \* the visitor did not come back: _check_one_cell gives up
    count     \* statements so far

vars == <<visitor, funcs, blocks, paths, hidden, inlined, failed, count>>

-----------------------------------------------------------------------------
(* The visitor                                                             *)

\* Is r hidden by D?  An attribute is when its object is.
Covers(D, r) == r \in D \/ (r \in Attrs /\ Base[r] \in D)
Uncovered(S, D) == {r \in S : ~Covers(D, r)}

\* visit_Name, visit_Attribute: a reference in load context
Load(v, S) == [v EXCEPT !.live = @ \cup Uncovered(S, v.dead)]

\* visit_Assign_impl; `aug`: the target of an augmented assignment
AssignImpl(v, targets, aug, reads) ==
    LET live == Uncovered(aug \cup reads \cup {Base[t] : t \in targets \cap Attrs}, v.dead)
    IN [v EXCEPT !.live = @ \cup live,
                 !.dead = @ \cup (targets \ live),
                 !.modified = @ \cup (live \cap aug)]

\* generic_visit_branch_or_loop, after the body and the orelse
BranchKillsEither(v, body, orelse) ==  \* mutant: dead after either
    [live |-> v.live \cup ((body.live \cup orelse.live) \ v.dead),
     dead |-> v.dead \cup body.dead \cup orelse.dead,
     modified |-> v.modified \cup orelse.modified \cup body.dead \cup orelse.dead]
BranchKeepsLive(v, body, orelse) ==  \* mutant: live in a branch is live
    [live |-> v.live \cup body.live \cup orelse.live,
     dead |-> v.dead \cup (body.dead \cap orelse.dead),
     modified |-> v.modified \cup orelse.modified \cup body.dead \cup orelse.dead]
BranchOrLoop(v, body, orelse) ==
    [live |-> v.live \cup ((body.live \cup orelse.live) \ v.dead),
     dead |-> v.dead \cup (body.dead \cap orelse.dead),
     modified |-> v.modified \cup orelse.modified \cup body.dead \cup orelse.dead]

\* generic_visit_comprehension: [elt for target in iter]
Comprehension(v, target, iter, elt) ==
    [v EXCEPT !.live = @ \cup Uncovered(iter \cup elt, v.dead \cup {target})]

\* visit_Lambda visits a default in kill context, and not the body: an attribute is
\* live all the same, but every name that the default reads is taken as written.
NameOf(r) == IF r \in Attrs THEN Base[r] ELSE r
LambdaDefault(v, default) ==
    [v EXCEPT !.live = @ \cup Uncovered({default} \cap Attrs, v.dead),
              !.dead = @ \cup {NameOf(default)}]

\* The functions reached from S by calls: next[g] are those that g calls.
Further(S, next) == S \cup UNION {next[g] : g \in S}
Reach(S, next) ==
    LET reach[n \in 0..Cardinality(Funs)] ==
            IF n = 0 THEN S ELSE Further(reach[n - 1], next)
    IN reach[Cardinality(Funs)]
CallsIn(F) == [g \in Funs |-> IF g \in DOMAIN F THEN F[g].calls ELSE {}]
Free(body) == Uncovered(body.reads \cup body.calls, body.params)

\* The functions whose bodies are visited for a call of f, in the functions F.
Called(F, f) == Reach({f}, CallsIn(F)) \cap DOMAIN F
Recurs(F, f) == \E g \in Called(F, f) : \E h \in F[g].calls : g \in Called(F, h)

\* visit_Call of a name: args, the name, and the body if the cell has defined it
BodyLive(F, f) == UNION {Free(F[g]) : g \in Called(F, f)}
VisitCall(v, F, f, args) ==
    LET w == Load(v, args \cup {f}) IN [w EXCEPT !.live = @ \cup BodyLive(F, f)]

\* _compute_call_chain_live_symbols_and_cells: what the functions of other cells
\* that are called, and those that they call, read is live.
ChainFirstOnly(S) ==  \* mutant: what a called function calls is not followed
    UNION {Free(Defined[g]) : g \in S \cap DOMAIN Defined}
Chain(S) == UNION {Free(Defined[g]) : g \in Reach(S, CallsIn(Defined)) \cap DOMAIN Defined}

\* The live symbols of the statements so far; of functions, only calls are live.
LiveSymbols == visitor.live \cup Chain(visitor.live \cap Funs)

-----------------------------------------------------------------------------
(* Runs                                                                    *)

Start == {[wrote |-> {}, read |-> {}, calls |-> {}]}
Then(p, q) == [wrote |-> p.wrote \cup q.wrote, read |-> p.read \cup Uncovered(q.read, p.wrote),
               calls |-> p.calls \cup {[c EXCEPT !.after = @ \cup p.wrote] : c \in q.calls}]
Compose(P, Q) == {Then(p, q) : p \in P, q \in Q}
Do(read, wrote) == {[wrote |-> wrote, read |-> read, calls |-> {}]}
Call(F, f, args) == {[wrote |-> {}, read |-> args \cup {f},
                      calls |-> {[fn |-> f, after |-> {}, seen |-> DOMAIN F]}]}

\* A second turn of a loop reads and writes nothing that more turns would add to.
Turns(Q) == Q \cup Compose(Q, Q)
Loop(Q) == Start \cup Turns(Q)

\* What call c reads of the notebook: it runs the bodies that this run has given
\* its functions, or those of other cells.  Two kinds of bodies are left out.  The
\* checker takes what a function of another cell calls from the notebook as it is
\* before the run, though this run may have redefined it; and a function that a
\* loop defines below the call has no body when the call is visited.
Own(c) == c.after \cap c.seen
Others(c) == DOMAIN Defined \ c.after
Runs(c, g) == IF g \in Own(c) THEN funcs[g] ELSE Defined[g]
Callees(c) == [g \in Funs |-> CASE g \in Own(c) -> funcs[g].calls
                                 [] g \in Others(c) -> Defined[g].calls \ c.after
                                 [] OTHER -> {}]
CallReads(c) ==
    UNION {Uncovered(Free(Runs(c, g)), c.after) :
           g \in Reach({c.fn}, Callees(c)) \cap (Own(c) \cup Others(c))}
RunReads(p) == p.read \cup UNION {CallReads(c) : c \in p.calls}

-----------------------------------------------------------------------------
Init ==
    /\ visitor = [live |-> {}, dead |-> {}, modified |-> {}]
    /\ funcs = << >> /\ blocks = << >> /\ paths = Start
    /\ hidden = {} /\ inlined = {} /\ failed = FALSE /\ count = 0

Write == /\ count < MaxStmts /\ count' = count + 1 /\ ~failed

\* targets = expression; an import is an assignment that reads nothing.
Assign(targets, reads) ==
    /\ Write
    /\ visitor' = AssignImpl(visitor, targets, {}, reads)
    /\ paths' = Compose(paths, Do(reads \cup {Base[t] : t \in targets \cap Attrs}, targets))
    /\ UNCHANGED <<funcs, blocks, hidden, inlined, failed>>

AugAssign(target, reads) ==
    /\ Write
    /\ visitor' = AssignImpl(visitor, {}, {target}, reads)
    /\ paths' = Compose(paths, Do(reads \cup {target}, {target}))
    /\ UNCHANGED <<funcs, blocks, hidden, inlined, failed>>

ListComp(target, iter, elt) ==
    /\ Write
    /\ visitor' = Comprehension(visitor, target, iter, elt)
    /\ paths' = Compose(paths, Do(iter \cup Uncovered(elt, {target}), {}))
    /\ hidden' = hidden \cup {r \in iter : Covers({target}, r)}
    /\ UNCHANGED <<funcs, blocks, inlined, failed>>

Lambda(default) ==
    /\ Write
    /\ visitor' = LambdaDefault(visitor, default)
    /\ paths' = Compose(paths, Do({default}, {}))
    /\ hidden' = hidden \cup {r \in Names \cup Attrs : Covers({NameOf(default)}, r)}
    /\ UNCHANGED <<funcs, blocks, inlined, failed>>

FunctionDef(f, body, defaults) ==
    /\ Write /\ f \notin DOMAIN funcs
    /\ LET v == Load(visitor, defaults) IN visitor' = [v EXCEPT !.dead = @ \cup {f}]
    /\ funcs' = [g \in DOMAIN funcs \cup {f} |-> IF g = f THEN body ELSE funcs[g]]
    /\ paths' = Compose(paths, Do(defaults, {f}))
    /\ UNCHANGED <<blocks, hidden, inlined, failed>>

\* _visiting_func_calls is never added to: the visitor follows a recursion for ever.
CallFunction(f, args) ==
    /\ Write
    /\ IF Recurs(funcs, f)
       THEN failed' = TRUE /\ UNCHANGED <<visitor, inlined, paths>>
       ELSE /\ visitor' = VisitCall(visitor, funcs, f, args)
            /\ inlined' = inlined \cup BodyLive(funcs, f)
            /\ paths' = Compose(paths, Call(funcs, f, args))
            /\ UNCHANGED failed
    /\ UNCHANGED <<funcs, blocks, hidden>>

\* if, while (no target) and for: the test or the iterable, then the body
BeginBlock(loop, test, target) ==
    /\ Write /\ Len(blocks) < MaxNest
    /\ target # {} => loop
    /\ LET v == Load(visitor, test)
       IN /\ blocks' = Append(blocks, [outer |-> v, before |-> Compose(paths, Do(test, {})),
                                       loop |-> loop, target |-> target,
                                       body |-> << >>, runs |-> {}])
          /\ visitor' = [live |-> {}, dead |-> target, modified |-> v.modified]
    /\ paths' = Do({}, target)
    /\ UNCHANGED <<funcs, hidden, inlined, failed>>

Else ==
    /\ blocks # << >> /\ Last(blocks).body = << >> /\ ~failed
    /\ blocks' = [blocks EXCEPT ![Len(blocks)].body = <<visitor>>, ![Len(blocks)].runs = paths]
    /\ visitor' = [visitor EXCEPT !.live = {}, !.dead = {}]
    /\ paths' = Start
    /\ UNCHANGED <<funcs, hidden, inlined, failed, count>>

EndBlock ==
    /\ blocks # << >> /\ Last(blocks).body # << >> /\ ~failed
    /\ LET b == Last(blocks)
           \* a `break` at the end of the body leaves a loop without its else
           inner == IF b.loop THEN Compose(Loop(b.runs), paths) \cup Turns(b.runs)
                    ELSE b.runs \cup paths
       IN /\ visitor' = BranchOrLoop(b.outer, b.body[1], visitor)
          /\ paths' = Compose(b.before, inner)
    /\ blocks' = Front(blocks)
    /\ UNCHANGED <<funcs, hidden, inlined, failed, count>>

Next ==
    \/ \E r \in Reads, t \in Names \cup Attrs : Assign({t}, r)
    \/ \E r \in Tests : Assign(Names, r) \/ (\E t \in Names \cup Attrs : AugAssign(t, r))
    \/ \E r \in Names \cup Attrs : Lambda(r)
    \/ \E r \in Reads, t \in Names, e \in Tests : ListComp(t, r, e)
    \/ \E f \in Funs, r \in Tests : CallFunction(f, r) \/ (\E b \in Bodies : FunctionDef(f, b, r))
    \/ \E l \in BOOLEAN, r \in Tests, t \in AtMostOne(Names) : BeginBlock(l, r, t)
    \/ Else
    \/ EndBlock

Spec == Init /\ [][Next]_vars

-----------------------------------------------------------------------------
(* Properties                                                              *)

TypeOK ==
    /\ visitor \in [live : SUBSET Refs, dead : SUBSET Refs, modified : SUBSET Refs]
    /\ DOMAIN funcs \subseteq Funs
    /\ Len(blocks) <= MaxNest /\ count \in 0..MaxStmts
    /\ \A p \in paths : /\ p.wrote \subseteq Refs /\ p.read \subseteq Refs
                       /\ \A c \in p.calls :
                             c.fn \in Funs /\ c.after \subseteq Refs /\ c.seen \subseteq Funs
    /\ hidden \subseteq Refs /\ inlined \subseteq Refs /\ failed \in BOOLEAN

\* Whatever a run of the cell reads of the notebook, in its own statements or in the
\* functions it calls, is live: a change of it makes the cell ready.  Only the names
\* in a lambda's defaults, with their attributes, and an iterable named like its
\* target are missed, and what CallReads leaves out.
ReadsAreLive ==
    \E known \in {LiveSymbols \cup hidden} : \A p \in paths : RunReads(p) \subseteq known

\* What is dead has a value of the cell's own in every run, but for the names in a
\* lambda's defaults.
DeadIsWritten == \A p \in paths : visitor.dead \subseteq p.wrote \cup hidden

\* A live name is read by some run, but for what a function's body reads.
LiveIsRead ==
    \A r \in visitor.live \cap Names : r \in inlined \/ \E p \in paths : r \in p.read

===============================================================================
