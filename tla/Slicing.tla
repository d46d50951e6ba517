------------------------------ MODULE Slicing ------------------------------
(***************************************************************************)
(* Backward slices, of whole cells and of single statements: the edges     *)
(* they follow (NotebookFlow.add_data_dep, for both granularities), how    *)
(* _make_slice_helper goes from a cell's id to the version that was        *)
(* current, and what a run, an edit of the notebook, and a move of a       *)
(* widget's slider do to either.                                           *)
(*                                                                         *)
(* A statement reads some symbols and then assigns one.  A version of a    *)
(* cell is named by the number of its run; the version a cell has in the   *)
(* notebook before it is ever run, if the kernel was told of it, by the    *)
(* cell's id.  Statements are named by their timestamps.                   *)
(***************************************************************************)
EXTENDS Naturals, Sequences, FiniteSets, FiniteSetsExt

CONSTANTS
    Cells,     \* ids of the notebook's cells
    Syms,      \* global symbols
    Widgets,   \* those that hold a widget
    Contents,  \* sequences of statements [use, def]
    MaxRuns,   \* bound: number of runs
    MaxEdits   \* bound: number of notifications of an edit

ASSUME SlicingAssumption ==
    /\ MaxRuns \in Nat /\ MaxEdits \in Nat
    /\ \A c \in Cells : c \notin Nat
    /\ Widgets \subseteq Syms
    /\ Contents \subseteq Seq([use : SUBSET Syms, def : Syms])

Contexts == {"dynamic", "static"}
None == <<0, 0>>  \* the uninitialized timestamp

VARIABLES
    ran,        \* _cell_by_cell_ctr: the cell and the content of each run
    text,       \* current_content of each run's version
    draft,      \* that of the version before the first run
    untracked,  \* the cells that have such a version
    edited,     \* history: the runs whose version had another text since
    par, chi,   \* cells' raw_*_parents, by version, and raw_*_children, by id
    used,       \* used_symbols, by version
    lastWrite,  \* timestamp of each symbol, without the override
    made,       \* _stmts_by_ts: the timestamps that have a statement
    slid,       \* those whose statement is a slider's
    stmtPar,    \* statements' raw_*_parents
    deferred,   \* stmt_deferred_static_parents
    override,   \* _override_timestamp of each symbol, None for none
    enabled,    \* settings: the slicing contexts
    pc, todo,   \* what the kernel does; the cells it has still to check
    edits,      \* number of notifications so far
    reads       \* history: each read, from which write

nodes == <<ran, text, draft, untracked, edited>>
edges == <<par, chi, used>>
stmts == <<made, slid, stmtPar, deferred>>
vars == <<nodes, edges, stmts, lastWrite, override, enabled, pc, todo, edits,
          reads>>

now == Len(ran)
Versions(c) == {k \in 1..now : ran[k].cell = c}
Current(c) == IF Versions(c) = {} THEN c ELSE Max(Versions(c))
CellOf(v) == IF v \in Cells THEN v ELSE ran[v].cell
TextOf(v) == IF v \in Cells THEN draft[v] ELSE text[v]

Init ==
    /\ ran = << >> /\ text = << >>
    /\ draft \in [Cells -> {<< >>}] /\ untracked \in SUBSET Cells /\ edited = {}
    /\ par = {} /\ chi = {}
    /\ used = [v \in Cells \cup (1..MaxRuns) |-> {}]
    /\ lastWrite = [s \in Syms |-> None] /\ override = [s \in Syms |-> None]
    /\ made = {} /\ slid = {} /\ stmtPar = {} /\ deferred = {}
    /\ enabled \in (SUBSET Contexts) \ {{}}
    /\ pc = "idle" /\ todo = {} /\ edits = 0
    /\ reads = {}

-----------------------------------------------------------------------------
(* Edges.                                                                  *)

IsCurrent(v) == Current(CellOf(v)) = v

\* The uses of s at statement i of version v.
Use(v, i, s) == [by |-> v, at |-> i, sym |-> s, from |-> lastWrite[s]]

\* add_data_dep between cells, for uses by one version: the edge is left out
\* when the writer's version has been replaced, or is a child of the cell; a
\* cell that uses what it writes takes over what its previous version had.
Wanted(x, U) ==
    {[ctx |-> x, child |-> u.by, parent |-> ran[u.from[1]].cell, sym |-> u.sym] :
        u \in {w \in U : IsCurrent(w.by) /\ IsCurrent(w.from[1])}}
DirectAnyCtx(E) ==
    {e \in E : /\ e.parent # CellOf(e.child)
               /\ ~\E f \in chi : /\ f.parent = CellOf(e.child)
                                  /\ f.child = e.parent}
Direct(E) ==
    {e \in E : /\ e.parent # CellOf(e.child)
               /\ ~\E f \in chi : /\ f.ctx = e.ctx
                                  /\ f.parent = CellOf(e.child)
                                  /\ f.child = e.parent}
PrevOf(c) ==
    LET before == Versions(c) \ {Current(c)}
    IN  IF before # {} THEN {Max(before)} ELSE untracked \cap {c}
Inherited(E) ==
    {[p[2] EXCEPT !.child = p[1].child] :
        p \in {q \in E \X par : /\ q[1].parent = CellOf(q[1].child)
                                /\ q[2].child \in PrevOf(q[1].parent)
                                /\ q[2].child # q[1].child
                                /\ q[2].ctx = q[1].ctx
                                /\ q[2].sym = q[1].sym}}
LinkCells(x, U) ==
    /\ par' = par \cup Direct(Wanted(x, U)) \cup Inherited(Wanted(x, U))
    /\ chi' = chi \cup {[ctx |-> e.ctx, parent |-> e.parent,
                         child |-> CellOf(e.child), sym |-> e.sym] :
                            e \in Direct(Wanted(x, U))}
    /\ used' = [v \in DOMAIN used |->
                    used[v] \cup {u.sym : u \in {w \in U : w.by = v}}]

\* add_parent_edges between statements.
LinkedOnlyCurrent(E) ==
    {e \in E : /\ e.parent # e.child
               /\ IsCurrent(e.parent[1])
               /\ ~\E f \in stmtPar : /\ f.ctx = e.ctx
                                      /\ f.child = e.parent
                                      /\ f.parent = e.child}
Linked(E) ==
    {e \in E : /\ e.parent # e.child
               /\ ~\E f \in stmtPar : /\ f.ctx = e.ctx
                                      /\ f.child = e.parent
                                      /\ f.parent = e.child}
Between(x, U) ==
    {[ctx |-> x, child |-> <<u.by, u.at>>, parent |-> u.from, sym |-> u.sym] :
        u \in U}

\* The symbols live at the start of a content, with the statements that use
\* them.  A check leaves out those a cell has already used, unless the cell is
\* the last one run.
Live(content) ==
    {p \in (DOMAIN content) \X Syms :
        p[2] \in content[p[1]].use /\ \A j \in 1..(p[1] - 1) : content[j].def # p[2]}
StaticUsesAll(v, content) ==
    {Use(v, p[1], p[2]) :
        p \in {q \in Live(content) : lastWrite[q[2]] # None}}
StaticUses(v, content) ==
    {Use(v, p[1], p[2]) :
        p \in {q \in Live(content) : /\ lastWrite[q[2]] # None
                                     /\ v = now \/ q[2] \notin used[v]}}
Defer(U) == deferred \cup Between("static", {u \in U : u.by \notin Cells})

-----------------------------------------------------------------------------
(* Runs.                                                                   *)

\* A new version, and the check before it runs, whose uses are static edges
\* of the cell at once and of its statements when they are reached.
StartRun(c, content) ==
    /\ pc = "idle" /\ now < MaxRuns
    /\ ran' = Append(ran, [cell |-> c, content |-> content])
    /\ text' = Append(text, content)
    /\ pc' = "precheck"
    /\ UNCHANGED <<draft, untracked, edited, edges, stmts, lastWrite, override,
                   enabled, todo, edits, reads>>

Precheck ==
    /\ pc = "precheck" /\ pc' = "run"
    /\ IF "static" \in enabled
       THEN /\ LinkCells("static", StaticUses(now, text[now]))
            /\ deferred' = Defer(StaticUses(now, text[now]))
       ELSE UNCHANGED <<edges, deferred>>
    /\ UNCHANGED <<nodes, made, slid, stmtPar, lastWrite, override, enabled,
                   todo, edits, reads>>

Upcoming == Cardinality({t \in made \ slid : t[1] = now}) + 1
Stmt == ran[now].content[Upcoming]
Defined == {s \in Stmt.use : lastWrite[s] # None}

\* A statement is tracked with its deferred edges, reads, and then assigns
\* unless a name it reads is undefined, which ends the run.
StmtEdges ==
    LET here == <<now, Upcoming>>
        late == {e \in deferred : e.child = here}
        uses == {Use(now, Upcoming, s) : s \in Defined}
    IN  /\ made' = made \cup {here}
        /\ deferred' = deferred \ late
        /\ stmtPar' = stmtPar \cup Linked(late) \cup
                          Linked(Between("dynamic", uses))
        /\ LinkCells("dynamic", uses)
        /\ reads' = reads \cup
               {[at |-> here, sym |-> u.sym, from |-> u.from,
                 over |-> override[u.sym]] : u \in uses}

RunStmt ==
    /\ pc = "run" /\ Upcoming <= Len(ran[now].content)
    /\ Defined = Stmt.use
    /\ StmtEdges
    /\ lastWrite' = [lastWrite EXCEPT ![Stmt.def] = <<now, Upcoming>>]
    /\ override' = [override EXCEPT ![Stmt.def] = None]
    /\ UNCHANGED <<nodes, slid, enabled, pc, todo, edits>>

RunStmtFails ==
    /\ pc = "run" /\ Upcoming <= Len(ran[now].content)
    /\ Defined # Stmt.use
    /\ StmtEdges
    /\ pc' = "cleanup"
    /\ UNCHANGED <<nodes, slid, lastWrite, override, enabled, todo, edits>>

\* The clean-up: what only the previous version had as a parent does not list
\* the cell as a child any more.
CleanUp ==
    /\ \/ pc = "cleanup"
       \/ pc = "run" /\ Upcoming > Len(ran[now].content)
    /\ chi' = chi \ {[ctx |-> e.ctx, parent |-> e.parent,
                      child |-> ran[now].cell, sym |-> e.sym] :
                        e \in {f \in par : /\ f.ctx \in enabled
                                           /\ f.child \in PrevOf(ran[now].cell)
                                           /\ [f EXCEPT !.child = now] \notin par}}
    /\ pc' = "postcheck"
    /\ UNCHANGED <<nodes, par, used, stmts, lastWrite, override, enabled, todo,
                   edits, reads>>

Postcheck ==
    /\ pc = "postcheck" /\ pc' = "idle"
    /\ IF "static" \in enabled
       THEN /\ LinkCells("static", StaticUses(now, text[now]))
            /\ deferred' = Defer(StaticUses(now, text[now]))
       ELSE UNCHANGED <<edges, deferred>>
    /\ UNCHANGED <<nodes, made, slid, stmtPar, lastWrite, override, enabled,
                   todo, edits, reads>>

-----------------------------------------------------------------------------
(* Edits and widgets.                                                      *)

\* The kernel hears of an edit: the current version of c has another text, all
\* of the notebook's cells are known, and those that were are checked.
Edit(c, content) ==
    /\ pc = "idle" /\ edits < MaxEdits
    /\ Versions(c) # {} \/ c \in untracked
    /\ content # TextOf(Current(c))
    /\ IF Versions(c) = {}
       THEN /\ draft' = [draft EXCEPT ![c] = content]
            /\ UNCHANGED <<text, edited>>
       ELSE /\ text' = [text EXCEPT ![Current(c)] = content]
            /\ edited' = edited \cup {Current(c)}
            /\ draft' = draft
    /\ todo' = {d \in Cells : Versions(d) # {} \/ d \in untracked}
    /\ untracked' = untracked \cup {d \in Cells : Versions(d) = {}}
    /\ pc' = "checking" /\ edits' = edits + 1
    /\ UNCHANGED <<ran, edges, stmts, lastWrite, override, enabled, reads>>

CheckNext(c) ==
    /\ pc = "checking" /\ c \in todo
    /\ LinkCells("static", StaticUses(Current(c), TextOf(Current(c))))
    /\ deferred' = Defer(StaticUses(Current(c), TextOf(Current(c))))
    /\ todo' = todo \ {c}
    /\ pc' = IF todo = {c} THEN "idle" ELSE pc
    /\ UNCHANGED <<nodes, made, slid, stmtPar, lastWrite, override, enabled,
                   edits, reads>>

\* A slider of the widget held by w moves: an assignment is tracked behind the
\* statements of the cell that made the widget, in place of an earlier one,
\* and the widget's statement depends on it.
Behind(w) == <<lastWrite[w][1], Len(text[lastWrite[w][1]]) + 1>>
MoveSlider(w) ==
    /\ pc = "idle" /\ w \in Widgets /\ lastWrite[w] # None
    /\ override' = [override EXCEPT ![w] = Behind(w)]
    /\ made' = made \cup {Behind(w)} /\ slid' = slid \cup {Behind(w)}
    /\ LinkCells("dynamic", {Use(lastWrite[w][1], 0, w)})
    /\ stmtPar' = stmtPar \cup
           Linked({[ctx |-> "dynamic", child |-> lastWrite[w],
                    parent |-> Behind(w), sym |-> w]})
    /\ UNCHANGED <<nodes, deferred, lastWrite, enabled, pc, todo, edits, reads>>

Next ==
    \/ \E c \in Cells, content \in Contents : StartRun(c, content)
    \/ Precheck \/ RunStmt \/ RunStmtFails \/ CleanUp \/ Postcheck
    \/ \E c \in Cells, content \in Contents : Edit(c, content)
    \/ \E c \in todo : CheckNext(c)
    \/ \E w \in Widgets : MoveSlider(w)

Spec == Init /\ [][Next]_vars

-----------------------------------------------------------------------------
(* Slices.                                                                 *)

\* From the current version back to the last one that is no later than k: a
\* set, empty when there is none left.
AsOf(c, k) ==
    LET older == {j \in Versions(c) : j <= k}
    IN  IF older # {} THEN {Max(older)} ELSE untracked \cap {c}

ParentIds(v) == {e.parent : e \in {f \in par : f.ctx \in enabled /\ f.child = v}}
ParentsOfCell(v) == UNION {AsOf(c, IF v \in Cells THEN 0 ELSE v) : c \in ParentIds(v)}
CellSteps == UNION {{v} \X ParentsOfCell(v) : v \in Cells \cup (1..now)}
StmtSteps == {<<e.child, e.parent>> : e \in {f \in stmtPar : f.ctx \in enabled}}

\* What N rounds of following the steps R reach from S.
Round(S, R) == UNION {{v} \cup {p[2] : p \in {q \in R : q[1] = v}} : v \in S}
Backward(S, R, N) ==
    LET slice[n \in 0..N] == IF n = 0 THEN S ELSE Round(slice[n - 1], R)
    IN  slice[N]
CellSlice(k) == Backward({k}, CellSteps, MaxRuns + 1)
StmtSlice(T) == Backward(T, StmtSteps, Cardinality(made))

\* What a statement slice of a version starts from: as many statements as its
\* text has now, and the slider's; and that of a symbol, its last write and the
\* slider's move after it.
StmtsOf(k) ==
    LET extra == IF \E t \in slid : t[1] = k THEN 1 ELSE 0
    IN  {<<k, i>> : i \in 1..(Len(text[k]) + extra)}
CodeSeeds(s) == {lastWrite[s], override[s]} \ {None}

-----------------------------------------------------------------------------
(* Properties.                                                             *)

Edited(k) == k \in edited
HasRead(t, s) == \E r \in reads : r.at = t /\ r.sym = s
Failed(k) ==
    \E i \in DOMAIN ran[k].content : \E s \in ran[k].content[i].use :
        ~HasRead(<<k, i>>, s)

\* The statement slice of a statement can be run on its own: with dynamic
\* slicing on, every read of every statement finds the statement that made
\* the value, and the widget's slider where it was moved before the read, in
\* the slice.
StmtSliceRecomputes ==
    pc = "idle" /\ "dynamic" \in enabled => \A r \in reads :
        /\ r.from \in StmtSlice({r.at})
        /\ Edited(r.from[1]) \/ r.from \notin slid
        /\ Edited(r.from[1]) \/ r.over \in StmtSlice({r.at}) \cup {None}

\* The cell slice of a run can be run on its own, with the same results, as
\* long as the cells it read from were not run again before it, and none
\* of them reads from it.
CellSliceRecomputes ==
    pc = "idle" /\ "dynamic" \in enabled => \A r \in reads :
        \/ r.from[1] \in CellSlice(r.at[1])
        \/ r.from[1] # Max({j \in Versions(ran[r.from[1]].cell) : j <= r.at[1]})
        \/ \E q \in reads : /\ ran[q.at[1]].cell = ran[r.from[1]].cell
                            /\ ran[q.from[1]].cell = ran[r.at[1]].cell

\* Every slice can be made, and names executed versions only, no later than
\* the run it is the slice of: going back from a parent's current version
\* finds an old enough one, and every statement to start from was tracked,
\* unless a cell of the slice was edited since or stopped at an undefined name.
Sliceable(k) ==
    /\ \A v \in CellSlice(k) : \A c \in ParentIds(v) :
          \E j \in AsOf(c, v) : j \in 1..v
    /\ StmtsOf(k) \subseteq made
SliceExists ==
    pc = "idle" =>
        /\ \A k \in 1..now :
              \/ \E v \in CellSlice(k) : v \in Cells \/ Edited(v) \/ Failed(v)
              \/ Sliceable(k)
        /\ \A s \in Syms : CodeSeeds(s) \subseteq made
=============================================================================
