-------------------------------- MODULE Check --------------------------------
(***************************************************************************)
(* The frontend checker: after a cell has run, and after the notebook has  *)
(* been edited, which cells are ready to run again, which have to wait,    *)
(* and for what.                                                           *)
(*                                                                         *)
(* A content is one statement that reads some variables and writes one or  *)
(* none, a new object each time, which may be one it reads; or a %flow     *)
(* magic, which sets the settings that decide which cells matter.  Cells   *)
(* that the notebook does not contain yet have position 0.                 *)
(***************************************************************************)
EXTENDS Naturals, Sequences, FiniteSets, FiniteSetsExt, SequencesExt

CONSTANTS
    Cells,      \* ids of cells
    Syms,       \* global variables
    Notebooks,  \* initial notebooks: [cells: a sequence of <<cell, content>>,
                \* sets: their initial settings, and as bounds runs and edits]
    Contents,   \* what an edit may make of a cell: [reads, writes, sets]
    Settings    \* [schedule, inOrder, pull]

Content == [reads : SUBSET Syms, writes : {{}} \cup {{s} : s \in Syms}, sets : SUBSET Settings]

ASSUME CheckAssumption ==
    /\ IsFiniteSet(Cells)
    /\ \A nb \in Notebooks : /\ nb.cells \in Seq(Cells \X Content) /\ nb.sets \subseteq Settings
                            /\ nb.runs \in Nat /\ nb.edits \in Nat
    /\ Contents \subseteq Content
    /\ \A s \in Settings :
          s.schedule \in {"liveness_based", "dag_based", "hybrid_dag_liveness_based"}

VARIABLES
    set,       \* mut_settings: exec_schedule, flow_order, pull_reactive_updates
    content,   \* current_content of each cell
    pos,       \* _position_by_cell_id
    byPos,     \* the cells that _cell_id_by_position leads to
    ranBy,     \* _cell_by_cell_ctr: the cell of each run
    ctr,       \* cell_ctr of the current version of each cell, 0 before it runs
    ts,        \* timestamp of each symbol, 0 when uninitialized
    writes,    \* updated_timestamps of each symbol, by run
    required,  \* required_timestamp of each symbol, 0 when uninitialized
    deps,      \* parents of symbols: <<parent, child, run>>
    edges,     \* raw_*_parents of cells
    used,      \* used_symbols of cells
    live,      \* last_check_result.live of cells
    removed,   \* static_removed_symbols of cells
    linked,    \* cells checked since they last ran: last_check_cell_ctr
    seen,      \* last_check_content of cells
    modified,  \* last_check_result.modified of cells
    wasReady,  \* cells whose _ready is set
    cache,     \* is_ready_or_waiting_at_position_cache of symbols: <<position, answer>>
    result,    \* the last checker result
    runs,      \* bound: runs left
    edits,     \* bound: edits of the notebook left
    edited,    \* history: has the notebook been edited?
    moved,     \* history: has the notebook changed since the last run?
    ranAs      \* the content each cell last ran, with its statement

notebook == <<set, content, pos, byPos>>
symbols == <<writes, ts, required, deps>>
links == <<edges, used, live, removed, linked, seen, modified>>
vars == <<notebook, ranBy, ctr, symbols, links, wasReady, cache, result, runs, edits, edited, moved, ranAs>>

Contexts == {"dynamic", "static"}
Nothing == [reads |-> {}, writes |-> {}, sets |-> {}]
NoResult == [waiting |-> {}, ready |-> {}, newReady |-> {}, makers |-> {},
             parents |-> {}, stale |-> {}, staleBy |-> {}, fresh |-> FALSE]
NoAnswers == [s \in Syms |-> {}]

\* The least subset of U that has what it asks for.
Least(U, asks(_)) == {u \in U : \A T \in SUBSET U : asks(T) \subseteq T => u \in T}

now == Len(ranBy)
LastRun == {ranBy[k] : k \in {now} \ {0}}
Present == {c \in Cells : pos[c] # 0}

Init ==
    /\ \E nb \in Notebooks :
          /\ pos = [c \in Cells |-> Max({i \in DOMAIN nb.cells : nb.cells[i][1] = c} \cup {0})]
          /\ content = [c \in Cells |-> IF pos[c] # 0 THEN nb.cells[pos[c]][2] ELSE Nothing]
          /\ set \in nb.sets /\ runs = nb.runs /\ edits = nb.edits
    /\ byPos = {} /\ ranBy = << >> /\ ctr = [c \in Cells |-> 0]
    /\ writes = [s \in Syms |-> {}] /\ ts = [s \in Syms |-> 0] /\ required = [s \in Syms |-> 0] /\ deps = {}
    /\ edges = {} /\ used = [c \in Cells |-> {}] /\ live = [c \in Cells |-> {}]
    /\ removed = [c \in Cells |-> {}] /\ linked = {} /\ wasReady = {}
    /\ seen = [c \in Cells |-> Nothing] /\ modified = [c \in Cells |-> {}]
    /\ cache = NoAnswers
    /\ result = NoResult /\ edited = FALSE /\ moved = FALSE
    /\ ranAs = [c \in Cells |-> Nothing]

-----------------------------------------------------------------------------
(* Positions and dependencies between cells.                               *)

PosOf(k) == pos[ranBy[k]]
Above(p, c) == set.inOrder => pos[p] < pos[c]

Undirected == [c \in Cells |-> {e \in edges : e.child = c}]  \* mutant

\* directional_parents, with the symbols they are for
Directional == [c \in Cells |-> {e \in edges : e.child = c /\ Above(e.parent, c)}]
SymsOf(P, e) == {f.sym : f \in {g \in P[e.child] : g.ctx = e.ctx /\ g.parent = e.parent}}

\* The resolved live symbols of a cell.
Live(c) == {s \in content[c].reads : writes[s] # {}}
Unresolved(c) == content[c].reads \ Live(c)

\* The edges for reads of S by c: to the cell that wrote last, if that run's
\* version is current, and never back to a child.
EdgesTo(E, x, c, S) ==
    {e \in [ctx : {x}, child : {c}, parent : Cells \ {c}, sym : S] :
        /\ writes[e.sym] # {} /\ ctr[e.parent] = ts[e.sym]
        /\ \A f \in E : f.ctx = x /\ f.parent = c => f.child # e.parent}

\* The symbols that a cell gives a value of its own, dead to its checker.
Kills(c) == content[c].writes \ content[c].reads

\* The symbols a check may record: for any but the last cell run, not those
\* the cell is known to use.
Recordable(c, known) == IF ctr[c] \in {0, now} THEN Live(c) ELSE Live(c) \ known

\* The cells of the notebook in order.
Ordered == [i \in 1..Cardinality(Present) |-> CHOOSE c \in Cells : pos[c] = i]

-----------------------------------------------------------------------------
(* Staleness of symbols at a position.                                     *)

IsWaiting(s) == ts[s] < required[s]

\* The answers that still count when a new cell runs: none.
KeepAnswers == cache  \* mutant
DropAnswers == NoAnswers

Stored(k, s, p, a) == [k EXCEPT ![s] = {x \in @ : x[1] # p} \cup {<<p, a>>}]

\* is_waiting_at_position with its cache, which answers FALSE while the answer
\* is being computed.
Caches == [Syms -> SUBSET (Nat \X BOOLEAN)]
\* The parents that count: introduced, and written, above p.
Introduced(s, p) == {d \in deps : /\ d[2] = s /\ PosOf(d[3]) <= p
                                  /\ \E u \in writes[d[1]] : PosOf(u) <= PosOf(d[3])}
HasNewer(s, p) == \E d \in Introduced(s, p) : \E u \in writes[d[1]] :
                     PosOf(u) <= PosOf(d[3]) /\ u > d[3]
WaitingAt(cached, sym, position) ==
    LET at[k \in Caches, s \in Syms, p \in Nat] ==
            LET known == {x \in k[s] : x[1] = p}
                ask(r, d) == IF r.ans THEN r ELSE at[r.cache, d[1], PosOf(d[3])]
                from == Stored(k, s, p, FALSE)
                r == IF HasNewer(s, p) THEN [ans |-> TRUE, cache |-> from]
                     ELSE FoldSet(LAMBDA d, acc : ask(acc, d),
                                  [ans |-> FALSE, cache |-> from], Introduced(s, p))
            IN  IF ~IsWaiting(s) THEN [ans |-> FALSE, cache |-> k]
                ELSE IF ~set.inOrder THEN [ans |-> TRUE, cache |-> k]
                ELSE IF known # {} THEN [ans |-> <<p, TRUE>> \in known, cache |-> k]
                ELSE [ans |-> r.ans, cache |-> Stored(r.cache, s, p, r.ans)]
    IN  at[cached, sym, position]

\* The live symbols of the cells of cs that wait: pairs <<cell, symbol>>.
WaitingSyms(k, cs) ==
    FoldLeft(LAMBDA acc, c :
                FoldSet(LAMBDA s, a :
                            LET r == WaitingAt(a.cache, s, pos[c])
                            IN  [cache |-> r.cache,
                                 found |-> IF r.ans THEN a.found \cup {<<c, s>>} ELSE a.found],
                        acc, Live(c)),
             [cache |-> k, found |-> {}], cs)

-----------------------------------------------------------------------------
(* Readiness.                                                              *)

Liveness == set.schedule = "liveness_based"
Hybrid == set.schedule = "hybrid_dag_liveness_based"

LowestOfAll(P, e) == set.inOrder => \A f \in P[e.child] : pos[f.parent] <= pos[e.parent]  \* mutant

\* In order, an edge counts only if its parent is the lowest of those whose
\* symbols have the same timestamp.
Lowest(P, e) ==
    LET gone == removed[e.child]
    IN  set.inOrder =>
            \E s \in SymsOf(P, e) \ gone : \A f \in P[e.child] :
                f.sym \notin gone /\ ts[f.sym] = ts[s] => pos[f.parent] <= pos[e.parent]

\* A static edge is skipped in favour of a lower parent for the same symbols.
Shadowed(P, e) ==
    /\ set.inOrder /\ e.ctx = "static"
    /\ \E f \in P[e.child] : /\ f.ctx = "static" /\ pos[f.parent] > pos[e.parent]
                            /\ SymsOf(P, e) \ removed[e.child] \subseteq SymsOf(P, f)

\* The parents whose newer run makes a cell ready, by dag.
NewerParents(P, c) ==
    {e.parent : e \in {f \in P[c] :
        /\ ctr[f.parent] > ctr[c]
        /\ set.pull \/ \E s \in SymsOf(P, f) \ removed[c] : ts[s] = ctr[f.parent]
        /\ Lowest(P, f) /\ ~Shadowed(P, f)}}

\* The newer runs whose values a cell reads, by liveness.
NewerReads(P, c) ==
    {ts[s] : s \in {r \in Live(c) :
        /\ ts[r] > ctr[c]
        /\ set.inOrder => pos[c] >= PosOf(ts[r])
        /\ Hybrid /\ set.inOrder =>
              /\ \E e \in P[c] : e.sym = r
              /\ \A e \in P[c] : e.sym = r => PosOf(ts[r]) >= pos[e.parent]}}

Newer(P, c) ==
    (IF Liveness THEN {} ELSE {ctr[p] : p \in NewerParents(P, c)}) \cup
    (IF Liveness \/ (Hybrid /\ set.inOrder) THEN NewerReads(P, c) ELSE {})

\* A cell waits if it has a parent that is ready or waits itself.
Parents(P, c) == {e.parent : e \in P[c]}
Waiters(P, S, W) ==
    Least(Present, LAMBDA T : W \cup {c \in Present : Parents(P, c) \cap (S \cup T) # {}})

\* What makes a waiting cell ready: its parents that are out of date, or the
\* cells that would write what it waits for; through waiting ones to others.
MakersOf(P, c, S, W, found) ==
    {m \in (IF Liveness THEN {d \in Present : \E s \in Kills(d) : <<c, s>> \in found}
            ELSE Parents(P, c) \cap (S \cup W)) \ LastRun : Above(m, c)}
LinkOnce(direct, W) == direct
Link(direct, W) ==
    LET from(M) == {x[2] : x \in {y \in direct : y[1] \in M}}
    IN  UNION {{w} \X (Least(Cells, LAMBDA T : from({w} \cup (T \cap W)) \ {w}) \ W) : w \in W}

\* The cells that wait for symbols, or for names that nothing defines.
Stuck(found) ==
    IF Liveness THEN {x[1] : x \in found} \cup {c \in Present : Unresolved(c) # {}} ELSE {}
OutOfDate(P, stuck) == {c \in Present \ stuck : Newer(P, c) # {}}

\* Newly ready: below the last cell run, because of that run or because they
\* were not ready at the previous check.
NewReady(P, S, W, was) ==
    {c \in S \ W : /\ ctr[c] # 0
                   /\ set.inOrder => \A l \in LastRun : pos[c] > pos[l]
                   /\ now \in Newer(P, c) \/ c \notin was}

-----------------------------------------------------------------------------
(* What the frontend is told of the edges.                                 *)

\* What the current version of a cell has written; by a statement of the cell
\* that gives it a new value, whatever it was.
Wrote(c) == {s \in Syms : ctr[c] \in writes[s]}
IsStaticWrite(c, s) == s \in ranAs[c].writes \ ranAs[c].reads
StaticWrites(c) == {s \in Wrote(c) : IsStaticWrite(c, s)}
DynamicWrites(c) == Wrote(c) \ StaticWrites(c)

\* The edges shown: not those whose symbols the parent, as it is now written,
\* leaves alone.
StillWritten(p, syms) ==
    /\ Wrote(p) \cap syms # {}
    /\ p \in linked /\ syms \subseteq StaticWrites(p) => syms \cap modified[p] # {}
Filtered(P) ==
    UNION {{<<e.parent, e.child>> : e \in {f \in P[c] :
               /\ StillWritten(f.parent, SymsOf(P, f) \ removed[c])
               /\ Lowest(P, f) /\ ~Shadowed(P, f)}} : c \in Present}

\* The parents p of a cell c for symbols that others have written since p ran,
\* and, as <<c, x, p>>, those for symbols that a cell x above c writes.
StaleSinceRun(P) ==  \* mutant
    UNION {{<<e.parent, c>> : e \in {f \in P[c] : ts[f.sym] >= ctr[f.parent]}} : c \in Present}
StaleParents(P) ==
    UNION {{<<e.parent, c>> : e \in {f \in P[c] : ts[f.sym] > ctr[f.parent]}} : c \in Present}
Writes(x) == DynamicWrites(x) \cup
             IF x \in linked THEN StaticWrites(x) \cap modified[x] ELSE StaticWrites(x)
StaleBy(E) ==
    UNION {{<<e.child, x, e.parent>> : x \in {y \in byPos : pos[y] < pos[e.child] /\ e.sym \in Writes(y)}}
           : e \in {f \in E : f.child \in byPos}}

\* What a check of the cells of the notebook finds, compute_frontend_checker_result.
Answers(k, cs) == IF Liveness THEN WaitingSyms(k, cs) ELSE [cache |-> k, found |-> {}]
Waiting(P, S, stuck) == IF Liveness THEN stuck ELSE Waiters(P, S, stuck)
Direct(P, S, W, found) == UNION {{w} \X MakersOf(P, w, S, W, found) : w \in W}
Verdict(P, S, W, direct, new) ==
    LET dag == ~Liveness /\ set.inOrder
    IN  [waiting |-> W, ready |-> S \ W, newReady |-> new, fresh |-> TRUE,
         makers |-> Link(direct, W), parents |-> Filtered(P),
         stale |-> IF dag THEN StaleParents(P) ELSE {},
         staleBy |-> IF dag THEN StaleBy(edges) ELSE {}]

\* A check, after the step's other effects.  Of a schedule that is computed twice
\* the first leaves the flags of the cells.
CheckAll(twice, newAllowed) ==
    \E k \in {cache}, before \in {wasReady} :
    \E a \in {Answers(k, Ordered)'}, P \in {Directional'} :
    \E stuck \in {Stuck(a.found)'} :
    \E S \in {OutOfDate(P, stuck)'} :
    \E W \in {Waiting(P, S, stuck)'} :
    \E direct \in {Direct(P, S, W, a.found)'} :
    \E new \in {IF newAllowed THEN NewReady(P, S, W, IF twice THEN S \ W ELSE before)'
                 ELSE {}} :
        /\ result' = Verdict(P, S, W, direct, new)'
        /\ wasReady' = S \ W /\ cache' = a.cache

-----------------------------------------------------------------------------
(* Runs.                                                                   *)

\* The dependents of w, through others, but not those the new value is made of.
Reached(w, reads) ==
    Least(Syms, LAMBDA T : {d[2] : d \in {e \in deps : e[1] \in T \cup {w}}} \ (reads \cup {w}))

\* update_deps: parents that are no more read go, unless the symbol is among
\* what it is made of or the parents of that; known parents keep the run they
\* came with.
Depends(w, reads) ==
    LET parents == {d[1] : d \in {e \in deps : e[2] = w}}
        overwrite == w \notin reads /\ ~\E r \in reads : \E d \in deps : d[1] = w /\ d[2] = r
    IN  {d \in deps : d[2] = w /\ overwrite => d[1] \in reads}
        \cup {<<r, w, now + 1>> : r \in reads \ (parents \cup {w})}

Assign(w, reads) ==
    /\ writes' = [writes EXCEPT ![w] = @ \cup {now + 1}] /\ ts' = [ts EXCEPT ![w] = now + 1]
    /\ deps' = Depends(w, reads)
    /\ required' = [s \in Syms |-> IF s = w THEN 0
                                   ELSE IF s \in Reached(w, reads) THEN now + 1
                                   ELSE required[s]]

\* A cell runs: the cell is checked, it reads all it needs and writes, or fails
\* having read some, and it is checked again.
Run(c) ==
    /\ runs # 0 /\ c \in Present
    /\ runs' = runs - 1
    /\ ranBy' = Append(ranBy, c) /\ ctr' = [ctr EXCEPT ![c] = now + 1]
    /\ \E loaded \in SUBSET Live(c) :
          /\ Unresolved(c) = {} => loaded = Live(c)
          /\ LET others == {e \in edges : e.child # c}
             IN  edges' = others \cup EdgesTo(others, "static", c, Live(c))
                                 \cup EdgesTo(others, "dynamic", c, loaded)
    /\ used' = [used EXCEPT ![c] = Live(c)]
    /\ live' = [live EXCEPT ![c] = {}] /\ removed' = [removed EXCEPT ![c] = {}]
    /\ linked' = linked \ {c}
    /\ seen' = [seen EXCEPT ![c] = Nothing] /\ modified' = [modified EXCEPT ![c] = {}]
    /\ IF Unresolved(c) = {}
       THEN /\ set' = IF content[c].sets = {} THEN set ELSE CHOOSE x \in content[c].sets : TRUE
            /\ IF content[c].writes = {} THEN UNCHANGED symbols
               ELSE \E w \in content[c].writes : Assign(w, content[c].reads)
       ELSE UNCHANGED <<set, symbols>>
    /\ wasReady' = wasReady \ {c}
    /\ UNCHANGED <<content, pos, edits, edited>>
    /\ byPos' = IF set'.inOrder /\ set'.schedule # "dag_based" THEN Present ELSE byPos
    /\ \E k \in {Answers(DropAnswers, <<c>>).cache} : cache' = Answers(k, <<c>>)'.cache
    /\ result' = [result EXCEPT !.fresh = FALSE]
    /\ moved' = FALSE /\ ranAs' = [ranAs EXCEPT ![c] = content[c]]

-----------------------------------------------------------------------------
(* Requests of the frontend.                                               *)

\* set_cell_positions, and what the checks that follow make of it by taking
\* positions away for a while and putting them back.
PositionedIfNew(old) == IF set.inOrder /\ pos' # pos THEN old ELSE byPos  \* mutant
Positioned(old) == IF set.inOrder THEN old ELSE byPos
SetPositions ==
    byPos' = IF set.inOrder /\ set.schedule # "dag_based" THEN {c \in Cells : pos'[c] # 0}
             ELSE Positioned(Present)

\* check_and_resolve_symbols on each cell of the notebook as it was, with the
\* contents as they now are.
LinkedAlso(E, u, cs) == E \cup UNION {EdgesTo(E, "static", c, Recordable(c, u[c])) : c \in cs}
Linked(E, u, at) ==
    LET upTo[i \in 0..Cardinality(Cells)] ==
            IF i = 0 THEN E ELSE LinkedAlso(upTo[i - 1], u, {c \in Cells : at[c] = i})
    IN  upTo[Cardinality(Cells)]
Relink ==
    /\ \E E \in {edges}, u \in {used}, at \in {pos} :
          /\ edges' = Linked(E, u, at)'
          /\ used' = [c \in Cells |-> IF c \in Present THEN u[c] \cup Recordable(c, u[c])'
                                      ELSE u[c]]
    /\ live' = [c \in Cells |-> IF c \in Present THEN Live(c)' ELSE live[c]]
    /\ removed' = [c \in Cells |-> IF c \in Present THEN (removed[c] \cup live[c]) \ live'[c]
                                   ELSE removed[c]]
    /\ linked' = Present
    /\ modified' = [c \in Cells |->
          IF c \notin Present THEN modified[c]
          ELSE {s \in Kills(c)' : writes[s] # {}} \cup
               (IF c \notin linked \/ seen[c] = content'[c] THEN StaticWrites(c) ELSE {})]
    /\ seen' = [c \in Cells |-> IF c \in Present THEN content'[c] ELSE seen[c]]

\* compute_exec_schedule, asked for when a cell has run.
Schedule(reactive) ==
    /\ ~result.fresh /\ now # 0
    /\ UNCHANGED <<set, content, pos, ranBy, ctr, symbols, runs, edits, edited, moved, ranAs>>
    /\ SetPositions
    /\ LET again == ~reactive /\ ~(Present \subseteq linked)
       IN  /\ IF again THEN Relink ELSE UNCHANGED links
           /\ CheckAll(again, set.schedule # "dag_based")

\* notify_content_changed
Changed ==
    /\ edits # 0 /\ edits' = edits - 1 /\ edited' = TRUE /\ now # 0
    /\ UNCHANGED <<set, ranBy, ctr, symbols, runs, ranAs>>
    /\ SetPositions /\ Relink /\ CheckAll(FALSE, FALSE)

Edit(c, new) ==
    /\ c \in Present /\ new # content[c]
    /\ content' = [content EXCEPT ![c] = new] /\ UNCHANGED <<pos, moved>>
    /\ Changed

Swap(c, d) ==
    /\ c \in Present /\ d \in Present /\ pos[c] < pos[d]
    /\ pos' = [pos EXCEPT ![c] = pos[d], ![d] = pos[c]] /\ UNCHANGED content
    /\ moved' = TRUE
    /\ Changed

\* _create_untracked_cells_for_content, for a cell put in at p.
Insert(c, new, p) ==
    /\ c \in Cells \ Present
    /\ content' = [content EXCEPT ![c] = new]
    /\ pos' = [d \in Cells |-> IF d = c THEN p ELSE IF pos[d] >= p THEN pos[d] + 1 ELSE pos[d]]
    /\ moved' = TRUE
    /\ Changed

Next ==
    \/ \E c \in Cells : Run(c)
    \/ \E reactive \in BOOLEAN : Schedule(reactive)
    \/ \E c \in Cells, new \in Contents : Edit(c, new)
    \/ \E c, d \in Cells : Swap(c, d)
    \/ \E c \in Cells, new \in Contents, p \in 1..(Cardinality(Present) + 1) : Insert(c, new, p)

Spec == Init /\ [][Next]_vars

-----------------------------------------------------------------------------
(* Properties.                                                             *)

\* Settings, contents, runs, symbols and links are of their types; every edge is
\* to a cell that has run, and no cell is told to be ready and to wait.
TypeOK ==
    /\ set \in Settings /\ runs \in Nat /\ edits \in Nat /\ edited \in BOOLEAN /\ moved \in BOOLEAN
    /\ content \in [Cells -> Content] /\ ranAs \in [Cells -> Content]
    /\ pos \in [Cells -> Nat] /\ byPos \subseteq Present
    /\ ranBy \in Seq(Cells) /\ ctr \in [Cells -> 0..now]
    /\ ts \in [Syms -> 0..now] /\ writes \in [Syms -> SUBSET (1..now)]
    /\ required \in [Syms -> 0..now] /\ deps \subseteq Syms \X Syms \X (1..now)
    /\ edges \subseteq [ctx : Contexts, child : Cells, parent : Cells, sym : Syms]
    /\ \A e \in edges : ctr[e.parent] # 0
    /\ used \in [Cells -> SUBSET Syms] /\ live \in [Cells -> SUBSET Syms]
    /\ removed \in [Cells -> SUBSET Syms] /\ modified \in [Cells -> SUBSET Syms]
    /\ linked \subseteq Cells /\ seen \in [Cells -> Content] /\ wasReady \subseteq Cells
    /\ result.ready \cap result.waiting = {}

\* What the cells above c write; the run that wrote what c saw of s.
Saw(c, s) == Max({k \in writes[s] : k < ctr[c]} \cup {0})
Made(c) == UNION {content[p].writes : p \in {q \in Present : pos[q] < pos[c]}}

\* While the notebook is as it was when its cells first ran.
Unedited ==
    /\ ~edited /\ set.inOrder /\ set.pull /\ set.schedule = "dag_based"
    /\ \A c \in Present : /\ ctr[c] # 0
                          /\ \A s \in content[c].reads : s \in Made(c) /\ Saw(c, s) # 0
OneWriter == \A c, d \in Present : c # d => content[c].writes \cap content[d].writes = {}

\* The readiness and the edges that ReactiveLoop takes the kernel to compute are
\* what the checker computes while every symbol is made by one cell: a cell is
\* out of date when the cell above it that makes what it reads has a newer run,
\* waits when something it is made of is out of date, and has no stale parents.
LoopEdges == {e \in Present \X Present : pos[e[1]] < pos[e[2]]
                                       /\ content[e[1]].writes \cap content[e[2]].reads # {}}
LoopStale == {e[2] : e \in {f \in LoopEdges : ctr[f[1]] > ctr[f[2]]}}
LoopWaiting ==
    Least(Cells, LAMBDA T : {e[2] : e \in {f \in LoopEdges : f[1] \in LoopStale \cup T}})
AgreesWithLoop ==
    result.fresh /\ Unedited /\ OneWriter =>
        /\ result.waiting = LoopWaiting
        /\ result.ready = LoopStale \ LoopWaiting
        /\ result.parents = LoopEdges
        /\ result.stale = {} /\ \A x \in result.staleBy : x[2] = x[3]

\* No update is missed: if a cell reads a value that a cell above it made, and
\* ran with it, is linked to that cell for it, and that cell has made a newer one
\* since, the checker says that the cell is ready or waiting.
NothingMissed ==
    result.fresh =>
        \A e \in edges :
            /\ ctr[e.child] # 0 /\ content[e.child] = ranAs[e.child]
            /\ e.sym \in content[e.child].reads
            /\ Saw(e.child, e.sym) # 0 /\ ranBy[Saw(e.child, e.sym)] = e.parent
            /\ ctr[e.parent] = ts[e.sym] /\ ts[e.sym] > ctr[e.child]
            /\ Above(e.parent, e.child)
            => e.child \in result.ready \cup result.waiting

InOrderDag == set.inOrder /\ ~Liveness

\* Where edges point down the notebook, cells never wait on one another: if
\* any cell waits, some cell is ready.
SomeoneCanRun == result.fresh /\ InOrderDag /\ result.waiting # {} => result.ready # {}

\* A waiting cell is linked to the ready cells that it is made of, through
\* waiting cells, the one last run left out.
Path(P, w) == Least(Cells, LAMBDA T : UNION {Parents(P, c) \cap ((result.ready \cup result.waiting) \ LastRun)
                                            : c \in {w} \cup (T \cap result.waiting)})
WaitersHaveMakers ==
    result.fresh /\ InOrderDag =>
        result.makers = UNION {{w} \X (Path(Directional, w) \cap result.ready) : w \in result.waiting}

\* A cached answer is the answer: unless cells have been moved since.
Acyclic == \A s \in Syms : s \notin Least(Syms, LAMBDA T : {d[2] : d \in {e \in deps : e[1] \in T \cup {s}}})
CachedAnswersHold ==
    ~moved /\ Acyclic /\ set.inOrder =>
        \A s \in Syms : IsWaiting(s) => \A x \in cache[s] : WaitingAt(NoAnswers, s, x[1]).ans = x[2]

\* The cells that the frontend would run for c, computeRawTransitiveClosure: its
\* children, what they need of their parents, and so on.
ParentsOf(c) == {e[1] : e \in {f \in result.parents : f[2] = c}}
Pull(run, cell) ==
    LET pull[cl \in SUBSET Cells, c \in Cells] ==
            LET add(acc, p) == IF p \in acc THEN acc ELSE pull[acc \cup {p}, p]
                walked == FoldSet(LAMBDA p, acc : IF p \in acc THEN acc ELSE pull[acc, p],
                                  cl, ParentsOf(c))
                grown == IF walked # cl \/ c \in result.ready \cup result.waiting
                         THEN walked \cup {c} ELSE walked
                isStale(p, acc) == \/ <<p, c>> \in result.stale
                                   \/ \E x \in acc : <<c, x, p>> \in result.staleBy
                own == FoldSet(LAMBDA p, acc : IF isStale(p, acc) THEN add(acc, p) ELSE acc,
                               grown, ParentsOf(c))
            IN  IF c \notin grown THEN grown
                ELSE FoldSet(LAMBDA b, acc : IF b[1] \in acc /\ b[3] \in ParentsOf(b[1])
                                             THEN add(acc, b[3]) ELSE acc,
                             own, {b \in result.staleBy : b[2] = c})
    IN  pull[run, cell]
Closure(cells) ==
    LET children(T) == {e[2] : e \in {f \in result.parents : f[1] \in T}}
        closure[cs \in SUBSET Cells] ==
            LET pushed == Least(Present, LAMBDA T : cs \cup children(T \cup cs))
                pulled == FoldSet(LAMBDA c, acc : Pull(acc, c), pushed, pushed)
            IN  IF pulled = cs THEN cs ELSE closure[pulled]
    IN  closure[cells]

\* A cell that is run together with what the frontend runs for it reads what it
\* would read if the whole notebook were run from top to bottom, also when
\* several cells make the same symbol: if the cells, when they last ran, did so.
Lowermost(S) == {p \in S : \A q \in S : pos[q] <= pos[p]}
Makers(c, s) == {p \in Present : pos[p] < pos[c] /\ s \in content[p].writes}
ClosureReadsInOrder ==
    /\ result.fresh /\ Unedited
    /\ \A c \in Present : \A s \in content[c].reads : ranBy[Saw(c, s)] \in Lowermost(Makers(c, s))
    => \A c \in Present : \E run \in {Closure({c})} :
          \A d \in run : \A s \in content[d].reads :
             Lowermost(Makers(d, s)) = IF Makers(d, s) \cap run # {} THEN Lowermost(Makers(d, s) \cap run)
                                       ELSE {ranBy[ts[s]]}
=============================================================================
