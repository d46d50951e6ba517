----------------------------- MODULE CellGraph -----------------------------
(***************************************************************************)
(* The kernel's registry of notebook cells and the dataflow edges between  *)
(* them: Cell.create_and_track, Cell.update_id, SliceableMixin's edge      *)
(* operations, NotebookFlow.add_data_dep, the clean-up that ends a run and *)
(* the two comm handlers that touch the registry.                          *)
(*                                                                         *)
(* An edge is one record for both of its ends: e \in par says that the     *)
(* child's raw_<ctx>_parents[e.parent] holds e.sym, e \in chi that the     *)
(* parent's raw_<ctx>_children[e.child] holds it.  The code keeps the two  *)
(* dictionaries apart and updates them apart; the properties relate them.  *)
(*                                                                         *)
(* A run or a comm request is one thread of control: pc names the place it *)
(* has reached, and nothing else happens until it is back to "idle".       *)
(***************************************************************************)
EXTENDS Integers, Sequences, FiniteSets

CONSTANTS
    NotebookIds,  \* the ids the notebook gives its cells
    Syms,         \* the program's globally accessible symbols
    FakeEdgeSym,  \* the symbol that edges restored from the notebook carry
    MaxCtr,       \* bound: number of runs
    MaxFaulty,    \* bound: number of runs when runs may fail
    Envs          \* what may happen, besides cells being run: one of these sets

ASSUME IdsAssumption == MaxCtr \in Nat /\ NotebookIds \cap Int = {}
ASSUME EnvAssumption ==
    /\ MaxFaulty \in Nat
    /\ Envs \subseteq SUBSET {"disable", "abort", "restore", "edit"}

Contexts == {"dynamic", "static"}
Placeholders == 1..MaxCtr
CellIds == NotebookIds \cup Placeholders
AllSyms == Syms \cup {FakeEdgeSym}
Edge == [ctx : Contexts, child : CellIds, parent : CellIds, sym : AllSyms]

VARIABLES
    atCtr,         \* _cell_by_cell_ctr: the id of the cell made by each run
    known,         \* DOMAIN of _current_cell_by_cell_id
    placeholders,  \* the known cells whose _placeholder_id is set
    ctr,           \* cell_ctr of the current cell of an id, -1 if never run
    par, chi,      \* raw_*_parents and raw_*_children of the current cells
    prev,          \* raw_*_parents of their prev_cell
    shared,        \* <<ctx, id>> whose parents ARE prev_cell's dictionary
    used,          \* used_symbols of the current cells
    written,       \* updated_timestamps of each symbol, by cell counter
    visible,       \* the ids with a position in the notebook
    tracing,       \* mut_settings.dataflow_enabled
    connected,     \* a frontend has set mut_settings.interface
    pc, run,       \* where the kernel is, and the cell that is running
    todo,          \* cells the current request has still to check
    aborted,       \* history: cells with a run that was never cleaned up
    env            \* one of Envs

registry == <<atCtr, known, placeholders, ctr>>
settings == <<visible, tracing, connected>>
graph == <<par, chi, prev, shared>>
vars == <<registry, graph, used, written, settings, pc, run, todo, aborted, env>>

counter == Len(atCtr)

Init ==
    /\ atCtr = << >> /\ known = {} /\ placeholders = {}
    /\ ctr = [c \in CellIds |-> -1]
    /\ par = {} /\ chi = {} /\ prev = {} /\ shared = {}
    /\ used = [c \in CellIds |-> {}]
    /\ written = [s \in Syms |-> {}]
    /\ visible = CellIds \* until a frontend connects, every cell is visible
    /\ tracing = TRUE /\ connected = FALSE
    /\ pc = "idle" /\ run = 0 /\ todo = {} /\ aborted = {}
    /\ env \in Envs

-----------------------------------------------------------------------------
(* Edges.                                                                  *)

\* The parents of the previous version of each current cell.
PrevEdges ==
    {e \in prev : <<e.ctx, e.child>> \notin shared} \cup
    {e \in par : <<e.ctx, e.child>> \in shared}

\* The parent is already a child of the child: no edge is added.
Reversed(e) ==
    \E f \in chi : f.ctx = e.ctx /\ f.parent = e.child /\ f.child = e.parent

DirectUnguarded(E) == {e \in E : e.parent # e.child}
Direct(E) == {e \in E : e.parent # e.child /\ ~Reversed(e)}

\* A cell that depends on itself takes over its previous version's parents.
Inherited(E) ==
    {f \in PrevEdges : \E e \in E : /\ e.parent = e.child
                                    /\ e.child = f.child
                                    /\ e.ctx = f.ctx
                                    /\ e.sym = f.sym}

AddParentEdges(E) ==
    /\ par' = par \cup Direct(E) \cup Inherited(E)
    /\ chi' = chi \cup Direct(E)

IsCurrent(k) == ctr[atCtr[k]] = k

\* The edges add_data_dep asks for when cell c uses s, last written at K.
Deps(x, c, s, K) ==
    {[ctx |-> x, child |-> c, parent |-> atCtr[k], sym |-> s] :
        k \in {j \in K : IsCurrent(j)}}

\* The last write of s, as a set: empty when nothing has written s.
LastWrite(s) == {k \in written[s] : \A j \in written[s] : j <= k}

\* A static use goes back through the writes of s to one in a visible cell.
StaticTimes(s) ==
    {k \in written[s] : \A j \in written[s] : j > k => atCtr[j] \notin visible}

\* Check of cell c with live symbols S, recording static dependencies.
CheckCell(c, S) ==
    /\ AddParentEdges(UNION {Deps("static", c, s, StaticTimes(s)) : s \in S})
    /\ used' = [used EXCEPT ![c] = @ \cup S]

\* The live symbols a check of c may meet: for a cell other than the last
\* one run, the symbols it has already used are left out.
Checkable(c) ==
    LET defined == {s \in Syms : written[s] # {}}
    IN  IF ctr[c] \in {-1, counter} THEN defined ELSE defined \ used[c]

-----------------------------------------------------------------------------
(* Running a cell.                                                         *)

\* create_and_track for an executed cell: a fresh version, without parents,
\* that shares its predecessor's children.
Track(id) ==
    /\ atCtr' = Append(atCtr, id)
    /\ known' = known \cup {id}
    /\ ctr' = [ctr EXCEPT ![id] = counter + 1]
    /\ used' = [used EXCEPT ![id] = {}]
    /\ prev' = {e \in prev : e.child # id} \cup {e \in par : e.child = id}

\* The id comes with the request, or the next counter stands in for it.
MayRun(id) ==
    /\ pc = "idle" /\ counter < MaxCtr
    /\ "abort" \in env => counter < MaxFaulty
    /\ id \in NotebookIds \cup {counter + 1}
MarkPlaceholder(id) ==
    placeholders' = placeholders \cup ({id} \cap Placeholders)

StartRun(id) ==
    /\ MayRun(id) /\ tracing
    /\ Track(id) /\ MarkPlaceholder(id)
    /\ par' = {e \in par : e.child # id}
    /\ shared' = {p \in shared : p[2] # id}
    /\ pc' = "precheck" /\ run' = id
    /\ UNCHANGED <<chi, written, settings, todo, aborted>>

Precheck(S) ==
    /\ pc = "precheck"
    /\ CheckCell(run, S)
    /\ pc' = "running"
    /\ UNCHANGED <<registry, prev, shared, written, settings, run, todo,
                   aborted>>

\* The running cell reads s: a dynamic dependency on its last write.
ReadSym(s) ==
    /\ pc = "running" /\ written[s] # {}
    /\ AddParentEdges(Deps("dynamic", run, s, LastWrite(s)))
    /\ used' = [used EXCEPT ![run] = @ \cup {s}]
    /\ UNCHANGED <<registry, prev, shared, written, settings, pc, run, todo,
                   aborted>>

WriteSym(s) ==
    /\ pc = "running"
    /\ written' = [written EXCEPT ![s] = @ \cup {counter}]
    /\ UNCHANGED <<registry, graph, used, settings, pc, run, todo, aborted>>

\* "%flow disable" in the running cell.
Disable ==
    /\ "disable" \in env
    /\ pc = "running" /\ tracing' = FALSE
    /\ UNCHANGED <<registry, graph, used, written, visible, connected, pc, run,
                   todo, aborted>>

\* The edges of dangling symbols, and what the two loops of
\* _remove_dangling_parent_edges leave of either dictionary.
ParAfter(D) == {e \in par : e.sym \notin D}
Dangles(e, D) ==
    /\ e.sym \in D
    /\ \E f \in par : f.ctx = e.ctx /\ f.child = e.child /\ f.parent = e.parent
Gone(D) == {e \in PrevEdges : e.child = run} \ ParAfter(D)

ChiAfterDanglingOnly(D) == {e \in chi : ~Dangles(e, D)}
ChiAfter(D) == {e \in chi : ~Dangles(e, D)} \ Gone(D)

\* remove_parent_edges looks every parent up by its id: an unknown one is a
\* KeyError, and the run ends like any other that raises (AbortRun).
LookupFails(D) ==
    \/ D # {} /\ \E e \in par : e.parent \notin known
    \/ \E e \in Gone(D) : e.parent \notin known

\* after_run_cell; D are the symbols of this run that dangle on edges.
EndRun(D) ==
    /\ pc = "running" /\ tracing
    /\ \A s \in D : counter \in LastWrite(s)
    /\ ~LookupFails(D)
    /\ par' = ParAfter(D)
    /\ chi' = ChiAfter(D)
    /\ pc' = "postcheck"
    /\ UNCHANGED <<registry, prev, shared, used, written, settings, run, todo,
                   aborted>>

\* The second precheck, at the end of after_run_cell.
Postcheck(S) ==
    /\ pc = "postcheck"
    /\ CheckCell(run, S)
    /\ pc' = "idle"
    /\ UNCHANGED <<registry, prev, shared, written, settings, run, todo,
                   aborted>>

\* after_run_cell returns at once when the cell turned tracing off, and an
\* exception in it, caught by _ipyflow_run_cell, leaves the second loop with
\* only some of its edges (K) removed.
AbortRun(K) ==
    /\ pc = "running"
    /\ ~tracing \/ "abort" \in env
    /\ K \subseteq Gone({}) /\ (~tracing => K = {})
    /\ chi' = chi \ K
    /\ aborted' = aborted \cup {run}
    /\ pc' = "idle"
    /\ UNCHANGED <<registry, par, prev, shared, used, written, settings, run,
                   todo>>

\* A run with tracing off: no checks and no symbols; the new version is given
\* its predecessor's parent dictionaries.  The cell may turn tracing on.
RunUntraced(id, enable) ==
    /\ MayRun(id) /\ ~tracing
    /\ Track(id) /\ MarkPlaceholder(id)
    /\ shared' = IF id \in known THEN shared \cup (Contexts \X {id}) ELSE shared
    /\ tracing' = enable /\ run' = id
    /\ UNCHANGED <<par, chi, written, visible, connected, pc, todo, aborted>>

-----------------------------------------------------------------------------
(* Comm requests.                                                          *)

\* The first frontend to connect lists its code cells (`order`) and, once they
\* are known, the dependencies saved in the notebook.
Connect(order) ==
    /\ pc = "idle" /\ ~connected
    /\ connected' = TRUE /\ visible' = order /\ pc' = "connecting"
    /\ UNCHANGED <<registry, graph, used, written, tracing, run, todo,
                   aborted>>

\* A content-changed notification; the cells to check are all the known ones,
\* or none if nothing changed.
Notify(order, recompute) ==
    /\ "edit" \in env
    /\ pc = "idle" /\ connected
    /\ visible' = order
    /\ todo' = IF recompute THEN known \cap order ELSE {}
    /\ pc' = "checking"
    /\ UNCHANGED <<registry, graph, used, written, tracing, connected, run,
                   aborted>>

CheckNext(c, S) ==
    /\ pc = "checking" /\ c \in todo
    /\ CheckCell(c, S)
    /\ todo' = todo \ {c}
    /\ UNCHANGED <<registry, prev, shared, written, settings, pc, run,
                   aborted>>

ChildrenOf(x, p) == {f.child : f \in {g \in chi : g.ctx = x /\ g.parent = p}}
ParentsOf(x, c) == {f.parent : f \in {g \in par : g.ctx = x /\ g.child = c}}

Rename(c, old, new) == IF c = old THEN new ELSE c

\* A parent entry follows its own cell's new id, and its parent's new id
\* when that parent lists the cell as a child.
RenameParOwnOnly(e, old, new) ==
    [ctx |-> e.ctx, child |-> Rename(e.child, old, new),
     parent |-> e.parent, sym |-> e.sym]
RenamePar(e, old, new) ==
    [ctx |-> e.ctx, child |-> Rename(e.child, old, new),
     parent |-> IF e.child \in ChildrenOf(e.ctx, old)
                THEN Rename(e.parent, old, new) ELSE e.parent,
     sym |-> e.sym]
RenameChi(e, old, new) ==
    [ctx |-> e.ctx, parent |-> Rename(e.parent, old, new),
     child |-> IF e.parent \in ParentsOf(e.ctx, old)
               THEN Rename(e.child, old, new) ELSE e.child,
     sym |-> e.sym]

\* The versions made by earlier runs take the new id too.
KeepRuns(old, new) == atCtr
RenameRuns(old, new) == [k \in DOMAIN atCtr |-> Rename(atCtr[k], old, new)]

\* Renaming gives the children of `old` a parent dictionary of their own.
Unshared(old) == {p \in shared : p[2] \in ChildrenOf(p[1], old)}

\* update_id: a placeholder is found to be the cell `new` of the notebook.
UpdateId(old, new) ==
    /\ pc \in {"checking", "connecting"} /\ todo = {}
    /\ old \in placeholders /\ new \in (visible \cap NotebookIds) \ known
    /\ known' = (known \ {old}) \cup {new}
    /\ placeholders' = placeholders \ {old}
    /\ atCtr' = RenameRuns(old, new)
    /\ ctr' = [ctr EXCEPT ![new] = ctr[old], ![old] = -1]
    /\ used' = [used EXCEPT ![new] = used[old], ![old] = {}]
    /\ par' = {RenamePar(e, old, new) : e \in par}
    /\ chi' = {RenameChi(e, old, new) : e \in chi}
    /\ shared' = shared \ Unshared(old)
    /\ prev' = {e \in prev : <<e.ctx, e.child>> \notin Unshared(old)} \cup
               {e \in par : <<e.ctx, e.child>> \in Unshared(old)}
    /\ aborted' = {Rename(c, old, new) : c \in aborted}
    /\ UNCHANGED <<written, settings, pc, run, todo>>

\* The rest of the notebook's cells get an untracked version (counter -1).
FinishNotify ==
    /\ pc \in {"checking", "connecting"} /\ todo = {}
    /\ known' = known \cup (visible \cap NotebookIds)
    /\ pc' = IF pc = "connecting" THEN "restoring" ELSE "idle"
    /\ UNCHANGED <<atCtr, placeholders, ctr, graph, used, written, settings,
                   run, todo, aborted>>

\* One pair of _initialize_cell_parents: a dependency saved in the notebook.
RestoreParent(c, p) ==
    /\ "restore" \in env
    /\ pc = "restoring" /\ c \in known /\ p \in known
    /\ AddParentEdges({[ctx |-> "static", child |-> c, parent |-> p,
                        sym |-> FakeEdgeSym]})
    /\ UNCHANGED <<registry, prev, shared, used, written, settings, pc, run,
                   todo, aborted>>

FinishConnect ==
    /\ pc = "restoring" /\ pc' = "idle"
    /\ UNCHANGED <<registry, graph, used, written, settings, run, todo,
                   aborted>>

\* A schedule request adds the last run cell's override_live_refs.
OverrideLiveRef(s) ==
    /\ pc = "idle" /\ tracing /\ counter > 0 /\ written[s] # {}
    /\ IsCurrent(counter)
    /\ AddParentEdges(Deps("static", atCtr[counter], s, LastWrite(s)))
    /\ used' = [used EXCEPT ![atCtr[counter]] = @ \cup {s}]
    /\ UNCHANGED <<registry, prev, shared, written, settings, pc, run, todo,
                   aborted>>

RunNext ==
    \/ \E id \in CellIds : StartRun(id)
    \/ \E id \in CellIds, enable \in BOOLEAN : RunUntraced(id, enable)
    \/ pc = "precheck" /\ \E S \in SUBSET Checkable(run) : Precheck(S)
    \/ \E s \in Syms : ReadSym(s) \/ WriteSym(s)
    \/ Disable
    \/ \E D \in SUBSET Syms : EndRun(D)
    \/ pc = "postcheck" /\ \E S \in SUBSET Checkable(run) : Postcheck(S)
    \/ \E K \in SUBSET Gone({}) : AbortRun(K)

CommNext ==
    \/ \E order \in SUBSET NotebookIds : Connect(order)
    \/ \E order \in SUBSET NotebookIds, recompute \in BOOLEAN :
          Notify(order, recompute)
    \/ \E c \in todo : \E S \in SUBSET Checkable(c) : CheckNext(c, S)
    \/ \E old \in placeholders, new \in NotebookIds : UpdateId(old, new)
    \/ FinishNotify
    \/ FinishConnect
    \/ \E c, p \in known : RestoreParent(c, p)
    \/ \E s \in Syms : OverrideLiveRef(s)

Next == (RunNext \/ CommNext) /\ UNCHANGED env

Spec == Init /\ [][Next]_vars

-----------------------------------------------------------------------------
(* Properties.                                                             *)

\* Types, for every variable of the module.
RegistryType ==
    /\ atCtr \in Seq(CellIds) /\ Len(atCtr) <= MaxCtr
    /\ known \subseteq NotebookIds \cup (1..counter)
    /\ placeholders = known \ NotebookIds
    /\ ctr \in [CellIds -> -1..MaxCtr]
GraphType ==
    /\ par \subseteq Edge /\ chi \subseteq Edge /\ prev \subseteq Edge
    /\ shared \subseteq Contexts \X (NotebookIds \cap known)
UseType ==
    /\ used \in [CellIds -> SUBSET Syms]
    /\ written \in [Syms -> SUBSET (1..counter)]
ControlType ==
    /\ visible \subseteq CellIds
    /\ tracing \in BOOLEAN /\ connected \in BOOLEAN
    /\ pc \in {"idle", "precheck", "running", "postcheck", "checking",
              "connecting", "restoring"}
    /\ run \in CellIds \cup {0}
    /\ (pc \in {"precheck", "running", "postcheck"}
          => run \in known /\ counter > 0)
    /\ todo \subseteq known
    /\ aborted \subseteq CellIds
TypeOK == RegistryType /\ GraphType /\ UseType /\ ControlType

\* The two registries agree, renamings included: every executed cell that is
\* current for its id is the cell its own counter leads to, and every run
\* leads to a known id.
RegistriesAgree ==
    /\ \A c \in CellIds : ctr[c] # -1 =>
          c \in known /\ ctr[c] \in 1..counter /\ atCtr[ctr[c]] = c
    /\ \A k \in 1..counter : atCtr[k] \in known

MayInherit(e) == pc \in {"precheck", "running"} /\ e.child = run /\ e \in PrevEdges

\* A cell is nobody's child without naming it as a parent, once its run is
\* over: the entries its previous versions left in other cells' children are
\* all removed, however the notebook was edited and renamed in between.  Only
\* a run whose clean-up did not happen can leave one behind.
NoStaleChild ==
    \A e \in chi : e \in par \/ e.child \in aborted \/ MayInherit(e)

Mutual(e, f) == e.ctx = f.ctx /\ e.child = f.parent /\ e.parent = f.child

\* Two cells are each other's parent only through such an inherited edge:
\* the test in add_parent_edges keeps all others acyclic in pairs.
MutualOnlyIfInherited ==
    \A e, f \in par : Mutual(e, f) => e \notin chi \/ f \notin chi

\* Giving a placeholder its notebook id looks up every neighbour by id, and
\* every neighbour is there to be found and lists the edge being renamed.
RenameFindsNeighbours ==
    \A c \in placeholders :
        /\ \A e \in par : e.child = c => e.parent \in known /\ e \in chi
        /\ \A e \in chi : e.parent = c => e.child \in known
=============================================================================
