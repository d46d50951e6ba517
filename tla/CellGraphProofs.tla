-------------------------- MODULE CellGraphProofs --------------------------
(***************************************************************************)
(* Type correctness of CellGraph, and its registries, stale children,      *)
(* renamings and cycles of two, for any notebook, symbols, number of runs  *)
(* and environment.                                                        *)
(***************************************************************************)
EXTENDS CellGraph, TLAPS

\* An entry is kept by a known cell, and a child's entry names one.
Owned ==
    /\ \A e \in par \cup chi \cup prev : e.child \in known
    /\ \A e \in chi : e.parent \in known

\* A placeholder runs once, so nothing is inherited by it or left over of it.
FreshPlaceholders ==
    /\ \A e \in chi : e.child \in placeholders => e \in par
    /\ \A e \in par : e.child \in placeholders => e \in chi
    /\ \A e \in prev : e.child \notin placeholders

\* No two cells list each other as children.
NoMutualChildren == \A e, f \in chi : ~Mutual(e, f)

\* What every action keeps, types apart.
Kept == RegistriesAgree /\ Owned /\ FreshPlaceholders /\ NoMutualChildren /\ NoStaleChild
IInv == TypeOK /\ Kept

-----------------------------------------------------------------------------

\* Notebook ids and placeholders are different kinds of id.
LEMMA Ids ==
    /\ MaxCtr \in Nat
    /\ \A c \in NotebookIds : c \notin Int
  BY IdsAssumption

\* add_data_dep is asked for edges between known cells only.
LEMMA DepsType ==
    ASSUME TypeOK, RegistriesAgree, NEW x \in Contexts, NEW c \in CellIds, NEW s \in Syms,
           NEW K \in SUBSET (1..counter)
    PROVE  /\ Deps(x, c, s, K) \subseteq Edge
           /\ \A e \in Deps(x, c, s, K) : e.child = c /\ e.parent \in known
  <1>1. \A k \in K : atCtr[k] \in CellIds /\ atCtr[k] \in known
    BY DEF TypeOK, RegistryType, RegistriesAgree, counter
  <1> QED BY <1>1 DEF Deps, Edge, AllSyms

\* The writes that a static use goes back through are runs.
LEMMA StaticTimesType ==
    ASSUME TypeOK, NEW s \in Syms PROVE StaticTimes(s) \in SUBSET (1..counter)
  BY DEF TypeOK, UseType, StaticTimes

\* check_and_resolve_symbols asks for edges between known cells only.
LEMMA CheckType ==
    ASSUME TypeOK, RegistriesAgree, NEW c \in CellIds, NEW S \in SUBSET Syms
    PROVE  LET E == UNION {Deps("static", c, s, StaticTimes(s)) : s \in S}
           IN  E \subseteq Edge /\ \A e \in E : e.child = c /\ e.parent \in known
  BY DepsType, StaticTimesType DEF Contexts

\* Adding edges to one known cell keeps the two sides of every edge together.
LEMMA AddParentEdgesInv ==
    ASSUME IInv, NEW c \in known, NEW E \in SUBSET Edge,
           \A e \in E : e.child = c /\ e.parent \in known,
           AddParentEdges(E),
           UNCHANGED <<registry, prev, shared, run, aborted>>,
           pc \in {"precheck", "running"} => pc' \in {"precheck", "running"}
    PROVE  /\ par' \subseteq Edge /\ chi' \subseteq Edge
           /\ Kept'
  <1>1. /\ Direct(E) \subseteq E
        /\ Inherited(E) \subseteq PrevEdges
        /\ PrevEdges \subseteq par \cup prev
    BY DEF Direct, Inherited, PrevEdges
  <1>i. \A e \in Inherited(E) : e.child \notin placeholders
    BY DEF IInv, Kept, TypeOK, RegistryType, GraphType, FreshPlaceholders, Inherited, PrevEdges
  <1>2. par' \subseteq Edge /\ chi' \subseteq Edge
    BY <1>1 DEF IInv, Kept, TypeOK, GraphType, AddParentEdges
  <1>3. Owned'
    BY <1>1 DEF IInv, Kept, Owned, AddParentEdges, registry
  <1>4. FreshPlaceholders'
    BY <1>i DEF IInv, Kept, FreshPlaceholders, AddParentEdges, registry
  <1>n. NoMutualChildren'
    <2> SUFFICES ASSUME NEW e \in chi', NEW f \in chi', Mutual(e, f)
                 PROVE  FALSE
      BY DEF NoMutualChildren, Mutual
    <2>1. CASE e \in chi /\ f \in chi
      BY <2>1 DEF IInv, Kept, NoMutualChildren
    <2>2. CASE e \in Direct(E) /\ f \in Direct(E)
      BY <2>2 DEF Direct, Mutual
    <2>3. CASE e \in chi /\ f \in Direct(E)
      BY <2>3 DEF Direct, Reversed, Mutual
    <2>4. CASE e \in Direct(E) /\ f \in chi
      BY <2>4 DEF Direct, Reversed, Mutual
    <2> QED BY <2>1, <2>2, <2>3, <2>4 DEF AddParentEdges
  <1>5. NoStaleChild'
    <2> SUFFICES ASSUME NEW e \in chi', e \notin par', e.child \notin aborted'
                 PROVE  MayInherit(e)'
      BY DEF NoStaleChild
    <2>1. e \in chi /\ e \notin par /\ e.child \notin aborted
      BY DEF AddParentEdges
    <2>2. MayInherit(e)
      BY <2>1 DEF IInv, Kept, NoStaleChild
    <2>3. PrevEdges \subseteq PrevEdges'
      BY DEF PrevEdges, AddParentEdges
    <2> QED BY <2>2, <2>3 DEF MayInherit
  <1>6. RegistriesAgree'
    BY DEF IInv, Kept, RegistriesAgree, counter, registry
  <1> QED BY <1>2, <1>3, <1>4, <1>n, <1>5, <1>6 DEF Kept

\* The actions that leave the edges and the registry as they are.
LEMMA QuietStep ==
    ASSUME IInv,
           UNCHANGED <<registry, graph, run>>,
           aborted \subseteq aborted',
           pc \in {"precheck", "running"} => pc' \in {"precheck", "running"}
    PROVE  Kept'
  BY DEF IInv, Kept, RegistriesAgree, counter, registry, Owned, FreshPlaceholders,
         NoMutualChildren, Mutual, NoStaleChild, MayInherit, PrevEdges, graph

\* The counter stays within the bound, and a run that may start has a number.
LEMMA CounterType ==
    ASSUME TypeOK
    PROVE  /\ counter \in 0..MaxCtr /\ known \subseteq CellIds
           /\ counter + 1 \in Int
           /\ counter < MaxCtr => counter + 1 \in 1..MaxCtr
  BY Ids DEF TypeOK, RegistryType, counter, CellIds, Placeholders

-----------------------------------------------------------------------------
(* One lemma per action.                                                   *)

\* What create_and_track does to the registry.
LEMMA TrackType ==
    ASSUME TypeOK, NEW id \in CellIds, MayRun(id), Track(id), MarkPlaceholder(id)
    PROVE  /\ RegistryType'
           /\ counter' = counter + 1 /\ counter' \in 1..MaxCtr
           /\ used' \in [CellIds -> SUBSET Syms]
           /\ prev' \subseteq Edge
           /\ known' = known \cup {id}
  <1> USE DEF TypeOK, RegistryType, Track
  <1>1. /\ atCtr' \in Seq(CellIds) /\ Len(atCtr') = Len(atCtr) + 1
    OBVIOUS
  <1>2. counter' = counter + 1 /\ counter' \in 1..MaxCtr
    BY <1>1, CounterType DEF counter, MayRun
  <1>3. known' \subseteq NotebookIds \cup (1..counter')
    BY <1>2, CounterType DEF MayRun
  <1>4. placeholders' = known' \ NotebookIds
    BY Ids DEF MarkPlaceholder, CellIds, Placeholders
  <1>5. ctr' \in [CellIds -> -1..MaxCtr]
    BY <1>2, Ids
  <1>6. used' \in [CellIds -> SUBSET Syms] /\ prev' \subseteq Edge
    BY DEF UseType, GraphType
  <1> QED BY <1>1, <1>2, <1>3, <1>4, <1>5, <1>6, Ids DEF counter

\* Tracking a run keeps the two registries in agreement.
LEMMA TrackRegistries ==
    ASSUME TypeOK, RegistriesAgree, NEW id \in CellIds, MayRun(id), Track(id)
    PROVE  RegistriesAgree'
  <1>1. /\ atCtr \in Seq(CellIds) /\ ctr \in [CellIds -> -1..MaxCtr]
        /\ counter \in Nat
    BY CounterType DEF TypeOK, RegistryType
  <1>2. /\ counter' = counter + 1
        /\ atCtr'[counter + 1] = id
        /\ \A k \in 1..counter : atCtr'[k] = atCtr[k]
    BY <1>1 DEF Track, counter
  <1>3. ctr'[id] = counter + 1 /\ \A c \in CellIds : c # id => ctr'[c] = ctr[c]
    BY <1>1 DEF Track
  <1>4. known \subseteq known' /\ id \in known'
    BY DEF Track
  <1>5. ASSUME NEW k \in 1..counter' PROVE atCtr'[k] \in known'
    <2>1. CASE k = counter + 1
      BY <1>2, <1>4, <2>1
    <2>2. CASE k \in 1..counter
      BY <1>2, <1>4, <2>2 DEF RegistriesAgree
    <2> QED BY <1>1, <1>2, <2>1, <2>2
  <1>6. ASSUME NEW c \in CellIds, ctr'[c] # -1
        PROVE  c \in known' /\ ctr'[c] \in 1..counter' /\ atCtr'[ctr'[c]] = c
    <2>1. CASE c = id
      BY <1>1, <1>2, <1>3, <1>4, <2>1
    <2>2. CASE c # id
      <3>1. c \in known /\ ctr'[c] \in 1..counter /\ atCtr[ctr'[c]] = c
        BY <1>3, <1>6, <2>2 DEF RegistriesAgree
      <3>2. ctr'[c] \in 1..counter'
        BY <1>1, <1>2, <3>1
      <3> QED BY <1>2, <1>4, <3>1, <3>2
    <2> QED BY <2>1, <2>2
  <1> QED BY <1>5, <1>6 DEF RegistriesAgree

\* before_run_cell, up to the first check: the new version starts without
\* parents, so what it left in other cells' children may still be inherited.
LEMMA StartRunInv ==
    ASSUME IInv, NEW id \in CellIds, StartRun(id) PROVE IInv'
  <1> USE DEF StartRun
  <1>1. TypeOK /\ MayRun(id) /\ Track(id) /\ MarkPlaceholder(id)
    BY DEF IInv, Kept
  <1>2. TypeOK'
    <2>1. RegistryType' /\ counter' > 0
      BY <1>1, TrackType
    <2>2. GraphType'
      BY <1>1, TrackType DEF TypeOK, GraphType
    <2>3. UseType'
      BY <1>1, TrackType, CounterType DEF TypeOK, UseType
    <2>4. ControlType'
      BY <1>1, <2>1, TrackType, CounterType DEF TypeOK, ControlType, settings
    <2> QED BY <2>1, <2>2, <2>3, <2>4 DEF TypeOK
  <1>3. Owned'
    BY DEF IInv, Kept, Owned, Track
  <1>4. id \in placeholders' /\ id \notin NotebookIds => id \notin known
    BY <1>1, CounterType DEF TypeOK, RegistryType, MayRun
  <1>5. FreshPlaceholders'
    BY <1>1, <1>4, Ids DEF IInv, Kept, TypeOK, RegistryType, FreshPlaceholders, Owned, Track,
       MarkPlaceholder, Placeholders
  <1>6. NoStaleChild'
    <2> SUFFICES ASSUME NEW e \in chi', e \notin par', e.child \notin aborted'
                 PROVE  MayInherit(e)'
      BY DEF NoStaleChild
    <2>1. e \in par
      BY DEF IInv, Kept, NoStaleChild, MayInherit, MayRun
    <2>2. e.child = id
      BY <2>1
    <2>3. e \in prev' /\ <<e.ctx, e.child>> \notin shared'
      BY <2>1, <2>2 DEF Track
    <2> QED BY <2>2, <2>3 DEF MayInherit, PrevEdges
  <1>7. RegistriesAgree'
    BY <1>1, TrackRegistries DEF IInv, Kept
  <1>8. NoMutualChildren'
    BY DEF IInv, Kept, NoMutualChildren, Mutual
  <1> QED BY <1>2, <1>3, <1>5, <1>6, <1>7, <1>8 DEF IInv, Kept

\* A run with tracing off keeps its parents, and so the invariant.
LEMMA RunUntracedInv ==
    ASSUME IInv, NEW id \in CellIds, NEW enable \in BOOLEAN,
           RunUntraced(id, enable)
    PROVE  IInv'
  <1> USE DEF RunUntraced
  <1>1. TypeOK /\ MayRun(id) /\ Track(id) /\ MarkPlaceholder(id)
    BY DEF IInv, Kept
  <1>2. id \in known => id \in NotebookIds
    BY <1>1, CounterType, Ids DEF TypeOK, RegistryType, MayRun
  <1>3. shared' \subseteq Contexts \X (NotebookIds \cap known')
    BY <1>1, <1>2 DEF TypeOK, GraphType, Track
  <1>4. TypeOK'
    <2>1. RegistryType' /\ counter' > 0
      BY <1>1, TrackType
    <2>2. GraphType'
      BY <1>1, <1>3, TrackType DEF TypeOK, GraphType
    <2>3. UseType'
      BY <1>1, TrackType, CounterType DEF TypeOK, UseType
    <2>4. ControlType'
      BY <1>1, <2>1, TrackType, CounterType DEF TypeOK, ControlType, MayRun
    <2> QED BY <2>1, <2>2, <2>3, <2>4 DEF TypeOK
  <1>5. Owned'
    BY DEF IInv, Kept, Owned, Track
  <1>6. FreshPlaceholders'
    BY <1>1, <1>2, Ids DEF IInv, Kept, TypeOK, RegistryType, FreshPlaceholders, Owned, Track,
       MarkPlaceholder, Placeholders
  <1>7. NoStaleChild'
    BY DEF IInv, Kept, NoStaleChild, MayInherit, MayRun
  <1>8. RegistriesAgree'
    BY <1>1, TrackRegistries DEF IInv, Kept
  <1>9. NoMutualChildren'
    BY DEF IInv, Kept, NoMutualChildren, Mutual
  <1> QED BY <1>4, <1>5, <1>6, <1>7, <1>8, <1>9 DEF IInv, Kept

\* A check of one known cell: what it leaves to each action that makes one is
\* its own control state.
LEMMA CheckCellInv ==
    ASSUME IInv, NEW c \in known, NEW S \in SUBSET Syms, CheckCell(c, S),
           UNCHANGED <<registry, prev, shared, written, run, aborted>>,
           ControlType',
           pc \in {"precheck", "running"} => pc' \in {"precheck", "running"}
    PROVE  IInv'
  <1> DEFINE E == UNION {Deps("static", c, s, StaticTimes(s)) : s \in S}
  <1>1. TypeOK /\ RegistriesAgree /\ c \in CellIds
    BY CounterType DEF IInv, Kept
  <1>2. E \in SUBSET Edge /\ (\A e \in E : e.child = c /\ e.parent \in known) /\ AddParentEdges(E)
    BY <1>1, CheckType DEF CheckCell
  <1> HIDE DEF E
  <1>3. /\ par' \subseteq Edge /\ chi' \subseteq Edge
        /\ Kept'
    BY <1>2, AddParentEdgesInv
  <1>4. RegistryType'
    BY <1>1 DEF TypeOK, RegistryType, registry, counter
  <1>5. GraphType'
    BY <1>1, <1>3 DEF TypeOK, GraphType, registry
  <1>6. UseType'
    BY <1>1 DEF TypeOK, UseType, CheckCell, registry, counter
  <1> QED BY <1>3, <1>4, <1>5, <1>6 DEF IInv, Kept, TypeOK

\* The check before the run.
LEMMA PrecheckInv ==
    ASSUME IInv, NEW S \in SUBSET Syms, Precheck(S) PROVE IInv'
  <1> USE DEF Precheck
  <1>1. run \in known
    BY DEF IInv, Kept, TypeOK, ControlType
  <1>2. ControlType'
    BY DEF IInv, Kept, TypeOK, ControlType, settings, registry, counter
  <1> QED BY <1>1, <1>2, CheckCellInv

\* The check that ends after_run_cell.
LEMMA PostcheckInv ==
    ASSUME IInv, NEW S \in SUBSET Syms, Postcheck(S) PROVE IInv'
  <1> USE DEF Postcheck
  <1>1. run \in known
    BY DEF IInv, Kept, TypeOK, ControlType
  <1>2. ControlType'
    BY DEF IInv, Kept, TypeOK, ControlType, settings, registry, counter
  <1> QED BY <1>1, <1>2, CheckCellInv

\* One check of a content-changed notification.
LEMMA CheckNextInv ==
    ASSUME IInv, NEW c \in todo, NEW S \in SUBSET Syms, CheckNext(c, S)
    PROVE  IInv'
  <1> USE DEF CheckNext
  <1>1. c \in known
    BY DEF IInv, Kept, TypeOK, ControlType
  <1>2. ControlType'
    BY DEF IInv, Kept, TypeOK, ControlType, settings, registry, counter
  <1> QED BY <1>1, <1>2, CheckCellInv

\* An access of s adds dependencies of one known cell on the last write of s.
LEMMA AccessInv ==
    ASSUME IInv, NEW c \in known, NEW s \in Syms, NEW x \in Contexts,
           AddParentEdges(Deps(x, c, s, LastWrite(s))),
           used' = [used EXCEPT ![c] = @ \cup {s}],
           UNCHANGED <<registry, prev, shared, written, settings, pc, run, todo,
                       aborted>>
    PROVE  IInv'
  <1>1. TypeOK /\ RegistriesAgree /\ c \in CellIds
    BY CounterType DEF IInv, Kept
  <1>2. LastWrite(s) \in SUBSET (1..counter)
    BY <1>1 DEF TypeOK, UseType, LastWrite
  <1> DEFINE E == Deps(x, c, s, LastWrite(s))
  <1>3. E \in SUBSET Edge /\ (\A e \in E : e.child = c /\ e.parent \in known) /\ AddParentEdges(E)
    BY <1>1, <1>2, DepsType
  <1> HIDE DEF E
  <1>4. /\ par' \subseteq Edge /\ chi' \subseteq Edge
        /\ Kept'
    BY <1>3, AddParentEdgesInv
  <1>5. RegistryType' /\ ControlType'
    BY <1>1 DEF TypeOK, RegistryType, ControlType, registry, settings, counter
  <1>6. GraphType'
    BY <1>1, <1>4 DEF TypeOK, GraphType, registry
  <1>7. UseType'
    BY <1>1 DEF TypeOK, UseType, registry, counter
  <1> QED BY <1>4, <1>5, <1>6, <1>7 DEF IInv, Kept, TypeOK

\* A dynamic read in the running cell.
LEMMA ReadSymInv == ASSUME IInv, NEW s \in Syms, ReadSym(s) PROVE IInv'
  <1>1. run \in known
    BY DEF IInv, Kept, TypeOK, ControlType, ReadSym
  <1> QED BY <1>1, AccessInv DEF ReadSym, Contexts

\* A live reference overridden by the last cell run.
LEMMA OverrideLiveRefInv ==
    ASSUME IInv, NEW s \in Syms, OverrideLiveRef(s) PROVE IInv'
  <1>1. atCtr[counter] \in known
    BY CounterType DEF IInv, Kept, TypeOK, RegistriesAgree, OverrideLiveRef
  <1> QED BY <1>1, AccessInv DEF OverrideLiveRef, Contexts

\* A dependency saved in the notebook, between two known cells.
LEMMA RestoreParentInv ==
    ASSUME IInv, NEW c \in known, NEW p \in known, RestoreParent(c, p)
    PROVE  IInv'
  <1> USE DEF RestoreParent
  <1>1. TypeOK /\ c \in CellIds /\ p \in CellIds
    BY CounterType DEF IInv, Kept
  <1> DEFINE E == {[ctx |-> "static", child |-> c, parent |-> p,
                    sym |-> FakeEdgeSym]}
  <1>2. E \in SUBSET Edge /\ (\A e \in E : e.child = c /\ e.parent \in known) /\ AddParentEdges(E)
    BY <1>1 DEF Edge, Contexts, AllSyms
  <1> HIDE DEF E
  <1>3. /\ par' \subseteq Edge /\ chi' \subseteq Edge
        /\ Kept'
    BY <1>2, AddParentEdgesInv
  <1>4. RegistryType' /\ ControlType' /\ UseType'
    BY <1>1 DEF TypeOK, RegistryType, ControlType, UseType, registry, settings,
                counter
  <1>5. GraphType'
    BY <1>1, <1>3 DEF TypeOK, GraphType, registry
  <1> QED BY <1>3, <1>4, <1>5 DEF IInv, Kept, TypeOK

\* A write makes its symbol's last timestamp the current run.
LEMMA WriteSymInv == ASSUME IInv, NEW s \in Syms, WriteSym(s) PROVE IInv'
  <1> USE DEF WriteSym
  <1>1. Kept'
    BY QuietStep
  <1>2. TypeOK /\ counter \in 1..counter
    BY CounterType DEF IInv, Kept, TypeOK, ControlType
  <1>3. UseType'
    BY <1>2 DEF TypeOK, UseType, registry, counter
  <1>4. RegistryType' /\ GraphType' /\ ControlType'
    BY <1>2 DEF TypeOK, RegistryType, GraphType, ControlType, registry, graph,
                settings, counter
  <1> QED BY <1>1, <1>3, <1>4 DEF IInv, Kept, TypeOK

\* "%flow disable" moves no edge.
LEMMA DisableInv == ASSUME IInv, Disable PROVE IInv'
  <1> USE DEF Disable
  <1>1. Kept'
    BY QuietStep
  <1>2. TypeOK'
    BY DEF IInv, Kept, TypeOK, RegistryType, GraphType, UseType, ControlType, registry,
           graph, counter
  <1> QED BY <1>1, <1>2 DEF IInv, Kept

\* A connection changes what is visible, and no edge.
LEMMA ConnectInv ==
    ASSUME IInv, NEW order \in SUBSET NotebookIds, Connect(order) PROVE IInv'
  <1> USE DEF Connect
  <1>1. Kept'
    BY QuietStep
  <1>2. TypeOK'
    BY DEF IInv, Kept, TypeOK, RegistryType, GraphType, UseType, ControlType, registry,
           graph, counter, CellIds
  <1> QED BY <1>1, <1>2 DEF IInv, Kept

\* A notification changes what is visible, and no edge.
LEMMA NotifyInv ==
    ASSUME IInv, NEW order \in SUBSET NotebookIds, NEW recompute \in BOOLEAN,
           Notify(order, recompute)
    PROVE  IInv'
  <1> USE DEF Notify
  <1>1. Kept'
    BY QuietStep
  <1>2. RegistryType' /\ GraphType' /\ UseType'
    BY DEF IInv, Kept, TypeOK, RegistryType, GraphType, UseType, registry, graph, counter
  <1>3. ControlType'
    BY DEF IInv, Kept, TypeOK, ControlType, registry, CellIds
  <1> QED BY <1>1, <1>2, <1>3 DEF IInv, Kept, TypeOK

\* The end of the connection moves no edge.
LEMMA FinishConnectInv == ASSUME IInv, FinishConnect PROVE IInv'
  <1> USE DEF FinishConnect
  <1>1. Kept'
    BY QuietStep
  <1>2. TypeOK'
    BY DEF IInv, Kept, TypeOK, RegistryType, GraphType, UseType, ControlType, registry,
           graph, settings, counter
  <1> QED BY <1>1, <1>2 DEF IInv, Kept

\* Untracked cells join the registry by id only.
LEMMA FinishNotifyInv == ASSUME IInv, FinishNotify PROVE IInv'
  <1> USE DEF FinishNotify
  <1>1. Kept'
    BY DEF IInv, Kept, RegistriesAgree, counter, Owned, FreshPlaceholders,
           NoMutualChildren, Mutual, NoStaleChild, MayInherit, PrevEdges, graph
  <1>2. RegistryType' /\ GraphType' /\ UseType'
    BY DEF IInv, Kept, TypeOK, RegistryType, GraphType, UseType, graph, counter
  <1>3. ControlType'
    BY DEF IInv, Kept, TypeOK, ControlType, settings, counter
  <1> QED BY <1>1, <1>2, <1>3 DEF IInv, Kept, TypeOK

\* The clean-up removes the child entries of every parent that the cell
\* names no longer: NoStaleChild holds of it from here on.
LEMMA EndRunInv ==
    ASSUME IInv, NEW D \in SUBSET Syms, EndRun(D) PROVE IInv'
  <1> USE DEF EndRun
  <1>1. /\ par' \subseteq par /\ chi' \subseteq chi
        /\ \A e \in chi' : e \in par => e \in par'
        /\ \A e \in chi : e \in par' => e \in chi'
    BY DEF ParAfter, ChiAfter, Dangles, Gone
  <1>2. RegistryType' /\ GraphType' /\ UseType' /\ ControlType'
    BY <1>1 DEF IInv, Kept, TypeOK, RegistryType, GraphType, UseType, ControlType,
                registry, settings, counter
  <1>3. RegistriesAgree' /\ Owned' /\ NoMutualChildren'
    BY <1>1 DEF IInv, Kept, RegistriesAgree, Owned, NoMutualChildren, Mutual, registry,
                counter
  <1>4. FreshPlaceholders'
    BY <1>1 DEF IInv, Kept, FreshPlaceholders, registry
  <1>5. NoStaleChild'
    <2> SUFFICES ASSUME NEW e \in chi', e.child \notin aborted
                 PROVE  e \in par'
      BY DEF NoStaleChild
    <2>1. e \in par \/ MayInherit(e)
      BY <1>1 DEF IInv, Kept, NoStaleChild
    <2>2. ASSUME MayInherit(e) PROVE e \in ParAfter(D)
      BY <2>2 DEF MayInherit, ChiAfter, Gone
    <2> QED BY <1>1, <2>1, <2>2
  <1> QED BY <1>2, <1>3, <1>4, <1>5 DEF IInv, Kept, TypeOK

\* A run without its clean-up makes the cell one of the aborted.
LEMMA AbortRunInv ==
    ASSUME IInv, NEW K \in SUBSET Gone({}), AbortRun(K) PROVE IInv'
  <1> USE DEF AbortRun
  <1>1. run \in CellIds
    BY CounterType DEF IInv, Kept, TypeOK, ControlType
  <1>2. RegistryType' /\ GraphType' /\ UseType' /\ ControlType'
    BY <1>1 DEF IInv, Kept, TypeOK, RegistryType, GraphType, UseType, ControlType,
                registry, settings, counter
  <1>3. RegistriesAgree' /\ Owned' /\ FreshPlaceholders' /\ NoMutualChildren'
    BY DEF IInv, Kept, RegistriesAgree, Owned, FreshPlaceholders, NoMutualChildren, Mutual,
           Gone, ParAfter, registry, counter
  <1>4. NoStaleChild'
    BY DEF IInv, Kept, NoStaleChild, MayInherit
  <1> QED BY <1>2, <1>3, <1>4 DEF IInv, Kept, TypeOK

\* An edge that both of its ends know is renamed alike at both ends.
LEMMA RenameAgrees ==
    ASSUME NEW e \in par \cap chi, NEW old, NEW new
    PROVE  RenamePar(e, old, new) = RenameChi(e, old, new)
  <1>1. e.child \in ChildrenOf(e.ctx, e.parent)
    BY DEF ChildrenOf
  <1>2. e.parent \in ParentsOf(e.ctx, e.child)
    BY DEF ParentsOf
  <1> QED BY <1>1, <1>2 DEF RenamePar, RenameChi, Rename

\* A renaming takes every version of the cell with it.
LEMMA UpdateIdRegistries ==
    ASSUME IInv, NEW old \in placeholders, NEW new \in NotebookIds,
           UpdateId(old, new)
    PROVE  RegistryType' /\ RegistriesAgree' /\ counter' = counter
  <1>1. /\ TypeOK /\ old \in known /\ old \notin NotebookIds /\ new \notin known
        /\ old \in CellIds /\ new \in CellIds /\ old # new
    BY CounterType DEF IInv, Kept, TypeOK, RegistryType, UpdateId, CellIds
  <1>2. atCtr \in Seq(CellIds) /\ ctr \in [CellIds -> -1..MaxCtr]
    BY <1>1 DEF TypeOK, RegistryType
  <1>3. /\ atCtr' = [k \in 1..Len(atCtr) |-> Rename(atCtr[k], old, new)]
        /\ \A k \in 1..Len(atCtr) : atCtr'[k] \in CellIds
    BY <1>1, <1>2 DEF UpdateId, RenameRuns, Rename
  <1>4. atCtr' \in Seq(CellIds) /\ counter' = counter
    BY <1>2, <1>3 DEF counter
  <1>5. known' = (known \ {old}) \cup {new} /\ placeholders' = placeholders \ {old}
    BY DEF UpdateId
  <1>6. /\ ctr'[old] = -1 /\ ctr'[new] = ctr[old]
        /\ \A c \in CellIds \ {old, new} : ctr'[c] = ctr[c]
        /\ ctr' \in [CellIds -> -1..MaxCtr]
    <2>1. ctr' = [ctr EXCEPT ![new] = ctr[old], ![old] = -1]
      BY DEF UpdateId
    <2>2. ctr[old] \in -1..MaxCtr /\ -1 \in -1..MaxCtr
      BY <1>1, <1>2, Ids
    <2> QED BY <1>1, <1>2, <2>1, <2>2
  <1>7. RegistryType'
    BY <1>1, <1>4, <1>5, <1>6 DEF TypeOK, RegistryType, counter
  <1>8. ASSUME NEW k \in 1..counter' PROVE atCtr'[k] \in known'
    <2>1. atCtr[k] \in known /\ atCtr'[k] = Rename(atCtr[k], old, new)
      BY <1>3, <1>4 DEF IInv, Kept, RegistriesAgree, counter
    <2> QED BY <1>5, <2>1 DEF Rename
  <1>9. ASSUME NEW c \in CellIds, ctr'[c] # -1
        PROVE  c \in known' /\ ctr'[c] \in 1..counter' /\ atCtr'[ctr'[c]] = c
    <2> DEFINE b == IF c = new THEN old ELSE c
    <2>1. b \in CellIds /\ ctr'[c] = ctr[b] /\ c # old /\ c = Rename(b, old, new)
      BY <1>1, <1>6, <1>9 DEF Rename
    <2> HIDE DEF b
    <2>2. b \in known /\ ctr[b] \in 1..counter /\ atCtr[ctr[b]] = b
      BY <1>9, <2>1 DEF IInv, Kept, RegistriesAgree
    <2>3. atCtr'[ctr[b]] = Rename(b, old, new)
      BY <1>3, <2>2 DEF counter
    <2> QED BY <1>4, <1>5, <2>1, <2>2, <2>3 DEF Rename
  <1> QED BY <1>4, <1>7, <1>8, <1>9 DEF RegistriesAgree

\* update_id keeps both ends of every edge together.
LEMMA UpdateIdInv ==
    ASSUME IInv, NEW old \in placeholders, NEW new \in NotebookIds,
           UpdateId(old, new)
    PROVE  IInv'
  <1>1. /\ TypeOK /\ old \in known /\ old \notin NotebookIds /\ new \notin known
        /\ old \in CellIds /\ new \in CellIds /\ new \notin placeholders
    BY CounterType DEF IInv, Kept, TypeOK, RegistryType, UpdateId, CellIds
  <1>2. RegistryType' /\ RegistriesAgree' /\ counter' = counter
    BY UpdateIdRegistries
  <1>3. /\ par' = {RenamePar(e, old, new) : e \in par}
        /\ chi' = {RenameChi(e, old, new) : e \in chi}
        /\ known' = (known \ {old}) \cup {new}
        /\ placeholders' = placeholders \ {old}
        /\ aborted' = {Rename(c, old, new) : c \in aborted}
    BY DEF UpdateId
  <1>4. ASSUME NEW e \in prev'
        PROVE  e \in Edge /\ e.child \in known' /\ e.child \notin placeholders
    <2>1. CASE e \in prev
      BY <1>1, <1>3, <2>1 DEF IInv, Kept, TypeOK, GraphType, Owned, FreshPlaceholders
    <2>2. CASE e \in par /\ <<e.ctx, e.child>> \in shared
      BY <1>1, <1>3, <2>2 DEF IInv, Kept, TypeOK, RegistryType, GraphType
    <2> QED BY <2>1, <2>2 DEF UpdateId, Unshared
  <1>5. ASSUME NEW e \in chi, e.child \in placeholders
        PROVE  e \in par
    BY <1>5 DEF IInv, Kept, FreshPlaceholders
  <1>6. ASSUME NEW e \in chi
        PROVE  RenameChi(e, old, new).child = Rename(e.child, old, new)
    <2>1. CASE e.child = old
      BY <1>5, <2>1 DEF RenameChi, ParentsOf
    <2>2. CASE e.child # old
      BY <2>2 DEF RenameChi, Rename
    <2> QED BY <2>1, <2>2
  <1>7. ASSUME NEW e \in par
        PROVE  RenamePar(e, old, new).child = Rename(e.child, old, new)
    BY DEF RenamePar
  <1>8. GraphType'
    <2>1. par' \subseteq Edge /\ chi' \subseteq Edge
      BY <1>1, <1>3 DEF TypeOK, GraphType, Edge, RenamePar, RenameChi, Rename
    <2>2. shared' \subseteq Contexts \X (NotebookIds \cap known')
      BY <1>1, <1>3 DEF TypeOK, GraphType, UpdateId
    <2> QED BY <1>4, <2>1, <2>2 DEF GraphType
  <1>9. UseType' /\ ControlType'
    BY <1>1, <1>2 DEF TypeOK, UseType, ControlType, UpdateId, settings, Rename
  <1>10. Owned'
    <2>1. \A e \in par' \cup chi' \cup prev' : e.child \in known'
      BY <1>3, <1>4, <1>6, <1>7 DEF IInv, Kept, Owned, Rename
    <2>2. \A e \in chi' : e.parent \in known'
      BY <1>3 DEF IInv, Kept, Owned, Rename, RenameChi
    <2> QED BY <2>1, <2>2 DEF Owned
  <1>11. ASSUME NEW e \in chi, e \in par
         PROVE  RenameChi(e, old, new) \in par'
    BY <1>3, <1>11, RenameAgrees
  <1>12. FreshPlaceholders'
    <2>1. ASSUME NEW e \in chi', e.child \in placeholders' PROVE e \in par'
      <3>1. PICK f \in chi : e = RenameChi(f, old, new)
        BY <1>3
      <3>2. f.child \in placeholders
        BY <1>1, <1>3, <1>6, <2>1, <3>1 DEF Rename
      <3> QED BY <1>5, <1>11, <3>1, <3>2
    <2>2. ASSUME NEW e \in par', e.child \in placeholders' PROVE e \in chi'
      <3>1. PICK f \in par : e = RenamePar(f, old, new)
        BY <1>3
      <3>2. f.child \in placeholders
        BY <1>1, <1>3, <1>7, <2>2, <3>1 DEF Rename
      <3>3. f \in chi
        BY <3>2 DEF IInv, Kept, FreshPlaceholders
      <3> QED BY <1>3, <3>1, <3>3, RenameAgrees
    <2> QED BY <1>3, <1>4, <2>1, <2>2 DEF FreshPlaceholders
  <1>13. NoStaleChild'
    <2> SUFFICES ASSUME NEW e \in chi', e.child \notin aborted'
                 PROVE  e \in par'
      BY DEF NoStaleChild
    <2>1. PICK f \in chi : e = RenameChi(f, old, new)
      BY <1>3
    <2>2. f.child \notin aborted
      BY <1>3, <1>6, <2>1
    <2>3. f \in par
      BY <2>2 DEF IInv, Kept, NoStaleChild, MayInherit, UpdateId
    <2> QED BY <1>11, <2>1, <2>3
  <1>14. NoMutualChildren'
    <2> SUFFICES ASSUME NEW e \in chi', NEW f \in chi', Mutual(e, f)
                 PROVE  FALSE
      BY DEF NoMutualChildren, Mutual
    <2>1. PICK a \in chi : e = RenameChi(a, old, new)
      BY <1>3
    <2>2. PICK b \in chi : f = RenameChi(b, old, new)
      BY <1>3
    <2>3. /\ a.child \in known /\ a.parent \in known /\ b.child \in known /\ b.parent \in known
          /\ e.ctx = a.ctx /\ e.parent = Rename(a.parent, old, new)
          /\ f.ctx = b.ctx /\ f.parent = Rename(b.parent, old, new)
          /\ e.child = Rename(a.child, old, new) /\ f.child = Rename(b.child, old, new)
      BY <1>6, <2>1, <2>2 DEF IInv, Kept, Owned, RenameChi
    <2>4. Mutual(a, b)
      BY <1>1, <2>3 DEF Mutual, Rename
    <2> QED BY <2>4 DEF IInv, Kept, NoMutualChildren
  <1> QED BY <1>2, <1>8, <1>9, <1>10, <1>12, <1>13, <1>14 DEF IInv, Kept, TypeOK

-----------------------------------------------------------------------------
(* The invariant, and the properties that follow from it.                  *)

\* The empty session satisfies the invariant.
LEMMA InitInv == Init => IInv
  <1> SUFFICES ASSUME Init PROVE IInv
    OBVIOUS
  <1>1. counter = 0 /\ atCtr \in Seq(CellIds)
    BY DEF Init, counter
  <1>2. RegistryType
    BY <1>1, Ids DEF Init, RegistryType, counter
  <1>3. GraphType /\ UseType /\ ControlType
    BY DEF Init, GraphType, UseType, ControlType
  <1>4. Kept
    BY <1>1 DEF Init, Kept, RegistriesAgree, Owned, FreshPlaceholders, NoMutualChildren,
                NoStaleChild
  <1> QED BY <1>2, <1>3, <1>4 DEF IInv, Kept, TypeOK

\* A check meets symbols of the program.
LEMMA CheckableType == \A c : Checkable(c) \subseteq Syms
  BY DEF Checkable

\* Every step of the kernel keeps the invariant.
LEMMA StepInv == IInv /\ [Next]_vars => IInv'
  <1> SUFFICES ASSUME IInv, [Next]_vars PROVE IInv'
    OBVIOUS
  <1>1. CASE RunNext
    BY <1>1, StartRunInv, RunUntracedInv, PrecheckInv, ReadSymInv, WriteSymInv,
       DisableInv, EndRunInv, PostcheckInv, AbortRunInv, CheckableType DEF RunNext
  <1>2. CASE CommNext
    BY <1>2, ConnectInv, NotifyInv, CheckNextInv, UpdateIdInv, FinishNotifyInv,
       FinishConnectInv, RestoreParentInv, OverrideLiveRefInv, CheckableType
    DEF CommNext
  <1>3. CASE UNCHANGED vars
    BY <1>3 DEF vars, registry, graph, settings, IInv, Kept, TypeOK, RegistryType,
                GraphType, UseType, ControlType, RegistriesAgree, Owned,
                FreshPlaceholders, NoMutualChildren, Mutual, NoStaleChild, MayInherit,
                PrevEdges, counter
  <1> QED BY <1>1, <1>2, <1>3 DEF Next

\* The inductive invariant holds throughout.
LEMMA Invariance == Spec => []IInv
  BY InitInv, StepInv, PTL DEF Spec

\* Every variable keeps its type: in particular the handlers look up no id
\* that the registry has not got, and only notebook ids share dictionaries.
THEOREM TypeCorrect == Spec => []TypeOK
  BY Invariance, PTL DEF IInv, Kept

\* The registry by id and the registry by counter stay consistent, whatever
\* runs, renamings and edits take place.
THEOREM RegistriesConsistent == Spec => []RegistriesAgree
  BY Invariance, PTL DEF IInv, Kept

\* Outside its own run, a cell whose runs were all cleaned up is listed as a
\* child only by the cells it names as parents.
THEOREM NoStaleChildren == Spec => []NoStaleChild
  BY Invariance, PTL DEF IInv, Kept

\* Whenever a placeholder may be given its notebook id, every neighbour it has is
\* known by its id and lists the edge.
THEOREM RenamingFindsNeighbours == Spec => []RenameFindsNeighbours
  <1>1. IInv => RenameFindsNeighbours
    BY DEF IInv, Kept, Owned, FreshPlaceholders, RenameFindsNeighbours
  <1> QED BY <1>1, Invariance, PTL

\* Two cells are each other's parent through an inherited edge or not at all.
THEOREM MutualThroughInheritance == Spec => []MutualOnlyIfInherited
  <1>1. IInv => MutualOnlyIfInherited
    BY DEF IInv, Kept, NoMutualChildren, MutualOnlyIfInherited
  <1> QED BY <1>1, Invariance, PTL

=============================================================================
