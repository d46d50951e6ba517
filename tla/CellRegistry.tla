---------------------------- MODULE CellRegistry ----------------------------
(***************************************************************************)
(* How executed cells get their numbers, and which version of a cell is    *)
(* the one its id stands for: Cell.create_and_track against IPython's own  *)
(* execution counter, which a run advances only if it stores history.      *)
(*                                                                         *)
(* CellGraph is the same registry with the edges, for sessions in which    *)
(* every run stores history and the two counters agree.                    *)
(***************************************************************************)
EXTENDS Integers, Sequences

CONSTANTS
    Ids,           \* the notebook's cell ids
    StoreHistory,  \* values of store_history the frontends send
    Started,       \* prompt numbers at which ipyflow may be loaded
    MaxRuns        \* bound: Cell objects made in a session

ASSUME SessionAssumption ==
    /\ MaxRuns \in Nat /\ Started \subseteq Nat \ {0}
    /\ StoreHistory \subseteq BOOLEAN

VARIABLES
    versions,   \* every Cell ever made: its id, cell_ctr and prev_cell
    byCtr,      \* _cell_by_cell_ctr, as a relation from counters to versions
    current,    \* _current_cell_by_cell_id; 0 for an id not in it
    counter,    \* _cell_counter
    prompt      \* IPython's execution_count

vars == <<versions, byCtr, current, counter, prompt>>

NextVersion == Len(versions) + 1

\* IPyflowInteractiveShell.inject, between two cells: the counters agree.
Init ==
    /\ versions = << >> /\ byCtr = {}
    /\ current = [id \in Ids |-> 0]
    /\ prompt \in Started /\ counter = prompt - 1

\* The number of the next run; with a history to store, IPython's number.
BumpedCtr(store) == counter + 1
NextCtr(store) == IF store /\ counter + 1 # prompt THEN prompt ELSE counter + 1

Tracked(ctr) ==
    IF ctr > -1 THEN {m \in byCtr : m[1] # ctr} \cup {<<ctr, NextVersion>>}
                ELSE byCtr

\* The new version replaces the current one v only if its number is higher.
ReplacesAlways(ctr, v) == TRUE
Replaces(ctr, v) == v = 0 \/ ctr > versions[v].ctr

CreateAndTrack(id, ctr) ==
    /\ NextVersion <= MaxRuns
    /\ versions' = Append(versions, [id |-> id, ctr |-> ctr, prev |-> current[id]])
    /\ byCtr' = Tracked(ctr)
    /\ current' = IF Replaces(ctr, current[id])
                  THEN [current EXCEPT ![id] = NextVersion] ELSE current

\* A run, and IPython's own counting of it.
Run(id, store) ==
    /\ CreateAndTrack(id, NextCtr(store))
    /\ counter' = NextCtr(store)
    /\ prompt' = IF store THEN prompt + 1 ELSE prompt

\* A cell of the notebook that has never been run gets no number.
CreateUntracked(id) ==
    /\ current[id] = 0
    /\ CreateAndTrack(id, -1)
    /\ UNCHANGED <<counter, prompt>>

Next ==
    \/ \E id \in Ids, store \in StoreHistory : Run(id, store)
    \/ \E id \in Ids : CreateUntracked(id)

Spec == Init /\ [][Next]_vars

-----------------------------------------------------------------------------

\* Types; in particular every counter and every id leads to a version that
\* exists, and the number -1 is never looked up.
TypeOK ==
    /\ versions \in Seq([id : Ids, ctr : Nat \cup {-1}, prev : Nat])
    /\ byCtr \subseteq Nat \X (1..Len(versions))
    /\ current \in [Ids -> 0..Len(versions)]
    /\ counter \in Nat /\ prompt \in Nat \ {0}

IsRun == byCtr' # byCtr

\* A run that advances IPython's counter carries the number of its prompt,
\* whatever unnumbered runs came before it.
NumberIsPrompt == [][prompt' # prompt => counter' = prompt]_vars

\* The version an id stands for has the highest number of all the versions
\* that id ever had, and they were made in the order of their prev_cell chain.
CurrentHasHighestNumber ==
    \A v \in 1..Len(versions) :
        /\ current[versions[v].id] # 0
        /\ versions[v].ctr <= versions[current[versions[v].id]].ctr
        /\ versions[v].prev < v
        /\ versions[v].prev # 0 => versions[versions[v].prev].id = versions[v].id

\* "cell_num ... increments every time any cell runs (so it strictly increases
\* across the session)", docs/concepts/dataflow_model.rst.
StrictlyIncreasing == [][IsRun => counter' > counter]_vars

\* A number, once given, goes on denoting the version it was given to.
NumberNeverReused ==
    \A v \in 1..Len(versions) : versions[v].ctr # -1 => <<versions[v].ctr, v>> \in byCtr

=============================================================================
