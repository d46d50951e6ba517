------------------------------ MODULE CellTags ------------------------------
(***************************************************************************)
(* Tags of cells, on top of the registry of versions: which versions a     *)
(* slice by tag starts from, and which cells run again when a cell with a  *)
(* tag has run.                                                            *)
(*                                                                         *)
(* A run that comes without a cell id gets a placeholder for one, which    *)
(* the frontend's next request replaces.  The sets of _cells_by_tag hash a *)
(* version by its id: one that has been renamed is not found in them.      *)
(***************************************************************************)
EXTENDS CellRegistry

CONSTANTS
    Tags,          \* names of tags
    Placeholders,  \* the ids that stand for a missing one
    None           \* no cell

ASSUME TagsAssumption == Placeholders \subseteq Ids /\ None \notin Ids

VARIABLES
    tags,      \* the tags of every version
    reacts,    \* reactive_tags of every version
    byTag,     \* _cells_by_tag: <<tag, version, the id it was hashed by>>
    reactive,  \* _reactive_cells_by_tag
    last,      \* last_executed_cell_id
    inCell,    \* is the last version made still running?
    loose      \* history: tags taken away or given late, or of renamed versions

tagVars == <<tags, reacts, byTag, reactive, last, inCell, loose>>
allVars == <<vars, tagVars>>
Versions == DOMAIN versions
IdOf(v) == versions[v].id
Latest(v) == \A w \in Versions : versions[w].prev # v

TagsInit ==
    /\ Init
    /\ tags = << >> /\ reacts = << >> /\ byTag = {} /\ reactive = {}
    /\ last = None /\ inCell = FALSE /\ loose = {}

TagsOf(v) == IF v = 0 THEN {} ELSE tags[v]
ReactsOf(v) == IF v = 0 THEN {} ELSE reacts[v]

\* What create_and_track makes of the tags T of the request.
RetaggedBeside(id, T) ==  \* mutant: the old version stays
    byTag \cup {<<t, NextVersion, id>> : t \in T}
Retagged(id, T) ==
    (byTag \ {<<t, current[id], id>> : t \in TagsOf(current[id])})
        \cup {<<t, NextVersion, id>> : t \in T}
Unreact(id) == reactive \ {<<t, id>> : t \in ReactsOf(current[id])}
Track(id, T) ==
    LET all == T \cup TagsOf(current[id])
    IN  /\ tags' = Append(tags, all) /\ reacts' = Append(reacts, {})
        /\ byTag' = Retagged(id, all) /\ reactive' = Unreact(id)

\* A cell starts to run, with the tags of the notebook's metadata.
StartCell(id, store, T) ==
    /\ id \in Placeholders => current[id] = 0
    /\ Run(id, store) /\ Track(id, T)
    /\ last' = id /\ inCell' = TRUE
    /\ UNCHANGED loose

NewCell(id) ==
    /\ id \notin Placeholders
    /\ CreateUntracked(id) /\ Track(id, {})
    /\ inCell' = FALSE /\ UNCHANGED <<last, loose>>

-----------------------------------------------------------------------------
(* The magics a running cell may call.                                     *)

At(ctr) == CHOOSE v \in Versions : <<ctr, v>> \in byCtr
Numbered == {m[1] : m \in byCtr}

\* "%flow tag t --cell ctr", by default of the running cell
AddTag(ctr, t) ==
    LET v == At(ctr)
    IN  /\ inCell /\ ctr \in Numbered
        /\ tags' = [tags EXCEPT ![v] = @ \cup {t}]
        /\ byTag' = byTag \cup {<<t, v, IdOf(v)>>}
        /\ loose' = IF Latest(v) THEN loose ELSE loose \cup {<<t, v>>}
        /\ UNCHANGED <<vars, reacts, reactive, last, inCell>>

\* "%flow tag --remove t": _cells_by_tag keeps the version
RemoveTag(ctr, t) ==
    LET v == At(ctr)
    IN  /\ inCell /\ ctr \in Numbered /\ t \in tags[v]
        /\ tags' = [tags EXCEPT ![v] = @ \ {t}]
        /\ loose' = loose \cup {<<t, v>>}
        /\ UNCHANGED <<vars, reacts, byTag, reactive, last, inCell>>

\* "%flow slice --tag $t" slices the cells with the tag, and asks that this cell
\* runs again whenever one of them has run.
SliceCells(t) == {m[2] : m \in {x \in byTag : x[1] = t}}
React(t) ==
    LET v == At(counter)
    IN  /\ inCell
        /\ reacts' = [reacts EXCEPT ![v] = @ \cup {t}]
        /\ reactive' = reactive \cup {<<t, IdOf(v)>>}
        /\ UNCHANGED <<vars, tags, byTag, last, inCell, loose>>

\* update_id, when the frontend shows which cell the placeholder was
ReactiveStays(old, new) == reactive  \* mutant
ReactiveRenamed(old, new) ==
    {IF m[2] = old THEN <<m[1], new>> ELSE m : m \in reactive}
Rename(old, new) ==
    LET v == current[old]
    IN  /\ old \in Placeholders /\ v # 0
        /\ new \notin Placeholders /\ current[new] = 0
        /\ versions' = [versions EXCEPT ![v].id = new]
        /\ current' = [current EXCEPT ![old] = 0, ![new] = v]
        /\ reactive' = ReactiveRenamed(old, new)
        /\ loose' = loose \cup {<<t, v>> : t \in tags[v]}
        /\ inCell' = FALSE
        /\ UNCHANGED <<byCtr, counter, prompt, tags, reacts, byTag, last>>

TagsNext ==
    \/ \E id \in Ids, store \in StoreHistory, T \in SUBSET Tags : StartCell(id, store, T)
    \/ \E id \in Ids : NewCell(id)
    \/ \E ctr \in Numbered, t \in Tags : AddTag(ctr, t) \/ RemoveTag(ctr, t)
    \/ \E t \in Tags : React(t)
    \/ \E old, new \in Ids : Rename(old, new)

TagsSpec == TagsInit /\ [][TagsNext]_allVars

-----------------------------------------------------------------------------

\* forced_reactive_cells of a check.  (The check raises an error instead when the
\* cell last run had a placeholder id that has been replaced.)
Forced ==
    IF last = None \/ current[last] = 0 THEN {}
    ELSE {m[2] : m \in {x \in reactive : x[1] \in tags[current[last]]}}

\* A slice by tag starts from the latest versions of the cells that carry the
\* tag, and from no version that another has replaced: but for a tag that was
\* taken away, given to a replaced version, or carried by a renamed one.
TagsFollowCells ==
    \A t \in Tags, v \in Versions :
        <<t, v>> \notin loose => (v \in SliceCells(t) <=> t \in tags[v] /\ Latest(v))

\* The cells forced to run after a cell with a tag are those whose last run asked
\* for it, under the ids they now have: but for cells of which a run that stored
\* no history has left a version that no other replaced.
Kept(id) == \A v \in Versions : IdOf(v) = id /\ Latest(v) => v = current[id]
ForcedAsAsked ==
    last # None /\ current[last] # 0 =>
        \A id \in Ids :
            Kept(id) => (id \in Forced <=> ReactsOf(current[id]) \cap tags[current[last]] # {})
=============================================================================
