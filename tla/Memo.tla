-------------------------------- MODULE Memo --------------------------------
(***************************************************************************)
(* Cells marked %%memoize: what an execution records, when a later run of  *)
(* the same content reuses it, and what the reuse restores.                *)
(*                                                                         *)
(* A cell's content is one statement.  A memoized one computes a new       *)
(* object from one variable, `to = Compute(from)`; the others assign a new *)
(* object, name an existing one, or update one in place.  The user may     *)
(* edit a cell before any run, so any content runs in any cell; the        *)
(* records are found by content, whichever cell made them.                 *)
(*                                                                         *)
(* A value is a record: its type; its items as the comparison of inputs    *)
(* sees them (a scalar has one, a dict its sorted pairs, a set a fixed     *)
(* order); and the rest, that this comparison does not see ([1] is [True]  *)
(* to it).  The type "arrays" is a list or tuple with arrays or frames     *)
(* among its items, "other" all that has no comparable form: instances of  *)
(* classes, functions, containers that hold one, or one object twice.      *)
(***************************************************************************)
EXTENDS Naturals, Sequences, FiniteSets, FiniteSetsExt

CONSTANTS
    Cells,     \* ids of cells
    Names,     \* global variables
    Given,     \* those that contents which are not memoized assign
    Values,    \* values of objects: records [type, items, rest]
    Literals,  \* those that contents which are not memoized give to variables
    Compute,   \* the value that a memoized content computes from another
    Updated,   \* the value that an update in place leaves
    Contents,  \* the memoized contents: pairs <<to, from>>
    Large,     \* values whose printed form is above the limit for old outputs
    MaxRuns    \* bound: number of runs

\* The comparable form of these is the object itself, that of the others a copy.
ByReference == {"bytearray", "array", "frame", "arrays"}
Immutable == {"bool", "int", "float", "str", "bytes", "tuple", "frozenset"}

ASSUME MemoAssumption ==
    /\ Compute \in [Values -> Values] /\ Updated \in [Values -> Values]
    /\ \A v \in Values :
          Updated[v].type \in ByReference <=> v.type \in ByReference
    /\ Given \subseteq Names /\ Contents \subseteq Names \X Names
    /\ MaxRuns \in Nat /\ Large \subseteq Values /\ Literals \subseteq Values

Objects == 1..MaxRuns

VARIABLES
    heap,      \* the objects made so far: value, last in-place update
    obj,       \* the object of each variable and of its symbol, 0 for none
    ts,        \* timestamp.cell_num of each symbol, 0 for none
    memoTs,    \* last_updated_timestamp_by_obj_id of each symbol
    ran,       \* _cell_by_cell_ctr: cell and memoized content of each run
    parents,   \* raw_dynamic_parents of each run's version: <<cell, symbol>>
    children,  \* raw_dynamic_children: <<parent, child, symbol>>
    memo,      \* _memoized_executions
    tee,       \* what the OutputRecorder has captured last, {} for nothing yet
    captured,  \* captured_output of each run's version, {} for None
    wrote,     \* history: the last run that executed a write of a variable
    last       \* history: the last run's verdict

output == <<tee, captured>>
vars == <<heap, obj, ts, memoTs, ran, parents, children, memo, output, wrote, last>>

now == Len(ran)
Plain == << >>  \* stands for a content that is not memoized
NotReused == [reused |-> 0, from |-> {}, verbose |-> FALSE]

Init ==
    /\ heap = << >>
    /\ obj = [n \in Names |-> 0] /\ ts = [n \in Names |-> 0]
    /\ memoTs = [n \in Names |-> [o \in Objects |-> 0]]
    /\ ran = << >> /\ parents = << >> /\ children = {}
    /\ tee = {} /\ captured = << >>
    /\ memo = {} /\ wrote = [n \in Names |-> 0] /\ last = NotReused

-----------------------------------------------------------------------------
(* Versions and edges.                                                     *)

Versions(c) == {k \in 1..now : ran[k].cell = c}
Prev(c) == Max(Versions(c) \cup {0})  \* the run of prev_cell
PrevParents(c) == IF Prev(c) = 0 THEN {} ELSE parents[Prev(c)]

\* add_data_dep in a run of c: an edge to the run that wrote n last, if that
\* run's version is still the current one of its cell.
Reads(c, n) ==
    {<<p, n>> : p \in {q \in Cells \ {c} : Prev(q) = ts[n] /\ ts[n] # 0}}

\* add_parent_edges on a new version of c: never to a child; an edge to itself
\* takes over what its previous version had for the symbol.
Direct(c, E) ==
    {e \in E : e[1] # c /\ \A s \in Names : <<c, e[1], s>> \notin children}
Inherited(c, E) == {e \in PrevParents(c) : <<c, e[2]>> \in E}

\* create_and_track, the edges asked for (E), and the clean-up of what only
\* the previous version had.
Track(c, content, E) ==
    LET mine == Direct(c, E) \cup Inherited(c, E)
    IN  /\ ran' = Append(ran, [cell |-> c, content |-> content])
        /\ parents' = Append(parents, mine)
        /\ children' = (children \cup {<<e[1], c, e[2]>> : e \in Direct(c, E)})
                         \ {<<e[1], c, e[2]>> : e \in PrevParents(c) \ mine}

-----------------------------------------------------------------------------
(* Output.  A run prints the value it writes; its output is a sequence.    *)

\* _handle_output: an output that is large goes when its cell runs again; the
\* new version gets what it has been given already, else what was captured last.
IsLarge(out) == \E s \in out : \E v \in Large : s = <<v>>
Dropped(c) ==
    [k \in 1..now |-> IF k = Prev(c) /\ IsLarge(captured[k]) THEN {} ELSE captured[k]]
HandleOutput(c, out) == captured' = Append(Dropped(c), out)

\* A run whose output is recorded.
Prints(c, out) == tee' = {out} /\ HandleOutput(c, {out})

\* A run below %%capture, which records its output itself: the recorder still
\* has that of an earlier run.
PrintsCaptured(c) == tee' = tee /\ HandleOutput(c, tee)

-----------------------------------------------------------------------------
(* Runs that are not memoized.                                             *)

Make(v) == heap' = Append(heap, [val |-> v, touched |-> 0])
Assign(n, o) ==
    /\ obj' = [obj EXCEPT ![n] = o]
    /\ ts' = [ts EXCEPT ![n] = now + 1]
    /\ wrote' = [wrote EXCEPT ![n] = now + 1]

\* n = <a new object>
RunValue(c, n, v, capture) ==
    /\ now < MaxRuns
    /\ Make(v) /\ Assign(n, Len(heap) + 1)
    /\ Track(c, Plain, {})
    /\ IF capture THEN PrintsCaptured(c) ELSE Prints(c, <<v>>)
    /\ last' = NotReused
    /\ UNCHANGED <<memoTs, memo>>

\* n = m
RunAlias(c, n, m) ==
    /\ now < MaxRuns /\ obj[m] # 0 /\ n # m
    /\ Assign(n, obj[m]) /\ Track(c, Plain, Reads(c, m)) /\ Prints(c, << >>)
    /\ last' = NotReused
    /\ UNCHANGED <<heap, memoTs, memo>>

\* n.update(): every alias of the object is updated.
RunUpdate(c, n) ==
    /\ now < MaxRuns /\ obj[n] # 0 /\ heap[obj[n]].val.type \notin Immutable
    /\ heap' = [heap EXCEPT ![obj[n]].val = Updated[@], ![obj[n]].touched = now + 1]
    /\ LET Touch(g) == [m \in Names |-> IF obj[m] = obj[n] THEN now + 1 ELSE g[m]]
       IN  ts' = Touch(ts) /\ wrote' = Touch(wrote)
    /\ Track(c, Plain, Reads(c, n)) /\ Prints(c, << >>)
    /\ last' = NotReused
    /\ UNCHANGED <<obj, memoTs, memo>>

-----------------------------------------------------------------------------
(* Memoized runs.                                                          *)

\* _maybe_memoize_params, after the run has written `to`: the symbols of the
\* parent edges, without those this run has written itself.
Inputs(content, E) == {n \in Names \ {content[1]} : \E e \in E : e[2] = n}

\* make_memoize_comparable and the equality it returns, for the present value v
\* and a recorded w.  List, tuple and dict have one form, and so on; a list of
\* arrays is compared item by item, as far as both go; an array with what it
\* broadcasts to.
Comparable(v) == v.type # "other"

OneForm ==
    {{"bool", "int", "float"}, {"list", "tuple", "dict"}, {"set", "frozenset"},
     {"bytes", "bytearray"}}
SameForm(t, u) == t = u \/ \E K \in OneForm : t \in K /\ u \in K

Sequential == {"list", "tuple", "dict", "array", "arrays"}
Broadcast == {"bool", "int", "float", "list", "tuple", "array"}
ArrayEqual(s, t) ==
    \/ s = t
    \/ Len(t) = 1 /\ \A i \in DOMAIN s : s[i] = t[1]
    \/ Len(s) = 1 /\ \A i \in DOMAIN t : t[i] = s[1]

Alike(v, w) ==
    \/ /\ v.type = "arrays" /\ w.type \in Sequential
       /\ \A i \in DOMAIN v.items \cap DOMAIN w.items : v.items[i] = w.items[i]
    \/ /\ v.type = "array" /\ w.type \in Broadcast
       /\ ArrayEqual(v.items, w.items)
    \/ /\ v.type \in Broadcast /\ w.type = "array" /\ Len(w.items) = 1
       /\ v.items = w.items
    \/ v.type \notin {"array", "arrays"} /\ SameForm(v.type, w.type) /\ v.items = w.items

\* MemoizedInput: val is the comparable form if that is a copy.
Copied(v) == IF Comparable(v) /\ v.type \notin ByReference THEN {v} ELSE {}
InputOf(n) ==
    [sym |-> n, inTs |-> ts[n], memTs |-> memoTs[n][obj[n]], obj |-> obj[n],
     val |-> Copied(heap[obj[n]].val)]

\* The comparable form on record, {} for none: one kept by reference is that of
\* the recorded object as it is now.
Recorded(in) ==
    LET v == heap[in.obj].val
    IN  IF v.type \in ByReference /\ in.val = {} THEN {v} ELSE in.val
SameValue(in) ==
    LET v == heap[obj[in.sym]].val
    IN  Comparable(v) /\ \E w \in Recorded(in) : Alike(v, w)

\* One input of a record, compared with the present: the values when there is
\* one on record, else the timestamps.
SameInputAnyObj(in) ==
    LET n == in.sym
    IN  IF Recorded(in) # {} THEN SameValue(in)
        ELSE ts[n] = in.inTs \/ memoTs[n][obj[n]] \in {in.inTs, in.memTs}
SameInputTsOnly(in) ==
    IF Recorded(in) # {} THEN SameValue(in) ELSE ts[in.sym] = in.inTs
SameInput(in) ==
    LET n == in.sym
    IN  IF Recorded(in) # {} THEN SameValue(in)
        ELSE \/ ts[n] = in.inTs
             \/ /\ obj[n] = in.obj /\ memoTs[n][obj[n]] # 0
                /\ memoTs[n][obj[n]] \in {in.inTs, in.memTs}

\* get_memoized_counter: the first record that still applies, 0 for none.
Applies(content) ==
    {r \in memo : r.content = content /\ \A in \in r.inputs : SameInput(in)}
Reusable(c, content) ==
    IF Prev(c) = 0 \/ Applies(content) = {} THEN 0
    ELSE Min({r.ctr : r \in Applies(content)})

\* MemoizedCellExecution: run k has left object o and the output shown.
Execution(content, k, o, shown, inputs) ==
    [content |-> content, ctr |-> k, out |-> o, shown |-> shown, inputs |-> inputs]

\* The content runs: it reads `from`, writes `to`, and is recorded.
RunMemo(c, to, from) ==
    LET k == now + 1
        o == Len(heap) + 1
        content == <<to, from>>
        value == Compute[heap[obj[from]].val]
    IN  /\ now < MaxRuns /\ obj[from] # 0
        /\ Reusable(c, content) = 0
        /\ Make(value)
        /\ Assign(to, o)
        /\ Track(c, content, Reads(c, from))
        /\ Prints(c, <<value>>)
        /\ memoTs' = [memoTs EXCEPT ![to][o] = k]
        /\ memo' = memo \cup
              {Execution(content, k, o, captured'[k],
                         {InputOf(n) : n \in Inputs(content, parents'[k])})}
        /\ last' = NotReused

\* The content runs and raises before it writes: nothing is recorded.
RunMemoFails(c, to, from) ==
    /\ now < MaxRuns /\ obj[from] # 0
    /\ Reusable(c, <<to, from>>) = 0
    /\ Track(c, <<to, from>>, Reads(c, from)) /\ Prints(c, << >>)
    /\ last' = NotReused
    /\ UNCHANGED <<heap, obj, ts, memoTs, memo, wrote>>

\* _get_content_for_memoized_run and _handle_memoization: the recorded object
\* is put back, with the edges of the execution that made it.  If the cell is
\* marked verbose, the output of that execution is shown, as this one's.
Shown(r) == r.shown
Restored(c, ctr) == parents[ctr]

Reuse(c, to, from, verbose) ==
    LET ctr == Reusable(c, <<to, from>>)
        r == CHOOSE x \in memo : x.ctr = ctr
    IN  /\ now < MaxRuns /\ obj[from] # 0
        /\ ctr # 0
        /\ obj' = [obj EXCEPT ![to] = r.out]
        /\ ts' = [ts EXCEPT ![to] = now + 1]
        /\ Track(c, <<to, from>>, Restored(c, ctr))
        /\ tee' = {<< >>} /\ HandleOutput(c, IF verbose THEN Shown(r) ELSE {<< >>})
        /\ last' = [reused |-> ctr, from |-> {heap[obj[from]].val}, verbose |-> verbose]
        /\ UNCHANGED <<heap, memoTs, memo, wrote>>

Next ==
    \E c \in Cells :
        \/ \E n \in Given, v \in Literals, capture \in BOOLEAN : RunValue(c, n, v, capture)
        \/ \E n \in Given, m \in Names : RunAlias(c, n, m)
        \/ \E n \in Names : RunUpdate(c, n)
        \/ \E s \in Contents : \/ RunMemo(c, s[1], s[2])
                               \/ RunMemoFails(c, s[1], s[2])
                               \/ \E verbose \in BOOLEAN : Reuse(c, s[1], s[2], verbose)

Spec == Init /\ [][Next]_vars

-----------------------------------------------------------------------------
(* Properties.                                                             *)

\* Types, for every variable of the module.
Edge == Cells \X Names
Input == [sym : Names, inTs : 0..MaxRuns, memTs : 0..MaxRuns, obj : Objects,
          val : SUBSET Values]
TypeOK ==
    /\ heap \in Seq([val : Values, touched : 0..now])
    /\ Len(heap) <= now /\ now <= MaxRuns
    /\ obj \in [Names -> 0..Len(heap)]
    /\ ts \in [Names -> 0..now] /\ wrote \in [Names -> 0..now]
    /\ memoTs \in [Names -> [Objects -> 0..now]]
    /\ ran \in Seq([cell : Cells, content : Contents \cup {Plain}])
    /\ parents \in Seq(SUBSET Edge) /\ Len(parents) = now
    /\ children \subseteq Cells \X Cells \X Names
    /\ \A r \in memo :
          /\ r.content \in Contents /\ r.ctr \in 1..now /\ r.out \in 1..Len(heap)
          /\ r.inputs \subseteq Input
    /\ tee \in SUBSET Seq(Values) /\ captured \in Seq(SUBSET Seq(Values)) /\ Len(captured) = now
    /\ last \in [reused : 0..now, from : SUBSET Values, verbose : BOOLEAN]

\* A record is complete if it has the input that the content reads.  It is
\* intact if nothing has updated in place the object it puts back or, since the
\* record was made, an object whose recorded form is the object itself or which
\* a memoized run had made: an update leaves its memoize_timestamp as it is.
\* What else is known by its identity only may have been updated.
Complete(r) == \E in \in r.inputs : in.sym = r.content[2]
Exposed(in) == in.val = {} /\ (heap[in.obj].val.type \in ByReference \/ in.memTs # 0)
Intact(r) ==
    /\ heap[r.out].touched = 0
    /\ \A in \in r.inputs : Exposed(in) => heap[in.obj].touched <= r.ctr
Record == CHOOSE r \in memo : r.ctr = last.reused

\* A run that reuses a complete and intact record leaves what the content gives
\* for the present input, or for one that the comparison takes for it (none but
\* itself if it has no comparable form), and a verbose one shows what that
\* printed.  The edges that a reuse takes over are for what the content reads,
\* whatever the cell has run in between.
TakenFor(v) == {v} \cup {w \in Values : Comparable(v) /\ Alike(v, w)}
ReuseGivesResult ==
    LET content == ran[now].content
        result == heap[obj[content[1]]].val
    IN  last.reused # 0 =>
            /\ Complete(Record) /\ Intact(Record) =>
                  /\ \E v \in last.from : \E w \in TakenFor(v) : result = Compute[w]
                  /\ last.verbose => captured[now] = {<<result>>}
            /\ \A e \in parents[now] : e[2] = content[2]

\* Memoization is not in vain: a content is computed again only if the value on
\* record is not the present one or, for an object without a comparable form, if
\* it is another object or something has assigned or updated the variable since.
Answered(c, to, from) ==
    \E r \in memo :
        /\ r.content = <<to, from>> /\ Prev(c) # 0
        /\ \A in \in r.inputs :
              IF Recorded(in) # {}
              THEN heap[obj[from]].val \in Recorded(in) /\ Comparable(heap[obj[from]].val)
              ELSE obj[from] = in.obj /\ wrote[from] < r.ctr
Recomputed(c, to, from) ==
    ran' = Append(ran, [cell |-> c, content |-> <<to, from>>]) /\ last'.reused = 0
NoNeedlessRuns ==
    [][\A c \in Cells : \A s \in Contents :
          Recomputed(c, s[1], s[2]) => ~Answered(c, s[1], s[2])]_vars

\* What the guide says of a reuse: the inputs are the same as they were, so the
\* recorded object (if nothing has updated it) is what running would give.
SameInputs ==
    last.reused # 0 /\ heap[Record.out].touched = 0
        => \A v \in last.from : heap[Record.out].val = Compute[v]
=============================================================================
