# A verification project for ipyflow

ipyflow is a Jupyter kernel that traces the cells it runs, keeps a graph of the
data dependencies between them, and, together with its JupyterLab extension,
re-runs the cells that are out of date. This directory holds TLA+ models of its
core logic, TLC configurations that check them on small instances, and proofs
that TLAPS checks for every value of the constants.

Paths below are relative to `core/ipyflow/` (the kernel) and
`frontend/labextension/src/` (the extension), but for those that begin with `docs/`.

## The system

| component | state | operations | hard parts | module |
|---|---|---|---|---|
| cell registry and edges (`data_model/cell.py`, `slicing/mixin.py`, `flow.py`) | `_cell_by_cell_ctr`, `_current_cell_by_cell_id`, placeholder ids; `raw_dynamic_*` and `raw_static_*` parents and children | `create_and_track`, `update_id`, `add_parent_edges`, `remove_parent_edges`, `replace_parent_edges`, restore on connect | each edge is stored twice; clean-up that does not happen; renaming through both ends | CellGraph |
| cell numbers and versions (`data_model/cell.py`) | `_cell_counter` next to IPython's `execution_count`, the `prev_cell` chain | `create_and_track` with its fix-up | the two counters drift apart | CellRegistry |
| tags (`data_model/cell.py`, `line_magics.py`) | `tags`, `_cells_by_tag`, `_reactive_cells_by_tag` | tags of the metadata, `%flow tag`, `%flow make_reactive`, renaming | three copies of one relation, keyed in three ways | CellTags |
| widget schedules (`data_model/symbol.py`, `utils/misc_utils.py`, `comm_manager.py`) | debounce timer, pending flag, a borrowed `exec_schedule` | `_observe_widget`, `_debounced_exec_schedule`, `%flow schedule`, `%flow reactivity`, schedule requests | timer threads next to the main thread, callbacks that overlap, dropped requests | DebouncedSchedule |
| frontend checker (`frontend.py`, `data_model/cell.py`, `data_model/symbol.py`) | `_ready` of each cell, cached answers of symbols, positions | readiness, waiting, newly ready, waiter links | edge-triggered: "newly" depends on the requests before; several writers of a symbol | Check |
| reactive loop (`state/SessionStore.ts`, `comm/schedule.ts`, `commands/`) | `newReadyCells`, `executedReactiveReadyCells`, `isReactivelyExecuting`, pending executions | run commands, the schedule handler, batches | asynchronous replies, cancelled executions, errors, a user who does not wait | ReactiveLoop |
| closure (`graph/closure.ts`) | none | push and pull closures | a fixpoint over stale ancestors | Check, ReactiveLoop |
| staleness (`data_model/symbol.py`, `data_model/utils/update_protocol.py`) | timestamps, aliases, namespaces, waiting members | `update_deps`, `refresh`, the update protocol | propagation through aliases and containers, in the order of Python sets | Symbols, Staleness |
| element symbols (`data_model/namespace.py`, `tracing/external_calls/list_handlers.py`, `tracing/utils.py`) | symbols by subscript | the list methods, unpacking, list literals | handlers that run after the statement, on the list as it is by then | ListSymbols |
| slices (`slicing/mixin.py`, `data_model/statement.py`, `flow.py`) | edges of statements and cells, versions | backward slices in each context | an id is resolved to the version that was current then | Slicing |
| tracing (`tracing/ipyflow_tracer.py`) | `call_stack`, `call_depth`, the trace statements | calls, returns, exceptions, switching off and on | a stack that is not maintained while tracing is off | Tracing |
| static analysis (`analysis/live_refs.py`) | live, dead and modified references | one visit per kind of statement | branches, loops, and functions whose bodies are looked up | LiveRefs |
| memoization (`data_model/cell.py`, `memoization/`, `shell/interactiveshell.py`) | recorded inputs and outputs of executions | record, compare, replay | reuse of an outdated record; objects known by identity only | Memo |
| connection (`comm/connect.ts`, `state/registry.ts`, `state/deferred.ts`) | the comm, the buffered payload, the store of a session | open, establish, dispose, restart | an old connection that outlives a new one | none |
| set-up, configuration, API, user interface | none that the others change | | | none |

The extension submits execute requests on the shell channel and talks to the
kernel over a comm: `compute_exec_schedule`, `notify_content_changed`,
`reactivity_cleanup`, `change_active_cell`. The kernel handles all of them in one
thread, in order of arrival; only the widget timers run beside it. The kernel's
answer carries the ready, waiting and newly ready cells; the extension decides
from it what to run next, which leads to the next request. While a cell runs, the
tracer reports reads and writes; these move the symbols' timestamps (staleness),
add edges between statements and cells (registry, slices) and record what
memoization compares later. The static analysis supplies the edges and the live
symbols of cells that have not run yet.

What makes each part correct: the two copies of an edge and the two registries
agree (registry); a number denotes one run and an id its latest version
(numbers); the tag sets name the cells that carry the tag (tags); no change is
forgotten, requests are not dropped for ever and the borrowed setting comes back
(widgets); the checker finds everything that is out of date and never blocks
(checker); the loop ends, re-runs only what is out of date, and leaves a notebook
in which nothing is out of date (loop); an update makes stale what depends on it
and nothing else (staleness); a slice run by itself computes what the
notebook has (slices); an event is recorded for the frame that caused it
(tracing); live means read before written (analysis); a reused result is the result of a
new run (memoization).

## Modules

Every module begins with a comment on what it is about, and its `VARIABLES` and
`CONSTANTS` name the fields of the code they stand for; `map` in PROJECT.json gives the
lines of each definition. Some definitions have a deliberately wrong version
beside them, most of them marked `\* mutant`: `mutants` in PROJECT.json pairs each
property with one that it refutes.

### CellGraph

The registry and the edges, with the handlers that touch them. `known` and
`atCtr` are `_current_cell_by_cell_id` and `_cell_by_cell_ctr`; an edge in `par`
is an entry of the child's `raw_<ctx>_parents`, an edge in `chi` an entry of the
parent's `raw_<ctx>_children`. A run is the sequence `StartRun` (before_run_cell:
create, check), `Precheck`, any number of `ReadSym` and `WriteSym` (what the tracer
reports), `EndRun` (remove dangling edges) and `Postcheck`; `AbortRun` stops in
the clean-up and `RunUntraced` is a run with dataflow disabled. `Connect`,
`Notify`, `CheckNext`, `UpdateId`, `RestoreParent`, `FinishNotify` and
`FinishConnect` are the steps of the comm handlers. The kernel has one thread, so
`pc` serialises them.

Which symbols a cell reads or writes is arbitrary here; a position is only "has
one or not"; tags and history texts are left out. Not modelled: the override
parents of `set_override_live_refs`, deleted cells, and the path of
`comm_manager.py:159-166` that renames the current cell from a request's
`active_cell_id`, a field no client in the repository sends with a schedule request.

### CellRegistry and CellTags

CellRegistry is the registry without edges, for the question CellGraph leaves
aside: how cells are numbered when some runs store no history, so that IPython's
counter stands still. `NextCtr` is the fix-up of `create_and_track`, `Replaces` the
test on `_current_cell_by_cell_id`. `Cell.clear` starts over from the initial state.

CellTags extends it: the same runs (`StartCell`) now carry the tags of the
cell's metadata, `NewCell` is a cell the kernel is told of before it runs, `AddTag`,
`RemoveTag` and `React` are the magics, `Rename` is `update_id`. `byTag` is
`_cells_by_tag`, which holds versions, and `reactive` is `_reactive_cells_by_tag`,
which holds ids. `loose` remembers the pairs for which the code
does not keep the promise: `%flow tag --remove` leaves the version in the
set (`line_magics.py:374`), a tag given to a replaced version stays with it, a
renamed version hashes by its new id and is not found any more
(`data_model/cell.py:271`). A tag taken out of the metadata is kept until the cell
is re-created. `Rename` assumes that the new id has no current cell.

### DebouncedSchedule

A change of a widget's value: `ChangeWidget`, `Debounce` (cancel the previous timer,
start a new one) and `SetPending` on the main thread; `Fire`, `Upgrade`, `Handle`,
`Restore`, `Unpend`, `Finish` on each timer's thread. `SetSchedule` and
`SetReactivity` are the magics that write the same settings. `StartRun`, `EndRun` and
`Respond` are a run and the request the frontend sends after it, which is dropped
while the flag is set (`comm_manager.py:132`). Waiting is not
timed. `SlowMain = FALSE` says that the main thread gets from `Timer.start` to
the assignment of the pending flag, a few instructions later, within the
timer's 0.1 s; with `SlowMain = TRUE` the flag can be set after the callback has
cleared it, and then stays set until the next change. The names of the module's
specification begin with `Timers`, so that one proof module can extend both it and Check. `late` marks the one window in
which a dropped request is lost: after a callback has computed its schedule and
before it clears the flag.

### Check

The checker of `frontend.py` with everything it asks of cells and symbols:
`Run` executes a content, `Schedule` is the request that follows; `Edit`, `Insert`
and `Swap` change the notebook and notify the kernel. It models readiness and
waiting (with and without liveness, in order and any order), the cache of
`is_waiting_at_position` with its invalidation, the waiter links and ready makers, stale parents
and their makers, static edges of cells that have not run, and positions, including
those of moved cells. `result` is the answer sent to the
extension; `Closure` is `computeRawTransitiveClosure` of `graph/closure.ts` on it.

Not modelled: usages that are unsafe in order, type checking, phantom and deleted
cells, override edges, aliases and namespaces (a content assigns a new
object to one variable or to none).

### ReactiveLoop

The store of the extension and the kernel, each with what it has received and
not yet handled: `toKernel` is the shell channel, `toStore` the replies, in which
comm messages may overtake execution replies (they travel on iopub). `Run`,
`Abort`, `Answer`, `CleanUp` are the kernel's handlers; `Finished`, `Tick` and
`Schedule` the store's callbacks; `RunCell`, `RunAlone`, `RunReady` and `ShowTab` the
user's commands. `Submit` is `executeCells`: `CodeCell.execute` cancels the cell's
pending execution, and a cancelled execution never counts towards its batch.
`InOrder` is `cellIdsToCells`: the cells of a set, sorted by position. `edges` is any
acyclic relation that follows the notebook's order, chosen in `Init`, so that one run
covers all of them.

It takes a simple view of the kernel: each cell writes names of its own, so that a
cell is out of date exactly if a parent has run after it, and the maps of stale
parents are empty. Check's `AgreesWithLoop` shows that the checker answers so
whenever every symbol is made by one cell and nothing is edited; ScheduleProofs proves it for
every notebook.
Not modelled: lazy mode and changes of mode, cells forced to be reactive, deferred
cells, edits during the loop, alternate execution in incremental mode, any_order.

Modelled from the way the extension uses them, and marked external in
PROJECT.json: JupyterLab's cancellation of a pending execution, ipykernel's
abortion of queued execute requests after an error, the order of the channels.

### Symbols and Staleness

Symbols has the symbols of variables and of the members of objects, with their
timestamps, required timestamps, the edges between them and
`namespace_waiting_symbols`. `Assign`, `Create`, `Alias`, `Augment`, `Mutate` and `Delete`
are the statements; each runs `UpdateDeps` (`update_deps`) whole: `refresh`, the
edges, then `Protocol`, the walk of `UpdateProtocol` along dependencies, aliases,
containers and members. The walk goes through Python sets, so at each node the order is a
choice: the operators that walk yield the set of possible outcomes (`InAnyOrder`).
The children and members of a symbol are kept in the order they came; the model does not have
that order and takes any.

Staleness is the specification of it: two relations and a set. An update of C must
make stale what is reached from C (`Owed`), may make stale nothing that is not
(`Allowed`), and clears only what it contains or is contained in;
an assignment of the object a symbol already had changes nothing (`Keep`). Symbols implements it
under a refinement mapping (`Implements`): the walk, in whichever order, ends
between `Owed` and `Allowed`. The two differ where an object has several members. After
`y = 1; x = obj; x.f = y; x.g = 1`, an update of `y` makes `x.f` stale and `x` wait for it, but
not `x.g`: the walk goes up to what contains a symbol and does not come down again
(`update_protocol.py:133-154`). If `x` itself was computed from `y` as well, `x.g` is made
stale when the walk meets `x` before `x.f`, and not when it meets `x.f` first. `Owed` therefore
demands the members of an object only if the walk cannot have come up to it from one of
them. What must be marked is then the same in every order; the rest is left to it.

The run has two members of one object, so that a member has a sibling, and bounds the
dependencies at a time to two. With one variable or with one member the property was also
checked without that bound.

Not modelled: nested namespaces, transfer of symbols to a new object, imports,
classes, functions, widgets' observers, the baseline reset, the resynchronisation of symbols after
untraced statements. A deleted symbol loses its edges at once; the code takes them away when
the cell has ended (`scope.py:440`, `flow.py:609`), and an update in between still walks
through them.

### ListSymbols

The symbols of a list's elements, `_subscript_symbol_by_name`. A method call only
records a handler (`CallExtend`, which is also append, `CallInsert`, `CallPopLast`,
`CallRemove`, which is also pop at a position, `CallClear`); the handlers run in
`Finish`, when the statement has ended, on the list as it is by
then. `SetItem`, `DelItem` and `Load` are traced on the spot. `Unpack` and `NewList`
are `a, *b, c = lst` and `[a, *lst, c]`: `Match` is the matching of targets and
elements in `tracing/utils.py`, and the property compares it with what Python
binds. Elements are distinct objects; sort (which only marks the list as changed),
nested targets and slices are not modelled.

### Slicing

Runs of cells statement by statement (`RunStmt`, `RunStmtFails`), the static edges
of the check after them, edits, and a slider's move (`MoveSlider`), which puts a
statement of its own behind those of its widget's cell. `AsOf` is the way back along `prev` from
an id to the version that was current, `CellSlice` and `StmtSlice` are
`_make_slice_helper`. What a read really read, and which runs' versions were ever edited, is
kept as history (`reads`, `edited`), and the properties compare the slices with it. Not modelled: formatting, namespaces,
dangling symbols, statements in loops, slices by tag (those are in CellTags).

### Tracing

A cell's call tree: `StartStmt`, `StartCall`, `Enter`, `EndIteration`, `EndStmt`,
`EndModuleStmt`, `Return`, `Raise`, `Unwind`, `Catch`. `frames` is the interpreter's stack,
`levels` the tracer's. Tracing goes off at the second call from one place, after a
loop's first iteration and deep in instrumented libraries, and every later event
asks `Reenable` whether it may come back. `Catchers` are the bodies with a handler:
functions, in the run. What a traced statement reports is left to the
other modules. Not modelled: generators, the bypass of lambdas, frames of libraries that are not
instrumented, the headers of compound statements, `run_line_magic`'s switch.

### LiveRefs

Each step adds a statement, or the head, middle or end of a block, to a cell.
`visitor` is what `ComputeLiveSymbolRefs` has collected by then, statement by
statement; `paths` are the runs that the statements allow, with what they read and
write. Functions of the cell and of other cells are looked up as
`compute_live_dead_symbol_refs` and `get_live_symbols_and_cells_for_references` do. A call of a
run remembers which functions the visitor knew then: a body that the run itself defines only
later, in the turn of a loop before, is none the visitor could have looked into (`CallReads`).
`Lambda` has one default: the visitor takes each name that it reads, and with `x.f` the object
`x` too, as assigned (`NameOf`, `hidden`). Not modelled: defaults that call functions, try statements, classes,
nested comprehensions, early breaks, second definitions of a function, subscripts.

### Memo

Cells marked `%%memoize`. `RunMemo` runs and records, `RunMemoFails` runs, fails
and records nothing, `Reuse` is a run answered from a record: the output object is assigned, the parent
edges of the recorded execution and, if verbose, its printed output are restored. The runs that
are not memoized (`RunValue`, `RunAlias`, `RunUpdate`) assign new objects, name existing ones, or
update one in place. What contents compute and updates leave is any function on
values (`Compute`, `Updated`).

A value has a type, items as `make_memoize_comparable` lists them, and a rest that it does not
look at, so that values may differ and compare as equal. `Alike` is the comparison of a present value
with a recorded one: one form for lists, tuples and dicts, for numbers and booleans, for sets, for bytes;
lists of arrays item by item as far as the shorter goes (`symbol.py:1445`); arrays with
whatever they broadcast to (NumPy below 2). The recorded form of arrays, frames and bytearrays is the object itself
(`ByReference`, `Recorded`), and values of type `"other"` have none: for them the timestamps
decide. `ReuseGivesResult` demands the result for the present input or for one that the comparison
takes for it (`TakenFor`); what has no comparable form is taken for nothing else.

Not modelled: `%%capture`'s variable, imports, runs with tracing off, static edges; comparable
forms of functions, classes and widgets; NaN; arrays of more than one dimension or without items; lists of
bytearrays; an update that exchanges the arrays in a list of arrays, or makes a list one of arrays; comparisons that raise (a
list against a recorded array of several items, sets of containers).

## What TLC checks

| run | question | bounds | distinct states |
|---|---|---|---|
| graph | do registries, edges and renamings survive edits, tracing switched off, aborted clean-ups, restored edges? | 2 notebook ids, 1 symbol, 3 runs; two sets of what may happen | 978,000 |
| registry | are numbers the prompts' numbers and ids their highest version; do tag sets name the cells that carry the tag, under the ids they have? | 2 ids and a placeholder, 1 tag, 3 runs, load at prompt 1 or 2 | 246,000 |
| schedule | widget changes and schedule requests against timer threads and settings | 2 timers | 82,000 |
| loop | batch and incremental reactivity, users who wait and who do not, errors, tab switches | 3 cells, 3 user actions, both schedules, every graph; six kinds of user | 829,000 |
| check | ready, waiting and newly ready cells against what is out of date by definition; the closure over them | 9 notebooks of 2 to 4 cells, 3 to 5 runs, an edit or two, 5 settings | 257,000 |
| slices | does a slice run by itself compute what the notebook has? | 2 cells, 2 symbols, one a widget, 3 runs, 1 edit | 1,990,000 |
| lists | do element symbols follow their objects, and dependencies the elements that were read? | lists of 3, 2 calls in a statement | 142,000 |
| symbols | does the update protocol implement the rule of Staleness? | 2 variables, an object with 2 members, 2 dependencies at a time, 2 cells | 37,000, up to symmetry |
| tracing | does the tracer's stack follow the interpreter's? | 2 functions, 2 statements each, depth 3, 3 calls in a cell | 3,100,000 |
| live | are the live symbols those that some run reads before it writes them? | 2 names, an attribute, 2 functions, 4 statements, blocks in blocks, tests that read names | 1,331,000 |
| memo | does a reuse give what a new run would, and is it offered when it can be? | 2 cells, 3 variables, 5 values: a list and a tuple that compare as equal, 2 arrays, one without comparable form; 5 runs | 1,425,000 |
| memo_doc | are the inputs of a reuse the same as recorded, as documented? | 2 cells, 3 variables, 2 numbers, 5 runs | violated |

Why the bounds are enough for the cases that matter. In CellGraph two ids and one
symbol give a pair of cells that write and read the same name, self-dependencies, and
placeholders beside notebook ids; the third run is the first that inherits from a
version which itself inherited. Two timers let two callbacks overlap. Three cells
give a chain, a fork, a join, and an unrelated cell between two related ones;
three actions let the user act during the loop and during its repetition; two
requests for a schedule can then cross. The
notebooks of Check have two writers of a symbol, a cell that updates what it reads, a
chain of three and one of four; five runs let every cell run and one become stale and
be refreshed; in one of them two edits change a content and change it back. In Slicing the third run is the first whose slice goes through
a cell that has been run again; in Memo the fifth run is the first that can reuse
a record after its input was replaced, and replaced back. Depth 3 is a call of a
function that itself calls, so that tracing can go off in the middle frame and come back in any
of the three. Four statements allow a block with a head, a branch for each side and a
use after it.

Most runs turn off TLC's deadlock test: the bounds on runs, versions, statements and
user actions end behaviours that the program would go on with. `lists` and
`schedule` keep it.

Each module states its types as `TypeOK` (DebouncedSchedule as `TimersTypeOK`). Those of the modules with proofs are
proved; the others hold on the instances above and are left out of the
configurations in favour of properties that say more.

Fairness is stated where liveness is checked. In DebouncedSchedule every thread
that can run does (`WF` of the two steps that finish a widget change, and of each
timer's steps); nobody has to change a widget. In ReactiveLoop the kernel and
the store handle what they have received (`WF_vars(KernelNext)`,
`WF_vars(StoreNext)`): both are event loops. The user is never forced to act.
`Settles` says that the loop then ends, which is not a consequence of the bounds:
only the user's actions are bounded, not the rounds of the loop.

### Where the documentation says something else

* `docs/guides/memoization.rst:5` promises a reuse on the same inputs. The recorded inputs
  are the symbols of the cell's parent edges, and an edge is added only for a writer whose
  version is current (`flow.py:428`). When the cell that made an input has been run again,
  in another content or with an error, its old value is no recorded input, and the cell is
  answered from its record after the value changes (`data_model/cell.py:337`).
  The run memo_doc shows it; `ReuseGivesResult` holds for records that have their input.
* `docs/concepts/dataflow_model.rst:21` has cell numbers strictly increase. After
  runs without history the fix-up sets the counter back (`data_model/cell.py:397`)
  and a number is given twice. The proof `NumbersIncrease` states the condition
  under which the claim holds: every run stores its history.
* `docs/guides/execution.rst:84` says that incremental updates need a
  liveness-aware schedule and that selecting them upgrades it. `%flow schedule dag`
  afterwards undoes the upgrade (`line_magics.py:430`).
* `docs/getting_started/reactive_notebooks.rst:41` promises a consistent notebook
  after a run. In incremental mode, running cell 1 and then the unrelated cell 3
  before the first update leaves cell 2, a child of cell 1, out of date: the one
  schedule that is requested for both runs drops cells above the last one
  (`frontend.py:427`), and the change of cell 2 to ready is used up. It is
  shown as ready, and the next press of the space bar runs it. Batch mode
  submits the whole closure with the command. `Hasty` is this user, and in batch mode one
  who presses the space bar before the cells shown as ready are current: these may
  then have changed.
* The same sentence has it that "the (minimal) set" of cells out of sync is re-run. Schedules
  that cross re-run more, if something was out of date when they were computed. Cell 1
  is run on its own and the tab is visited twice before the batch's own request: three
  schedules are on their way that call for its child, cell 2. The first has it run, the second
  ends the episode, and the third has it run again. The same can happen when a
  cell fails and the user does not wait, or on visits of the tab in incremental mode.
  `Crossing` are these users; `OnlyOutOfDateReruns` speaks of them in batch mode while
  nothing is excused, and of all others always.
* `docs/concepts/slicing.rst:13` has a slice be what is needed to reproduce a result.
  If a cell of the slice was edited after a later run wrote a symbol it reads, the check adds
  a static edge into the future; going back from there finds no version and raises an
  error (`slicing/mixin.py:430`), or finds one that was never run.
* `docs/reference/flow_magic.rst:36` and `:51`: `%flow tag --remove t` takes the tag from
  the cell and not the cell from the tag's set, so `%flow slice --tag t` keeps it.
* The comment at `tracing/ipyflow_tracer.py:103` describes how tracing comes back with
  the depth of the frame; before a statement it is re-enabled without that depth
  (line 1607). It matters where the cell's own code catches an exception (`Cell \in
  Catchers`, which the run leaves out): a loop has gone past its first iteration, so that
  tracing is off, and raises; the first statement of the handler turns tracing on
  with `call_depth` 0, and the function that it calls is taken for
  IPython's own frame (line 112), gets no level, and its statements are recorded
  in the cell's. Of the four properties TLC then finds `InSync` and `RecordsOwnFrame` violated, and
  `Resumed` and `Accounted` true. Where functions catch, all four hold, and
  are proved.

### Known limits of the code that the properties leave room for

The exemptions in the properties are among these, or the user's own choice (a cell
run on its own, an error); the comments of the properties name them.

* Registry and checker: after `update_id` has renamed the cell that ran last,
  `last_executed_cell_id` keeps its old id and checks raise an error until another cell
  runs (`frontend.py:449`). A cell stopped by a `NameError` gets no edge for the missing
  name until a notification checks it again; an edge that the test against mutual
  edges filters out can hide a dependency; an edited parent's filtered edge comes back
  with the next check (`data_model/cell.py:849`). Moved cells leave
  cached answers under their old positions. With `any_order`, cells of a cycle can all wait and
  none be ready.
* Slices: they show a cell's present text; a cell slice misses a writer
  whose cell was run again before the reader ran, and the earlier run of a cell that reads its
  own value; if a widget's cell is edited to fewer statements, the slider's statement takes the
  place of an executed one; static-only slices have no edges between the statements of a cell.
* Symbols: assigning `y.f` clears the staleness of `y`; `x = y` followed by a mutation of `x`
  clears that of `y`; what is marked among the other members of an object depends on the order of
  the walk (above).
* Lists: `del lst[i]` and `pop(i)` with `i < -1` shift the wrong symbols; an insert
  before or beyond the ends, two calls of one statement that both move elements, and
  `lst[-1] = v` leave symbols under wrong indices (`disturbed`). In
  `a, *b, c = [1, 2]` the name `b`, which gets nothing, takes the dependency of `c`
  (`tracing/utils.py:34`).
* Tracing: a body that runs a second time without its instructions is known from the
  first time; if it takes another path, nothing tells. The cell's own handler of an exception may
  run with `call_depth` 0 (above).
* Static analysis: a lambda's defaults are visited as if they were assigned (`live_refs.py:548`), so that
  after `h = lambda a=x.f: a` neither `x` nor `x.g` is live, whoever reads it (`hidden`); the iterable of a
  comprehension is missed if it has the target's name; functions that call each other are
  visited without end (`live_refs.py:464`); what a function reads is missed if a loop calls it above its
  definition (`live_refs.py:463`); if the cell redefines what a function of another
  cell calls, the body looked at is that of before the run (`live_refs.py:692`).
* Memoization: values of different types compare as equal, so that after `x = [1, 2]` and then
  `x = (1, 2)` a memoized `y = str(x)` is answered with the list's text; so do `1` and `True`, and
  lists of arrays of which one is longer (`TakenFor`). Outputs, and the comparable forms of arrays,
  frames and bytearrays, are kept by reference, so that an update in place changes the record
  (`symbol.py:1456`); an object that a memoized run made keeps its timestamp when it is updated,
  since only memoized runs set it (`data_model/cell.py:359`), and if it has no comparable form the
  update is missed (`data_model/cell.py:608`). `Intact` leaves out these two and no other update in
  place. Where NumPy has no `alltrue`, arrays never compare as equal and are computed again.
  `x = f(x)` records no input and is always reused; a cell below `%%capture` gets the captured output
  of an earlier run.

## What is proved

Each proof module extends the module it is about. No proof assumes a bound:
the constants range over everything their `ASSUME`s allow.

* **CellGraphProofs**: every property of the run `graph` and the types: `[]TypeOK`,
  `[]RegistriesAgree`, `[]NoStaleChild`, `[]RenameFindsNeighbours` and
  `[]MutualOnlyIfInherited`. The inductive invariant adds three parts. `Owned`: the child of
  every entry is a known cell, so that a new cell starts without any, and so is the parent
  of a child's entry. `FreshPlaceholders`: a placeholder runs once, so nothing is inherited by
  it or left over of it, its entries agree on both sides, and a renaming moves no stale
  one. `NoMutualChildren`: a parent is refused if it is a child already, so two cells
  that list each other as parents have at least one entry that was inherited. One lemma per
  action; `AddParentEdgesInv` and `AccessInv` are shared by all actions that add edges. The
  assumptions are that notebook ids are not the integers placeholders stand for, and that
  `Envs` holds sets of the known names.
* **CellTagsProofs**, about CellRegistry first: `[]TypeOK`, `[]CurrentHasHighestNumber`,
  `NumberIsPrompt`, and under `StoreHistory = {TRUE}` that numbers strictly increase and are not
  reused. `IInv` adds that an id leads to a version of that id; `InStep`
  says that the two counters agree and no number to come has been given.
  Then about CellTags: `[]CurrentHasHighestNumber` again, now with untracked cells, tags
  and renamings, `[]TagsFollowCells` and `[]ForcedAsAsked`. `TInv` adds to `IInv` that
  tags are typed, that no two versions of an id have the same number, that the last run is
  a version of the registry, that a placeholder has one version, that a version is in a tag's set
  under the id it is looked up with, and that the reactive ids follow the versions that
  asked. Here an action that only moves tags has a short proof, and `StartCell` and
  `Rename` one step per part of `TInv`.
* **ScheduleProofs**, about Check first, for any cells, symbols, notebooks, contents and
  settings: `[]TypeOK`, `[]SomeoneCanRun`, `[]WaitersHaveMakers`, `[]NothingMissed` and
  `[]AgreesWithLoop`. There are two kinds of steps, runs and requests (`Request` is what the
  latter have in common), and two parts of the invariant. `Checked`: a fresh result is what
  a check would find now; from this alone follow `SomeoneCanRun` and
  `WaitersHaveMakers`. `Base` is about what is recorded. `Runs`: counters, timestamps and
  writes tell of the same runs. `Uses`: what a cell has read is among the symbols it
  is known to use. `Origins`: a link for a symbol that a cell has read leads to the cell whose
  run it read; a request links a cell
  that ran only for symbols it is not known to use, or if it is the last one run. `Reading`:
  a symbol that is read is not among the removed ones. These give `NothingMissed`. `AsWritten` and
  `Joined` hold until the notebook is edited: cells have written what their content
  writes, and, if one cell writes each symbol, each read has its link, since a link is refused
  only where the other cell reads from the reader, and that one is above.
  That links are made in the order of the notebook is proved by least counterexample
  (`LinkingExists`, `LinkedLinks`). The assumptions are that `Cells` is finite and that
  notebooks, contents and settings are of their types. The proof found that `NothingMissed` was
  false as it had been stated: a cell that is edited and edited back keeps a link for a
  symbol that only the text in between reads, and no newer value of it makes the cell ready.
  That is right, so the property now asks that the cell reads the symbol; one edit
  could not show it, and the run now has a notebook with two.

  About DebouncedSchedule, under `~SlowMain`: `[]TimersTypeOK`, `[]PendingHasTimer`,
  `[]ChangeIsScheduled`, `[]RequestIsServed`, `[]ScheduleKept`,
  `[]CallbackUsesLiveness` and `OnlyLatestFires`, for any number of timers.
  `BorrowedAlone` is the heart of it: while nothing disturbs a callback, it is
  the only one that borrows, and what it saved is what the user chose.
  The assumption is needed: with a main thread as slow as the timer,
  `PendingHasTimer`, a part of the inductive invariant, does not hold.

* **MemoProofs**: `[]TypeOK`, `[]ReuseGivesResult` and `NoNeedlessRuns`, for any cells, contents
  and values and any number of runs. The inductive invariant adds what a record promises
  (`RecordOK`) as long as nothing has marked its objects as updated: its input is what the
  content reads and does not write, a timestamp as recorded means the object as recorded, the
  object made is what the content computes from the value copied or from the object; that a variable's
  timestamp is no older than the last update of its object (`Stamps`), so that an update of an object
  without comparable form is seen; and, for the second property,
  that a variable not written since has the recorded timestamp or an object
  with a timestamp of its own. `RecordsStay` shows once, for all actions, that records remain
  so. The record that a reuse takes is found by a minimum and then by its number:
  `ReusableApplies` shows that both name the same one, since no two records have one number.
  `RunsRead` says that the edges of a memoized run are for what its content reads. The values are any
  records, and what contents compute from them any function. The
  model's content reads one variable; the proof is of that model.
* **SlicingProofs**: `[]TypeOK`, `[]StmtSliceRecomputes`, `[]CellSliceRecomputes` and
  `[]SliceExists`: all properties of the run `slices`, for any cells, symbols,
  contents and numbers of runs and edits. What the invariant adds: statements are
  numbered as in the content, and a slider's comes behind them unless the version was edited
  (`Numbered`), so that tracking a new statement never meets an old one (`UpcomingFacts`)
  and no edge is refused as mutual; a read has its edge, and so has the slider's move
  before it (`ReadOK`); a read between cells has an edge or one of the reasons that
  `CellSliceRecomputes` names (`CellReadOK`); a parent's cell ran before every later version
  of the child, which is what inheritance needs, and before the child itself unless that
  was edited or stopped (`OldEnough`): a later check of an executed, unedited
  version finds nothing it has not used, since all its uses were reads. The proof
  found that the exemption for edited cells has to be for cells that were edited at any
  time: a text that is edited back leaves what the check did in between. With one edit the run
  could not tell the two apart. One or two steps of `Backward` are all that the
  properties need; that it is computed by rounds is an induction by least counterexample
  (`RoundsExist`, `RoundsGrow`). The only assumption on the constants that the runs
  do not make by themselves is that ids of cells are not numbers.

* **ReactiveLoopProofs**: `[]TypeOK`, `[]SettledIsIdle`, `[]SettledViewIsCurrent`, for any
  notebook, any settings and any number of things the user does, and in batch mode
  `[]SettledIsConsistent`. The invariant `Inv` of the first three is about what is under way. `Mail`:
  executions are unique, those of the latest batch are behind all others and nothing has
  cancelled them, and every cell that waits is waited for with a message under way.
  `Counts`: the latest batch counts exactly the cells that wait for it, earlier ones may count
  more (a cancelled execution never lands), and `inProgressExecs` is the number of plain runs
  that are waited for. Hence the heart of it, `Owed`: an execution under way means that the
  latest batch is not over, and the end of a batch asks for a schedule. `View` and
  `Idle` say that either a schedule is still owed, or the last one on its way (else the one
  shown) is what the kernel would answer now, and the episode ends with it. For
  `SettledIsConsistent`, `Planned` says that the children of every execution on the shell channel
  are run in a row behind it and that what is out of date is about to be run; so no request is
  ever answered while something is out of date, and no schedule calls for more. `Orderly`
  is the hypothesis: batch mode, and users who wait before they run the cells shown as
  ready (else these may have changed meanwhile). `BatchRunsOutOfDate` is `OnlyOutOfDateReruns`
  in batch mode while nothing is excused: a step runs only the cell that was picked or
  what is out of date, even if commands and schedules cross. Its invariant `Reasoned` gives
  each execution under way a reason: it was picked, it is out of date and does not run
  before, or a parent ahead of it in the channel will put it out of date (`Caused`). Reasons
  pass from the third to the second as the parent runs (`ReasonedTaken`), and a closure
  holds no cell without one, or else the closure without that cell would be smaller
  (`ClosureReasons`).

* **TracingProofs**: all four properties of the run `tracing` and the types, for any functions,
  depth of calls and length of bodies, provided that the cell's own code catches no
  exception (`Cell \notin Catchers`; functions may). The hypothesis is needed, as said above, and the
  proof is what found it: `BeforeStmtFacts` asks that tracing is on before a statement of
  the cell. `IInv` says what is true while tracing is off. `Sound`: level `n` of the tracer's stack
  was made at depth `n` and saved the count `n`. `Follows`: while tracing is on there is a level for
  each frame; while it is off, the frames that have a level are no deeper than the
  stack and than where it was switched off, so that `Reenable` finds just the running
  frame's (`ReenableFacts`). `Nested`: instructions run only in
  frames with a level, and these are the first ones, whoever has returned since. `Watched`: unless
  the statement of the cell is told, tracing is on, and what has run is handled. Each
  handler has a lemma of its own about any tracer at the running frame (`Near`, `Moved`); the steps put
  them together.

* **LiveRefsProofs**: the three properties of the run `live` and the types, for any names,
  functions, bodies and depth of blocks. The inductive invariant is `Fits`, which relates a
  visitor to the runs of the same statements: what is dead is written on every run, a
  live name is read on some run, and what a run reads, or hands to the bodies of the functions it
  calls, is live; names hidden by a lambda's defaults or a comprehension's target apart (`hidden`). It is said of the block that is visited and of every block that waits around it, each
  before, between and after its parts, and `BranchFits` puts the parts
  of a block together. `InvocationOk` is what a call must have left behind: each free reference
  of a body that the visitor looked up is live, unless the run had written it before the call. `ReachRounds` bounds the rounds of the recursive function behind `Called`
  and `Chain`, so that what is reached is closed under calls. The proof
  found that the property was false as it had been stated: a function that a loop
  defines below its call runs in the second turn, but had no body when the call was visited.
  The run had missed it because each function of its instance reached every other; the
  instance now has a function that calls nothing, and the property names the exception (`seen`).

Only model-checked: the rest of `OnlyOutOfDateReruns` (after cells that ran alone or failed,
and in incremental mode), and `SettledIsConsistent` in incremental mode;
`CachedAnswersHold` and `ClosureReadsInOrder` of Check; everything about ListSymbols and
Symbols; the refinement of Staleness; all liveness (`PendingEnds`, `Settles`), which the proof
system does not reach. `CachedAnswersHold` is about a recursion through the cache, `ClosureReadsInOrder`
about one through the closure, and Symbols is written with RECURSIVE operators,
as its code is: what these compute for every input is an induction over data that
the provers cannot make.

## Not modelled

* The life cycle of the connection (`comm/connect.ts`, `state/registry.ts`,
  `state/deferred.ts`). What it has to survive is decided by JupyterLab's comm
  managers and session contexts: when an old comm's disposal is delivered, whether a message on
  a dead comm is dropped, which session a notebook panel reports after a restart.
  None of that is in the repository, so a model would rest on guesses. The
  hazards it has are listed (the disconnect of an old connection,
  the single buffered payload, the one list of deferred cells).
* Nested namespaces, classes, imports and the transfer of symbols
  between namespaces; the tables of external functions, which have no state of their own.
* `compute_exec_schedule`'s use of `active_cell_id` from two threads
  (`comm_manager.py:237`): two adjacent statements of the main thread with a placeholder as
  the worst outcome, listed as a hazard.
* Set-up, configuration, patches of other libraries, formatting of code, the user
  interface: they run once, or only show what the modules compute.

## What could be added

1. Changes of mode, lazy mode and deferred cells in ReactiveLoop; edits between two rounds.
2. A composition of DebouncedSchedule with the loop's requests.
3. A proof of ListSymbols' `Aligned` for single calls.
