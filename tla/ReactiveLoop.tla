---------------------------- MODULE ReactiveLoop ----------------------------
(***************************************************************************)
(* Reactive execution: the session store of the JupyterLab extension and   *)
(* the kernel, which take turns deciding which cells run next.             *)
(*                                                                         *)
(* The store submits cells, asks for a schedule when they have finished    *)
(* and submits what the schedule calls for; the kernel runs cells and      *)
(* answers requests in the order in which they arrive.  The user may run   *)
(* further cells, or come back to the notebook's tab, while this goes on.  *)
(*                                                                         *)
(* A cell is its position.  `edges` are the notebook's dependencies, which *)
(* both sides know.  Each cell writes names of its own, so that a parent   *)
(* is out of date only with respect to its own parents.  The notebook is   *)
(* not edited, its flow order is in_order, its execution mode reactive,    *)
(* and the remaining settings are those a JupyterLab session starts with.  *)
(***************************************************************************)
EXTENDS Integers, Sequences, FiniteSets, SequencesExt

CONSTANTS
    N,         \* bound: cells in the notebook
    ExecSchedules,  \* the values exec_schedule may have
    MaxActs,   \* bound: what the user does
    Envs       \* what may happen, besides a cell being run, and "incremental"
               \* if reactivity_mode is not batch: one of these sets

ASSUME LoopAssumption ==
    /\ N \in Nat \ {0} /\ MaxActs \in Nat
    /\ ExecSchedules \subseteq {"dag_based", "hybrid_dag_liveness_based"}
    /\ Envs \subseteq SUBSET {"incremental", "hurry", "tab", "error", "alone", "stale"}

Cells == 1..N

VARIABLES
    edges,       \* <<parent, child>>
    schedule,    \* exec_schedule
    env,         \* one of Envs
    ctr,         \* cell_ctr of each cell
    counter,     \* cell_counter()
    minNew,      \* _min_new_ready_cell_counter
    wasReady,    \* the cells whose _ready is set
    checked,     \* has every cell been checked since it last ran?
    last,        \* last_executed_cell_id
    failed,      \* _exception_raised_during_execution
    toKernel,    \* the shell channel: execute requests and comm messages
    toStore,     \* replies and comm messages on their way back
    batches,     \* the calls of executeCells, and the plain runs
    flight,      \* the batch each cell's pending execution belongs to, or 0
    inProgress,  \* inProgressExecs
    ticks,       \* requests the store is about to send
    newReady,    \* newReadyCells
    episode,     \* executedReactiveReadyCells
    reactive,    \* isReactivelyExecuting
    shown,       \* readyCells and waitingCells
    acts,        \* number of things the user has done
    excused      \* history: what may have left cells out of date on purpose

settings == <<edges, schedule, env>>
kernel == <<ctr, counter, minNew, wasReady, checked, last, failed>>
loop == <<newReady, episode, reactive, shown>>
execs == <<batches, flight, inProgress, ticks>>
vars == <<settings, kernel, toKernel, toStore, execs, loop, acts, excused>>

Mode == IF "incremental" \in env THEN "incremental" ELSE "batch"  \* reactivity_mode

Settled == toKernel = << >> /\ toStore = << >> /\ ticks = 0

\* Every cell has been run, top to bottom, and reactive mode was then set.
Init ==
    /\ edges \in SUBSET {e \in Cells \X Cells : e[1] < e[2]}
    /\ schedule \in ExecSchedules /\ env \in Envs
    /\ Mode = "incremental" => schedule # "dag_based" \* _reactivity_handler
    /\ ctr = [c \in Cells |-> c] /\ counter = N /\ minNew = N + 1
    /\ wasReady = {} /\ checked = TRUE /\ last = N /\ failed = FALSE
    /\ toKernel = << >> /\ toStore = << >>
    /\ batches = << >> /\ flight = [c \in Cells |-> 0]
    /\ inProgress = 0 /\ ticks = 0
    /\ newReady = {} /\ episode = {} /\ reactive = FALSE
    /\ shown = [ready |-> {}, waiting |-> {}]
    /\ acts = 0 /\ excused = {}

-----------------------------------------------------------------------------
(* The kernel.                                                             *)

Closed(T) == \A e \in edges : e[1] \in T => e[2] \in T
Below(S) == {c \in Cells : \A T \in SUBSET Cells : S \subseteq T /\ Closed(T) => c \in T}

OutOfDate == {e[2] : e \in {f \in edges : ctr[f[1]] > ctr[f[2]]}}
Waiting == {e[2] : e \in {f \in edges : f[1] \in Below(OutOfDate)}}
Ready == OutOfDate \ Waiting

\* A cell is newly ready below the last cell run: because that cell is one of
\* its parents, or because it was not ready at the previous check.
NewReady(before) ==
    {c \in Ready : /\ minNew <= counter /\ c > last
                   /\ c \notin before \/ \E e \in edges : e[2] = c /\ ctr[e[1]] = counter}

Received(type) == toKernel # << >> /\ Head(toKernel).type = type

Aborted(queue) ==
    [i \in DOMAIN queue |-> IF queue[i].type = "exec" THEN [queue[i] EXCEPT !.aborted = TRUE]
                                                      ELSE queue[i]]
Reply(m) == [type |-> "done", cell |-> m.cell, batch |-> m.batch]

\* An error makes IPython abort the execute requests that wait behind it.
Run(fails) ==
    /\ Received("exec") /\ ~Head(toKernel).aborted
    /\ fails => "error" \in env
    /\ LET m == Head(toKernel)
       IN  /\ ctr' = [ctr EXCEPT ![m.cell] = counter + 1]
           /\ wasReady' = wasReady \ {m.cell}
           /\ last' = m.cell
           /\ toStore' = Append(toStore, Reply(m))
    /\ counter' = counter + 1 /\ checked' = FALSE /\ failed' = fails
    /\ toKernel' = IF fails THEN Aborted(Tail(toKernel)) ELSE Tail(toKernel)
    /\ excused' = IF fails THEN excused \cup {"error"} ELSE excused
    /\ UNCHANGED <<settings, minNew, execs, loop, acts>>

Abort ==
    /\ Received("exec") /\ Head(toKernel).aborted
    /\ toStore' = Append(toStore, Reply(Head(toKernel)))
    /\ toKernel' = Tail(toKernel)
    /\ UNCHANGED <<settings, kernel, execs, loop, acts, excused>>

\* compute_exec_schedule.  Outside a reactive execution, cells that have run
\* since they were checked are checked first: that check computes a schedule
\* of its own, which is thrown away but for what it did to _ready.
Answer ==
    /\ Received("request")
    /\ LET first == ~Head(toKernel).reactive /\ ~checked
       IN  /\ toStore' = Append(toStore,
                [type |-> "schedule", last |-> last, failed |-> failed,
                 ready |-> Ready, waiting |-> Waiting,
                 new |-> IF schedule = "dag_based" THEN {}
                         ELSE NewReady(IF first THEN Ready ELSE wasReady)])
           /\ checked' = (checked \/ first)
    /\ wasReady' = Ready
    /\ toKernel' = Tail(toKernel)
    /\ UNCHANGED <<settings, ctr, counter, minNew, last, failed, execs, loop, acts,
                   excused>>

CleanUp ==
    /\ Received("cleanup")
    /\ minNew' = counter + 1
    /\ toKernel' = Tail(toKernel)
    /\ UNCHANGED <<settings, ctr, counter, wasReady, checked, last, failed, toStore,
                   execs, loop, acts, excused>>

-----------------------------------------------------------------------------
(* The store.                                                              *)

Request == [type |-> "request", reactive |-> reactive]

\* The cells below the given ones, the ready and waiting cells above any of
\* them, and so on.
PulledAll(T, stale) ==  \* mutant: whether ready or not
    \A p \in Cells : (\E c \in T : c \in Below({p})) => p \in T
Pulled(T, stale) ==
    \A p \in stale : (\E c \in T : c \in Below({p})) => p \in T
ClosureOneStep(S, stale) ==         \* mutant: children, not descendants
    S \cup {e[2] : e \in {f \in edges : f[1] \in S}}
Closure(S, stale) ==
    {c \in Cells : \A T \in SUBSET Cells :
        S \subseteq T /\ Closed(T) /\ Pulled(T, stale) => c \in T}

\* The cells of S, in the notebook's order.
InOrder(S) == {q \in [1..Cardinality(S) -> S] :
                  Range(q) = S /\ \A i, j \in DOMAIN q : i < j => q[i] < q[j]}

\* CodeCell.execute for each cell of S, in the notebook's order.  It cancels
\* the cell's pending execution, whose batch then never finishes; a plain run
\* that is cancelled settles.
Submit(S, plain, chosen) ==
    LET b == Len(batches) + 1
        cancelled == {c \in S : flight[c] # 0 /\ batches[flight[c]].plain}
        left == inProgress + (IF plain THEN 1 ELSE 0) - Cardinality(cancelled)
    IN  /\ batches' = Append(batches, [plain |-> plain, left |-> Cardinality(S),
                                       chosen |-> chosen])
        /\ \E order \in InOrder(S) :
              toKernel' = toKernel \o
                 [i \in DOMAIN order |-> [type |-> "exec", cell |-> order[i],
                                          batch |-> b, aborted |-> FALSE]]
        /\ flight' = [c \in Cells |-> IF c \in S THEN b ELSE flight[c]]
        /\ inProgress' = left
        /\ ticks' = IF cancelled # {} /\ left = 0 THEN ticks + 1 ELSE ticks

\* Comm messages may overtake execution replies, which need the reply channel.
Arrives(i) ==
    /\ i \in DOMAIN toStore
    /\ \A j \in 1..(i - 1) : toStore[i].type = "schedule" /\ toStore[j].type = "done"
    /\ toStore' = RemoveAt(toStore, i)

Landed(c) == [flight EXCEPT ![c] = 0]

\* An execution has finished; if it was cancelled meanwhile, nobody waits for it.
Finished(i) ==
    /\ Arrives(i) /\ toStore[i].type = "done"
    /\ LET m == toStore[i]
           b == m.batch
           pending == flight[m.cell] = b
           over == pending /\ batches[b].left = 1
       IN  /\ flight' = IF pending THEN Landed(m.cell) ELSE flight
           /\ batches' = IF pending THEN [batches EXCEPT ![b].left = @ - 1] ELSE batches
           /\ inProgress' = IF over /\ batches[b].plain THEN inProgress - 1 ELSE inProgress
           /\ toKernel' = IF over /\ batches[b].plain /\ inProgress = 1
                          THEN Append(toKernel, Request) ELSE toKernel
           /\ reactive' = (reactive /\ (over => batches[b].plain))
           /\ ticks' = IF over /\ ~batches[b].plain THEN ticks + 1 ELSE ticks
    /\ UNCHANGED <<settings, kernel, newReady, episode, shown, acts, excused>>

\* The timeout after a batch.
Tick ==
    /\ ticks > 0 /\ ticks' = ticks - 1
    /\ toKernel' = Append(toKernel, Request)
    /\ UNCHANGED <<settings, kernel, toStore, batches, flight, inProgress, loop, acts,
                   excused>>

\* What handleComputeExecSchedule runs next, having absorbed the message m.
NextBatch(m, new, run) == Closure(new \ run, m.ready \cup m.waiting) \ run
NextOne(m, new, run) ==
    LET open == {c \in new : c > m.last /\ c \notin run}
    IN  {c \in open : \A d \in open : c <= d}

ShownMerged(m) ==  \* mutant: what was shown stays shown
    [ready |-> shown.ready \cup m.ready, waiting |-> shown.waiting \cup m.waiting]
Shown(m) == [ready |-> m.ready, waiting |-> m.waiting]

CleanUpRequest == [type |-> "cleanup"]
EpisodeStays(run) ==  \* mutant: executedReactiveReadyCells is not reset
    /\ toKernel' = Append(toKernel, CleanUpRequest)
    /\ newReady' = {} /\ episode' = run /\ reactive' = FALSE
AskAgain(run) ==      \* mutant: the clean-up is followed by another request
    /\ toKernel' = toKernel \o <<CleanUpRequest, Request>>
    /\ newReady' = {} /\ episode' = {} /\ reactive' = FALSE
EndEpisode(run) ==
    /\ toKernel' = Append(toKernel, CleanUpRequest)
    /\ newReady' = {} /\ episode' = {} /\ reactive' = FALSE

Schedule(i) ==
    /\ Arrives(i) /\ toStore[i].type = "schedule"
    /\ LET m == toStore[i]
           new == newReady \cup m.new
           run == episode \cup {m.last}
       IN  /\ shown' = Shown(m)
           /\ \E S \in {IF m.failed THEN {} ELSE IF Mode = "batch"
                        THEN NextBatch(m, new, run) ELSE NextOne(m, new, run)} :
                IF S = {}
                THEN EndEpisode(run) /\ UNCHANGED execs
                ELSE /\ Submit(S, FALSE, 0)
                     /\ newReady' = new /\ reactive' = TRUE
                     /\ episode' = IF Mode = "batch" THEN run \cup S ELSE run
    /\ UNCHANGED <<settings, kernel, acts, excused>>

-----------------------------------------------------------------------------
(* The user.                                                               *)

Acts == acts < MaxActs /\ acts' = acts + 1
InTurn == "hurry" \in env \/ Settled

RunBatch(S, chosen) ==
    /\ S # {} /\ Submit(S, FALSE, chosen)
    /\ UNCHANGED <<settings, kernel, toStore, loop>>

\* The run-cell commands, as patchRunCommands replaces them.
RunCell(c) ==
    /\ Acts /\ InTurn /\ UNCHANGED excused
    /\ \/ /\ Mode = "batch"
          /\ RunBatch(Closure({c}, shown.ready \cup shown.waiting), c)
       \/ /\ Mode = "incremental"
          /\ Submit({c}, TRUE, c)
          /\ UNCHANGED <<settings, kernel, toStore, loop>>

\* alt-mode-execute, in batch mode: this cell and no other.
RunAlone(c) ==
    /\ "alone" \in env /\ Mode = "batch"
    /\ Acts /\ InTurn /\ excused' = excused \cup {"alone"}
    /\ RunBatch({c}, c)

\* execute-stale, the space bar: all the cells shown as ready.
RunReady ==
    /\ "stale" \in env
    /\ Acts /\ InTurn /\ excused' = {}
    /\ RunBatch(IF Mode = "batch" THEN Closure(shown.ready, shown.ready \cup shown.waiting)
                                  ELSE shown.ready, 0)

\* The notebook's tab comes to the front.
ShowTab ==
    /\ "tab" \in env /\ Acts
    /\ toKernel' = Append(toKernel, Request)
    /\ UNCHANGED <<settings, kernel, toStore, execs, loop, excused>>

KernelNext == Run(TRUE) \/ Run(FALSE) \/ Abort \/ Answer \/ CleanUp
StoreNext == Tick \/ \E i \in DOMAIN toStore : Finished(i) \/ Schedule(i)
UserNext ==
    \/ \E c \in Cells : RunCell(c) \/ RunAlone(c)
    \/ RunReady \/ ShowTab

Next == KernelNext \/ StoreNext \/ UserNext

\* Both sides go on with what they have received; the user may stop.
Fairness == WF_vars(KernelNext) /\ WF_vars(StoreNext)

Spec == Init /\ [][Next]_vars /\ Fairness

-----------------------------------------------------------------------------
(* Properties.                                                             *)

\* The three records of what is being executed agree, on top of the types:
\* a cell waits for the batch its latest execute request belongs to, a batch
\* counts the cells that wait for it, and nothing waits without a message under
\* way that will answer it.
TypeOK ==
    /\ edges \subseteq Cells \X Cells /\ schedule \in ExecSchedules /\ env \in Envs
    /\ ctr \in [Cells -> 1..counter] /\ minNew \in 1..(counter + 1)
    /\ wasReady \subseteq Cells /\ last \in Cells
    /\ checked \in BOOLEAN /\ failed \in BOOLEAN /\ reactive \in BOOLEAN
    /\ newReady \subseteq Cells /\ episode \subseteq Cells
    /\ shown.ready \cup shown.waiting \subseteq Cells
    /\ ticks \in Nat /\ inProgress \in 0..Len(batches) /\ acts \in 0..MaxActs
    /\ \A c \in Cells : flight[c] # 0 =>
          \E m \in Range(toKernel) \cup Range(toStore) :
              m.type \in {"exec", "done"} /\ m.cell = c /\ m.batch = flight[c]
    /\ \A b \in DOMAIN batches :
          Cardinality({c \in Cells : flight[c] = b}) <= batches[b].left

\* A user who does not wait, in incremental mode or to press the space bar.
Hasty == "hurry" \in env /\ (Mode = "incremental" \/ "stale" \in env)

\* Schedules may be under way that no batch has asked for: the user does not
\* wait, or comes back to the tab.
Crossing == env \cap {"hurry", "tab"} # {}

\* Once everything has settled, no cell is older than one it depends on, unless
\* the user ran a cell on its own or a cell raised an error since the ready
\* cells were last run, or is hasty: reactive execution leaves a consistent notebook.
\* (The closure a command submits, and the rounds of newly ready cells.)
SettledIsConsistent ==
    Settled /\ excused = {} /\ ~Hasty => OutOfDate = {}

\* Once everything has settled, the cells shown as ready and waiting are those
\* the kernel has as such, whichever executions were cancelled or overtaken.
\* (The schedule requests after a batch and when commands settle.)
SettledViewIsCurrent == Settled => shown.ready = Ready /\ shown.waiting = Waiting

\* Once everything has settled, no episode of reactive execution is left half
\* open: the next one starts from nothing, whatever happened to this one.
\* (The resets at the end of handleComputeExecSchedule.)
SettledIsIdle ==
    Settled => /\ ~reactive /\ inProgress = 0
               /\ newReady = {} /\ episode = {}

\* What runs is the cell the user picked, or out of date.
RunsOutOfDate ==
    \A c \in Cells : ctr'[c] # ctr[c]
        => LET b == Head(toKernel).batch
           IN  batches[b].chosen = c \/ c \in OutOfDate

\* A cell the user did not pick runs only if it is out of date when it runs: "the
\* (minimal) set of upstream and downstream cells that are out of sync".  Not so if
\* schedules cross and something was out of date when they were computed: what one of
\* them calls for may be under way for another.  (The closure and the filters
\* against executedReactiveReadyCells.)
OnlyOutOfDateReruns ==
    [][~Hasty /\ (Crossing => Mode = "batch" /\ excused = {}) => RunsOutOfDate]_vars

\* The store and the kernel do not go on re-running cells for ever: they settle
\* once the user leaves them alone.  (The termination of the reactive loop.)
Settles == []<>Settled
=============================================================================
