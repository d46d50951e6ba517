------------------------------- MODULE Tracing -------------------------------
(***************************************************************************)
(* The tracer of a cell: which calls it follows, when it switches itself   *)
(* off, and how it finds its place again.                                  *)
(*                                                                         *)
(* A cell is a sequence of statements that call functions defined in the   *)
(* notebook.  The tracer keeps a stack of its own, with a level for every  *)
(* call it follows.  To save time it stops tracing at the second call from *)
(* the same place, after the first iteration of a loop and deep inside     *)
(* instrumented libraries.  While it is off it is told of no call and no   *)
(* return, so its stack is out of date; the next instrumented instruction  *)
(* tries to turn it on again with the level of the frame it belongs to.    *)
(*                                                                         *)
(* The system's stack is `frames`, the tracer's `levels`.  A statement is  *)
(* the pair of its function and its position.                              *)
(***************************************************************************)
EXTENDS Naturals, Sequences, FiniteSets, SequencesExt

CONSTANTS
    Fns,        \* functions of the notebook
    Cell,       \* the cell's own code
    None,       \* no call place, no statement
    MaxStmts,   \* bound: statements of a body
    MaxDepth,   \* bound: frames
    MaxCalls,   \* bound: functions entered by a cell
    Catchers    \* the bodies that catch exceptions

ASSUME TracingAssumption ==
    /\ IsFiniteSet(Fns) /\ Cell \notin Fns /\ None \notin Fns \cup {Cell}
    /\ None \notin (Fns \cup {Cell}) \X Nat
    /\ MaxStmts \in Nat \ {0} /\ MaxDepth \in Nat \ {0} /\ MaxCalls \in Nat
    /\ Catchers \subseteq Fns \cup {Cell}

VARIABLES
    frames,      \* the frames that are executing, the cell's first
    raised,      \* is an exception on its way up?
    enabled,     \* is_tracing_enabled
    disabledAt,  \* tracing_disabled_user_call_depth (0 for -1)
    levels,      \* call_stack and, last, the fields of the current level
    callDepth,   \* call_depth
    finished,    \* the statements of the cell that have been handled
    lastCall,    \* node_id_for_last_call of each function's definition
    seen,        \* _seen_functions_ids
    prev,        \* prev_event and prev_trace_stmt
    flagged,     \* tracing_disabled_since_last_module_stmt
    calls,       \* functions the cell has entered
    skipped      \* history: the statements that have run for the cell's statement,
                 \* but for those of a body that it runs again

vars == <<frames, raised, enabled, disabledAt, levels, callDepth, finished,
          lastCall, seen, prev, flagged, calls, skipped>>
tracer == <<enabled, disabledAt, levels, callDepth, finished, lastCall, seen, prev, flagged>>

Bodies == Fns \cup {Cell}
Phases == {"idle", "stmt", "call"}   \* between statements, in one, in a call of it

Depth == Len(frames)       \* get_user_call_stack_depth of the running frame
Top == frames[Depth]
Stmt(fr) == <<fr.fn, fr.at>>
Managed == Len(levels)

\* A frame's `inst`: its instrumented body is running; `hook`: it will report
\* its return; `pushed`: the tracer has a level for it.
NewFrame(g, inst, hook, pushed) ==
    [fn |-> g, inst |-> inst, hook |-> hook, pushed |-> pushed,
     at |-> 0, phase |-> "idle", guard |-> FALSE]
NewLevel(depth, cd, s) == [depth |-> depth, lex |-> None, saved |-> cd, stmt |-> s]

\* A tracer is made for each cell.
Init ==
    /\ frames = <<NewFrame(Cell, TRUE, TRUE, TRUE)>>
    /\ raised = FALSE
    /\ enabled = TRUE /\ disabledAt = 0
    /\ levels = <<NewLevel(1, 0, None)>>
    /\ callDepth = 1
    /\ finished = {} /\ lastCall = [g \in Fns |-> None] /\ seen = {}
    /\ prev = [event |-> "call", stmt |-> None]
    /\ flagged = FALSE /\ calls = 0 /\ skipped = {}

-----------------------------------------------------------------------------
(* The tracer as a value, so that one event can run several handlers.      *)

T == [on |-> enabled, disabledAt |-> disabledAt, levels |-> levels, callDepth |-> callDepth,
      finished |-> finished, lastCall |-> lastCall, seen |-> seen, prev |-> prev,
      flagged |-> flagged]
Becomes(t) ==
    /\ enabled' = t.on /\ disabledAt' = t.disabledAt /\ levels' = t.levels
    /\ callDepth' = t.callDepth /\ finished' = t.finished /\ lastCall' = t.lastCall
    /\ seen' = t.seen /\ prev' = t.prev /\ flagged' = t.flagged

Cut(t, n) == [t EXCEPT !.levels = SubSeq(@, 1, n)]
Pop(t) == Cut(t, Len(t.levels) - 1)
SetStmt(t, s) == [t EXCEPT !.levels[Len(t.levels)].stmt = s]
SetLex(t, x) == [t EXCEPT !.levels[Len(t.levels)].lex = x]

\* _tracked_disable_tracing
DisableQuietly(t) ==  \* mutant: the cell's statement is not told
    [t EXCEPT !.on = FALSE, !.disabledAt = IF t.on THEN Depth ELSE @]
Disable(t) ==
    [t EXCEPT !.on = FALSE, !.flagged = TRUE,
              !.disabledAt = IF t.on THEN Depth ELSE @]

\* after_stmt_reset_hook; and finished_execution_hook of a statement
Reset(t) == [t EXCEPT !.seen = {}]
Finish(t, s) == Reset([t EXCEPT !.finished = @ \cup ({s} \ {None})])

\* _call_stack_length_for_reenabling_tracing: the level of the running frame, the
\* lowest that is not below it; 0 if the tracer has none.
Candidates(t) == {n \in 1..Len(t.levels) : t.levels[n].depth >= Depth}
LevelOfFrame(t) ==
    IF Depth > t.disabledAt \/ t.levels[1].stmt \in t.finished \/ Candidates(t) = {}
    THEN 0
    ELSE CHOOSE n \in Candidates(t) : \A m \in Candidates(t) : n <= m

\* _try_reenable_tracing; empty is empty_stack_call_depth, 0 when it is not given.
ReenableSaved(t, empty, initial) ==  \* mutant: empty_stack_call_depth is not used
    LET n == LevelOfFrame(t)
        u == Cut(t, IF n = 0 THEN 1 ELSE n)
    IN IF ~initial /\ n = 0 THEN t
       ELSE SetLex([u EXCEPT !.on = TRUE, !.disabledAt = 0,
                             !.callDepth = u.levels[Len(u.levels)].saved], None)
ReenableHere(t, empty, initial) ==  \* mutant: the stack is not cut to the frame's level
    IF ~initial /\ LevelOfFrame(t) = 0 THEN t
    ELSE [t EXCEPT !.on = TRUE, !.disabledAt = 0]
Reenable(t, empty, initial) ==
    LET n == LevelOfFrame(t)
        u == Cut(t, IF n = 0 THEN 1 ELSE n)
    IN IF ~initial /\ n = 0 THEN t
       ELSE SetLex([u EXCEPT !.on = TRUE, !.disabledAt = 0,
                             !.callDepth = IF Len(u.levels) = 1 /\ empty # 0 THEN empty
                                           ELSE u.levels[Len(u.levels)].saved],
                   None)

-----------------------------------------------------------------------------
(* The handlers of the instrumented code.                                  *)

Initial == Depth = 1    \* is_initial_frame_stmt

\* before_stmt of statement s
BeforeStmt(t, s) ==
    IF s \in t.finished THEN t
    ELSE LET u == SetStmt(t, s) IN
         IF u.on THEN u
         ELSE LET v == Reenable(u, 0, Initial) IN IF v.on THEN Reset(v) ELSE v

\* after_stmt of statement s
HandleStmt(t, s) ==
    LET u == IF Initial THEN Cut(t, 1) ELSE t
    IN [Finish(u, s) EXCEPT !.prev = [event |-> "after_stmt", stmt |-> s]]
AfterStmtStaysOff(t, s) ==  \* mutant: only calls and first instructions turn tracing on
    IF ~t.on \/ s \in t.finished THEN t ELSE HandleStmt(t, s)
AfterStmt(t, s) ==
    LET u == IF t.on THEN t ELSE Reenable(t, 1, Initial)
    IN IF ~u.on \/ s \in u.finished THEN u ELSE HandleStmt(u, s)

AfterCall(t) ==
    LET u == IF t.on THEN t ELSE Reenable(t, 1, FALSE)
    IN IF u.on THEN SetLex(u, None) ELSE u

\* handle_call, with handle_first_ipython_frame before it; deep: through
\* max_external_call_depth_for_tracing frames of instrumented libraries.
RepeatedFrom(t, g) ==   \* the place that the call comes from, for node_id_for_last_call
    LET lex == t.levels[Len(t.levels)].lex IN IF lex = None THEN <<<<g, 0>>, 0>> ELSE lex
HandleCall(t, g, deep) ==
    LET place == RepeatedFrom(t, g)
        u == [t EXCEPT !.callDepth = @ + 1]
        v == [u EXCEPT !.lastCall[g] = place]
        w == [v EXCEPT !.prev = [event |-> "call", stmt |-> <<g, 0>>]]
    IN CASE u.callDepth = 1 -> u
         [] u.callDepth # 1 /\ t.lastCall[g] = place ->
               [u EXCEPT !.on = FALSE, !.flagged = TRUE, !.disabledAt = Depth + 1]
         [] u.callDepth # 1 /\ t.lastCall[g] # place /\ deep ->
               [w EXCEPT !.on = FALSE, !.flagged = TRUE, !.disabledAt = Depth + 1]
         [] OTHER ->
               [w EXCEPT !.levels = Append(@, NewLevel(Depth + 1, u.callDepth, <<g, 0>>))]

\* handle_other_sys_events for a return, at statement s
HandleReturn(t, s, returnStmt) ==
    LET cd == IF t.callDepth = 0 THEN 0 ELSE t.callDepth - 1
        u == [t EXCEPT !.callDepth = cd]
        v == IF t.prev.event \notin {"call", "exception"} THEN Finish(u, t.prev.stmt) ELSE u
        w == IF returnStmt /\ s \notin v.finished THEN Finish(v, s) ELSE v
        x == [w EXCEPT !.prev = [event |-> "return", stmt |-> s]]
    IN IF cd = 0 THEN u
       ELSE IF Len(t.levels) = 1 THEN Disable(x) ELSE Pop(x)

-----------------------------------------------------------------------------
(* The running program.                                                    *)

SetTop(fr) == [frames EXCEPT ![Depth] = fr]

\* The next statement of the running body.
StartStmt ==
    /\ ~raised /\ Top.phase = "idle" /\ Top.at < MaxStmts
    /\ LET fr == [Top EXCEPT !.at = @ + 1, !.phase = "stmt", !.guard = FALSE] IN
       /\ frames' = SetTop(fr)
       /\ IF fr.inst THEN Becomes(BeforeStmt(T, Stmt(fr))) ELSE UNCHANGED tracer
    /\ UNCHANGED <<raised, calls, skipped>>

\* A call expression is reached, and left.
Live == Top.inst /\ ~Top.guard   \* do the instrumented expressions run?
StartCall(n) ==
    /\ ~raised /\ Top.phase = "stmt"
    /\ frames' = SetTop([Top EXCEPT !.phase = "call"])
    /\ IF Live /\ enabled THEN Becomes(SetLex(T, <<Stmt(Top), n>>))
       ELSE UNCHANGED tracer
    /\ UNCHANGED <<raised, calls, skipped>>
EndCall ==
    /\ ~raised /\ Top.phase = "call"
    /\ frames' = SetTop([Top EXCEPT !.phase = "stmt"])
    /\ IF Live THEN Becomes(AfterCall(T)) ELSE UNCHANGED tracer
    /\ UNCHANGED <<raised, calls, skipped>>

\* A function of the notebook is entered: by a call expression, by a library
\* that the call expression runs (then perhaps several times), or by an
\* operation that is not a call expression (a property).
Enter(g, deep) ==
    /\ ~raised /\ Top.phase \in {"stmt", "call"} /\ Depth < MaxDepth /\ calls < MaxCalls
    /\ LET t == IF enabled THEN HandleCall(T, g, deep) ELSE T
           inst == t.on /\ g \notin t.seen
           hook == enabled /\ (t.on \/ deep)
           pushed == Len(t.levels) > Managed
       IN /\ frames' = Append(frames, NewFrame(g, inst, hook, pushed))
          /\ Becomes([t EXCEPT !.seen = IF inst THEN @ \cup {g} ELSE @])
    /\ calls' = calls + 1
    /\ UNCHANGED <<raised, skipped>>

\* The first iteration of a loop, or of a comprehension, has ended.
EndIteration ==
    /\ ~raised /\ Top.phase = "stmt" /\ Live
    /\ frames' = SetTop([Top EXCEPT !.guard = TRUE])
    /\ Becomes(Disable(T))
    /\ UNCHANGED <<raised, calls, skipped>>

\* A body that the statement has run before, from another call expression, runs
\* without instructions though tracing is on.
Again(fr) == fr.pushed /\ ~fr.inst
Ran(fr) == IF Again(fr) THEN {} ELSE {Stmt(fr)}

\* A statement of a function ends.
EndStmt ==
    /\ ~raised /\ Top.phase = "stmt" /\ Depth > 1
    /\ frames' = SetTop([Top EXCEPT !.phase = "idle", !.guard = FALSE])
    /\ IF Top.inst THEN Becomes(AfterStmt(T, Stmt(Top))) ELSE UNCHANGED tracer
    /\ skipped' = skipped \cup Ran(Top)
    /\ UNCHANGED <<raised, calls>>

\* A statement of the cell ends: after_stmt, then after_module_stmt, which looks
\* at every symbol of the statement again if tracing has been off.
EndModuleStmt ==
    /\ ~raised /\ Top.phase = "stmt" /\ Depth = 1
    /\ frames' = SetTop([Top EXCEPT !.phase = "idle", !.guard = FALSE])
    /\ Becomes([AfterStmt(T, Stmt(Top)) EXCEPT !.flagged = FALSE])
    /\ skipped' = {}
    /\ UNCHANGED <<raised, calls>>

\* A function returns, at its end or by a return statement.
Return ==
    /\ ~raised /\ Depth > 1 /\ Top.phase \in {"idle", "stmt"} /\ Top.at > 0
    /\ frames' = Front(frames)
    /\ IF enabled /\ Top.hook THEN Becomes(HandleReturn(T, Stmt(Top), Top.phase = "stmt"))
       ELSE UNCHANGED tracer
    /\ skipped' = skipped \cup Ran(Top)
    /\ UNCHANGED <<raised, calls>>

\* An exception is raised, leaves a frame (perhaps through a return statement),
\* and is caught: the handler of the `try` goes on with the body's next statement.
Exception(t) == [t EXCEPT !.prev.event = "exception"]
Raise ==
    /\ ~raised /\ Top.phase = "stmt"
    /\ raised' = TRUE
    /\ Becomes(IF enabled /\ Top.hook THEN Exception(T) ELSE T)
    /\ UNCHANGED <<frames, calls, skipped>>
Unwind ==
    /\ raised /\ Depth > 1
    /\ frames' = Front(frames)
    /\ \E returnStmt \in BOOLEAN :
          LET t == IF enabled /\ Top.hook THEN HandleReturn(T, Stmt(Top), returnStmt) ELSE T
          IN Becomes(IF t.on /\ frames[Depth - 1].hook THEN Exception(t) ELSE t)
    /\ UNCHANGED <<raised, calls, skipped>>
Catch ==
    /\ raised /\ Top.fn \in Catchers /\ Top.at < MaxStmts
    /\ raised' = FALSE
    /\ LET fr == [Top EXCEPT !.at = @ + 1, !.phase = "stmt", !.guard = FALSE] IN
       /\ frames' = SetTop(fr)
       /\ IF fr.inst THEN Becomes(BeforeStmt(T, Stmt(fr))) ELSE UNCHANGED tracer
    /\ UNCHANGED <<calls, skipped>>

\* The cell ends, by its last statement or by an exception; the next has a new tracer.
NextCell ==
    /\ Depth = 1 /\ (raised \/ (Top.phase = "idle" /\ Top.at > 0))
    /\ frames' = <<NewFrame(Cell, TRUE, TRUE, TRUE)>>
    /\ raised' = FALSE /\ calls' = 0
    /\ Becomes([on |-> TRUE, disabledAt |-> 0, levels |-> <<NewLevel(1, 0, None)>>,
                callDepth |-> 1, finished |-> {}, lastCall |-> [g \in Fns |-> None],
                seen |-> {}, prev |-> [event |-> "call", stmt |-> None], flagged |-> FALSE])
    /\ skipped' = {}

Next ==
    \/ StartStmt \/ EndCall \/ EndIteration \/ EndStmt \/ EndModuleStmt
    \/ \E n \in 1..2 : StartCall(n)
    \/ \E g \in Fns, deep \in BOOLEAN : Enter(g, deep)
    \/ Return \/ Raise \/ Unwind \/ Catch \/ NextCell

Spec == Init /\ [][Next]_vars

-----------------------------------------------------------------------------
(* Properties                                                              *)

\* Frames, levels and statements are what they should be.
TypeOK ==
    /\ Depth \in 1..MaxDepth /\ Managed \in 1..MaxDepth
    /\ \A i \in 1..Depth : frames[i].fn \in Bodies /\ frames[i].phase \in Phases
    /\ raised \in BOOLEAN /\ enabled \in BOOLEAN /\ flagged \in BOOLEAN
    /\ disabledAt \in 0..MaxDepth /\ callDepth \in 0..MaxDepth
    /\ seen \subseteq Fns /\ DOMAIN lastCall = Fns

\* While tracing is on, the tracer's stack has one level for each call that is
\* being followed, in order and at the frame's depth, and counts them right: what
\* is recorded is recorded in the scope of the function that is running.
InSync ==
    enabled => /\ {levels[n].depth : n \in 1..Managed} = {i \in 1..Depth : frames[i].pushed}
               /\ \A m, n \in 1..Managed : m < n => levels[m].depth < levels[n].depth
               /\ callDepth = Managed

\* An instruction that is recorded belongs to a frame that has a level.
RecordsOwnFrame == enabled /\ Top.inst => Top.pushed

\* Between two statements of the cell tracing is on, with an empty stack.
Resumed ==
    Depth = 1 /\ Top.phase = "idle" /\ ~raised
    => enabled /\ Managed = 1 /\ (Top.at > 0 => Stmt(Top) \in finished)

\* When a statement of the cell ends, every statement that has run for it has been
\* handled, or the symbols it names are looked at again.  (Not so for a body that is
\* run again without instructions: if it takes another path, nothing tells.)
Accounted ==
    [][Depth = 1 /\ Top.phase = "stmt" /\ frames'[1].phase = "idle" /\ frames'[1].at = Top.at
       => flagged \/ skipped \subseteq finished']_vars

=============================================================================
