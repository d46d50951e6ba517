------------------------- MODULE DebouncedSchedule -------------------------
(***************************************************************************)
(* The reactive schedule that a widget change triggers: the debounced      *)
(* callback _debounced_exec_schedule runs on a Timer thread of its own,    *)
(* next to the kernel's main thread, and borrows mut_settings.exec_schedule*)
(* while it runs.  TimersNext to it, the schedule that the frontend asks for when *)
(* a cell has run: CommManager drops the request while a callback's is     *)
(* pending.                                                                *)
(*                                                                         *)
(* Timers are numbered in the order they are made.  The 0.1 s wait is not  *)
(* timed: a waiting timer may fire at any moment (but see SlowMain).       *)
(***************************************************************************)
EXTENDS Integers

CONSTANTS
    MaxTimers,  \* bound: calls of the debounced function
    SlowMain    \* may the main thread spend the whole wait on one assignment?

ASSUME TimerAssumption == MaxTimers \in Nat /\ SlowMain \in BOOLEAN

Timers == 1..MaxTimers
Schedules == {"liveness", "dag", "hybrid"}
LivenessAware == {"liveness", "hybrid"}

VARIABLES
    schedule,     \* mut_settings.exec_schedule
    reactivity,   \* mut_settings.reactivity_mode
    pending,      \* comm_manager.debounced_exec_schedule_pending
    stage,        \* what each Timer thread does next
    saved,        \* its local exec_schedule
    latest,       \* debounced.t, 0 before the first call
    pc,           \* where the main thread is in a widget change
    startedNew,   \* the debounced function's result
    unscheduled,  \* history: no schedule was computed since the last change
    chosen,       \* history: the schedule the user last set
    disturbed,    \* history: something else wrote to a borrowed setting
    asked,        \* a compute_exec_schedule of the frontend is under way
    unserved,     \* history: no schedule was computed since the last run
    late          \* history: a request was dropped, and the callback it was
                  \* dropped for had computed its schedule before the run ended

settings == <<schedule, reactivity>>
main == <<latest, pc, startedNew>>
front == <<asked, unserved, late>>
timersVars == <<settings, pending, stage, saved, main, unscheduled, chosen, disturbed,
          front>>

Borrowing == {t \in Timers : stage[t] \in {"upgrade", "handle", "restore"}}
Computing == {t \in Timers : stage[t] \in {"waiting", "upgrade", "handle"}}

TimersInit ==
    /\ schedule \in Schedules /\ reactivity = "batch" /\ chosen = schedule
    /\ pending = FALSE
    /\ stage = [t \in Timers |-> "none"]
    /\ saved = [t \in Timers |-> schedule]
    /\ latest = 0 /\ pc = "idle" /\ startedNew = FALSE
    /\ unscheduled = FALSE /\ disturbed = FALSE
    /\ asked = FALSE /\ unserved = FALSE /\ late = FALSE

-----------------------------------------------------------------------------
(* The main thread.                                                        *)

\* _observe_widget takes the new value in, and then asks for a schedule.
ChangeWidget ==
    /\ pc = "idle" /\ latest < MaxTimers
    /\ pc' = "changed" /\ unscheduled' = TRUE
    /\ UNCHANGED <<settings, pending, stage, saved, latest, startedNew, chosen,
                   disturbed, front>>

\* Timer.cancel stops a timer that waits, and no other.  `finished` is set by
\* cancel, and after the callback has returned.
StartIfFinished ==
    [t \in Timers |-> IF t = latest + 1 /\ (latest = 0 \/ stage[latest] = "finished")
                      THEN "waiting" ELSE stage[t]]
CancelAndStart ==
    [t \in Timers |-> IF t = latest /\ stage[t] = "waiting" THEN "cancelled"
                      ELSE IF t = latest + 1 THEN "waiting" ELSE stage[t]]

Debounce ==
    /\ pc = "changed"
    /\ startedNew' = (latest = 0 \/ stage[latest] = "finished")
    /\ stage' = CancelAndStart
    /\ latest' = latest + 1
    /\ pc' = "armed"
    /\ UNCHANGED <<settings, pending, saved, unscheduled, chosen, disturbed,
                   front>>

\* debounced_exec_schedule, once the timer has been started.
SetPending ==
    /\ pc = "armed" /\ pc' = "idle"
    /\ pending' = (pending \/ startedNew)
    /\ UNCHANGED <<settings, stage, saved, latest, startedNew, unscheduled,
                   chosen, disturbed, front>>

\* "%flow schedule", "%flow reactivity" in a cell.
SetSchedule(s) ==
    /\ pc = "idle"
    /\ schedule' = s /\ chosen' = s
    /\ disturbed' = (disturbed \/ Borrowing # {})
    /\ UNCHANGED <<reactivity, pending, stage, saved, main, unscheduled,
                   front>>

SetReactivity(mode) ==
    LET upgrade == mode = "incremental" /\ schedule \notin LivenessAware
    IN  /\ pc = "idle"
        /\ reactivity' = mode
        /\ schedule' = IF upgrade THEN "hybrid" ELSE schedule
        /\ chosen' = IF upgrade THEN "hybrid" ELSE chosen
        /\ disturbed' = (disturbed \/ (upgrade /\ Borrowing # {}))
        /\ UNCHANGED <<pending, stage, saved, main, unscheduled, front>>

\* A cell runs, and when it is done the frontend asks for a schedule.
StartRun ==
    /\ pc = "idle" /\ ~asked /\ pc' = "run"
    /\ UNCHANGED <<settings, pending, stage, saved, latest, startedNew,
                   unscheduled, chosen, disturbed, front>>

EndRun ==
    /\ pc = "run" /\ pc' = "idle"
    /\ asked' = TRUE /\ unserved' = TRUE
    /\ UNCHANGED <<settings, pending, stage, saved, latest, startedNew,
                   unscheduled, chosen, disturbed, late>>

\* _responder: the request is dropped, or a schedule is computed and sent.
DroppedAlways == TRUE
Dropped == pending
Respond ==
    /\ pc = "idle" /\ asked
    /\ asked' = FALSE
    /\ unserved' = (unserved /\ Dropped)
    /\ late' = (late \/ (pending /\ Computing = {}))
    /\ UNCHANGED <<settings, pending, stage, saved, main, unscheduled, chosen,
                   disturbed>>

-----------------------------------------------------------------------------
(* A Timer thread: _debounced_exec_schedule.                               *)

Goto(t, from, to) == stage[t] = from /\ stage' = [stage EXCEPT ![t] = to]

Fire(t) ==
    /\ Goto(t, "waiting", "upgrade")
    /\ SlowMain \/ pc # "armed"
    /\ saved' = [saved EXCEPT ![t] = schedule]
    /\ disturbed' = (disturbed \/ Borrowing # {})
    /\ UNCHANGED <<settings, pending, main, unscheduled, chosen, front>>

KeepSchedule(t) == schedule
UpgradedSchedule(t) == IF saved[t] = "dag" THEN "hybrid" ELSE schedule
Upgrade(t) ==
    /\ Goto(t, "upgrade", "handle")
    /\ schedule' = UpgradedSchedule(t)
    /\ UNCHANGED <<reactivity, pending, saved, main, unscheduled, chosen,
                   disturbed, front>>

\* The schedule is computed and sent; comm_manager.handle catches the errors.
Handle(t) ==
    /\ Goto(t, "handle", "restore")
    /\ unscheduled' = FALSE /\ unserved' = FALSE
    /\ UNCHANGED <<settings, pending, saved, main, chosen, disturbed, asked,
                   late>>

RestoredSchedule(t) == saved[t]
Restore(t) ==
    /\ Goto(t, "restore", "unpend")
    /\ schedule' = RestoredSchedule(t)
    /\ UNCHANGED <<reactivity, pending, saved, main, unscheduled, chosen,
                   disturbed, front>>

StillPending(t) == pending
PendingAfter(t) == FALSE
Unpend(t) ==
    /\ Goto(t, "unpend", "finish")
    /\ pending' = PendingAfter(t)
    /\ UNCHANGED <<settings, saved, main, unscheduled, chosen, disturbed, front>>

Finish(t) ==
    /\ Goto(t, "finish", "finished")
    /\ UNCHANGED <<settings, pending, saved, main, unscheduled, chosen,
                   disturbed, front>>

Callback(t) ==
    Fire(t) \/ Upgrade(t) \/ Handle(t) \/ Restore(t) \/ Unpend(t) \/ Finish(t)

TimersNext ==
    \/ ChangeWidget \/ Debounce \/ SetPending
    \/ \E s \in Schedules : SetSchedule(s)
    \/ \E mode \in {"batch", "incremental"} : SetReactivity(mode)
    \/ StartRun \/ EndRun \/ Respond
    \/ \E t \in Timers : Callback(t)

\* Every thread keeps running; nobody has to touch a widget or a setting.
Fairness ==
    /\ WF_timersVars(Debounce) /\ WF_timersVars(SetPending)
    /\ \A t \in Timers : WF_timersVars(Callback(t))

TimersSpec == TimersInit /\ [][TimersNext]_timersVars /\ Fairness

-----------------------------------------------------------------------------
(* Properties.                                                             *)

\* Types; and the timers made so far are 1..latest, of which only the last
\* one can still be waiting.
TimersTypeOK ==
    /\ schedule \in Schedules /\ chosen \in Schedules
    /\ reactivity \in {"batch", "incremental"}
    /\ pending \in BOOLEAN /\ startedNew \in BOOLEAN
    /\ unscheduled \in BOOLEAN /\ disturbed \in BOOLEAN
    /\ asked \in BOOLEAN /\ unserved \in BOOLEAN /\ late \in BOOLEAN
    /\ latest \in 0..MaxTimers /\ pc \in {"idle", "changed", "armed", "run"}
    /\ saved \in [Timers -> Schedules]
    /\ stage \in [Timers -> {"none", "waiting", "cancelled", "upgrade", "handle",
                             "restore", "unpend", "finish", "finished"}]
    /\ \A t \in Timers : /\ stage[t] = "none" <=> t > latest
                         /\ stage[t] = "waiting" => t = latest
    /\ pc = "changed" => latest < MaxTimers

\* The frontend's requests are dropped only as long as the last timer made has
\* still to clear the flag, whatever callbacks overlap.
PendingHasTimer ==
    pending => latest # 0 /\ stage[latest] \in
                   {"waiting", "upgrade", "handle", "restore", "unpend"}

\* A change is never forgotten: until a schedule has been computed with it,
\* there is a timer on its way to computing one.
ChangeIsScheduled ==
    unscheduled => pc = "changed" \/ Computing # {}

\* A run is never forgotten either: until a schedule has been computed after
\* it, the frontend's request is under way, or it was dropped and a timer is
\* on its way to computing a schedule; unless it was dropped in the moment
\* between a callback's computing and its clearing of the flag.
RequestIsServed == unserved => asked \/ Computing # {} \/ late

\* The setting the callbacks borrow comes back, unless two callbacks overlapped
\* or the user changed it while it was borrowed.
ScheduleKept == Borrowing = {} /\ ~disturbed => schedule = chosen

\* With the same exceptions, a widget change is scheduled by liveness.
CallbackUsesLiveness ==
    ~disturbed => \A t \in Timers : stage[t] = "handle" => schedule \in LivenessAware

\* A call postpones the callback that has not yet begun: only the timer of the
\* last call fires.
OnlyLatestFires ==
    [][\A t \in Timers : stage[t] = "waiting" /\ stage'[t] = "upgrade"
                            => t = latest]_timersVars

\* Requests are not dropped for ever.
PendingEnds == pending ~> ~pending
=============================================================================
