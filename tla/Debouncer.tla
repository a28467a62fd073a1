------------------------------ MODULE Debouncer ------------------------------
(***************************************************************************)
(* helpers/debounce.py: a Debouncer calls a function at once or after a    *)
(* cooldown, and merges the calls that come meanwhile.                     *)
(*                                                                         *)
(* The state of a debouncer is a record and its methods are operators from *)
(* state to state, so that an owner can compose several of them in one     *)
(* step.  "armed" counts the timers on the event loop, "handle" says       *)
(* whether _timer_task leads to one of them: the two are separate in the   *)
(* code, too.  The function runs in tasks of the owner, from Locked to     *)
(* Unlocked.  _execute_lock is only ever taken when it is free, so nobody  *)
(* waits for it.                                                           *)
(***************************************************************************)
EXTENDS Naturals

DebouncerState ==
  [immediate : BOOLEAN, \* the first call of a series runs at once
   handle : BOOLEAN,    \* _timer_task is not None
   armed  : Nat,        \* timers that will call _on_debounce
   atEnd  : BOOLEAN,    \* _execute_at_end_of_timer
   locked : BOOLEAN,    \* _execute_lock
   shut   : BOOLEAN]    \* _shutdown_requested

NewDebouncer(immediate) ==
  [immediate |-> immediate, handle |-> FALSE, armed |-> 0, atEnd |-> FALSE,
   locked |-> FALSE, shut |-> FALSE]

\* A timer with a handle, of a debouncer or of its owner.
Arm(d) == [d EXCEPT !.handle = TRUE, !.armed = @ + 1]
CancelTimer(d) == IF d.handle THEN [d EXCEPT !.handle = FALSE, !.armed = @ - 1] ELSE d

\* async_cancel and async_shutdown.
Cancel(d) == [CancelTimer(d) EXCEPT !.atEnd = FALSE]
Shut(d) == [Cancel(d) EXCEPT !.shut = TRUE]

\* _schedule_timer does not cancel the timer the handle leads to.
ScheduleTimer(d) == IF d.shut THEN d ELSE Arm(d)

\* Mutant of RunsNow: a call in progress is not looked at.
RunsNowUnlocked(d) == ~d.shut /\ ~d.handle /\ d.immediate

\* _async_schedule_or_call_now says yes ...
RunsNow(d) == ~d.shut /\ ~d.handle /\ ~d.locked /\ d.immediate

\* Mutant of Deferred: the call that comes in the cooldown is forgotten.
DeferredNever(d) == IF d.shut \/ d.locked \/ d.handle THEN d ELSE ScheduleTimer([d EXCEPT !.atEnd = TRUE])

\* ... or no, and leaves the call to a timer, or to the one in progress.
Deferred(d) ==
  CASE d.shut \/ (d.locked /\ ~d.handle) -> d
    [] ~d.shut /\ d.handle -> [d EXCEPT !.atEnd = TRUE]
    [] OTHER -> ScheduleTimer([d EXCEPT !.atEnd = TRUE])

\* _on_debounce: whether the function runs now, and what is left of the timer.
RunsAtEnd(d) == d.atEnd /\ ~d.locked
TimerFired(d) == [d EXCEPT !.handle = FALSE, !.armed = @ - 1, !.atEnd = FALSE]

\* The function runs under the lock; then the cooldown begins.
Locked(d) == [d EXCEPT !.locked = TRUE]
Unlocked(d) == ScheduleTimer([d EXCEPT !.locked = FALSE])
=============================================================================
