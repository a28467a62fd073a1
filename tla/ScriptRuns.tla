------------------------------ MODULE ScriptRuns ------------------------------
(***************************************************************************)
(* helpers/script.py: the runs of one Script in its four modes, and the    *)
(* calls that stop them (the user's, a restart's, the shutdown's).         *)
(*                                                                         *)
(* async_run adds a run, in mode restart stops the others first, and then  *)
(* awaits the run in a task of its own.  async_stop asks each run to stop  *)
(* in a task of its own and awaits those that have started.  A caller may  *)
(* be cancelled while it awaits either.                                    *)
(*                                                                         *)
(* Abstractions.  A run is one call of async_run, or the run it adds.  Its *)
(* sequence is one step that ends on its own or is interrupted by the      *)
(* stop; that a run is not called from a run of the same script is left to *)
(* the script stack, which is not modelled.                                *)
(***************************************************************************)
EXTENDS Naturals, Sequences, FiniteSets, SequencesExt

CONSTANTS
  Run,
  Stopper,   \* calls of Script.async_stop
  MaxRuns,
  Nobody

ASSUME RunAssumption == IsFiniteSet(Run) /\ Run \intersect Stopper = {} /\ Nobody \notin Run
ASSUME MaxRunsAssumption == MaxRuns \in Nat \ {0}

Waiter == Run \union Stopper

VARIABLES
  mode,      \* script_mode
  mayCancel, \* callers may be cancelled
  blocked,   \* DATA_NEW_SCRIPT_RUNS_NOT_ALLOWED
  runs,      \* _runs
  holder,    \* who holds _queue_lck
  queue,     \* the runs that wait for it, in the order they came
  stop,      \* runs whose _stop is done
  execution, \* per run: where the task of its async_run is
  caller,    \* per run: what the call of Script.async_run awaits
  stopper,   \* per stopper: what it awaits
  stopTasks  \* per caller of async_stop and run: its task for the run

constVars == <<mode, mayCancel>>
vars == <<constVars, blocked, runs, holder, queue, stop, execution, caller, stopper, stopTasks>>

Mode == {"single", "restart", "queued", "parallel"}
Execution == {"none", "queued", "step", "finished"}
Caller == {"idle", "restarting", "running", "stopping", "returned"}
StopTask == {"none", "created", "waiting", "done"}

TypeOK ==
  /\ mode \in Mode /\ mayCancel \in BOOLEAN /\ blocked \in BOOLEAN
  /\ runs \subseteq Run /\ holder \in Run \union {Nobody} /\ queue \in Seq(Run)
  /\ stop \subseteq Run
  /\ execution \in [Run -> Execution] /\ caller \in [Run -> Caller]
  /\ stopper \in [Stopper -> {"idle", "stopping", "returned"}]
  /\ stopTasks \in [Waiter -> [Run -> StopTask]]

NoTasks == [r \in Run |-> "none"]

Init ==
  /\ mode \in Mode /\ mayCancel \in BOOLEAN /\ blocked = FALSE
  /\ runs = {} /\ holder = Nobody /\ queue = <<>> /\ stop = {}
  /\ execution = [r \in Run |-> "none"] /\ caller = [r \in Run |-> "idle"]
  /\ stopper = [s \in Stopper |-> "idle"] /\ stopTasks = [w \in Waiter |-> NoTasks]

-----------------------------------------------------------------------------
(* A run *)

\* _finish, with the lock if it has it.
Finish(r, all) ==
  /\ execution' = [execution EXCEPT ![r] = "finished"]
  /\ runs' = all \ {r}
  /\ holder' = IF holder = r THEN Nobody ELSE holder

\* The first slice of async_run of the run.  The lock is free only for those
\* before whom nobody waits.
Launch(r, all) ==
  IF mode = "queued" /\ (holder # Nobody \/ queue # <<>>)
  THEN /\ execution' = [execution EXCEPT ![r] = "queued"]
       /\ queue' = Append(queue, r)
       /\ runs' = all /\ UNCHANGED holder
  ELSE IF r \in stop
       THEN Finish(r, all) /\ UNCHANGED queue
       ELSE /\ execution' = [execution EXCEPT ![r] = "step"]
            /\ holder' = IF mode = "queued" THEN r ELSE holder
            /\ runs' = all /\ UNCHANGED queue

\* _QueuedScriptRun.async_run has the lock, or is told to stop before.
LockAcquired(r) ==
  /\ execution[r] = "queued" /\ r = Head(queue) /\ holder = Nobody /\ r \notin stop
  /\ queue' = Tail(queue)
  /\ execution' = [execution EXCEPT ![r] = "step"] /\ holder' = r
  /\ UNCHANGED <<constVars, blocked, runs, stop, caller, stopper, stopTasks>>

StoppedInQueue(r) ==
  /\ execution[r] = "queued" /\ r \in stop /\ Finish(r, runs)
  /\ \E i \in DOMAIN queue : queue[i] = r /\ queue' = RemoveAt(queue, i)
  /\ UNCHANGED <<constVars, blocked, stop, caller, stopper, stopTasks>>

\* The sequence is over, is given up, fails, or is interrupted.
StepsEnd(r) ==
  /\ execution[r] = "step" /\ Finish(r, runs)
  /\ UNCHANGED <<constVars, blocked, queue, stop, caller, stopper, stopTasks>>

-----------------------------------------------------------------------------
(* Script.async_run *)

Refused == blocked \/ (runs # {} /\ \/ mode = "single"
                                    \/ mode # "restart" /\ Cardinality(runs) = MaxRuns)

TasksFor(targets) == [q \in Run |-> IF q \in targets THEN "created" ELSE "none"]

\* Mutant of Call: a restart does not stop the runs that have not started.
CallStopsStarted(r) ==
  /\ caller[r] = "idle"
  /\ IF Refused
     THEN /\ caller' = [caller EXCEPT ![r] = "returned"]
          /\ UNCHANGED <<runs, holder, queue, execution, stopTasks>>
     ELSE IF mode = "restart" /\ {q \in runs : execution[q] = "step"} # {}
     THEN /\ caller' = [caller EXCEPT ![r] = "restarting"]
          /\ runs' = runs \union {r}
          /\ stopTasks' = [stopTasks EXCEPT ![r] = TasksFor({q \in runs : execution[q] = "step"})]
          /\ UNCHANGED <<holder, queue, execution>>
     ELSE /\ caller' = [caller EXCEPT ![r] = "running"]
          /\ Launch(r, runs \union {r}) /\ UNCHANGED stopTasks
  /\ UNCHANGED <<constVars, blocked, stop, stopper>>

Call(r) ==
  /\ caller[r] = "idle"
  /\ IF Refused
     THEN /\ caller' = [caller EXCEPT ![r] = "returned"]
          /\ UNCHANGED <<runs, holder, queue, execution, stopTasks>>
     ELSE IF mode = "restart" /\ runs # {}
     THEN /\ caller' = [caller EXCEPT ![r] = "restarting"]
          /\ runs' = runs \union {r}
          /\ stopTasks' = [stopTasks EXCEPT ![r] = TasksFor(runs)]
          /\ UNCHANGED <<holder, queue, execution>>
     ELSE /\ caller' = [caller EXCEPT ![r] = "running"]
          /\ Launch(r, runs \union {r}) /\ UNCHANGED stopTasks
  /\ UNCHANGED <<constVars, blocked, stop, stopper>>

\* The tasks of async_stop are done, and the runs it waited for.
AllStopped(w) ==
  \A q \in Run : \/ stopTasks[w][q] \in {"none", "done"}
                 \/ stopTasks[w][q] = "waiting" /\ execution[q] = "finished"

Restarted(r) ==
  /\ caller[r] = "restarting" /\ AllStopped(r)
  /\ caller' = [caller EXCEPT ![r] = "running"]
  /\ stopTasks' = [stopTasks EXCEPT ![r] = NoTasks]
  /\ Launch(r, runs)
  /\ UNCHANGED <<constVars, blocked, stop, stopper>>

Return(r) ==
  /\ caller[r] \in {"running", "stopping"} /\ execution[r] = "finished"
  /\ caller' = [caller EXCEPT ![r] = "returned"]
  /\ UNCHANGED <<constVars, blocked, runs, holder, queue, stop, execution, stopper, stopTasks>>

\* The caller is cancelled.  Its stop of the other runs and its run are
\* shielded; it stops its run itself, if it has got so far.
CancelCaller(r) ==
  /\ mayCancel
  /\ \/ caller[r] = "restarting" /\ UNCHANGED stop
        /\ caller' = [caller EXCEPT ![r] = "returned"]
     \/ caller[r] = "running" /\ stop' = stop \union {r}
        /\ caller' = [caller EXCEPT ![r] = IF execution[r] = "step" THEN "stopping" ELSE "returned"]
     \/ caller[r] = "stopping" /\ UNCHANGED stop
        /\ caller' = [caller EXCEPT ![r] = "returned"]
  /\ UNCHANGED <<constVars, blocked, runs, holder, queue, execution, stopper, stopTasks>>

-----------------------------------------------------------------------------
(* Script.async_stop *)

\* Called by a user, by _async_stop_scripts_at_shutdown, ...
Stop(s) ==
  /\ stopper[s] = "idle"
  /\ stopper' = [stopper EXCEPT ![s] = IF runs = {} THEN "returned" ELSE "stopping"]
  /\ stopTasks' = [stopTasks EXCEPT ![s] = TasksFor(runs)]
  /\ UNCHANGED <<constVars, blocked, runs, holder, queue, stop, execution, caller>>

\* ... or by _async_stop_scripts_after_shutdown, which lets no run start again.
StopAfterShutdown(s) ==
  /\ stopper[s] = "idle" /\ blocked' = TRUE
  /\ stopper' = [stopper EXCEPT ![s] = IF runs = {} THEN "returned" ELSE "stopping"]
  /\ stopTasks' = [stopTasks EXCEPT ![s] = TasksFor(runs)]
  /\ UNCHANGED <<constVars, runs, holder, queue, stop, execution, caller>>

\* Mutant of StopRun: a run that has not started is not told.
StopRunStarted(w, q) ==
  /\ stopTasks[w][q] = "created"
  /\ stop' = IF execution[q] = "step" THEN stop \union {q} ELSE stop
  /\ stopTasks' = [stopTasks EXCEPT ![w][q] = IF execution[q] = "step" THEN "waiting" ELSE "done"]
  /\ UNCHANGED <<constVars, blocked, runs, holder, queue, execution, caller, stopper>>

\* Mutant of StopRun: it waits for a run that has not started, too.
StopRunWaits(w, q) ==
  /\ stopTasks[w][q] = "created"
  /\ stop' = stop \union {q}
  /\ stopTasks' = [stopTasks EXCEPT ![w][q] = "waiting"]
  /\ UNCHANGED <<constVars, blocked, runs, holder, queue, execution, caller, stopper>>

\* Mutant of StopRun: it does not wait at all.
StopRunAtOnce(w, q) ==
  /\ stopTasks[w][q] = "created"
  /\ stop' = stop \union {q}
  /\ stopTasks' = [stopTasks EXCEPT ![w][q] = "done"]
  /\ UNCHANGED <<constVars, blocked, runs, holder, queue, execution, caller, stopper>>

\* _ScriptRun.async_stop, in a task of its own.
StopRun(w, q) ==
  /\ stopTasks[w][q] = "created"
  /\ stop' = stop \union {q}
  /\ stopTasks' = [stopTasks EXCEPT ![w][q] = IF execution[q] = "step" THEN "waiting" ELSE "done"]
  /\ UNCHANGED <<constVars, blocked, runs, holder, queue, execution, caller, stopper>>

StopReturns(s) ==
  /\ stopper[s] = "stopping" /\ AllStopped(s)
  /\ stopper' = [stopper EXCEPT ![s] = "returned"]
  /\ UNCHANGED <<constVars, blocked, runs, holder, queue, stop, execution, caller, stopTasks>>

Loop ==
  \/ \E r \in Run : LockAcquired(r) \/ StoppedInQueue(r) \/ Restarted(r) \/ Return(r)
  \/ \E w \in Waiter, q \in Run : StopRun(w, q)
  \/ \E s \in Stopper : StopReturns(s)

Next ==
  \/ Loop
  \/ \E r \in Run : StepsEnd(r) \/ Call(r) \/ CancelCaller(r)
  \/ \E s \in Stopper : Stop(s) \/ StopAfterShutdown(s)

Spec == Init /\ [][Next]_vars

\* The event loop goes on while a task can.  A step need not end by itself (it
\* may wait for a trigger), but every step gives in to a stop.  Those that run
\* a scene or a device action do not watch _stop: these are assumed to end.
FairSpec == Spec /\ WF_vars(Loop) /\ \A r \in Run : WF_vars(r \in stop /\ StepsEnd(r))

-----------------------------------------------------------------------------
(* Safety *)

Executing == {r \in Run : execution[r] = "step"}

\* Whatever calls, restarts, stops and cancellations overlap, a script in mode
\* single, restart or queued executes one run at a time, a single script has one
\* run, and a queued or parallel one no more than it may have.
ModeKept ==
  /\ mode # "parallel" => \A q, r \in Executing : q = r
  /\ mode = "single" => \A q, r \in runs : q = r
  /\ mode \in {"queued", "parallel"} => Cardinality(runs) <= MaxRuns

\* In mode restart the run that executes, unless somebody is about to stop it,
\* is the newest: no other run will execute after it.
NewestExecutes ==
  mode = "restart" =>
    \A q \in Executing : q \notin stop /\ (\A w \in Waiter : stopTasks[w][q] = "none") =>
      \A r \in runs : r = q \/ r \in stop

\* When async_stop has returned, none of the runs it found executes any more, the
\* ones that had not started and the ones in the queue included.
StopIsFinal ==
  \A s \in Stopper : stopper[s] = "returned" =>
    \A r \in Executing : stopTasks[s][r] = "none"

\* The runs that wait for the lock are those in its queue, each once, and only a
\* run that executes has the lock: it is never lost, whoever is stopped in the
\* queue or in its step, so the first in the queue will get it.
QueueKept ==
  /\ \A i, j \in DOMAIN queue : queue[i] = queue[j] => i = j
  /\ \A r \in Run : execution[r] = "queued" <=> \E i \in DOMAIN queue : queue[i] = r
  /\ holder # Nobody => execution[holder] = "step"

\* A stop and a restart wait for no run but one that executes, or did, and was
\* told to stop, and no restart waits for itself: nobody waits for somebody who
\* waits.
WaitsForStopped ==
  /\ \A w \in Waiter, q \in Run :
       stopTasks[w][q] = "waiting" => q \in stop /\ execution[q] \in {"step", "finished"}
  /\ \A r \in Run : stopTasks[r][r] = "none"

\* A run that is told to stop is not taken back, never starts to execute after
\* that, and a run that is finished stays so.
StoppedNeverStarts ==
  [][\A r \in Run :
       /\ r \in stop => r \in stop' /\ (execution'[r] = "step" => execution[r] = "step")
       /\ execution[r] = "finished" => execution'[r] = "finished"]_vars

-----------------------------------------------------------------------------
(* Liveness *)

\* Every stop returns, the one of a restart too, whoever is cancelled and
\* whether or not the runs it stops have started; and if nobody is cancelled
\* every run that is told to stop is over in the end.
StopsReturn ==
  /\ \A s \in Stopper : stopper[s] = "stopping" ~> stopper[s] = "returned"
  /\ \A r \in Run : caller[r] = "restarting" ~> caller[r] # "restarting"
  /\ \A r \in Run : ~mayCancel /\ r \in stop ~> r \notin runs

-----------------------------------------------------------------------------
(* What the documentation says, and the code does not do *)

\* Script.is_running: "Return true if script is on."  A run in _runs executes,
\* waits for the lock, or will be started by its caller.
IsRunning ==
  \A r \in runs : execution[r] \in {"step", "queued"} \/ caller[r] = "restarting"
=============================================================================
