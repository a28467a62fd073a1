--------------------------- MODULE ScriptRunsProofs ---------------------------
(***************************************************************************)
(* Proofs about ScriptRuns, for any set of runs, of stoppers and any       *)
(* MaxRuns.  The heart is StopsCross: of two runs of a restart script that *)
(* have not started, one has a task that stops the other, so whichever     *)
(* starts first has told the other to stop or will be stopped by it.       *)
(* The second part is about waiting: the queue of the lock holds who waits *)
(* for it, once, and nobody waits for a stop that waits itself.            *)
(***************************************************************************)
EXTENDS ScriptRuns, FiniteSetTheorems, SequenceTheorems, TLAPS

Types ==
  /\ mode \in Mode /\ runs \subseteq Run /\ IsFiniteSet(runs)
  /\ holder \in Run \union {Nobody} /\ stop \subseteq Run
  /\ execution \in [Run -> Execution] /\ caller \in [Run -> Caller]
  /\ stopper \in [Stopper -> {"idle", "stopping", "returned"}]
  /\ stopTasks \in [Waiter -> [Run -> StopTask]]

\* A run is in _runs until it is finished; an idle or restarting caller has not
\* started it; runs queue in mode queued only.
Listed ==
  \A r \in Run :
    /\ execution[r] \in {"step", "queued"} => r \in runs
    /\ execution[r] = "queued" => mode = "queued"
    /\ execution[r] = "finished" => r \notin runs
    /\ caller[r] = "idle" => execution[r] = "none" /\ r \notin runs
    /\ caller[r] = "restarting" => execution[r] = "none" /\ r \in runs /\ mode = "restart"

\* Whoever executes in mode queued holds the lock.
LockHeld == mode = "queued" => \A r \in Executing : holder = r

\* A stop task that is done has told a run that does not execute and never will.
StopsTold ==
  \A w \in Waiter, q \in Run : stopTasks[w][q] = "done" => q \in stop /\ execution[q] # "step"

\* The tasks of an async_stop that has returned.
StopsOver ==
  \A s \in Stopper : stopper[s] = "returned" =>
    \A q \in Run : \/ stopTasks[s][q] \in {"none", "done"}
                   \/ stopTasks[s][q] = "waiting" /\ execution[q] = "finished"

\* A run that waits for its restart, or was abandoned in it.
Pending(r) == r \in runs /\ execution[r] = "none"

StopsCross ==
  mode = "restart" => \A r, q \in Run : r # q /\ Pending(r) =>
    /\ Pending(q) => stopTasks[r][q] # "none" \/ stopTasks[q][r] # "none"
    /\ execution[q] = "step" => stopTasks[r][q] # "none" \/ r \in stop

ScriptInv ==
  Types /\ Listed /\ LockHeld /\ StopsTold /\ StopsOver /\ StopsCross /\ ModeKept

LEMMA InitInv == Init => ScriptInv
<1> SUFFICES ASSUME Init PROVE ScriptInv
  OBVIOUS
<1> USE DEF Init, NoTasks
<1>1. Types
  BY FS_EmptySet DEF Types, Mode, Execution, Caller, StopTask
<1>2. Listed /\ LockHeld /\ StopsTold /\ StopsOver /\ StopsCross
  BY DEF Listed, LockHeld, Executing, StopsTold, StopsOver, StopsCross, Pending, Waiter
<1>3. ModeKept
  BY FS_EmptySet, MaxRunsAssumption DEF ModeKept, Executing
<1> QED BY <1>1, <1>2, <1>3 DEF ScriptInv

LEMMA StopTasksTyped ==
  ASSUME Types, NEW w \in Waiter, NEW q \in Run, NEW v \in StopTask,
         stopTasks' = [stopTasks EXCEPT ![w][q] = v]
  PROVE  /\ stopTasks' \in [Waiter -> [Run -> StopTask]]
         /\ stopTasks'[w][q] = v
         /\ \A x \in Waiter, y \in Run : x # w \/ y # q => stopTasks'[x][y] = stopTasks[x][y]
BY DEF Types

LEMMA RowTyped ==
  ASSUME Types, NEW w \in Waiter, NEW targets \in SUBSET Run,
         stopTasks' = [stopTasks EXCEPT ![w] = TasksFor(targets)]
  PROVE  /\ stopTasks' \in [Waiter -> [Run -> StopTask]]
         /\ \A q \in Run : stopTasks'[w][q] = IF q \in targets THEN "created" ELSE "none"
         /\ \A x \in Waiter \ {w} : stopTasks'[x] = stopTasks[x]
BY DEF Types, TasksFor, StopTask

\* A run is told to stop.
LEMMA KeptByStopRun ==
  ASSUME ScriptInv, NEW w \in Waiter, NEW q \in Run, StopRun(w, q)
  PROVE  ScriptInv'
<1> USE DEF ScriptInv
<1> DEFINE v == IF execution[q] = "step" THEN "waiting" ELSE "done"
<1>0. /\ stopTasks[w][q] = "created" /\ stop' = stop \union {q}
      /\ stopTasks' = [stopTasks EXCEPT ![w][q] = v] /\ v \in StopTask
      /\ UNCHANGED <<mode, runs, holder, execution, caller, stopper>>
  BY DEF StopRun, constVars, StopTask
<1>1. /\ stopTasks' \in [Waiter -> [Run -> StopTask]]
      /\ stopTasks'[w][q] = v
      /\ \A x \in Waiter, y \in Run : x # w \/ y # q => stopTasks'[x][y] = stopTasks[x][y]
  <2> HIDE DEF v
  <2> QED BY <1>0, StopTasksTyped
<1>2. Types' /\ Listed'
  BY <1>0, <1>1 DEF Types, Listed
<1>3. LockHeld' /\ ModeKept'
  BY <1>0 DEF LockHeld, ModeKept, Executing
<1>4. StopsTold'
  BY <1>0, <1>1 DEF StopsTold
<1>5. StopsOver'
  BY <1>0, <1>1 DEF StopsOver, Waiter
<1>6. StopsCross'
  BY <1>0, <1>1 DEF StopsCross, Pending, Waiter
<1> QED BY <1>2, <1>3, <1>4, <1>5, <1>6

\* async_stop begins.
LEMMA KeptByStop ==
  ASSUME ScriptInv, NEW s \in Stopper, Stop(s) \/ StopAfterShutdown(s)
  PROVE  ScriptInv'
<1> USE DEF ScriptInv
<1>0. /\ stopper' = [stopper EXCEPT ![s] = IF runs = {} THEN "returned" ELSE "stopping"]
      /\ stopTasks' = [stopTasks EXCEPT ![s] = TasksFor(runs)]
      /\ UNCHANGED <<mode, runs, holder, stop, execution, caller>>
  BY DEF Stop, StopAfterShutdown, constVars
<1>1. /\ stopTasks' \in [Waiter -> [Run -> StopTask]]
      /\ \A q \in Run : stopTasks'[s][q] = IF q \in runs THEN "created" ELSE "none"
      /\ \A x \in Waiter \ {s} : stopTasks'[x] = stopTasks[x]
  BY <1>0, RowTyped DEF Types, Waiter
<1>2. Types' /\ Listed'
  BY <1>0, <1>1 DEF Types, Listed
<1>3. LockHeld' /\ ModeKept'
  BY <1>0 DEF LockHeld, ModeKept, Executing
<1>4. StopsTold'
  <2> SUFFICES ASSUME NEW w \in Waiter, NEW q \in Run, stopTasks'[w][q] = "done"
               PROVE  q \in stop /\ execution[q] # "step"
    BY <1>0 DEF StopsTold
  <2>1. w # s
    BY <1>1
  <2> QED BY <2>1, <1>1 DEF StopsTold
<1>5. StopsOver'
  BY <1>0, <1>1 DEF StopsOver, Waiter, Types
<1>6. StopsCross'
  <2>1. \A r \in Run : r # s
    BY RunAssumption
  <2> QED BY <2>1, <1>0, <1>1 DEF StopsCross, Pending, Waiter
<1> QED BY <1>2, <1>3, <1>4, <1>5, <1>6

LEMMA KeptByStopReturns ==
  ASSUME ScriptInv, NEW s \in Stopper, StopReturns(s)
  PROVE  ScriptInv'
<1> USE DEF ScriptInv
<1>0. /\ AllStopped(s) /\ stopper' = [stopper EXCEPT ![s] = "returned"]
      /\ UNCHANGED <<mode, runs, holder, stop, execution, caller, stopTasks>>
  BY DEF StopReturns, constVars
<1>1. Types' /\ Listed' /\ StopsTold' /\ StopsCross'
  BY <1>0 DEF Types, Listed, StopsTold, StopsCross, Pending
<1>2. LockHeld' /\ ModeKept'
  BY <1>0 DEF LockHeld, ModeKept, Executing
<1>3. StopsOver'
  BY <1>0 DEF StopsOver, AllStopped, Types
<1> QED BY <1>1, <1>2, <1>3

\* A run is over.
LEMMA KeptByFinish ==
  ASSUME ScriptInv, NEW r \in Run, execution[r] \in {"step", "queued"}, Finish(r, runs),
         UNCHANGED <<mode, stop, caller, stopper, stopTasks>>
  PROVE  ScriptInv'
<1> USE DEF ScriptInv
<1>0. /\ execution' = [execution EXCEPT ![r] = "finished"] /\ runs' = runs \ {r}
      /\ holder' = IF holder = r THEN Nobody ELSE holder
      /\ execution' \in [Run -> Execution]
      /\ execution'[r] = "finished" /\ \A q \in Run \ {r} : execution'[q] = execution[q]
  BY DEF Finish, Types, Execution
<1>1. IsFiniteSet(runs') /\ Cardinality(runs') <= Cardinality(runs)
  BY <1>0, runs' \subseteq runs, FS_Subset DEF Types
<1>2. Types'
  BY <1>0, <1>1 DEF Types
<1>3. Listed' /\ LockHeld'
  BY <1>0 DEF Listed, LockHeld, Executing
<1>4. StopsTold' /\ StopsOver'
  BY <1>0 DEF StopsTold, StopsOver
<1>5. StopsCross'
  BY <1>0 DEF StopsCross, Pending
<1>6. ModeKept'
  BY <1>0, <1>1, FS_CardinalityType, MaxRunsAssumption DEF ModeKept, Executing, Types
<1> QED BY <1>2, <1>3, <1>4, <1>5, <1>6

LEMMA KeptByLockAcquired ==
  ASSUME ScriptInv, NEW r \in Run, LockAcquired(r)
  PROVE  ScriptInv'
<1> USE DEF ScriptInv
<1>0. /\ execution[r] = "queued" /\ holder = Nobody /\ r \notin stop /\ holder' = r
      /\ execution' = [execution EXCEPT ![r] = "step"]
      /\ UNCHANGED <<mode, runs, stop, caller, stopper, stopTasks>>
      /\ execution' \in [Run -> Execution]
      /\ execution'[r] = "step" /\ \A q \in Run \ {r} : execution'[q] = execution[q]
  <2>1. /\ execution[r] = "queued" /\ holder = Nobody /\ r \notin stop /\ holder' = r
        /\ execution' = [execution EXCEPT ![r] = "step"]
        /\ UNCHANGED <<mode, runs, stop, caller, stopper, stopTasks>>
    BY DEF LockAcquired, constVars
  <2> QED BY <2>1 DEF Types, Execution
<1>1. mode = "queued"
  BY <1>0 DEF Listed
<1>2. \A q \in Run : execution[q] # "step"
  BY <1>0, <1>1, RunAssumption DEF LockHeld, Executing
<1>3. Types' /\ Listed'
  BY <1>0 DEF Types, Listed
<1>4. LockHeld' /\ ModeKept'
  BY <1>0, <1>1, <1>2 DEF LockHeld, ModeKept, Executing
<1>5. StopsTold' /\ StopsOver' /\ StopsCross'
  BY <1>0, <1>1 DEF StopsTold, StopsOver, StopsCross
<1> QED BY <1>3, <1>4, <1>5

\* The first slice of a run whose caller was idle, or is done with its restart.
LEMMA KeptByLaunch ==
  ASSUME ScriptInv, NEW r \in Run, execution[r] = "none",
         Launch(r, runs \union {r}), caller' = [caller EXCEPT ![r] = "running"],
         stopTasks' \in [Waiter -> [Run -> StopTask]],
         \A w \in Waiter, q \in Run :
           stopTasks'[w][q] = stopTasks[w][q] \/ (w = r /\ stopTasks'[w][q] = "none"),
         mode = "single" => runs = {},
         mode \in {"queued", "parallel"} => Cardinality(runs \union {r}) <= MaxRuns,
         mode = "restart" /\ r \notin stop =>
           /\ Executing = {}
           /\ \A q \in Run : q # r /\ Pending(q) => stopTasks[q][r] # "none" \/ q \in stop,
         UNCHANGED <<mode, stop, stopper>>
  PROVE  ScriptInv'
<1> USE DEF ScriptInv
<1> DEFINE all == runs \union {r}
<1>0. /\ execution' \in [Run -> Execution] /\ holder' \in Run \union {Nobody}
      /\ \A q \in Run \ {r} : execution'[q] = execution[q]
      /\ runs' \subseteq all /\ runs \ {r} \subseteq runs'
      /\ \/ execution'[r] = "queued" /\ r \in runs' /\ holder' = holder /\ mode = "queued"
         \/ execution'[r] = "finished" /\ r \in stop /\ r \notin runs'
            /\ (holder' = IF holder = r THEN Nobody ELSE holder)
         \/ execution'[r] = "step" /\ r \notin stop /\ r \in runs'
            /\ (mode = "queued" => holder = Nobody /\ holder' = r)
  BY DEF Launch, Finish, Types, Execution
<1>1. IsFiniteSet(all) /\ IsFiniteSet(runs') /\ Cardinality(runs') <= Cardinality(all)
      /\ Cardinality(all) \in Nat /\ Cardinality(runs') \in Nat
  BY <1>0, FS_AddElement, FS_Subset, FS_CardinalityType DEF Types
<1>2. Types'
  BY <1>0, <1>1 DEF Types, Caller
<1>3. Listed'
  BY <1>0 DEF Listed, Types
<1>4. LockHeld'
  BY <1>0, RunAssumption DEF LockHeld, Executing
<1>5. StopsTold'
  BY <1>0 DEF StopsTold
<1>6. StopsOver'
  BY <1>0, RunAssumption DEF StopsOver, Waiter
<1>7. StopsCross'
  BY <1>0 DEF StopsCross, Pending, Executing, Waiter
<1>8. ModeKept'
  <2>1. mode # "parallel" => \A p, q \in Executing' : p = q
    <3>1. CASE mode = "single"
      BY <3>1, <1>0 DEF Executing, Listed
    <3>2. CASE mode = "restart"
      BY <3>2, <1>0 DEF Executing, ModeKept
    <3>3. CASE mode = "queued"
      BY <3>3, <1>0, RunAssumption DEF Executing, ModeKept, LockHeld
    <3> QED BY <3>1, <3>2, <3>3 DEF Types, Mode
  <2>2. mode = "single" => \A p, q \in runs' : p = q
    BY <1>0
  <2>3. mode \in {"queued", "parallel"} => Cardinality(runs') <= MaxRuns
    BY <1>1, MaxRunsAssumption
  <2> QED BY <2>1, <2>2, <2>3 DEF ModeKept
<1> QED BY <1>2, <1>3, <1>4, <1>5, <1>6, <1>7, <1>8

LEMMA KeptByCall ==
  ASSUME ScriptInv, NEW r \in Run, Call(r)
  PROVE  ScriptInv'
<1> USE DEF ScriptInv
<1>0. /\ caller[r] = "idle" /\ execution[r] = "none" /\ r \notin runs
      /\ UNCHANGED <<mode, stop, stopper>>
  BY DEF Call, constVars, Listed
<1>1. CASE Refused
  <2>0. caller' = [caller EXCEPT ![r] = "returned"] /\ UNCHANGED <<runs, holder, execution, stopTasks>>
    BY <1>1 DEF Call
  <2>1. Types' /\ Listed' /\ StopsTold' /\ StopsOver' /\ StopsCross'
    BY <1>0, <2>0 DEF Types, Caller, Listed, StopsTold, StopsOver, StopsCross, Pending
  <2>2. LockHeld' /\ ModeKept'
    BY <1>0, <2>0 DEF LockHeld, ModeKept, Executing
  <2> QED BY <2>1, <2>2
<1>2. CASE ~Refused /\ mode = "restart" /\ runs # {}
  <2>0. /\ caller' = [caller EXCEPT ![r] = "restarting"] /\ runs' = runs \union {r}
        /\ stopTasks' = [stopTasks EXCEPT ![r] = TasksFor(runs)] /\ UNCHANGED <<holder, execution>>
    BY <1>2 DEF Call
  <2>1. /\ stopTasks' \in [Waiter -> [Run -> StopTask]]
        /\ \A q \in Run : stopTasks'[r][q] = IF q \in runs THEN "created" ELSE "none"
        /\ \A w \in Waiter \ {r} : stopTasks'[w] = stopTasks[w]
    BY <2>0, RowTyped DEF Types, Waiter
  <2>2. Types' /\ Listed'
    <3>1. Types'
      BY <1>0, <1>2, <2>0, <2>1, FS_AddElement DEF Types, Caller
    <3>2. Listed'
      BY <1>0, <1>2, <2>0 DEF Listed, Types
    <3> QED BY <3>1, <3>2
  <2>3. LockHeld' /\ ModeKept'
    BY <1>0, <1>2, <2>0 DEF LockHeld, ModeKept, Executing
  <2>4. StopsTold'
    <3> SUFFICES ASSUME NEW w \in Waiter, NEW q \in Run, stopTasks'[w][q] = "done"
                 PROVE  q \in stop /\ execution[q] # "step"
      BY <1>0, <2>0 DEF StopsTold
    <3>1. w # r
      BY <2>1
    <3> QED BY <3>1, <2>1 DEF StopsTold
  <2>5. StopsOver'
    BY <1>0, <2>0, <2>1, RunAssumption DEF StopsOver, Waiter
  <2>6. StopsCross'
    BY <1>0, <2>0, <2>1 DEF StopsCross, Pending, Listed, Waiter
  <2> QED BY <2>2, <2>3, <2>4, <2>5, <2>6
<1>3. CASE ~Refused /\ ~(mode = "restart" /\ runs # {})
  <2>0. /\ caller' = [caller EXCEPT ![r] = "running"]
        /\ Launch(r, runs \union {r}) /\ stopTasks' = stopTasks
    BY <1>3 DEF Call
  <2>1. mode = "single" => runs = {}
    BY <1>3 DEF Refused
  <2>2. mode \in {"queued", "parallel"} => Cardinality(runs \union {r}) <= MaxRuns
    <3>1. Cardinality(runs \union {r}) = Cardinality(runs) + 1 /\ Cardinality(runs) \in Nat
      BY <1>0, FS_AddElement, FS_CardinalityType DEF Types
    <3>2. CASE runs = {}
      BY <3>1, <3>2, FS_EmptySet, MaxRunsAssumption
    <3>3. CASE runs # {}
      <4>1. mode \in {"queued", "parallel"} => Cardinality(runs) # MaxRuns
        BY <1>3, <3>3 DEF Refused
      <4> QED BY <4>1, <3>1, MaxRunsAssumption DEF ModeKept
    <3> QED BY <3>2, <3>3
  <2>3. mode = "restart" => /\ Executing = {}
                            /\ \A q \in Run : ~Pending(q)
    BY <1>3 DEF Executing, Listed, Pending
  <2> QED BY <1>0, <2>0, <2>1, <2>2, <2>3, KeptByLaunch DEF Types
<1> QED BY <1>1, <1>2, <1>3

\* The others have stopped, or will not start: they came later and have told
\* this run to stop.
LEMMA KeptByRestarted ==
  ASSUME ScriptInv, NEW r \in Run, Restarted(r)
  PROVE  ScriptInv'
<1> USE DEF ScriptInv
<1>0. /\ caller[r] = "restarting" /\ execution[r] = "none" /\ r \in runs /\ AllStopped(r)
      /\ caller' = [caller EXCEPT ![r] = "running"] /\ Launch(r, runs)
      /\ stopTasks' = [stopTasks EXCEPT ![r] = NoTasks]
      /\ UNCHANGED <<mode, stop, stopper>>
  BY DEF Restarted, Listed, constVars
<1>6. mode = "restart"
  BY <1>0 DEF Listed
<1>1. runs \union {r} = runs
  BY <1>0
<1>2. /\ stopTasks' \in [Waiter -> [Run -> StopTask]]
      /\ \A w \in Waiter, q \in Run :
           stopTasks'[w][q] = stopTasks[w][q] \/ (w = r /\ stopTasks'[w][q] = "none")
  BY <1>0 DEF Types, NoTasks, Waiter, StopTask
<1>3. \A q \in Run : stopTasks[r][q] # "none" => execution[q] # "step" /\ (Pending(q) => q \in stop)
  BY <1>0 DEF AllStopped, StopsTold, Pending, Waiter, Types
<1>4. mode = "restart" /\ r \notin stop =>
        /\ Executing = {}
        /\ \A q \in Run : q # r /\ Pending(q) => stopTasks[q][r] # "none" \/ q \in stop
  BY <1>0, <1>3 DEF StopsCross, Pending, Executing
<1> QED BY <1>0, <1>1, <1>2, <1>4, <1>6, KeptByLaunch

LEMMA KeptByCaller ==
  ASSUME ScriptInv, NEW r \in Run, Return(r) \/ CancelCaller(r)
  PROVE  ScriptInv'
<1> USE DEF ScriptInv
<1>0. /\ UNCHANGED <<mode, runs, holder, execution, stopper, stopTasks>>
      /\ stop' \in {stop, stop \union {r}}
      /\ caller[r] # "idle"
      /\ \E c \in {"returned", "stopping"} : caller' = [caller EXCEPT ![r] = c]
  BY DEF Return, CancelCaller, constVars
<1>1. Types' /\ Listed'
  BY <1>0 DEF Types, Caller, Listed
<1>2. LockHeld' /\ ModeKept'
  BY <1>0 DEF LockHeld, ModeKept, Executing
<1>3. StopsTold' /\ StopsOver' /\ StopsCross'
  BY <1>0 DEF StopsTold, StopsOver, StopsCross, Pending
<1> QED BY <1>1, <1>2, <1>3

LEMMA KeptByEnd ==
  ASSUME ScriptInv, NEW r \in Run, StepsEnd(r) \/ StoppedInQueue(r)
  PROVE  ScriptInv'
<1>1. /\ execution[r] \in {"step", "queued"} /\ Finish(r, runs)
      /\ UNCHANGED <<mode, stop, caller, stopper, stopTasks>>
  BY DEF StepsEnd, StoppedInQueue, constVars
<1> QED BY <1>1, KeptByFinish

\* ScriptInv is an invariant: runs, callers, stops and their tasks fit together.
THEOREM ScriptSafety == Spec => []ScriptInv
<1>1. ScriptInv /\ [Next]_vars => ScriptInv'
  <2> SUFFICES ASSUME ScriptInv, [Next]_vars PROVE ScriptInv'
    OBVIOUS
  <2>1. ASSUME NEW r \in Run, LockAcquired(r) PROVE ScriptInv'
    BY <2>1, KeptByLockAcquired
  <2>2. ASSUME NEW r \in Run, StoppedInQueue(r) \/ StepsEnd(r) PROVE ScriptInv'
    BY <2>2, KeptByEnd
  <2>3. ASSUME NEW r \in Run, Restarted(r) PROVE ScriptInv'
    BY <2>3, KeptByRestarted
  <2>4. ASSUME NEW r \in Run, Return(r) \/ CancelCaller(r) PROVE ScriptInv'
    BY <2>4, KeptByCaller
  <2>5. ASSUME NEW r \in Run, Call(r) PROVE ScriptInv'
    BY <2>5, KeptByCall
  <2>6. ASSUME NEW w \in Waiter, NEW q \in Run, StopRun(w, q) PROVE ScriptInv'
    BY <2>6, KeptByStopRun
  <2>7. ASSUME NEW s \in Stopper, Stop(s) \/ StopAfterShutdown(s) PROVE ScriptInv'
    BY <2>7, KeptByStop
  <2>8. ASSUME NEW s \in Stopper, StopReturns(s) PROVE ScriptInv'
    BY <2>8, KeptByStopReturns
  <2>9. CASE UNCHANGED vars
    <3> USE <2>9 DEF vars, constVars
    <3>1. Types' /\ Listed' /\ LockHeld' /\ StopsTold'
      BY DEF ScriptInv, Types, Listed, LockHeld, Executing, StopsTold
    <3>2. StopsOver' /\ StopsCross' /\ ModeKept'
      BY DEF ScriptInv, StopsOver, StopsCross, Pending, ModeKept, Executing
    <3> QED BY <3>1, <3>2 DEF ScriptInv
  <2> QED BY <2>1, <2>2, <2>3, <2>4, <2>5, <2>6, <2>7, <2>8, <2>9 DEF Next, Loop
<1> QED BY InitInv, <1>1, PTL DEF Spec

\* A script keeps its mode, however many callers restart, stop and cancel it.
THEOREM ModeIsKept == Spec => []ModeKept
<1>1. ScriptInv => ModeKept
  BY DEF ScriptInv
<1> QED BY ScriptSafety, <1>1, PTL

\* When async_stop has returned, none of the runs it found executes.
THEOREM StopsAreFinal == Spec => []StopIsFinal
<1>1. ScriptInv => StopIsFinal
  BY DEF ScriptInv, StopIsFinal, StopsOver, StopsTold, Executing, Waiter
<1> QED BY ScriptSafety, <1>1, PTL

\* In mode restart no run executes after the newest.
THEOREM NewestDoesExecute == Spec => []NewestExecutes
<1>1. ASSUME ScriptInv PROVE NewestExecutes
  <2> USE <1>1 DEF ScriptInv
  <2> SUFFICES ASSUME mode = "restart", NEW q \in Executing,
                      \A w \in Waiter : stopTasks[w][q] = "none", NEW r \in runs, r # q
               PROVE  r \in stop
    BY DEF NewestExecutes
  <2>1. r \in Run /\ q \in Run /\ r \in Waiter /\ execution[q] = "step"
    BY DEF Types, Executing, Waiter
  <2>2. Pending(r)
    <3>1. execution[r] # "step"
      BY <2>1 DEF ModeKept, Executing
    <3> QED BY <2>1, <3>1 DEF Types, Execution, Listed, Pending
  <2> QED BY <2>1, <2>2 DEF StopsCross
<1> QED BY ScriptSafety, <1>1, PTL

-----------------------------------------------------------------------------
(* The queue and its lock *)

\* A sequence of runs without duplicates that holds those of a set.
QueueOf(seq, members) ==
  /\ seq \in Seq(Run)
  /\ \A i, j \in DOMAIN seq : seq[i] = seq[j] => i = j
  /\ \A r \in Run : r \in members <=> \E i \in DOMAIN seq : seq[i] = r

\* The last, the first, and any other member of a queue.
LEMMA QueueAppended ==
  ASSUME NEW seq, NEW members, QueueOf(seq, members), NEW r \in Run, r \notin members
  PROVE  QueueOf(Append(seq, r), members \union {r})
<1> DEFINE new == Append(seq, r)
<1>1. /\ seq \in Seq(Run) /\ Len(seq) \in Nat /\ DOMAIN seq = 1..Len(seq)
      /\ \A i \in 1..Len(seq) : seq[i] \in Run /\ seq[i] # r
  BY DEF QueueOf
<1>2. /\ new \in Seq(Run) /\ DOMAIN new = 1..(Len(seq) + 1)
      /\ new[Len(seq) + 1] = r /\ \A i \in 1..Len(seq) : new[i] = seq[i]
  BY <1>1
<1> HIDE DEF new
<1>3. \A i, j \in DOMAIN new : new[i] = new[j] => i = j
  BY <1>1, <1>2 DEF QueueOf
<1>4. \A q \in Run : q \in members \union {r} <=> \E i \in DOMAIN new : new[i] = q
  BY <1>1, <1>2 DEF QueueOf
<1> QED BY <1>2, <1>3, <1>4 DEF QueueOf, new

LEMMA QueueTaken ==
  ASSUME NEW seq, NEW members, QueueOf(seq, members), NEW r \in Run, r \in members, r = Head(seq)
  PROVE  QueueOf(Tail(seq), members \ {r})
<1> DEFINE new == Tail(seq)
<1>1. /\ seq \in Seq(Run) /\ Len(seq) \in Nat /\ Len(seq) > 0 /\ DOMAIN seq = 1..Len(seq)
      /\ seq[1] = r
  BY DEF QueueOf
<1>2. /\ new \in Seq(Run) /\ DOMAIN new = 1..(Len(seq) - 1)
      /\ \A i \in 1..(Len(seq) - 1) : new[i] = seq[i + 1]
  BY <1>1
<1> HIDE DEF new
<1>3. \A i, j \in DOMAIN new : new[i] = new[j] => i = j
  <2> SUFFICES ASSUME NEW i \in 1..(Len(seq) - 1), NEW j \in 1..(Len(seq) - 1), new[i] = new[j]
               PROVE  i = j
    BY <1>2
  <2>1. i + 1 \in DOMAIN seq /\ j + 1 \in DOMAIN seq /\ seq[i + 1] = seq[j + 1]
    BY <1>1, <1>2
  <2>2. i + 1 = j + 1
    BY <2>1 DEF QueueOf
  <2> QED BY <2>2
<1>4. ASSUME NEW q \in Run PROVE q \in members \ {r} <=> \E i \in DOMAIN new : new[i] = q
  <2>1. ASSUME NEW i \in DOMAIN new, new[i] = q PROVE q \in members \ {r}
    BY <1>1, <1>2, <2>1 DEF QueueOf
  <2>2. ASSUME q \in members \ {r} PROVE \E i \in DOMAIN new : new[i] = q
    <3>1. PICK k \in DOMAIN seq : seq[k] = q
      BY <2>2 DEF QueueOf
    <3>2. k - 1 \in DOMAIN new /\ new[k - 1] = q
      BY <1>1, <1>2, <2>2, <3>1
    <3> QED BY <3>2
  <2> QED BY <2>1, <2>2
<1> QED BY <1>2, <1>3, <1>4 DEF QueueOf, new

LEMMA QueueRemoved ==
  ASSUME NEW seq, NEW members, QueueOf(seq, members), NEW r \in Run, NEW k \in DOMAIN seq, seq[k] = r
  PROVE  QueueOf(RemoveAt(seq, k), members \ {r})
<1> DEFINE new == RemoveAt(seq, k)
           n   == Len(seq)
<1>1. seq \in Seq(Run) /\ n \in Nat /\ DOMAIN seq = 1..n /\ k \in 1..n /\ r \in members
  BY DEF QueueOf
<1>2. /\ new \in Seq(Run) /\ DOMAIN new = 1..(n - 1)
      /\ \A i \in 1..(n - 1) : new[i] = IF i < k THEN seq[i] ELSE seq[i + 1]
  <2> DEFINE a == SubSeq(seq, 1, k - 1)
             b == SubSeq(seq, k + 1, n)
  <2>1. a \in Seq(Run) /\ Len(a) = k - 1 /\ \A i \in 1..(k - 1) : a[i] = seq[i]
    BY <1>1
  <2>2. b \in Seq(Run) /\ Len(b) = n - k /\ \A i \in 1..(n - k) : b[i] = seq[k + i]
    BY <1>1
  <2>3. new = a \o b
    BY DEF RemoveAt
  <2> HIDE DEF a, b, new, n
  <2>4. /\ a \o b \in Seq(Run) /\ Len(a \o b) = n - 1
        /\ \A i \in 1..(n - 1) : (a \o b)[i] = IF i <= k - 1 THEN a[i] ELSE b[i - (k - 1)]
    <3>1. a \in Seq(Run) /\ b \in Seq(Run) /\ Len(a) + Len(b) = n - 1
      BY <1>1, <2>1, <2>2
    <3>2. a \o b \in Seq(Run) /\ Len(a \o b) = n - 1
      BY <3>1, ConcatProperties
    <3>3. \A i \in 1..(n - 1) : (a \o b)[i] = IF i <= Len(a) THEN a[i] ELSE b[i - Len(a)]
      BY <3>1, ConcatProperties
    <3> QED BY <2>1, <3>2, <3>3
  <2>5. ASSUME NEW i \in 1..(n - 1) PROVE (a \o b)[i] = IF i < k THEN seq[i] ELSE seq[i + 1]
    <3>1. CASE i < k
      BY <1>1, <2>1, <2>4, <3>1
    <3>2. CASE ~(i < k)
      <4>1. i - (k - 1) \in 1..(n - k) /\ k + (i - (k - 1)) = i + 1
        BY <1>1, <3>2
      <4>2. b[i - (k - 1)] = seq[i + 1]
        BY <2>2, <4>1
      <4> QED BY <1>1, <2>4, <3>2, <4>2
    <3> QED BY <3>1, <3>2
  <2> QED BY <2>3, <2>4, <2>5
<1> HIDE DEF new, n
<1>3. \A i, j \in DOMAIN new : new[i] = new[j] => i = j
  <2> SUFFICES ASSUME NEW i \in 1..(n - 1), NEW j \in 1..(n - 1), new[i] = new[j] PROVE i = j
    BY <1>2
  <2> DEFINE Place(x) == IF x < k THEN x ELSE x + 1
  <2>1. Place(i) \in DOMAIN seq /\ Place(j) \in DOMAIN seq /\ seq[Place(i)] = seq[Place(j)]
    BY <1>1, <1>2
  <2>2. Place(i) = Place(j)
    BY <2>1 DEF QueueOf
  <2> QED BY <1>1, <2>2
<1>4. ASSUME NEW q \in Run PROVE q \in members \ {r} <=> \E i \in DOMAIN new : new[i] = q
  <2>1. ASSUME NEW i \in 1..(n - 1), new[i] = q PROVE q \in members \ {r}
    <3> DEFINE j == IF i < k THEN i ELSE i + 1
    <3>1. j \in DOMAIN seq /\ j # k /\ seq[j] = q
      BY <1>1, <1>2, <2>1
    <3> QED BY <3>1 DEF QueueOf
  <2>2. ASSUME q \in members \ {r} PROVE \E i \in DOMAIN new : new[i] = q
    <3>1. PICK j \in DOMAIN seq : seq[j] = q
      BY <2>2 DEF QueueOf
    <3>2. CASE j < k
      BY <1>1, <1>2, <3>1, <3>2
    <3>3. CASE j > k
      <4>1. j - 1 \in DOMAIN new /\ new[j - 1] = q
        BY <1>1, <1>2, <3>1, <3>3
      <4> QED BY <4>1
    <3> QED BY <1>1, <2>2, <3>1, <3>2, <3>3
  <2> QED BY <1>2, <2>1, <2>2
<1> QED BY <1>2, <1>3, <1>4 DEF QueueOf, new

Queued == {r \in Run : execution[r] = "queued"}

\* The queue and its lock, whom a stop waits for, and that no run is lost unless
\* callers are cancelled.
LockOwned == holder # Nobody => execution[holder] = "step"
QueueInv == QueueOf(queue, Queued) /\ LockOwned
NoRunLost == ~mayCancel => IsRunning
RunsInv == ScriptInv /\ QueueInv /\ WaitsForStopped /\ NoRunLost

\* Steps that move no run.
LEMMA QueueUntouched ==
  ASSUME RunsInv, UNCHANGED <<holder, queue, execution>>
  PROVE  QueueInv'
BY DEF RunsInv, QueueInv, Queued, LockOwned

LEMMA RunsInvByStops ==
  ASSUME RunsInv,
         \/ \E w \in Waiter, q \in Run : StopRun(w, q)
         \/ \E s \in Stopper : Stop(s) \/ StopAfterShutdown(s) \/ StopReturns(s)
  PROVE  (QueueInv /\ WaitsForStopped /\ NoRunLost)'
<1> USE DEF RunsInv, ScriptInv
<1>0. UNCHANGED <<mayCancel, runs, holder, queue, execution, caller>>
  BY DEF StopRun, Stop, StopAfterShutdown, StopReturns, constVars
<1>1. QueueInv' /\ NoRunLost'
  BY <1>0, QueueUntouched DEF NoRunLost, IsRunning
<1>2. ASSUME NEW w \in Waiter, NEW q \in Run, StopRun(w, q) PROVE WaitsForStopped'
  <2> DEFINE v == IF execution[q] = "step" THEN "waiting" ELSE "done"
  <2>1. /\ stopTasks[w][q] = "created" /\ stop' = stop \union {q} /\ execution' = execution
        /\ stopTasks' = [stopTasks EXCEPT ![w][q] = v] /\ v \in StopTask
    BY <1>2 DEF StopRun, StopTask
  <2>2. stopTasks'[w][q] = v /\ \A x \in Waiter, y \in Run : x # w \/ y # q => stopTasks'[x][y] = stopTasks[x][y]
    <3> HIDE DEF v
    <3> QED BY <2>1, StopTasksTyped
  <2> QED BY <2>1, <2>2 DEF WaitsForStopped, Waiter
<1>3. ASSUME NEW s \in Stopper, Stop(s) \/ StopAfterShutdown(s) PROVE WaitsForStopped'
  <2>1. stopTasks' = [stopTasks EXCEPT ![s] = TasksFor(runs)] /\ UNCHANGED <<stop, execution>>
    BY <1>3 DEF Stop, StopAfterShutdown
  <2>2. /\ \A q \in Run : stopTasks'[s][q] = IF q \in runs THEN "created" ELSE "none"
        /\ \A x \in Waiter \ {s} : stopTasks'[x] = stopTasks[x]
    BY <2>1, RowTyped DEF Types, Waiter
  <2>3. s \notin Run
    BY RunAssumption
  <2>4. ASSUME NEW w \in Waiter, NEW q \in Run, stopTasks'[w][q] = "waiting"
        PROVE  q \in stop' /\ execution'[q] \in {"step", "finished"}
    <3>1. w # s
      BY <2>2, <2>4
    <3> QED BY <2>1, <2>2, <2>4, <3>1 DEF WaitsForStopped
  <2>5. \A r \in Run : stopTasks'[r][r] = "none"
    BY <2>2, <2>3 DEF WaitsForStopped, Waiter
  <2> QED BY <2>4, <2>5 DEF WaitsForStopped
<1>4. ASSUME NEW s \in Stopper, StopReturns(s) PROVE WaitsForStopped'
  BY <1>4 DEF StopReturns, WaitsForStopped
<1> QED BY <1>1, <1>2, <1>3, <1>4

LEMMA RunsInvByCaller ==
  ASSUME RunsInv, NEW r \in Run, Return(r) \/ CancelCaller(r)
  PROVE  (QueueInv /\ WaitsForStopped /\ NoRunLost)'
<1> USE DEF RunsInv, ScriptInv
<1>0. /\ UNCHANGED <<mayCancel, runs, holder, queue, execution, stopTasks>>
      /\ stop \subseteq stop' /\ (mayCancel \/ caller[r] \in {"running", "stopping"})
      /\ \E c \in Caller : caller' = [caller EXCEPT ![r] = c]
  BY DEF Return, CancelCaller, constVars, Caller
<1>1. QueueInv' /\ WaitsForStopped'
  BY <1>0, QueueUntouched DEF WaitsForStopped
<1>2. NoRunLost'
  <2> SUFFICES ASSUME ~mayCancel, NEW q \in runs
               PROVE  execution[q] \in {"step", "queued"} \/ caller'[q] = "restarting"
    BY <1>0 DEF NoRunLost, IsRunning
  <2>1. execution[q] \in {"step", "queued"} \/ (caller[q] = "restarting" /\ q # r)
    BY <1>0 DEF NoRunLost, IsRunning
  <2> QED BY <1>0, <2>1 DEF Types
<1> QED BY <1>1, <1>2

\* A run is over, from the queue or from its step.
LEMMA RunsInvByEnd ==
  ASSUME RunsInv, NEW r \in Run, StepsEnd(r) \/ StoppedInQueue(r)
  PROVE  (QueueInv /\ WaitsForStopped /\ NoRunLost)'
<1> USE DEF RunsInv, ScriptInv
<1>0. /\ execution' = [execution EXCEPT ![r] = "finished"] /\ runs' = runs \ {r}
      /\ holder' = IF holder = r THEN Nobody ELSE holder
      /\ UNCHANGED <<mayCancel, stop, caller, stopTasks>>
  BY DEF StepsEnd, StoppedInQueue, Finish, constVars
<1>1. execution'[r] = "finished" /\ \A q \in Run \ {r} : execution'[q] = execution[q]
  BY <1>0 DEF Types
<1>2. WaitsForStopped'
  BY <1>0, <1>1 DEF WaitsForStopped
<1>3. NoRunLost'
  BY <1>0, <1>1 DEF NoRunLost, IsRunning, Types
<1>4. LockOwned'
  BY <1>0, <1>1 DEF QueueInv, LockOwned, Types
<1>5. QueueOf(queue', Queued')
  <2>1. Queued' = Queued \ {r}
    BY <1>1 DEF Queued
  <2>2. CASE StepsEnd(r)
    <3>1. queue' = queue /\ Queued' = Queued
      BY <2>1, <2>2 DEF StepsEnd, Queued
    <3> QED BY <3>1 DEF QueueInv
  <2>3. CASE StoppedInQueue(r)
    <3>1. PICK k \in DOMAIN queue : queue[k] = r /\ queue' = RemoveAt(queue, k)
      BY <2>3 DEF StoppedInQueue
    <3> QED BY <2>1, <3>1, QueueRemoved DEF QueueInv
  <2> QED BY <2>2, <2>3
<1> QED BY <1>2, <1>3, <1>4, <1>5 DEF QueueInv

LEMMA RunsInvByLockAcquired ==
  ASSUME RunsInv, NEW r \in Run, LockAcquired(r)
  PROVE  (QueueInv /\ WaitsForStopped /\ NoRunLost)'
<1> USE DEF RunsInv, ScriptInv
<1>0. /\ execution[r] = "queued" /\ r = Head(queue) /\ queue' = Tail(queue) /\ holder' = r
      /\ execution' = [execution EXCEPT ![r] = "step"]
      /\ UNCHANGED <<mayCancel, runs, stop, caller, stopTasks>>
  BY DEF LockAcquired, constVars
<1>1. execution'[r] = "step" /\ \A q \in Run \ {r} : execution'[q] = execution[q]
  BY <1>0 DEF Types
<1>2. WaitsForStopped' /\ NoRunLost' /\ LockOwned'
  BY <1>0, <1>1 DEF WaitsForStopped, NoRunLost, IsRunning, LockOwned, Types
<1>3. Queued' = Queued \ {r} /\ r \in Queued
  BY <1>0, <1>1 DEF Queued
<1>4. QueueOf(queue', Queued')
  BY <1>0, <1>3, QueueTaken DEF QueueInv
<1> QED BY <1>2, <1>4 DEF QueueInv

\* A run is launched, by its caller or after its restart.
LEMMA RunsInvByLaunch ==
  ASSUME RunsInv, NEW r \in Run, execution[r] = "none", Launch(r, runs \union {r}),
         caller' = [caller EXCEPT ![r] = "running"],
         \A w \in Waiter, q \in Run : stopTasks'[w][q] \in {stopTasks[w][q], "none"},
         UNCHANGED <<mayCancel, mode, stop>>
  PROVE  (QueueInv /\ WaitsForStopped /\ NoRunLost)'
<1> USE DEF RunsInv, ScriptInv
<1>0. /\ execution' \in [Run -> Execution]
      /\ \A q \in Run \ {r} : execution'[q] = execution[q]
      /\ \/ execution'[r] = "queued" /\ queue' = Append(queue, r) /\ holder' = holder
            /\ runs' = runs \union {r}
         \/ execution'[r] = "finished" /\ queue' = queue /\ runs' = (runs \union {r}) \ {r}
            /\ (holder' = IF holder = r THEN Nobody ELSE holder)
         \/ execution'[r] = "step" /\ queue' = queue /\ holder' \in {r, holder}
            /\ runs' = runs \union {r}
  BY DEF Launch, Finish, Types, Execution
<1>1. WaitsForStopped'
  <2>1. \A w \in Waiter, q \in Run : stopTasks'[w][q] = "waiting" => q # r /\ stopTasks[w][q] = "waiting"
    BY DEF WaitsForStopped
  <2> QED BY <1>0, <2>1 DEF WaitsForStopped, Waiter
<1>2. NoRunLost'
  BY <1>0 DEF NoRunLost, IsRunning, Types
<1>3. LockOwned'
  BY <1>0, RunAssumption DEF QueueInv, LockOwned, Types
<1>4. QueueOf(queue', Queued')
  <2>1. r \notin Queued
    BY DEF Queued
  <2>2. CASE execution'[r] = "queued"
    <3>1. Queued' = Queued \union {r} /\ queue' = Append(queue, r)
      BY <1>0, <2>2 DEF Queued
    <3> QED BY <2>1, <3>1, QueueAppended DEF QueueInv
  <2>3. CASE execution'[r] # "queued"
    <3>1. Queued' = Queued /\ queue' = queue
      BY <1>0, <2>1, <2>3 DEF Queued
    <3> QED BY <3>1 DEF QueueInv
  <2> QED BY <2>2, <2>3
<1> QED BY <1>1, <1>2, <1>3, <1>4 DEF QueueInv

LEMMA RunsInvByCall ==
  ASSUME RunsInv, NEW r \in Run, Call(r) \/ Restarted(r)
  PROVE  (QueueInv /\ WaitsForStopped /\ NoRunLost)'
<1> USE DEF RunsInv, ScriptInv
<1>0. execution[r] = "none" /\ UNCHANGED <<mayCancel, mode, stop>>
  BY DEF Call, Restarted, constVars, Listed
<1>1. CASE Call(r) /\ Refused
  <2>1. caller' = [caller EXCEPT ![r] = "returned"] /\ r \notin runs
        /\ UNCHANGED <<runs, holder, queue, execution, stopTasks>>
    BY <1>1 DEF Call, Listed
  <2> QED BY <1>0, <2>1, QueueUntouched DEF WaitsForStopped, NoRunLost, IsRunning, Types
<1>2. CASE Call(r) /\ ~Refused /\ mode = "restart" /\ runs # {}
  <2>1. /\ caller' = [caller EXCEPT ![r] = "restarting"] /\ runs' = runs \union {r} /\ r \notin runs
        /\ stopTasks' = [stopTasks EXCEPT ![r] = TasksFor(runs)]
        /\ UNCHANGED <<holder, queue, execution>>
    BY <1>2 DEF Call, Listed
  <2>2. /\ \A q \in Run : stopTasks'[r][q] = IF q \in runs THEN "created" ELSE "none"
        /\ \A x \in Waiter \ {r} : stopTasks'[x] = stopTasks[x]
    BY <2>1, RowTyped DEF Types, Waiter
  <2>3. \A w \in Waiter, q \in Run :
          stopTasks'[w][q] = "waiting" => stopTasks[w][q] = "waiting"
    BY <2>2
  <2>4. WaitsForStopped'
    BY <1>0, <2>1, <2>2, <2>3 DEF WaitsForStopped, Waiter
  <2>5. NoRunLost'
    BY <1>0, <2>1 DEF NoRunLost, IsRunning, Types
  <2> QED BY <2>1, <2>4, <2>5, QueueUntouched
<1>3. CASE Call(r) /\ ~Refused /\ ~(mode = "restart" /\ runs # {})
  <2>1. caller' = [caller EXCEPT ![r] = "running"] /\ Launch(r, runs \union {r}) /\ stopTasks' = stopTasks
    BY <1>3 DEF Call
  <2> QED BY <1>0, <2>1, RunsInvByLaunch
<1>4. CASE Restarted(r)
  <2>1. /\ caller' = [caller EXCEPT ![r] = "running"] /\ Launch(r, runs) /\ runs = runs \union {r}
        /\ stopTasks' = [stopTasks EXCEPT ![r] = NoTasks]
    BY <1>4 DEF Restarted, Listed
  <2>2. \A w \in Waiter, q \in Run : stopTasks'[w][q] \in {stopTasks[w][q], "none"}
    BY <2>1 DEF Types, NoTasks, Waiter
  <2> QED BY <1>0, <2>1, <2>2, RunsInvByLaunch
<1> QED BY <1>1, <1>2, <1>3, <1>4

\* The whole invariant.
THEOREM RunsSafety == Spec => []RunsInv
<1>1. Init => QueueInv /\ WaitsForStopped /\ NoRunLost
  <2> SUFFICES ASSUME Init PROVE QueueInv /\ WaitsForStopped /\ NoRunLost
    OBVIOUS
  <2>1. queue = <<>> /\ holder = Nobody /\ runs = {} /\ Queued = {}
    BY DEF Init, Queued
  <2>2. QueueInv /\ NoRunLost
    BY <2>1 DEF QueueInv, QueueOf, LockOwned, NoRunLost, IsRunning
  <2>3. WaitsForStopped
    BY DEF Init, NoTasks, WaitsForStopped, Waiter
  <2> QED BY <2>2, <2>3
<1>2. RunsInv /\ [Next]_vars => (QueueInv /\ WaitsForStopped /\ NoRunLost)'
  <2> SUFFICES ASSUME RunsInv, [Next]_vars PROVE (QueueInv /\ WaitsForStopped /\ NoRunLost)'
    OBVIOUS
  <2>1. CASE UNCHANGED vars
    BY <2>1, QueueUntouched DEF vars, constVars, RunsInv, WaitsForStopped, NoRunLost, IsRunning
  <2> QED BY <2>1, RunsInvByStops, RunsInvByCaller, RunsInvByEnd, RunsInvByLockAcquired, RunsInvByCall
          DEF Next, Loop
<1> QED BY <1>1, <1>2, ScriptSafety, PTL DEF Spec, RunsInv

\* The queue is exact, and its lock is never lost.
THEOREM QueueIsKept == Spec => []QueueKept
<1>1. RunsInv => QueueKept
  BY DEF RunsInv, QueueInv, QueueOf, Queued, LockOwned, QueueKept
<1> QED BY RunsSafety, <1>1, PTL

\* The core of StopsReturn: stops and restarts wait only for runs that execute
\* and were told to stop, never for one another.
THEOREM NobodyWaitsForWaiters == Spec => []WaitsForStopped
<1>1. RunsInv => WaitsForStopped
  BY DEF RunsInv
<1> QED BY RunsSafety, <1>1, PTL

\* What the comment on is_running says is true of a script whose callers are
\* never cancelled: only a cancelled restart leaves a run that nobody starts.
THEOREM RunsAreRunning == Spec => [](~mayCancel => IsRunning)
<1>1. RunsInv => (~mayCancel => IsRunning)
  BY DEF RunsInv, NoRunLost
<1> QED BY RunsSafety, <1>1, PTL

\* A run that is told to stop, in whatever state it is, never executes after
\* that if it does not already.
THEOREM StoppedDoNotStart == Spec => StoppedNeverStarts
<1> DEFINE Kept(r) == /\ r \in stop => r \in stop' /\ (execution'[r] = "step" => execution[r] = "step")
                      /\ execution[r] = "finished" => execution'[r] = "finished"
<1>1. ASSUME RunsInv, [Next]_vars PROVE [\A r \in Run : Kept(r)]_vars
  <2> USE DEF RunsInv, ScriptInv
  <2> SUFFICES ASSUME Next, NEW r \in Run PROVE Kept(r)
    BY <1>1
  <2>0. execution \in [Run -> Execution]
    BY <1>1 DEF Types
  <2>1. ASSUME NEW q \in Run, LockAcquired(q) PROVE Kept(r)
    BY <2>0, <2>1 DEF LockAcquired
  <2>2. ASSUME NEW q \in Run, StoppedInQueue(q) \/ StepsEnd(q) PROVE Kept(r)
    BY <2>0, <2>2 DEF StoppedInQueue, StepsEnd, Finish
  <2>3. ASSUME NEW q \in Run, Call(q) \/ Restarted(q) PROVE Kept(r)
    <3>1. stop' = stop /\ execution[q] = "none"
      BY <1>1, <2>3 DEF Call, Restarted, Listed
    <3>2. execution' = execution \/ Launch(q, runs \union {q}) \/ Launch(q, runs)
      BY <2>3 DEF Call, Restarted
    <3> QED BY <2>0, <3>1, <3>2 DEF Launch, Finish
  <2>4. ASSUME NEW q \in Run, Return(q) \/ CancelCaller(q) PROVE Kept(r)
    BY <2>4 DEF Return, CancelCaller
  <2>5. ASSUME NEW w \in Waiter, NEW q \in Run, StopRun(w, q) PROVE Kept(r)
    BY <2>5 DEF StopRun
  <2>6. ASSUME NEW s \in Stopper, Stop(s) \/ StopAfterShutdown(s) \/ StopReturns(s) PROVE Kept(r)
    BY <2>6 DEF Stop, StopAfterShutdown, StopReturns
  <2> QED BY <2>1, <2>2, <2>3, <2>4, <2>5, <2>6 DEF Next, Loop
<1> QED BY <1>1, RunsSafety, PTL DEF Spec, StoppedNeverStarts
=============================================================================
