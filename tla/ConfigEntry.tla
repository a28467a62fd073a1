---------------------------- MODULE ConfigEntry ----------------------------
(***************************************************************************)
(* The life of one config entry: homeassistant/config_entries.py           *)
(* (ConfigEntry and ConfigEntries) together with the part of               *)
(* homeassistant/setup.py that sets up the entries of a domain.            *)
(*                                                                         *)
(* Everything runs on one event loop.  A task is atomic from one await to  *)
(* the next, so an action below is exactly one such slice: it starts where *)
(* a task resumes, ends where it suspends or returns, and contains every   *)
(* call the code makes in between.  pc[t] names the await t is in.         *)
(*                                                                         *)
(* Abstractions.  Entries meet only through their domain's component and   *)
(* the index (module ConfigEntryItems), so one entry is modelled.  It is   *)
(* not an ignored one (those stay NOT_LOADED).  What the integration does  *)
(* inside its own coroutines is a choice among the outcomes the handlers   *)
(* tell apart.  The back-off time of a retry is any time.  Flows, issues   *)
(* and registries are other components.                                    *)
(***************************************************************************)
EXTENDS Naturals, FiniteSets

CONSTANTS
  Task,            \* asyncio tasks that may work on the entry
  NoTask,          \* "nobody": a free lock, no set-up future
  Ops,             \* the public calls the tasks may make, a subset of AllOps
  SupportsUnload,  \* the integration has async_unload_entry
  HooksMayRaise,   \* an on_unload callback may raise
  MaxRetries       \* bound: retries scheduled at one time

AllOps == {"setup", "unload", "reload", "disable", "remove"}

ASSUME OpsAssumption == Ops \subseteq AllOps
ASSUME TaskAssumption == NoTask \notin Task /\ "failed" \notin Task /\ NoTask # "failed"
ASSUME TaskFinite == IsFiniteSet(Task)
ASSUME FlagsAssumption == SupportsUnload \in BOOLEAN /\ HooksMayRaise \in BOOLEAN
ASSUME BoundAssumption == MaxRetries \in Nat

VARIABLES
  hass,         \* CoreState, as far as the entry reads it
  inComponents, \* domain in hass.config.components
  setupFuture,  \* hass.data[DATA_SETUP][domain]: its runner, or failed
  registered,   \* is the entry in ConfigEntries: not yet, yes, no longer
  state,        \* ConfigEntry.state
  disabled,     \* ConfigEntry.disabled_by is set
  cancelRetry,  \* ConfigEntry._async_cancel_retry_setup: what it would cancel
  timers,       \* scheduled async_call_later retries
  listeners,    \* EVENT_HOMEASSISTANT_STARTED listeners that retry
  onUnload,     \* ConfigEntry._on_unload holds callbacks
  live,         \* the integration runs this entry (kept by the integration)
  restart,      \* what async_remove answered as require_restart
  reloadLock,   \* holder of ConfigEntry.reload_lock
  op, pc        \* per task: the call it serves and the await it is in

retryVars == <<cancelRetry, timers, listeners>>
taskVars  == <<setupFuture, reloadLock, op, pc>>
vars == <<hass, inComponents, registered, state, disabled, retryVars,
          onUnload, live, restart, taskVars>>

\* Mutant of Recoverable: a state too many.
RecoverableFailedUnload == {"LOADED", "SETUP_ERROR", "SETUP_RETRY", "NOT_LOADED", "FAILED_UNLOAD"}

Recoverable    == {"LOADED", "SETUP_ERROR", "SETUP_RETRY", "NOT_LOADED"}
NotRecoverable == {"MIGRATION_ERROR", "FAILED_UNLOAD", "SETUP_IN_PROGRESS"}
ConfigEntryState == Recoverable \union NotRecoverable

\* Calls that hold reload_lock while they unload and set up.
LockedOps == {"reload", "disable"}
Op == AllOps \union {"none", "component", "retry"}

\* Awaits inside ConfigEntry.async_setup, and inside async_unload.
SettingUp == {"prepare", "setup_entry", "cleanup_error"}
PC == SettingUp \union
      {"idle", "lock", "scheduled", "component", "await_component",
       "cleanup_retry", "unload_entry", "cleanup_unloaded",
       "cleanup_refused", "remove_entry", "remove_entry_restart"}

Idle(t) == pc[t] = "idle"

TypeOK ==
  /\ hass \in {"starting", "running", "stopping"}
  /\ inComponents \in BOOLEAN
  /\ setupFuture \in Task \union {NoTask, "failed"}
  /\ registered \in {"new", "present", "removed"}
  /\ state \in ConfigEntryState
  /\ disabled \in BOOLEAN
  /\ cancelRetry \in {"none", "timer", "listener"}
  /\ timers \in Nat /\ listeners \in Nat
  /\ onUnload \in BOOLEAN /\ live \in BOOLEAN /\ restart \in BOOLEAN
  /\ reloadLock \in Task \union {NoTask}
  /\ op \in [Task -> Op]
  /\ pc \in [Task -> PC]

Init ==
  /\ hass = "starting" /\ inComponents = FALSE /\ setupFuture = NoTask
  /\ registered \in {"new", "present"} /\ state = "NOT_LOADED"
  /\ disabled \in BOOLEAN
  /\ cancelRetry = "none" /\ timers = 0 /\ listeners = 0
  /\ onUnload = FALSE /\ live = FALSE /\ restart = FALSE
  /\ reloadLock = NoTask
  /\ op = [t \in Task |-> "none"] /\ pc = [t \in Task |-> "idle"]

-----------------------------------------------------------------------------
(* Pieces of slices *)

\* Task t, serving o, suspends in p.  Locked calls hold the lock from here;
\* whoever sets up the component owns the future others wait for.
Await(t, o, p) ==
  /\ op' = [op EXCEPT ![t] = o]
  /\ pc' = [pc EXCEPT ![t] = p]
  /\ reloadLock' = IF o \in LockedOps THEN t ELSE reloadLock
  /\ setupFuture' = IF p = "component" THEN t ELSE setupFuture

\* Mutant of Finish: the lock is not released.
FinishKeepsLock(t) ==
  /\ op' = [op EXCEPT ![t] = "none"] /\ pc' = [pc EXCEPT ![t] = "idle"]
  /\ setupFuture' = (IF setupFuture = t THEN NoTask ELSE setupFuture)
  /\ UNCHANGED reloadLock

\* Task t returns or raises: its lock is released, its future resolved.
Finish(t) ==
  /\ op' = [op EXCEPT ![t] = "none"]
  /\ pc' = [pc EXCEPT ![t] = "idle"]
  /\ reloadLock' = IF reloadLock = t THEN NoTask ELSE reloadLock
  /\ setupFuture' = IF setupFuture = t THEN NoTask ELSE setupFuture

\* Mutants of CancelRetry: the handle is dropped, not called; it is called
\* although it is None.
CancelRetryForgets == cancelRetry' = "none" /\ UNCHANGED <<timers, listeners>>
CancelRetryTwice ==
  cancelRetry' = "none" /\ timers' = timers - 1 /\ UNCHANGED listeners

CancelRetry ==
  /\ timers' = IF cancelRetry = "timer" THEN timers - 1 ELSE timers
  /\ listeners' = IF cancelRetry = "listener" THEN listeners - 1 ELSE listeners
  /\ cancelRetry' = "none"

\* Mutants of ScheduleRetry: CoreState is not consulted.
ScheduleRetryTimer == cancelRetry' = "timer" /\ timers' = timers + 1 /\ UNCHANGED listeners
ScheduleRetryListener ==
  cancelRetry' = "listener" /\ listeners' = listeners + 1 /\ UNCHANGED timers

ScheduleRetry ==
  IF hass = "running"
  THEN cancelRetry' = "timer" /\ timers' = timers + 1 /\ UNCHANGED listeners
  ELSE cancelRetry' = "listener" /\ listeners' = listeners + 1 /\ UNCHANGED timers

\* ConfigEntry.async_setup up to its first await; s is the state before it.
EntrySetup(t, o, s) ==
  IF disabled'
  THEN state' = s /\ Finish(t)
  ELSE state' = "SETUP_IN_PROGRESS" /\ Await(t, o, "prepare")

\* Mutant of ManagerSetup: the state of the entry is not checked.
ManagerSetupUnchecked(t, o, s) ==
  IF inComponents THEN EntrySetup(t, o, s) ELSE state' = s /\ Finish(t)

\* ConfigEntries.async_setup: raises unless the entry is there and
\* NOT_LOADED; sets up the component first, or waits for whoever does.
ManagerSetup(t, o, s) ==
  IF registered' # "present" \/ s # "NOT_LOADED" \/ (~inComponents /\ setupFuture = "failed")
  THEN state' = s /\ Finish(t)
  ELSE IF inComponents
  THEN EntrySetup(t, o, s)
  ELSE /\ state' = s
       /\ Await(t, o, IF setupFuture = NoTask THEN "component" ELSE "await_component")

\* What the caller of ConfigEntry.async_unload does with its result.
AfterUnload(t, o, result, s) ==
  \/ o = "unload" /\ state' = s /\ Finish(t)
  \/ o = "remove" /\ state' = s
     /\ Await(t, o, IF result THEN "remove_entry" ELSE "remove_entry_restart")
  \/ o \in LockedOps
     /\ IF ~result \/ disabled' THEN state' = s /\ Finish(t) ELSE ManagerSetup(t, o, s)

\* ConfigEntry.async_unload up to its first await.
EntryUnload(t, o) ==
  \/ /\ state = "NOT_LOADED"
     /\ AfterUnload(t, o, TRUE, state) /\ UNCHANGED retryVars
  \/ /\ state \in Recoverable \ {"NOT_LOADED", "LOADED"}
     /\ CancelRetry /\ AfterUnload(t, o, TRUE, "NOT_LOADED")
  \/ /\ state = "LOADED" /\ SupportsUnload
     /\ Await(t, o, "unload_entry") /\ UNCHANGED <<state, retryVars>>
  \/ /\ state = "LOADED" /\ ~SupportsUnload
     /\ AfterUnload(t, o, FALSE, "FAILED_UNLOAD") /\ UNCHANGED retryVars

\* ConfigEntries.async_unload: raises for an unknown or unrecoverable entry.
ManagerUnload(t, o) ==
  IF registered = "present" /\ state \in Recoverable
  THEN EntryUnload(t, o)
  ELSE Finish(t) /\ UNCHANGED <<state, retryVars>>

\* Mutant of Reload: no lock.
ReloadUnlocked(t, o) == ManagerUnload(t, o)

\* ConfigEntries.async_reload: asyncio.Lock lets nobody overtake a waiter.
Reload(t, o) ==
  IF reloadLock = NoTask /\ \A u \in Task : pc[u] # "lock"
  THEN ManagerUnload(t, o)
  ELSE /\ op' = [op EXCEPT ![t] = o] /\ pc' = [pc EXCEPT ![t] = "lock"]
       /\ UNCHANGED <<state, retryVars, reloadLock, setupFuture>>

-----------------------------------------------------------------------------
(* The public calls *)

Add(t) ==
  /\ Idle(t) /\ registered = "new"
  /\ registered' = "present" /\ UNCHANGED disabled
  /\ ManagerSetup(t, "setup", state)
  /\ UNCHANGED <<hass, inComponents, retryVars, onUnload, live, restart>>

CallSetup(t) ==
  /\ "setup" \in Ops /\ Idle(t) /\ registered = "present"
  /\ UNCHANGED <<registered, disabled>>
  /\ ManagerSetup(t, "setup", state)
  /\ UNCHANGED <<hass, inComponents, retryVars, onUnload, live, restart>>

CallUnload(t) ==
  /\ "unload" \in Ops /\ Idle(t) /\ registered = "present"
  /\ UNCHANGED <<registered, disabled>>
  /\ ManagerUnload(t, "unload")
  /\ UNCHANGED <<hass, inComponents, onUnload, live, restart>>

CallReload(t) ==
  /\ "reload" \in Ops /\ Idle(t) /\ registered = "present"
  /\ UNCHANGED <<registered, disabled>>
  /\ Reload(t, "reload")
  /\ UNCHANGED <<hass, inComponents, onUnload, live, restart>>

\* async_schedule_reload: the retry is cancelled now, the reload runs later.
ScheduleReload(t) ==
  /\ "reload" \in Ops /\ Idle(t) /\ registered = "present"
  /\ CancelRetry
  /\ op' = [op EXCEPT ![t] = "reload"] /\ pc' = [pc EXCEPT ![t] = "scheduled"]
  /\ UNCHANGED <<hass, inComponents, registered, state, disabled, onUnload, live,
                 restart, reloadLock, setupFuture>>

StartScheduledReload(t) ==
  /\ pc[t] = "scheduled"
  /\ UNCHANGED <<registered, disabled>>
  /\ IF registered = "present"
     THEN Reload(t, "reload")
     ELSE Finish(t) /\ UNCHANGED <<state, retryVars>>
  /\ UNCHANGED <<hass, inComponents, onUnload, live, restart>>

\* async_set_disabled_by with a value that changes disabled_by.
SetDisabledBy(t) ==
  /\ "disable" \in Ops /\ Idle(t) /\ registered = "present"
  /\ disabled' = ~disabled /\ UNCHANGED registered
  /\ Reload(t, "disable")
  /\ UNCHANGED <<hass, inComponents, onUnload, live, restart>>

AcquireReloadLock(t) ==
  /\ pc[t] = "lock" /\ reloadLock = NoTask
  /\ UNCHANGED <<registered, disabled>>
  /\ ManagerUnload(t, op[t])
  /\ UNCHANGED <<hass, inComponents, onUnload, live, restart>>

CallRemove(t) ==
  /\ "remove" \in Ops /\ Idle(t) /\ registered = "present"
  /\ UNCHANGED <<registered, disabled>>
  /\ IF state \in Recoverable
     THEN EntryUnload(t, "remove")
     ELSE /\ Await(t, "remove",
                   IF state = "FAILED_UNLOAD" THEN "remove_entry_restart" ELSE "remove_entry")
          /\ UNCHANGED <<state, retryVars>>
  /\ UNCHANGED <<hass, inComponents, onUnload, live, restart>>

-----------------------------------------------------------------------------
(* Setting up the component and, with it, the entry *)

StartComponent(t) ==
  /\ Idle(t) /\ ~inComponents /\ setupFuture = NoTask
  /\ Await(t, "component", "component")
  /\ UNCHANGED <<hass, inComponents, registered, state, disabled, retryVars,
                 onUnload, live, restart>>

ComponentReady(t) ==
  /\ pc[t] = "component"
  /\ inComponents' = TRUE /\ UNCHANGED <<registered, disabled>>
  /\ IF registered = "present"
     THEN EntrySetup(t, op[t], state)
     ELSE Finish(t) /\ UNCHANGED state
  /\ UNCHANGED <<hass, retryVars, onUnload, live, restart>>

\* Mutant of ComponentFails: who failed leaves its future unresolved.
ComponentFailsSilently(t) ==
  /\ pc[t] = "component"
  /\ op' = [op EXCEPT ![t] = "none"] /\ pc' = [pc EXCEPT ![t] = "idle"]
  /\ reloadLock' = IF reloadLock = t THEN NoTask ELSE reloadLock
  /\ UNCHANGED <<hass, inComponents, setupFuture, registered, state, disabled, retryVars,
                 onUnload, live, restart>>

ComponentFails(t) ==
  /\ pc[t] = "component"
  /\ op' = [op EXCEPT ![t] = "none"] /\ pc' = [pc EXCEPT ![t] = "idle"]
  /\ reloadLock' = IF reloadLock = t THEN NoTask ELSE reloadLock
  /\ setupFuture' = "failed"
  /\ UNCHANGED <<hass, inComponents, registered, state, disabled, retryVars,
                 onUnload, live, restart>>

ComponentAwaited(t) ==
  /\ pc[t] = "await_component" /\ setupFuture \notin Task
  /\ Finish(t)
  /\ UNCHANGED <<hass, inComponents, registered, state, disabled, retryVars,
                 onUnload, live, restart>>

\* The config_flow platform does not import, or the migration fails, or the
\* integration's async_setup_entry is called.
Prepared(t) ==
  /\ pc[t] = "prepare"
  /\ \/ state' = "SETUP_ERROR" /\ Finish(t)
     \/ state' = "MIGRATION_ERROR" /\ Finish(t)
     \/ Await(t, op[t], "setup_entry") /\ UNCHANGED state
  /\ UNCHANGED <<hass, inComponents, registered, disabled, retryVars, onUnload,
                 live, restart>>

\* The integration calls async_on_unload while it sets the entry up.
RegisterOnUnload(t) ==
  /\ pc[t] = "setup_entry" /\ ~onUnload
  /\ onUnload' = TRUE
  /\ UNCHANGED <<hass, inComponents, registered, state, disabled, retryVars, live,
                 restart, taskVars>>

SetupEntryTrue(t) ==
  /\ pc[t] = "setup_entry"
  /\ CancelRetry /\ state' = "LOADED" /\ live' = TRUE /\ Finish(t)
  /\ UNCHANGED <<hass, inComponents, registered, disabled, onUnload, restart>>

\* False, not a boolean, or an exception nobody knows.
SetupEntryFalse(t) ==
  /\ pc[t] = "setup_entry"
  /\ CancelRetry /\ state' = "SETUP_ERROR" /\ Finish(t)
  /\ UNCHANGED <<hass, inComponents, registered, disabled, onUnload, live, restart>>

\* ConfigEntryError or ConfigEntryAuthFailed; a callback that raises escapes
\* async_setup and leaves the state as it is.
SetupEntryError(t) ==
  /\ pc[t] = "setup_entry"
  /\ \/ onUnload' = FALSE /\ Await(t, op[t], "cleanup_error")
     \/ HooksMayRaise /\ onUnload /\ onUnload' \in BOOLEAN /\ Finish(t)
  /\ UNCHANGED <<hass, inComponents, registered, state, disabled, retryVars, live, restart>>

CleanupErrorDone(t) ==
  /\ pc[t] = "cleanup_error"
  /\ CancelRetry /\ state' = "SETUP_ERROR" /\ Finish(t)
  /\ UNCHANGED <<hass, inComponents, registered, disabled, onUnload, live, restart>>

\* ConfigEntryNotReady: the retry is scheduled before the callbacks run.
SetupEntryNotReady(t) ==
  /\ pc[t] = "setup_entry" /\ timers + listeners < MaxRetries
  /\ state' = "SETUP_RETRY" /\ ScheduleRetry
  /\ \/ onUnload' = FALSE /\ Await(t, op[t], "cleanup_retry")
     \/ HooksMayRaise /\ onUnload /\ onUnload' \in BOOLEAN /\ Finish(t)
  /\ UNCHANGED <<hass, inComponents, registered, disabled, live, restart>>

CleanupRetryDone(t) ==
  /\ pc[t] = "cleanup_retry"
  /\ Finish(t)
  /\ UNCHANGED <<hass, inComponents, registered, state, disabled, retryVars,
                 onUnload, live, restart>>

-----------------------------------------------------------------------------
(* async_unload_entry returns; removal *)

UnloadEntryTrue(t) ==
  /\ pc[t] = "unload_entry"
  /\ live' = FALSE /\ UNCHANGED <<registered, disabled>>
  /\ \/ /\ onUnload' = FALSE /\ state' = "NOT_LOADED"
        /\ Await(t, op[t], "cleanup_unloaded")
     \/ /\ HooksMayRaise /\ onUnload /\ onUnload' \in BOOLEAN
        /\ AfterUnload(t, op[t], FALSE, "FAILED_UNLOAD")
  /\ UNCHANGED <<hass, inComponents, retryVars, restart>>

\* The callbacks run although the integration refused to unload.
UnloadEntryFalse(t) ==
  /\ pc[t] = "unload_entry"
  /\ UNCHANGED <<registered, disabled>>
  /\ \/ /\ onUnload' = FALSE /\ UNCHANGED state
        /\ Await(t, op[t], "cleanup_refused")
     \/ /\ HooksMayRaise /\ onUnload /\ onUnload' \in BOOLEAN
        /\ AfterUnload(t, op[t], FALSE, "FAILED_UNLOAD")
  /\ UNCHANGED <<hass, inComponents, retryVars, live, restart>>

\* Mutant of UnloadEntryRaises: the entry passes for unloaded.
UnloadEntryRaisesUnloaded(t) ==
  /\ pc[t] = "unload_entry"
  /\ UNCHANGED <<registered, disabled>>
  /\ AfterUnload(t, op[t], FALSE, "NOT_LOADED")
  /\ UNCHANGED <<hass, inComponents, retryVars, onUnload, live, restart>>

UnloadEntryRaises(t) ==
  /\ pc[t] = "unload_entry"
  /\ UNCHANGED <<registered, disabled>>
  /\ AfterUnload(t, op[t], FALSE, "FAILED_UNLOAD")
  /\ UNCHANGED <<hass, inComponents, retryVars, onUnload, live, restart>>

CleanupUnloadDone(t) ==
  /\ pc[t] \in {"cleanup_unloaded", "cleanup_refused"}
  /\ UNCHANGED <<registered, disabled>>
  /\ AfterUnload(t, op[t], pc[t] = "cleanup_unloaded", state)
  /\ UNCHANGED <<hass, inComponents, retryVars, onUnload, live, restart>>

\* async_remove_entry returned: the entry is deleted, or a KeyError raised.
Removed(t) ==
  /\ pc[t] \in {"remove_entry", "remove_entry_restart"}
  /\ Finish(t)
  /\ IF registered = "present"
     THEN registered' = "removed" /\ restart' = (pc[t] = "remove_entry_restart")
     ELSE UNCHANGED <<registered, restart>>
  /\ UNCHANGED <<hass, inComponents, state, disabled, retryVars, onUnload, live>>

-----------------------------------------------------------------------------
(* Retries, start and stop of Home Assistant *)

\* A timer calls _async_setup_again, which forgets the handle.
RetryTimer(t) ==
  /\ Idle(t) /\ timers > 0
  /\ timers' = timers - 1 /\ cancelRetry' = "none"
  /\ UNCHANGED <<listeners, registered, disabled>>
  /\ IF hass = "stopping"
     THEN UNCHANGED <<state, taskVars>>
     ELSE EntrySetup(t, "retry", state)
  /\ UNCHANGED <<hass, inComponents, onUnload, live, restart>>

\* EVENT_HOMEASSISTANT_STARTED: every retry listener runs at once, each in a
\* task of its own.
Started ==
  /\ hass = "starting" /\ hass' = "running"
  /\ listeners' = 0
  /\ \E S \in SUBSET {t \in Task : Idle(t)} :
       /\ Cardinality(S) = listeners
       /\ IF S # {} /\ ~disabled
          THEN /\ state' = "SETUP_IN_PROGRESS"
               /\ op' = [t \in Task |-> IF t \in S THEN "retry" ELSE op[t]]
               /\ pc' = [t \in Task |-> IF t \in S THEN "prepare" ELSE pc[t]]
          ELSE UNCHANGED <<state, op, pc>>
  /\ cancelRetry' = IF listeners > 0 THEN "none" ELSE cancelRetry
  /\ UNCHANGED <<inComponents, registered, disabled, timers, onUnload, live, restart,
                 reloadLock, setupFuture>>

\* EVENT_HOMEASSISTANT_STOP: async_shutdown of every registered entry.
Stop ==
  /\ hass # "stopping" /\ hass' = "stopping"
  /\ IF registered = "present" THEN CancelRetry ELSE UNCHANGED retryVars
  /\ UNCHANGED <<inComponents, registered, state, disabled, onUnload, live, restart, taskVars>>

-----------------------------------------------------------------------------
Call(t) == \/ Add(t) \/ CallSetup(t) \/ CallUnload(t) \/ CallReload(t)
           \/ ScheduleReload(t) \/ SetDisabledBy(t) \/ CallRemove(t)

\* What an awaited task does next, once the integration's coroutine returns.
SetupEntryReturns(t) ==
  SetupEntryTrue(t) \/ SetupEntryFalse(t) \/ SetupEntryError(t) \/ SetupEntryNotReady(t)
UnloadEntryReturns(t) ==
  UnloadEntryTrue(t) \/ UnloadEntryFalse(t) \/ UnloadEntryRaises(t)
Progress(t) ==
  \/ StartScheduledReload(t) \/ AcquireReloadLock(t)
  \/ ComponentReady(t) \/ ComponentFails(t) \/ ComponentAwaited(t)
  \/ Prepared(t) \/ SetupEntryReturns(t) \/ CleanupErrorDone(t) \/ CleanupRetryDone(t)
  \/ UnloadEntryReturns(t) \/ CleanupUnloadDone(t) \/ Removed(t)

Next ==
  \/ \E t \in Task : \/ Call(t) \/ StartComponent(t) \/ Progress(t)
                     \/ RegisterOnUnload(t) \/ RetryTimer(t)
  \/ Started \/ Stop

\* The event loop resumes every runnable task, the integration's coroutines
\* return (the code bounds none of them), timers fire, and asyncio.Lock
\* wakes its waiters in the order they came.
Fairness ==
  /\ \A t \in Task : WF_vars(Progress(t))
  /\ \A t \in Task : SF_vars(AcquireReloadLock(t))
  /\ WF_vars(\E t \in Task : RetryTimer(t))

Spec     == Init /\ [][Next]_vars
FairSpec == Spec /\ Fairness

-----------------------------------------------------------------------------
(* Safety, as long as nobody awaits an unload without holding reload_lock:   *)
(* async_unload and async_remove do not take it.                             *)

Orderly == Ops \intersect {"unload", "remove"} = {} \/ ~SupportsUnload

\* The integration is never inside two of its coroutines for one entry, be
\* they started by a reload, a retry timer, the start of Home Assistant or
\* the set-up of the component (config_entries.py, "Reload lock to prevent
\* conflicting reloads"; the retry does not take that lock).
IntegrationExclusive ==
  \A t, u \in Task :
    pc[t] \in SettingUp \union {"unload_entry"} /\ pc[u] \in SettingUp \union {"unload_entry"}
      => t = u

\* An entry shows LOADED exactly as long as the integration runs it, save
\* after a failed unload, when nobody knows.
LoadedIffLive ==
  /\ state = "LOADED" => live
  /\ live => state \in {"LOADED", "FAILED_UNLOAD"}

\* _async_cancel_retry_setup always reaches every scheduled retry: none is
\* orphaned by a second one or by a state change, and none outlives SETUP_RETRY.
RetryIsCancellable ==
  /\ timers = (IF cancelRetry = "timer" THEN 1 ELSE 0)
  /\ listeners = (IF cancelRetry = "listener" THEN 1 ELSE 0)
  /\ cancelRetry # "none" => state = "SETUP_RETRY"

\* After EVENT_HOMEASSISTANT_STOP no retry timer of a registered entry is
\* pending or scheduled anew.
NoTimerWhileStopping == hass = "stopping" /\ registered = "present" => timers = 0

\* The tasks' awaits agree with the state, the lock and the future.
LockHeld ==
  \A t \in Task : op[t] \in LockedOps /\ pc[t] \notin {"lock", "scheduled"} => reloadLock = t
AwaitsMatchState ==
  \A t \in Task :
    /\ pc[t] = "idle" => op[t] = "none"
    /\ pc[t] \in SettingUp => state = "SETUP_IN_PROGRESS"
    /\ pc[t] = "unload_entry" => state = "LOADED" /\ SupportsUnload
    /\ pc[t] \in {"unload_entry", "cleanup_unloaded", "cleanup_refused", "lock"} => op[t] \in LockedOps
    /\ pc[t] = "component" => setupFuture = t /\ ~inComponents
UnloadedBefore ==
  /\ ~inComponents => state = "NOT_LOADED"
  /\ registered = "new" => state = "NOT_LOADED"
SetupExclusive ==
  \A t, u \in Task : pc[t] \in SettingUp /\ pc[u] \in SettingUp => t = u

\* The safety half of RetriedUntilReady.  An entry that was not ready has its
\* retry where the state of Home Assistant looks for it, a timer once it runs,
\* a listener while it starts; or else a reload is ahead of it, which cancelled
\* the retry when it was scheduled.
RetryAhead ==
  state = "SETUP_RETRY" /\ registered = "present" /\ ~disabled /\ hass # "stopping" =>
    \/ cancelRetry = (IF hass = "running" THEN "timer" ELSE "listener")
    \/ \E t \in Task : pc[t] \in {"scheduled", "lock"}

\* The inductive invariant of orderly calls.
OrderlyInv ==
  /\ TypeOK /\ SetupExclusive /\ LockHeld /\ AwaitsMatchState /\ UnloadedBefore
  /\ LoadedIffLive /\ RetryIsCancellable /\ NoTimerWhileStopping

\* A state that is not recoverable and not in progress is final: neither a
\* reload nor a retry nor a late coroutine takes the entry out of it.
UnrecoverableIsFinal ==
  [][(state \in {"MIGRATION_ERROR", "FAILED_UNLOAD"}) => state' = state]_vars

\* The integration sees the abstract service.
Service == INSTANCE EntryService WITH
  setting   <- {t \in Task : pc[t] = "setup_entry"},
  unloading <- {t \in Task : pc[t] = "unload_entry"},
  up        <- live,
  broken    <- state = "FAILED_UNLOAD"
ImplementsService == Service!SSpec

-----------------------------------------------------------------------------
(* Whatever the calls *)

\* Two reloads never unload or set up at the same time, also when a remove
\* or an unload that knows nothing of the lock runs between them.
ReloadsExclusive ==
  \A t, u \in Task :
    /\ op[t] \in LockedOps /\ pc[t] \notin {"lock", "scheduled"}
    /\ op[u] \in LockedOps /\ pc[u] \notin {"lock", "scheduled"}
    => t = u

\* Whom a task waits for: the holder of reload_lock, or the runner of the
\* component's future.
AwaitedBy(t) ==
  CASE pc[t] = "lock" -> reloadLock
    [] pc[t] = "await_component" -> setupFuture
    [] OTHER -> NoTask
Busy(t) == pc[t] \notin {"idle", "scheduled", "lock", "await_component"}

\* The safety half of EveryCallReturns.  Nobody waits for a task that has
\* gone or that waits for its turn: the one he waits for is at work, or waits
\* for the component, whose runner is at work.  So the holder of reload_lock
\* and the runner never wait for each other (a reload takes the lock first and
\* the future second, and the runner, which may be a reload, takes no lock).
WaitsEnd ==
  \A t \in Task : AwaitedBy(t) \in Task =>
    LET u == AwaitedBy(t) IN
      \/ Busy(u)
      \/ pc[u] = "await_component" /\ (AwaitedBy(u) \in Task => Busy(AwaitedBy(u)))

\* Every call returns: nobody waits for ever for reload_lock or for the
\* component's future, which the holder of the lock may itself be waiting for.
EveryCallReturns == \A t \in Task : ~Idle(t) ~> Idle(t)

\* An entry that was not ready is tried again, unless it is disabled, removed
\* or Home Assistant stops.
RetriedUntilReady ==
  state = "SETUP_RETRY" ~>
    state # "SETUP_RETRY" \/ disabled \/ registered # "present" \/ hass # "running"
=============================================================================
