------------------------- MODULE ConfigEntryProofs -------------------------
(***************************************************************************)
(* Theorems about ConfigEntry, for any set of tasks: first about orderly   *)
(* calls, whose invariant gives exclusion and the refinement; then about   *)
(* all calls, the lock and whom they wait for; last, that no retry is lost.*)
(***************************************************************************)
EXTENDS ConfigEntry, FiniteSetTheorems, TLAPS

\* A handle points at a retry that is scheduled, so cancelling never counts
\* below zero.
HandleSound ==
  /\ cancelRetry = "timer" => timers > 0
  /\ cancelRetry = "listener" => listeners > 0

TypeInv == TypeOK /\ HandleSound

\* The state part and the task part of TypeInv.
RetryType ==
  /\ cancelRetry \in {"none", "timer", "listener"}
  /\ timers \in Nat /\ listeners \in Nat
  /\ HandleSound
TaskType ==
  /\ setupFuture \in Task \union {NoTask, "failed"}
  /\ reloadLock \in Task \union {NoTask}
  /\ op \in [Task -> Op]
  /\ pc \in [Task -> PC]

\* Suspending keeps the tasks well typed.
LEMMA AwaitType ==
  ASSUME TaskType, NEW t \in Task, NEW o \in Op, NEW p \in PC, Await(t, o, p)
  PROVE  TaskType'
  BY DEF TaskType, Await

\* Returning keeps the tasks well typed.
LEMMA FinishType ==
  ASSUME TaskType, NEW t \in Task, Finish(t)
  PROVE  TaskType'
  BY DEF TaskType, Finish, Op, PC

\* Cancelling a retry never counts below zero.
LEMMA CancelType ==
  ASSUME RetryType, CancelRetry
  PROVE  RetryType'
  BY DEF RetryType, CancelRetry, HandleSound

\* The handle of a scheduled retry points at a retry that is there.
LEMMA ScheduleType ==
  ASSUME RetryType, ScheduleRetry
  PROVE  RetryType'
  BY DEF RetryType, ScheduleRetry, HandleSound

\* The first slice of ConfigEntry.async_setup is well typed.
LEMMA EntrySetupType ==
  ASSUME TaskType, NEW t \in Task, NEW o \in Op, NEW s \in ConfigEntryState,
         EntrySetup(t, o, s)
  PROVE  TaskType' /\ state' \in ConfigEntryState
<1>1. CASE disabled'
  BY <1>1, FinishType DEF EntrySetup
<1>2. CASE ~disabled'
  <2>1. "prepare" \in PC /\ "SETUP_IN_PROGRESS" \in ConfigEntryState
    BY DEF PC, SettingUp, ConfigEntryState, NotRecoverable
  <2> QED BY <1>2, <2>1, AwaitType DEF EntrySetup
<1> QED BY <1>1, <1>2

\* So is the first slice of ConfigEntries.async_setup.
LEMMA ManagerSetupType ==
  ASSUME TaskType, NEW t \in Task, NEW o \in Op, NEW s \in ConfigEntryState,
         ManagerSetup(t, o, s)
  PROVE  TaskType' /\ state' \in ConfigEntryState
<1>1. {"component", "await_component"} \subseteq PC
  BY DEF PC
<1> QED BY <1>1, FinishType, AwaitType, EntrySetupType DEF ManagerSetup

\* So is what each caller of async_unload does with its result.
LEMMA AfterUnloadType ==
  ASSUME TaskType, NEW t \in Task, NEW o \in Op, NEW result \in BOOLEAN,
         NEW s \in ConfigEntryState, AfterUnload(t, o, result, s)
  PROVE  TaskType' /\ state' \in ConfigEntryState
<1>1. {"remove_entry", "remove_entry_restart"} \subseteq PC
  BY DEF PC
<1>2. CASE o = "unload" /\ state' = s /\ Finish(t)
  BY <1>2, FinishType
<1>3. CASE o = "remove" /\ state' = s
           /\ Await(t, o, IF result THEN "remove_entry" ELSE "remove_entry_restart")
  BY <1>1, <1>3, AwaitType
<1>4. CASE (~result \/ disabled') /\ state' = s /\ Finish(t)
  BY <1>4, FinishType
<1>5. CASE ManagerSetup(t, o, s)
  BY <1>5, ManagerSetupType
<1> QED BY <1>2, <1>3, <1>4, <1>5 DEF AfterUnload

\* So is the first slice of ConfigEntry.async_unload.
LEMMA EntryUnloadType ==
  ASSUME TaskType, RetryType, state \in ConfigEntryState,
         NEW t \in Task, NEW o \in Op, EntryUnload(t, o)
  PROVE  TaskType' /\ RetryType' /\ state' \in ConfigEntryState
<1>1. {"NOT_LOADED", "FAILED_UNLOAD"} \subseteq ConfigEntryState /\ "unload_entry" \in PC
  BY DEF ConfigEntryState, Recoverable, NotRecoverable, PC
<1>2. UNCHANGED retryVars => RetryType'
  BY DEF retryVars, RetryType, HandleSound
<1>3. CASE AfterUnload(t, o, TRUE, state) /\ UNCHANGED retryVars
  BY <1>2, <1>3, AfterUnloadType
<1>4. CASE CancelRetry /\ AfterUnload(t, o, TRUE, "NOT_LOADED")
  BY <1>1, <1>4, AfterUnloadType, CancelType
<1>5. CASE Await(t, o, "unload_entry") /\ UNCHANGED <<state, retryVars>>
  BY <1>1, <1>2, <1>5, AwaitType
<1>6. CASE AfterUnload(t, o, FALSE, "FAILED_UNLOAD") /\ UNCHANGED retryVars
  BY <1>1, <1>2, <1>6, AfterUnloadType
<1> QED BY <1>3, <1>4, <1>5, <1>6 DEF EntryUnload

\* So is the first slice of ConfigEntries.async_unload.
LEMMA ManagerUnloadType ==
  ASSUME TaskType, RetryType, state \in ConfigEntryState,
         NEW t \in Task, NEW o \in Op, ManagerUnload(t, o)
  PROVE  TaskType' /\ RetryType' /\ state' \in ConfigEntryState
<1>1. UNCHANGED retryVars => RetryType'
  BY DEF retryVars, RetryType, HandleSound
<1> QED BY <1>1, EntryUnloadType, FinishType DEF ManagerUnload

\* So is a reload that gets the lock or queues for it.
LEMMA ReloadType ==
  ASSUME TaskType, RetryType, state \in ConfigEntryState,
         NEW t \in Task, NEW o \in Op, Reload(t, o)
  PROVE  TaskType' /\ RetryType' /\ state' \in ConfigEntryState
<1>1. CASE ManagerUnload(t, o)
  BY <1>1, ManagerUnloadType
<1>2. CASE /\ op' = [op EXCEPT ![t] = o] /\ pc' = [pc EXCEPT ![t] = "lock"]
           /\ UNCHANGED <<state, retryVars, reloadLock, setupFuture>>
  BY <1>2 DEF TaskType, RetryType, retryVars, HandleSound, PC
<1> QED BY <1>1, <1>2 DEF Reload

\* The type invariant falls into the retry part, the task part and the rest.
LEMMA TypeInvParts ==
  TypeInv <=>
    /\ hass \in {"starting", "running", "stopping"} /\ inComponents \in BOOLEAN
    /\ registered \in {"new", "present", "removed"} /\ state \in ConfigEntryState
    /\ disabled \in BOOLEAN /\ onUnload \in BOOLEAN /\ live \in BOOLEAN /\ restart \in BOOLEAN
    /\ RetryType /\ TaskType
  BY DEF TypeInv, TypeOK, RetryType, TaskType

\* An entry starts well typed.
LEMMA TypeInit == Init => TypeInv
<1> SUFFICES ASSUME Init PROVE TypeInv
  OBVIOUS
<1>1. TaskType
  BY DEF Init, TaskType, Op, PC
<1>2. RetryType
  BY DEF Init, RetryType, HandleSound
<1>3. state \in ConfigEntryState
  BY DEF Init, ConfigEntryState, Recoverable
<1> QED BY <1>1, <1>2, <1>3, TypeInvParts DEF Init

\* No step of any call breaks the types.
LEMMA TypeStep == TypeInv /\ [Next]_vars => TypeInv'
<1> SUFFICES ASSUME TypeInv, [Next]_vars PROVE TypeInv'
  OBVIOUS
<1>1. /\ hass \in {"starting", "running", "stopping"} /\ inComponents \in BOOLEAN
      /\ registered \in {"new", "present", "removed"} /\ state \in ConfigEntryState
      /\ disabled \in BOOLEAN /\ onUnload \in BOOLEAN /\ live \in BOOLEAN /\ restart \in BOOLEAN
      /\ RetryType /\ TaskType
  BY TypeInvParts
<1>2. UNCHANGED retryVars => RetryType'
  BY <1>1 DEF retryVars, RetryType, HandleSound
<1>3. /\ {"LOADED", "NOT_LOADED", "SETUP_ERROR", "SETUP_RETRY", "MIGRATION_ERROR",
          "FAILED_UNLOAD", "SETUP_IN_PROGRESS"} \subseteq ConfigEntryState
      /\ {"setup", "unload", "reload", "disable", "remove", "none", "component", "retry"} \subseteq Op
      /\ {"scheduled", "component", "prepare", "setup_entry", "cleanup_error", "cleanup_retry",
          "cleanup_unloaded", "cleanup_refused", "remove_entry", "remove_entry_restart", "idle"}
         \subseteq PC
  BY DEF ConfigEntryState, Recoverable, NotRecoverable, Op, AllOps, PC, SettingUp
<1>4. \A t \in Task : op[t] \in Op
  BY <1>1 DEF TaskType
<1>5. TypeInv' <=>
        /\ hass' \in {"starting", "running", "stopping"} /\ inComponents' \in BOOLEAN
        /\ registered' \in {"new", "present", "removed"} /\ state' \in ConfigEntryState
        /\ disabled' \in BOOLEAN /\ onUnload' \in BOOLEAN /\ live' \in BOOLEAN /\ restart' \in BOOLEAN
        /\ RetryType' /\ TaskType'
  BY DEF TypeInv, TypeOK, RetryType, TaskType
<1>6. ASSUME NEW t \in Task, Add(t) PROVE TypeInv'
  BY <1>1, <1>2, <1>3, <1>4, <1>5, <1>6, ManagerSetupType DEF Add
<1>7. ASSUME NEW t \in Task, CallSetup(t) PROVE TypeInv'
  BY <1>1, <1>2, <1>3, <1>4, <1>5, <1>7, ManagerSetupType DEF CallSetup
<1>8. ASSUME NEW t \in Task, CallUnload(t) PROVE TypeInv'
  BY <1>1, <1>2, <1>3, <1>4, <1>5, <1>8, ManagerUnloadType DEF CallUnload
<1>9. ASSUME NEW t \in Task, CallReload(t) PROVE TypeInv'
  BY <1>1, <1>2, <1>3, <1>4, <1>5, <1>9, ReloadType DEF CallReload
<1>10. ASSUME NEW t \in Task, ScheduleReload(t) PROVE TypeInv'
  BY <1>1, <1>2, <1>3, <1>4, <1>5, <1>10, CancelType DEF ScheduleReload, TaskType
<1>11. ASSUME NEW t \in Task, StartScheduledReload(t) PROVE TypeInv'
  BY <1>1, <1>2, <1>3, <1>4, <1>5, <1>11, ReloadType, FinishType DEF StartScheduledReload
<1>12. ASSUME NEW t \in Task, SetDisabledBy(t) PROVE TypeInv'
  BY <1>1, <1>2, <1>3, <1>4, <1>5, <1>12, ReloadType DEF SetDisabledBy
<1>13. ASSUME NEW t \in Task, AcquireReloadLock(t) PROVE TypeInv'
  BY <1>1, <1>2, <1>3, <1>4, <1>5, <1>13, ManagerUnloadType DEF AcquireReloadLock
<1>14. ASSUME NEW t \in Task, CallRemove(t) PROVE TypeInv'
  BY <1>1, <1>2, <1>3, <1>4, <1>5, <1>14, EntryUnloadType, AwaitType DEF CallRemove
<1>15. ASSUME NEW t \in Task, StartComponent(t) PROVE TypeInv'
  BY <1>1, <1>2, <1>3, <1>4, <1>5, <1>15, AwaitType DEF StartComponent
<1>16. ASSUME NEW t \in Task, ComponentReady(t) PROVE TypeInv'
  BY <1>1, <1>2, <1>3, <1>4, <1>5, <1>16, EntrySetupType, FinishType DEF ComponentReady
<1>17. ASSUME NEW t \in Task, ComponentFails(t) PROVE TypeInv'
  BY <1>1, <1>2, <1>3, <1>4, <1>5, <1>17, FinishType DEF ComponentFails, TaskType
<1>18. ASSUME NEW t \in Task, ComponentAwaited(t) PROVE TypeInv'
  BY <1>1, <1>2, <1>3, <1>4, <1>5, <1>18, FinishType DEF ComponentAwaited
<1>19. ASSUME NEW t \in Task, Prepared(t) PROVE TypeInv'
  BY <1>1, <1>2, <1>3, <1>4, <1>5, <1>19, FinishType, AwaitType DEF Prepared
<1>20. ASSUME NEW t \in Task, RegisterOnUnload(t) PROVE TypeInv'
  BY <1>1, <1>2, <1>3, <1>4, <1>5, <1>20, FinishType DEF RegisterOnUnload, TaskType, taskVars
<1>21. ASSUME NEW t \in Task, SetupEntryTrue(t) PROVE TypeInv'
  BY <1>1, <1>2, <1>3, <1>4, <1>5, <1>21, FinishType, CancelType DEF SetupEntryTrue
<1>22. ASSUME NEW t \in Task, SetupEntryFalse(t) PROVE TypeInv'
  BY <1>1, <1>2, <1>3, <1>4, <1>5, <1>22, FinishType, CancelType DEF SetupEntryFalse
<1>23. ASSUME NEW t \in Task, SetupEntryError(t) PROVE TypeInv'
  BY <1>1, <1>2, <1>3, <1>4, <1>5, <1>23, FinishType, AwaitType DEF SetupEntryError
<1>24. ASSUME NEW t \in Task, CleanupErrorDone(t) PROVE TypeInv'
  BY <1>1, <1>2, <1>3, <1>4, <1>5, <1>24, FinishType, CancelType DEF CleanupErrorDone
<1>25. ASSUME NEW t \in Task, SetupEntryNotReady(t) PROVE TypeInv'
  BY <1>1, <1>2, <1>3, <1>4, <1>5, <1>25, FinishType, AwaitType, ScheduleType DEF SetupEntryNotReady
<1>26. ASSUME NEW t \in Task, CleanupRetryDone(t) PROVE TypeInv'
  BY <1>1, <1>2, <1>3, <1>4, <1>5, <1>26, FinishType DEF CleanupRetryDone
<1>27. ASSUME NEW t \in Task, UnloadEntryTrue(t) PROVE TypeInv'
  BY <1>1, <1>2, <1>3, <1>4, <1>5, <1>27, AfterUnloadType, AwaitType DEF UnloadEntryTrue
<1>28. ASSUME NEW t \in Task, UnloadEntryFalse(t) PROVE TypeInv'
  BY <1>1, <1>2, <1>3, <1>4, <1>5, <1>28, AfterUnloadType, AwaitType DEF UnloadEntryFalse
<1>29. ASSUME NEW t \in Task, UnloadEntryRaises(t) PROVE TypeInv'
  BY <1>1, <1>2, <1>3, <1>4, <1>5, <1>29, AfterUnloadType DEF UnloadEntryRaises
<1>30. ASSUME NEW t \in Task, CleanupUnloadDone(t) PROVE TypeInv'
  BY <1>1, <1>2, <1>3, <1>4, <1>5, <1>30, AfterUnloadType DEF CleanupUnloadDone
<1>31. ASSUME NEW t \in Task, Removed(t) PROVE TypeInv'
  BY <1>1, <1>2, <1>3, <1>4, <1>5, <1>31, FinishType DEF Removed
<1>32. ASSUME NEW t \in Task, RetryTimer(t) PROVE TypeInv'
  BY <1>1, <1>2, <1>3, <1>4, <1>5, <1>32, EntrySetupType DEF RetryTimer, TaskType, RetryType, HandleSound, taskVars
<1>33. CASE Started
  BY <1>1, <1>3, <1>5, <1>33 DEF Started, RetryType, TaskType, HandleSound
<1>34. CASE Stop
  BY <1>1, <1>2, <1>3, <1>5, <1>34, CancelType DEF Stop, TaskType, taskVars
<1>35. CASE UNCHANGED vars
  BY <1>1, <1>2, <1>5, <1>35 DEF vars, TaskType, taskVars
<1> QED
  BY <1>6, <1>7, <1>8, <1>9, <1>10, <1>11, <1>12, <1>13, <1>14, <1>15, <1>16, <1>17, <1>18, <1>19, <1>20, <1>21, <1>22, <1>23, <1>24, <1>25, <1>26, <1>27, <1>28, <1>29, <1>30, <1>31, <1>32, <1>33, <1>34, <1>35
  DEF Next, Call, Progress, SetupEntryReturns, UnloadEntryReturns

\* Every variable keeps its type, whatever the calls: in particular no count
\* of scheduled retries drops below zero when one is cancelled.
THEOREM TypeCorrect == Spec => []TypeOK
<1>1. Spec => []TypeInv
  BY TypeInit, TypeStep, PTL DEF Spec
<1>2. TypeInv => TypeOK
  BY DEF TypeInv
<1> QED BY <1>1, <1>2, PTL

-----------------------------------------------------------------------------
(* Orderly calls: OrderlyInv is inductive. *)

\* The inductive invariant of orderly calls holds at the start.
LEMMA OrderlyInit == Init => OrderlyInv
<1> SUFFICES ASSUME Init PROVE OrderlyInv
  OBVIOUS
<1>1. TypeOK
  BY TypeInit DEF TypeInv
<1>2. \A t \in Task : pc[t] = "idle" /\ op[t] = "none"
  BY DEF Init
<1>3. SetupExclusive /\ LockHeld /\ AwaitsMatchState
  BY <1>2 DEF Init, SetupExclusive, LockHeld, AwaitsMatchState, SettingUp, LockedOps
<1>4. UnloadedBefore /\ LoadedIffLive /\ RetryIsCancellable /\ NoTimerWhileStopping
  BY DEF Init, UnloadedBefore, LoadedIffLive, RetryIsCancellable, NoTimerWhileStopping
<1> QED BY <1>1, <1>3, <1>4 DEF OrderlyInv

\* A retry handle that counts is sound for cancelling.
LEMMA OrderlyIsTyped == OrderlyInv => TypeInv
  BY DEF OrderlyInv, TypeInv, TypeOK, HandleSound, RetryIsCancellable

\* No step of orderly calls breaks it: the heart of the safety argument.
LEMMA OrderlyStep == Orderly /\ OrderlyInv /\ [Next]_vars => OrderlyInv'
<1> SUFFICES ASSUME Orderly, OrderlyInv, [Next]_vars PROVE OrderlyInv'
  OBVIOUS
<1>1. TypeOK /\ TypeOK'
  BY OrderlyIsTyped, TypeStep DEF TypeInv
<1>2. SetupExclusive /\ LockHeld /\ AwaitsMatchState /\ UnloadedBefore /\ LoadedIffLive
      /\ RetryIsCancellable /\ NoTimerWhileStopping
  BY DEF OrderlyInv
<1> DEFINE Rest == UnloadedBefore /\ LoadedIffLive /\ RetryIsCancellable /\ NoTimerWhileStopping
<1>3. SetupExclusive' /\ LockHeld' /\ AwaitsMatchState' /\ Rest' => OrderlyInv'
  BY <1>1 DEF OrderlyInv
<1> USE <1>1, <1>2, TaskAssumption
<1> USE DEF TypeOK, SetupExclusive, LockHeld, AwaitsMatchState, UnloadedBefore, LoadedIffLive,
            RetryIsCancellable, NoTimerWhileStopping, Idle, LockedOps, SettingUp, Recoverable, retryVars
<1>4. ASSUME NEW t \in Task, Add(t) PROVE OrderlyInv'
  <2>1. SetupExclusive'
    BY <1>4 DEF Add, ManagerSetup, EntrySetup, Await, Finish
  <2>2. LockHeld'
    BY <1>4 DEF Add, ManagerSetup, EntrySetup, Await, Finish
  <2>3. AwaitsMatchState'
    BY <1>4 DEF Add, ManagerSetup, EntrySetup, Await, Finish
  <2>4. Rest'
    BY <1>4 DEF Add, ManagerSetup, EntrySetup, Await, Finish
  <2> QED BY <1>3, <2>1, <2>2, <2>3, <2>4
<1>5. ASSUME NEW t \in Task, CallSetup(t) PROVE OrderlyInv'
  <2>1. SetupExclusive'
    BY <1>5 DEF CallSetup, ManagerSetup, EntrySetup, Await, Finish
  <2>2. LockHeld'
    BY <1>5 DEF CallSetup, ManagerSetup, EntrySetup, Await, Finish
  <2>3. AwaitsMatchState'
    BY <1>5 DEF CallSetup, ManagerSetup, EntrySetup, Await, Finish
  <2>4. Rest'
    BY <1>5 DEF CallSetup, ManagerSetup, EntrySetup, Await, Finish
  <2> QED BY <1>3, <2>1, <2>2, <2>3, <2>4
<1>6. ASSUME NEW t \in Task, CallReload(t) PROVE OrderlyInv'
  <2>1. SetupExclusive'
    BY <1>6 DEF CallReload, Reload, ManagerUnload, EntryUnload, AfterUnload, ManagerSetup, EntrySetup, Await, Finish, CancelRetry
  <2>2. LockHeld'
    BY <1>6 DEF CallReload, Reload, ManagerUnload, EntryUnload, AfterUnload, ManagerSetup, EntrySetup, Await, Finish, CancelRetry
  <2>3. AwaitsMatchState'
    BY <1>6 DEF CallReload, Reload, ManagerUnload, EntryUnload, AfterUnload, ManagerSetup, EntrySetup, Await, Finish, CancelRetry
  <2>4. Rest'
    BY <1>6 DEF CallReload, Reload, ManagerUnload, EntryUnload, AfterUnload, ManagerSetup, EntrySetup, Await, Finish, CancelRetry
  <2> QED BY <1>3, <2>1, <2>2, <2>3, <2>4
<1>7. ASSUME NEW t \in Task, ScheduleReload(t) PROVE OrderlyInv'
  <2>1. SetupExclusive'
    BY <1>7 DEF ScheduleReload, CancelRetry
  <2>2. LockHeld'
    BY <1>7 DEF ScheduleReload, CancelRetry
  <2>3. AwaitsMatchState'
    BY <1>7 DEF ScheduleReload, CancelRetry
  <2>4. Rest'
    BY <1>7 DEF ScheduleReload, CancelRetry
  <2> QED BY <1>3, <2>1, <2>2, <2>3, <2>4
<1>8. ASSUME NEW t \in Task, StartScheduledReload(t) PROVE OrderlyInv'
  <2>1. SetupExclusive'
    BY <1>8 DEF StartScheduledReload, Reload, ManagerUnload, EntryUnload, AfterUnload, ManagerSetup, EntrySetup, Await, Finish, CancelRetry
  <2>2. LockHeld'
    BY <1>8 DEF StartScheduledReload, Reload, ManagerUnload, EntryUnload, AfterUnload, ManagerSetup, EntrySetup, Await, Finish, CancelRetry
  <2>3. AwaitsMatchState'
    BY <1>8 DEF StartScheduledReload, Reload, ManagerUnload, EntryUnload, AfterUnload, ManagerSetup, EntrySetup, Await, Finish, CancelRetry
  <2>4. Rest'
    BY <1>8 DEF StartScheduledReload, Reload, ManagerUnload, EntryUnload, AfterUnload, ManagerSetup, EntrySetup, Await, Finish, CancelRetry
  <2> QED BY <1>3, <2>1, <2>2, <2>3, <2>4
<1>9. ASSUME NEW t \in Task, SetDisabledBy(t) PROVE OrderlyInv'
  <2>1. SetupExclusive'
    BY <1>9 DEF SetDisabledBy, Reload, ManagerUnload, EntryUnload, AfterUnload, ManagerSetup, EntrySetup, Await, Finish, CancelRetry
  <2>2. LockHeld'
    BY <1>9 DEF SetDisabledBy, Reload, ManagerUnload, EntryUnload, AfterUnload, ManagerSetup, EntrySetup, Await, Finish, CancelRetry
  <2>3. AwaitsMatchState'
    BY <1>9 DEF SetDisabledBy, Reload, ManagerUnload, EntryUnload, AfterUnload, ManagerSetup, EntrySetup, Await, Finish, CancelRetry
  <2>4. Rest'
    BY <1>9 DEF SetDisabledBy, Reload, ManagerUnload, EntryUnload, AfterUnload, ManagerSetup, EntrySetup, Await, Finish, CancelRetry
  <2> QED BY <1>3, <2>1, <2>2, <2>3, <2>4
<1>10. ASSUME NEW t \in Task, AcquireReloadLock(t) PROVE OrderlyInv'
  <2>1. SetupExclusive'
    BY <1>10 DEF AcquireReloadLock, ManagerUnload, EntryUnload, AfterUnload, ManagerSetup, EntrySetup, Await, Finish, CancelRetry
  <2>2. LockHeld'
    BY <1>10 DEF AcquireReloadLock, ManagerUnload, EntryUnload, AfterUnload, ManagerSetup, EntrySetup, Await, Finish, CancelRetry
  <2>3. AwaitsMatchState'
    BY <1>10 DEF AcquireReloadLock, ManagerUnload, EntryUnload, AfterUnload, ManagerSetup, EntrySetup, Await, Finish, CancelRetry
  <2>4. Rest'
    BY <1>10 DEF AcquireReloadLock, ManagerUnload, EntryUnload, AfterUnload, ManagerSetup, EntrySetup, Await, Finish, CancelRetry
  <2> QED BY <1>3, <2>1, <2>2, <2>3, <2>4
<1>11. ASSUME NEW t \in Task, StartComponent(t) PROVE OrderlyInv'
  <2>1. SetupExclusive'
    BY <1>11 DEF StartComponent, Await
  <2>2. LockHeld'
    BY <1>11 DEF StartComponent, Await
  <2>3. AwaitsMatchState'
    BY <1>11 DEF StartComponent, Await
  <2>4. Rest'
    BY <1>11 DEF StartComponent, Await
  <2> QED BY <1>3, <2>1, <2>2, <2>3, <2>4
<1>12. ASSUME NEW t \in Task, ComponentReady(t) PROVE OrderlyInv'
  <2>1. SetupExclusive'
    BY <1>12 DEF ComponentReady, EntrySetup, Await, Finish
  <2>2. LockHeld'
    BY <1>12 DEF ComponentReady, EntrySetup, Await, Finish
  <2>3. AwaitsMatchState'
    BY <1>12 DEF ComponentReady, EntrySetup, Await, Finish
  <2>4. Rest'
    BY <1>12 DEF ComponentReady, EntrySetup, Await, Finish
  <2> QED BY <1>3, <2>1, <2>2, <2>3, <2>4
<1>13. ASSUME NEW t \in Task, ComponentFails(t) PROVE OrderlyInv'
  <2>1. SetupExclusive'
    BY <1>13 DEF ComponentFails
  <2>2. LockHeld'
    BY <1>13 DEF ComponentFails
  <2>3. AwaitsMatchState'
    BY <1>13 DEF ComponentFails
  <2>4. Rest'
    BY <1>13 DEF ComponentFails
  <2> QED BY <1>3, <2>1, <2>2, <2>3, <2>4
<1>14. ASSUME NEW t \in Task, ComponentAwaited(t) PROVE OrderlyInv'
  <2>1. SetupExclusive'
    BY <1>14 DEF ComponentAwaited, Finish
  <2>2. LockHeld'
    BY <1>14 DEF ComponentAwaited, Finish
  <2>3. AwaitsMatchState'
    BY <1>14 DEF ComponentAwaited, Finish
  <2>4. Rest'
    BY <1>14 DEF ComponentAwaited, Finish
  <2> QED BY <1>3, <2>1, <2>2, <2>3, <2>4
<1>15. ASSUME NEW t \in Task, Prepared(t) PROVE OrderlyInv'
  <2>1. SetupExclusive'
    BY <1>15 DEF Prepared, Await, Finish
  <2>2. LockHeld'
    BY <1>15 DEF Prepared, Await, Finish
  <2>3. AwaitsMatchState'
    BY <1>15 DEF Prepared, Await, Finish
  <2>4. Rest'
    BY <1>15 DEF Prepared, Await, Finish
  <2> QED BY <1>3, <2>1, <2>2, <2>3, <2>4
<1>16. ASSUME NEW t \in Task, RegisterOnUnload(t) PROVE OrderlyInv'
  <2>1. SetupExclusive'
    BY <1>16 DEF RegisterOnUnload, taskVars
  <2>2. LockHeld'
    BY <1>16 DEF RegisterOnUnload, taskVars
  <2>3. AwaitsMatchState'
    BY <1>16 DEF RegisterOnUnload, taskVars
  <2>4. Rest'
    BY <1>16 DEF RegisterOnUnload, taskVars
  <2> QED BY <1>3, <2>1, <2>2, <2>3, <2>4
<1>17. ASSUME NEW t \in Task, SetupEntryTrue(t) PROVE OrderlyInv'
  <2>1. SetupExclusive'
    BY <1>17 DEF SetupEntryTrue, CancelRetry, Finish
  <2>2. LockHeld'
    BY <1>17 DEF SetupEntryTrue, CancelRetry, Finish
  <2>3. AwaitsMatchState'
    BY <1>17 DEF SetupEntryTrue, CancelRetry, Finish
  <2>4. Rest'
    BY <1>17 DEF SetupEntryTrue, CancelRetry, Finish
  <2> QED BY <1>3, <2>1, <2>2, <2>3, <2>4
<1>18. ASSUME NEW t \in Task, SetupEntryFalse(t) PROVE OrderlyInv'
  <2>1. SetupExclusive'
    BY <1>18 DEF SetupEntryFalse, CancelRetry, Finish
  <2>2. LockHeld'
    BY <1>18 DEF SetupEntryFalse, CancelRetry, Finish
  <2>3. AwaitsMatchState'
    BY <1>18 DEF SetupEntryFalse, CancelRetry, Finish
  <2>4. Rest'
    BY <1>18 DEF SetupEntryFalse, CancelRetry, Finish
  <2> QED BY <1>3, <2>1, <2>2, <2>3, <2>4
<1>19. ASSUME NEW t \in Task, SetupEntryError(t) PROVE OrderlyInv'
  <2>1. SetupExclusive'
    BY <1>19 DEF SetupEntryError, Await, Finish
  <2>2. LockHeld'
    BY <1>19 DEF SetupEntryError, Await, Finish
  <2>3. AwaitsMatchState'
    BY <1>19 DEF SetupEntryError, Await, Finish
  <2>4. Rest'
    BY <1>19 DEF SetupEntryError, Await, Finish
  <2> QED BY <1>3, <2>1, <2>2, <2>3, <2>4
<1>20. ASSUME NEW t \in Task, CleanupErrorDone(t) PROVE OrderlyInv'
  <2>1. SetupExclusive'
    BY <1>20 DEF CleanupErrorDone, CancelRetry, Finish
  <2>2. LockHeld'
    BY <1>20 DEF CleanupErrorDone, CancelRetry, Finish
  <2>3. AwaitsMatchState'
    BY <1>20 DEF CleanupErrorDone, CancelRetry, Finish
  <2>4. Rest'
    BY <1>20 DEF CleanupErrorDone, CancelRetry, Finish
  <2> QED BY <1>3, <2>1, <2>2, <2>3, <2>4
<1>21. ASSUME NEW t \in Task, SetupEntryNotReady(t) PROVE OrderlyInv'
  <2>1. SetupExclusive'
    BY <1>21 DEF SetupEntryNotReady, ScheduleRetry, Await, Finish
  <2>2. LockHeld'
    BY <1>21 DEF SetupEntryNotReady, ScheduleRetry, Await, Finish
  <2>3. AwaitsMatchState'
    BY <1>21 DEF SetupEntryNotReady, ScheduleRetry, Await, Finish
  <2>4. Rest'
    BY <1>21 DEF SetupEntryNotReady, ScheduleRetry, Await, Finish
  <2> QED BY <1>3, <2>1, <2>2, <2>3, <2>4
<1>22. ASSUME NEW t \in Task, CleanupRetryDone(t) PROVE OrderlyInv'
  <2>1. SetupExclusive'
    BY <1>22 DEF CleanupRetryDone, Finish
  <2>2. LockHeld'
    BY <1>22 DEF CleanupRetryDone, Finish
  <2>3. AwaitsMatchState'
    BY <1>22 DEF CleanupRetryDone, Finish
  <2>4. Rest'
    BY <1>22 DEF CleanupRetryDone, Finish
  <2> QED BY <1>3, <2>1, <2>2, <2>3, <2>4
<1>23. ASSUME NEW t \in Task, UnloadEntryTrue(t) PROVE OrderlyInv'
  <2>1. SetupExclusive'
    BY <1>23 DEF UnloadEntryTrue, AfterUnload, ManagerSetup, EntrySetup, Await, Finish
  <2>2. LockHeld'
    BY <1>23 DEF UnloadEntryTrue, AfterUnload, ManagerSetup, EntrySetup, Await, Finish
  <2>3. AwaitsMatchState'
    BY <1>23 DEF UnloadEntryTrue, AfterUnload, ManagerSetup, EntrySetup, Await, Finish
  <2>4. Rest'
    BY <1>23 DEF UnloadEntryTrue, AfterUnload, ManagerSetup, EntrySetup, Await, Finish
  <2> QED BY <1>3, <2>1, <2>2, <2>3, <2>4
<1>24. ASSUME NEW t \in Task, UnloadEntryFalse(t) PROVE OrderlyInv'
  <2>1. SetupExclusive'
    BY <1>24 DEF UnloadEntryFalse, AfterUnload, ManagerSetup, EntrySetup, Await, Finish
  <2>2. LockHeld'
    BY <1>24 DEF UnloadEntryFalse, AfterUnload, ManagerSetup, EntrySetup, Await, Finish
  <2>3. AwaitsMatchState'
    BY <1>24 DEF UnloadEntryFalse, AfterUnload, ManagerSetup, EntrySetup, Await, Finish
  <2>4. Rest'
    BY <1>24 DEF UnloadEntryFalse, AfterUnload, ManagerSetup, EntrySetup, Await, Finish
  <2> QED BY <1>3, <2>1, <2>2, <2>3, <2>4
<1>25. ASSUME NEW t \in Task, UnloadEntryRaises(t) PROVE OrderlyInv'
  <2>1. SetupExclusive'
    BY <1>25 DEF UnloadEntryRaises, AfterUnload, ManagerSetup, EntrySetup, Await, Finish
  <2>2. LockHeld'
    BY <1>25 DEF UnloadEntryRaises, AfterUnload, ManagerSetup, EntrySetup, Await, Finish
  <2>3. AwaitsMatchState'
    BY <1>25 DEF UnloadEntryRaises, AfterUnload, ManagerSetup, EntrySetup, Await, Finish
  <2>4. Rest'
    BY <1>25 DEF UnloadEntryRaises, AfterUnload, ManagerSetup, EntrySetup, Await, Finish
  <2> QED BY <1>3, <2>1, <2>2, <2>3, <2>4
<1>26. ASSUME NEW t \in Task, CleanupUnloadDone(t) PROVE OrderlyInv'
  <2>1. SetupExclusive'
    BY <1>26 DEF CleanupUnloadDone, AfterUnload, ManagerSetup, EntrySetup, Await, Finish
  <2>2. LockHeld'
    BY <1>26 DEF CleanupUnloadDone, AfterUnload, ManagerSetup, EntrySetup, Await, Finish
  <2>3. AwaitsMatchState'
    BY <1>26 DEF CleanupUnloadDone, AfterUnload, ManagerSetup, EntrySetup, Await, Finish
  <2>4. Rest'
    BY <1>26 DEF CleanupUnloadDone, AfterUnload, ManagerSetup, EntrySetup, Await, Finish
  <2> QED BY <1>3, <2>1, <2>2, <2>3, <2>4
<1>27. ASSUME NEW t \in Task, RetryTimer(t) PROVE OrderlyInv'
  <2>1. SetupExclusive'
    BY <1>27 DEF RetryTimer, EntrySetup, Await, Finish, taskVars
  <2>2. LockHeld'
    BY <1>27 DEF RetryTimer, EntrySetup, Await, Finish, taskVars
  <2>3. AwaitsMatchState'
    BY <1>27 DEF RetryTimer, EntrySetup, Await, Finish, taskVars
  <2>4. Rest'
    BY <1>27 DEF RetryTimer, EntrySetup, Await, Finish, taskVars
  <2> QED BY <1>3, <2>1, <2>2, <2>3, <2>4
<1>28. ASSUME NEW t \in Task, CallUnload(t) PROVE OrderlyInv'
  <2>1. SetupExclusive'
    BY <1>28 DEF Orderly, CallUnload, ManagerUnload, EntryUnload, AfterUnload, ManagerSetup, EntrySetup, Await, Finish, CancelRetry
  <2>2. LockHeld'
    BY <1>28 DEF Orderly, CallUnload, ManagerUnload, EntryUnload, AfterUnload, ManagerSetup, EntrySetup, Await, Finish, CancelRetry
  <2>3. AwaitsMatchState'
    BY <1>28 DEF Orderly, CallUnload, ManagerUnload, EntryUnload, AfterUnload, ManagerSetup, EntrySetup, Await, Finish, CancelRetry
  <2>4. Rest'
    BY <1>28 DEF Orderly, CallUnload, ManagerUnload, EntryUnload, AfterUnload, ManagerSetup, EntrySetup, Await, Finish, CancelRetry
  <2> QED BY <1>3, <2>1, <2>2, <2>3, <2>4
<1>32. ASSUME NEW t \in Task, CallRemove(t) PROVE OrderlyInv'
  <2>1. SetupExclusive'
    BY <1>32 DEF Orderly, CallRemove, EntryUnload, AfterUnload, ManagerSetup, EntrySetup, Await, Finish, CancelRetry
  <2>2. LockHeld'
    BY <1>32 DEF Orderly, CallRemove, EntryUnload, AfterUnload, ManagerSetup, EntrySetup, Await, Finish, CancelRetry
  <2>3. AwaitsMatchState'
    BY <1>32 DEF Orderly, CallRemove, EntryUnload, AfterUnload, ManagerSetup, EntrySetup, Await, Finish, CancelRetry
  <2>4. Rest'
    BY <1>32 DEF Orderly, CallRemove, EntryUnload, AfterUnload, ManagerSetup, EntrySetup, Await, Finish, CancelRetry
  <2> QED BY <1>3, <2>1, <2>2, <2>3, <2>4
<1>33. ASSUME NEW t \in Task, Removed(t) PROVE OrderlyInv'
  <2>1. SetupExclusive'
    BY <1>33 DEF Removed, Finish
  <2>2. LockHeld'
    BY <1>33 DEF Removed, Finish
  <2>3. AwaitsMatchState'
    BY <1>33 DEF Removed, Finish
  <2>4. Rest'
    BY <1>33 DEF Removed, Finish
  <2> QED BY <1>3, <2>1, <2>2, <2>3, <2>4
<1>29. CASE Started
  <2>1. PICK S \in SUBSET {t \in Task : Idle(t)} :
          /\ Cardinality(S) = listeners
          /\ IF S # {} /\ ~disabled
             THEN /\ state' = "SETUP_IN_PROGRESS"
                  /\ op' = [t \in Task |-> IF t \in S THEN "retry" ELSE op[t]]
                  /\ pc' = [t \in Task |-> IF t \in S THEN "prepare" ELSE pc[t]]
             ELSE UNCHANGED <<state, op, pc>>
    BY <1>29 DEF Started
  <2>2. IsFiniteSet(S)
    BY TaskFinite, FS_Subset
  <2>3. S = {} <=> listeners = 0
    BY <2>1, <2>2, FS_EmptySet
  <2>4. listeners \in {0, 1}
    OBVIOUS
  <2>5. \A t, u \in S : t = u
    BY <2>1, <2>2, <2>3, <2>4, FS_Singleton
  <2>6. UNCHANGED <<inComponents, registered, timers, live, reloadLock, setupFuture>>
        /\ hass' = "running" /\ listeners' = 0
        /\ cancelRetry' = IF listeners > 0 THEN "none" ELSE cancelRetry
    BY <1>29 DEF Started
  <2>7. SetupExclusive' /\ LockHeld' /\ AwaitsMatchState'
    BY <2>1, <2>3, <2>5, <2>6
  <2>8. Rest'
    BY <2>1, <2>3, <2>6
  <2> QED BY <1>3, <2>7, <2>8
<1>30. CASE Stop
  BY <1>3, <1>30 DEF Stop, CancelRetry, taskVars
<1>31. CASE UNCHANGED vars
  BY <1>3, <1>31 DEF vars, taskVars
<1> QED
  BY <1>4, <1>5, <1>6, <1>7, <1>8, <1>9, <1>10, <1>11, <1>12, <1>13, <1>14, <1>15, <1>16, <1>17, <1>18, <1>19, <1>20, <1>21, <1>22, <1>23, <1>24, <1>25, <1>26, <1>27, <1>28, <1>29, <1>30, <1>31, <1>32, <1>33
  DEF Next, Call, Progress, SetupEntryReturns, UnloadEntryReturns

\* The inductive invariant of orderly calls, and what follows from it.
THEOREM OrderlySafety == Orderly => (Spec => []OrderlyInv)
<1> SUFFICES ASSUME Orderly PROVE Spec => []OrderlyInv
  OBVIOUS
<1>1. OrderlyInv /\ [Next]_vars => OrderlyInv'
  BY OrderlyStep
<1> QED BY OrderlyInit, <1>1, PTL DEF Spec

\* Two of the integration's coroutines never run at once for one entry: a
\* set-up needs a state in which nobody sets up or unloads, and an unload
\* holds reload_lock while the state stays LOADED.
THEOREM OrderlyExclusive == Orderly => (Spec => []IntegrationExclusive)
<1>1. OrderlyInv => IntegrationExclusive
  BY DEF OrderlyInv, IntegrationExclusive, SetupExclusive, LockHeld, AwaitsMatchState, SettingUp
<1> QED BY <1>1, OrderlySafety, PTL

\* LOADED tells the truth about the integration, and a scheduled retry is
\* always within reach of async_cancel_retry_setup.
THEOREM OrderlyLoadedIffLive == Orderly => (Spec => []LoadedIffLive)
<1>1. OrderlyInv => LoadedIffLive
  BY DEF OrderlyInv
<1> QED BY <1>1, OrderlySafety, PTL

\* With orderly calls async_cancel_retry_setup reaches every scheduled retry.
THEOREM OrderlyRetryIsCancellable == Orderly => (Spec => []RetryIsCancellable)
<1>1. OrderlyInv => RetryIsCancellable
  BY DEF OrderlyInv
<1> QED BY <1>1, OrderlySafety, PTL

\* With orderly calls no retry timer is pending once the stop has begun.
THEOREM OrderlyNoTimerWhileStopping == Orderly => (Spec => []NoTimerWhileStopping)
<1>1. OrderlyInv => NoTimerWhileStopping
  BY DEF OrderlyInv
<1> QED BY <1>1, OrderlySafety, PTL

-----------------------------------------------------------------------------
(* The abstract service *)

\* An entry that starts is a service that starts.
LEMMA ServiceInit == Init => Service!SInit
<1> SUFFICES ASSUME Init PROVE Service!SInit
  OBVIOUS
<1>1. \A t \in Task : pc[t] = "idle"
  BY DEF Init
<1> QED BY <1>1 DEF Init, Service!SInit

\* No two tasks are inside the integration, so "the" task inside is a singleton.
LEMMA AtMostOneInside ==
  ASSUME OrderlyInv, NEW t \in Task
  PROVE  /\ pc[t] = "setup_entry" =>
              /\ {u \in Task : pc[u] = "setup_entry"} = {t}
              /\ {u \in Task : pc[u] = "unload_entry"} = {}
              /\ ~live /\ state = "SETUP_IN_PROGRESS"
         /\ pc[t] = "unload_entry" =>
              /\ {u \in Task : pc[u] = "unload_entry"} = {t}
              /\ {u \in Task : pc[u] = "setup_entry"} = {}
              /\ live /\ state = "LOADED"
         /\ pc[t] = "prepare" =>
              /\ {u \in Task : pc[u] = "setup_entry"} = {}
              /\ {u \in Task : pc[u] = "unload_entry"} = {}
              /\ ~live /\ state = "SETUP_IN_PROGRESS"
  BY DEF OrderlyInv, SetupExclusive, LockHeld, AwaitsMatchState, SettingUp, LoadedIffLive

Inside == {"setup_entry", "unload_entry"}
Broken == state = "FAILED_UNLOAD"

\* Nobody enters or leaves the integration: the abstract service stutters.
Outside == \A u \in Task : pc[u] \in Inside \/ pc'[u] \in Inside => pc'[u] = pc[u]

\* A slice that neither enters nor leaves the integration is a stutter of the service.
LEMMA OutsideStutters ==
  ASSUME Outside, live' = live, Broken' = Broken
  PROVE  UNCHANGED Service!svars
<1>1. {u \in Task : pc'[u] = "setup_entry"} = {u \in Task : pc[u] = "setup_entry"}
  BY DEF Outside, Inside
<1>2. {u \in Task : pc'[u] = "unload_entry"} = {u \in Task : pc[u] = "unload_entry"}
  BY DEF Outside, Inside
<1> QED BY <1>1, <1>2 DEF Service!svars, Broken

\* A call that unloads: it enters the integration, or cannot and breaks the
\* entry, or stays outside.
LEMMA EntryUnloadSlice ==
  ASSUME TypeOK, NEW t \in Task, NEW o, pc[t] \notin Inside, EntryUnload(t, o)
  PROVE  \/ Outside /\ Broken' = Broken
         \/ Outside /\ state = "LOADED" /\ state' = "FAILED_UNLOAD"
         \/ state = "LOADED" /\ state' = state /\ pc' = [pc EXCEPT ![t] = "unload_entry"]
<1> USE DEF TypeOK, AfterUnload, ManagerSetup, EntrySetup, Await, Finish, Outside, Broken, Inside,
            Recoverable
<1>1. CASE state = "NOT_LOADED" /\ AfterUnload(t, o, TRUE, state)
  BY <1>1
<1>2. CASE state \in Recoverable \ {"NOT_LOADED", "LOADED"} /\ AfterUnload(t, o, TRUE, "NOT_LOADED")
  BY <1>2
<1>3. CASE state = "LOADED" /\ Await(t, o, "unload_entry") /\ UNCHANGED <<state, retryVars>>
  BY <1>3
<1>4. CASE state = "LOADED" /\ AfterUnload(t, o, FALSE, "FAILED_UNLOAD")
  BY <1>4
<1> QED BY <1>1, <1>2, <1>3, <1>4 DEF EntryUnload

\* A slice of a reload leaves the integration alone, marks it broken for good, or asks it to unload.
LEMMA ReloadSlice ==
  ASSUME TypeOK, NEW t \in Task, NEW o, pc[t] \notin Inside,
         Reload(t, o) \/ ManagerUnload(t, o)
  PROVE  \/ Outside /\ Broken' = Broken
         \/ Outside /\ state = "LOADED" /\ state' = "FAILED_UNLOAD"
         \/ state = "LOADED" /\ state' = state /\ pc' = [pc EXCEPT ![t] = "unload_entry"]
<1>1. CASE EntryUnload(t, o)
  BY <1>1, EntryUnloadSlice
<1>2. CASE Finish(t) /\ UNCHANGED <<state, retryVars>>
  BY <1>2 DEF TypeOK, Finish, Outside, Broken, Inside
<1>3. CASE /\ op' = [op EXCEPT ![t] = o] /\ pc' = [pc EXCEPT ![t] = "lock"]
           /\ UNCHANGED <<state, retryVars, reloadLock, setupFuture>>
  BY <1>3 DEF TypeOK, Outside, Broken, Inside
<1> QED BY <1>1, <1>2, <1>3 DEF Reload, ManagerUnload

\* A call that unloads enters the integration, or cannot and breaks the
\* entry, or stays outside.
LEMMA UnloadSlice ==
  ASSUME OrderlyInv, NEW t \in Task,
         \/ CallUnload(t) \/ CallReload(t) \/ StartScheduledReload(t)
         \/ SetDisabledBy(t) \/ AcquireReloadLock(t) \/ CallRemove(t)
  PROVE  /\ live' = live
         /\ \/ Outside /\ Broken' = Broken
            \/ Outside /\ state = "LOADED" /\ state' = "FAILED_UNLOAD"
            \/ state = "LOADED" /\ state' = state /\ pc' = [pc EXCEPT ![t] = "unload_entry"]
<1> USE DEF OrderlyInv, Idle, Inside
<1>1. CASE CallUnload(t)
  BY <1>1, ReloadSlice DEF CallUnload
<1>2. CASE CallReload(t)
  BY <1>2, ReloadSlice DEF CallReload
<1>3. CASE StartScheduledReload(t) /\ Reload(t, "reload")
  BY <1>3, ReloadSlice DEF StartScheduledReload
<1>4. CASE StartScheduledReload(t) /\ Finish(t) /\ UNCHANGED state
  BY <1>4 DEF StartScheduledReload, TypeOK, Finish, Outside, Broken
<1>5. CASE SetDisabledBy(t)
  BY <1>5, ReloadSlice DEF SetDisabledBy
<1>6. CASE AcquireReloadLock(t)
  BY <1>6, ReloadSlice DEF AcquireReloadLock
<1>7. CASE CallRemove(t) /\ EntryUnload(t, "remove")
  BY <1>7, EntryUnloadSlice DEF CallRemove
<1>8. CASE CallRemove(t) /\ UNCHANGED state
           /\ Await(t, "remove", IF state = "FAILED_UNLOAD" THEN "remove_entry_restart" ELSE "remove_entry")
  BY <1>8 DEF CallRemove, TypeOK, Await, Outside, Broken
<1> QED BY <1>1, <1>2, <1>3, <1>4, <1>5, <1>6, <1>7, <1>8 DEF StartScheduledReload, CallRemove

\* Leaving the integration empties it.
LEMMA SetupEnds ==
  ASSUME OrderlyInv, NEW t \in Task, pc[t] = "setup_entry", NEW p \in PC \ Inside,
         pc' = [pc EXCEPT ![t] = p], live' \in BOOLEAN, ~Broken'
  PROVE  Service!EndSetup(t)
<1>1. {u \in Task : pc[u] = "setup_entry"} = {t} /\ state # "FAILED_UNLOAD"
      /\ {u \in Task : pc[u] = "unload_entry"} = {}
  BY AtMostOneInside
<1>2. {u \in Task : pc'[u] = "setup_entry"} = {} /\ {u \in Task : pc'[u] = "unload_entry"} = {}
  BY <1>1 DEF OrderlyInv, TypeOK, Inside
<1> QED BY <1>1, <1>2 DEF Service!EndSetup, Broken

\* A task that leaves async_unload_entry for a place outside the integration is an EndUnload.
LEMMA UnloadEnds ==
  ASSUME OrderlyInv, NEW t \in Task, pc[t] = "unload_entry", NEW p \in PC \ Inside,
         pc' = [pc EXCEPT ![t] = p], live' \in BOOLEAN
  PROVE  Service!EndUnload(t)
<1>1. {u \in Task : pc[u] = "unload_entry"} = {t} /\ {u \in Task : pc[u] = "setup_entry"} = {}
  BY AtMostOneInside
<1>2. {u \in Task : pc'[u] = "setup_entry"} = {} /\ {u \in Task : pc'[u] = "unload_entry"} = {}
  BY <1>1 DEF OrderlyInv, TypeOK, Inside
<1>3. (state' = "FAILED_UNLOAD") \in BOOLEAN
  OBVIOUS
<1> QED BY <1>1, <1>2, <1>3 DEF Service!EndUnload

\* A slice that enters async_setup_entry is a BeginSetup of the service.
LEMMA SetupBegins ==
  ASSUME OrderlyInv, NEW t \in Task, pc[t] = "prepare",
         pc' = [pc EXCEPT ![t] = "setup_entry"], live' = live, state' = state
  PROVE  Service!BeginSetup(t)
<1>1. {u \in Task : pc[u] = "setup_entry"} = {} /\ {u \in Task : pc[u] = "unload_entry"} = {}
      /\ ~live /\ state # "FAILED_UNLOAD"
  BY AtMostOneInside
<1>2. {u \in Task : pc'[u] = "setup_entry"} = {t} /\ {u \in Task : pc'[u] = "unload_entry"} = {}
  BY <1>1 DEF OrderlyInv, TypeOK
<1> QED BY <1>1, <1>2 DEF Service!BeginSetup, Service!Free

\* A slice that enters async_unload_entry is a BeginUnload of the service.
LEMMA UnloadBegins ==
  ASSUME OrderlyInv, OrderlyInv', NEW t \in Task, pc[t] # "unload_entry", state = "LOADED",
         pc' = [pc EXCEPT ![t] = "unload_entry"], live' = live, state' = state
  PROVE  Service!BeginUnload(t)
<1>1. pc'[t] = "unload_entry"
  BY DEF OrderlyInv, TypeOK
<1>2. {u \in Task : pc'[u] = "unload_entry"} = {t} /\ {u \in Task : pc'[u] = "setup_entry"} = {}
  BY <1>1 DEF OrderlyInv, SetupExclusive, LockHeld, AwaitsMatchState, SettingUp
<1>3. {u \in Task : pc[u] = "unload_entry"} = {}
  BY <1>2 DEF OrderlyInv, TypeOK
<1>4. {u \in Task : pc[u] = "setup_entry"} = {}
  BY DEF OrderlyInv, AwaitsMatchState, SettingUp
<1>5. live /\ state # "FAILED_UNLOAD"
  BY DEF OrderlyInv, LoadedIffLive
<1> QED BY <1>2, <1>3, <1>4, <1>5 DEF Service!BeginUnload, Service!Free

\* Without async_unload_entry nobody is inside when the entry breaks.
LEMMA Breaks ==
  ASSUME OrderlyInv, OrderlyInv', Outside, live' = live,
         state = "LOADED", state' = "FAILED_UNLOAD"
  PROVE  Service!Break
<1>1. {u \in Task : pc'[u] = "unload_entry"} = {} /\ {u \in Task : pc'[u] = "setup_entry"} = {}
  BY DEF OrderlyInv, AwaitsMatchState, SettingUp
<1>2. {u \in Task : pc[u] = "unload_entry"} = {} /\ {u \in Task : pc[u] = "setup_entry"} = {}
  BY <1>1 DEF Outside, Inside
<1>3. live
  BY DEF OrderlyInv, LoadedIffLive
<1> QED BY <1>1, <1>2, <1>3 DEF Service!Break, Service!Free

\* Every step of the entry is a step of the service or a stutter.
LEMMA ServiceStep ==
  OrderlyInv /\ OrderlyInv' /\ [Next]_vars => [Service!SNext]_(Service!svars)
<1> SUFFICES ASSUME OrderlyInv, OrderlyInv', [Next]_vars
             PROVE  [Service!SNext]_(Service!svars)
  OBVIOUS
<1>1. TypeOK /\ LoadedIffLive /\ RetryIsCancellable /\ AwaitsMatchState /\ UnloadedBefore
  BY DEF OrderlyInv
<1>2. Outside /\ live' = live /\ Broken' = Broken => UNCHANGED Service!svars
  BY OutsideStutters
<1> USE <1>1 DEF TypeOK, Outside, Broken, Inside
<1>3. ASSUME NEW t \in Task, Add(t) PROVE UNCHANGED Service!svars
  BY <1>2, <1>3 DEF Add, ManagerSetup, EntrySetup, Await, Finish, Idle
<1>4. ASSUME NEW t \in Task, CallSetup(t) PROVE UNCHANGED Service!svars
  BY <1>2, <1>4 DEF CallSetup, ManagerSetup, EntrySetup, Await, Finish, Idle
<1>5. ASSUME NEW t \in Task, ScheduleReload(t) PROVE UNCHANGED Service!svars
  BY <1>2, <1>5 DEF ScheduleReload, Idle
<1>6. ASSUME NEW t \in Task, StartComponent(t) PROVE UNCHANGED Service!svars
  BY <1>2, <1>6 DEF StartComponent, Await, Idle
<1>7. ASSUME NEW t \in Task, ComponentReady(t) PROVE UNCHANGED Service!svars
  BY <1>2, <1>7 DEF ComponentReady, EntrySetup, Await, Finish, AwaitsMatchState, UnloadedBefore
<1>8. ASSUME NEW t \in Task, ComponentFails(t) PROVE UNCHANGED Service!svars
  BY <1>2, <1>8 DEF ComponentFails
<1>9. ASSUME NEW t \in Task, ComponentAwaited(t) PROVE UNCHANGED Service!svars
  BY <1>2, <1>9 DEF ComponentAwaited, Finish
<1>10. ASSUME NEW t \in Task, RegisterOnUnload(t) PROVE UNCHANGED Service!svars
  BY <1>2, <1>10 DEF RegisterOnUnload, taskVars
<1>11. ASSUME NEW t \in Task, CleanupErrorDone(t) PROVE UNCHANGED Service!svars
  BY <1>2, <1>11 DEF CleanupErrorDone, Finish, AwaitsMatchState, SettingUp
<1>12. ASSUME NEW t \in Task, CleanupRetryDone(t) PROVE UNCHANGED Service!svars
  BY <1>2, <1>12 DEF CleanupRetryDone, Finish
<1>13. ASSUME NEW t \in Task, CleanupUnloadDone(t) PROVE UNCHANGED Service!svars
  BY <1>2, <1>13 DEF CleanupUnloadDone, AfterUnload, ManagerSetup, EntrySetup, Await, Finish
<1>14. ASSUME NEW t \in Task, Removed(t) PROVE UNCHANGED Service!svars
  BY <1>2, <1>14 DEF Removed, Finish
<1>15. ASSUME NEW t \in Task, RetryTimer(t) PROVE UNCHANGED Service!svars
  BY <1>2, <1>15 DEF RetryTimer, EntrySetup, Await, Finish, Idle, taskVars, RetryIsCancellable
<1>16. CASE Started
  <2>1. PICK S \in SUBSET {t \in Task : Idle(t)} :
          /\ Cardinality(S) = listeners
          /\ IF S # {} /\ ~disabled
             THEN /\ state' = "SETUP_IN_PROGRESS"
                  /\ op' = [t \in Task |-> IF t \in S THEN "retry" ELSE op[t]]
                  /\ pc' = [t \in Task |-> IF t \in S THEN "prepare" ELSE pc[t]]
             ELSE UNCHANGED <<state, op, pc>>
    BY <1>16 DEF Started
  <2>2. S # {} => listeners # 0
    BY <2>1, TaskFinite, FS_Subset, FS_EmptySet
  <2>3. S # {} => state = "SETUP_RETRY"
    BY <2>2 DEF RetryIsCancellable
  <2>4. live' = live
    BY <1>16 DEF Started
  <2> QED BY <1>2, <2>1, <2>3, <2>4 DEF Idle
<1>17. CASE Stop
  BY <1>2, <1>17 DEF Stop, taskVars
<1>18. CASE UNCHANGED vars
  BY <1>2, <1>18 DEF vars, taskVars
<1>19. ASSUME NEW t \in Task, Prepared(t)
      PROVE  Service!BeginSetup(t) \/ UNCHANGED Service!svars
  <2>1. CASE Finish(t) /\ state' \in {"SETUP_ERROR", "MIGRATION_ERROR"}
    BY <1>2, <1>19, <2>1 DEF Prepared, Finish, AwaitsMatchState, SettingUp
  <2>2. CASE Await(t, op[t], "setup_entry") /\ UNCHANGED state
    BY <1>19, <2>2, SetupBegins DEF Prepared, Await
  <2> QED BY <1>19, <2>1, <2>2 DEF Prepared
<1>20. ASSUME NEW t \in Task, SetupEntryReturns(t) PROVE Service!EndSetup(t)
  <2>1. pc[t] = "setup_entry" /\ state = "SETUP_IN_PROGRESS" /\ live' \in BOOLEAN
    BY <1>20, AtMostOneInside
       DEF SetupEntryReturns, SetupEntryTrue, SetupEntryFalse, SetupEntryError, SetupEntryNotReady
  <2>2. ~Broken' /\ \E p \in PC \ Inside : pc' = [pc EXCEPT ![t] = p]
    BY <1>20, <2>1
       DEF SetupEntryReturns, SetupEntryTrue, SetupEntryFalse, SetupEntryError, SetupEntryNotReady,
           Await, Finish, PC, SettingUp
  <2> QED BY <2>1, <2>2, SetupEnds
<1>21. ASSUME NEW t \in Task, UnloadEntryReturns(t) PROVE Service!EndUnload(t)
  <2>1. pc[t] = "unload_entry" /\ live' \in BOOLEAN
    BY <1>21
       DEF UnloadEntryReturns, UnloadEntryTrue, UnloadEntryFalse, UnloadEntryRaises
  <2>2. \/ \E p \in {"cleanup_unloaded", "cleanup_refused"} : Await(t, op[t], p)
        \/ AfterUnload(t, op[t], FALSE, "FAILED_UNLOAD")
    BY <1>21
       DEF UnloadEntryReturns, UnloadEntryTrue, UnloadEntryFalse, UnloadEntryRaises
  <2>3. \E p \in PC \ Inside : pc' = [pc EXCEPT ![t] = p]
    BY <2>2 DEF AfterUnload, ManagerSetup, EntrySetup, Await, Finish, PC, SettingUp
  <2> QED BY <2>1, <2>3, UnloadEnds
<1>22. ASSUME NEW t \in Task,
             \/ CallUnload(t) \/ CallReload(t) \/ StartScheduledReload(t)
             \/ SetDisabledBy(t) \/ AcquireReloadLock(t) \/ CallRemove(t)
      PROVE  Service!BeginUnload(t) \/ Service!Break \/ UNCHANGED Service!svars
  <2>1. pc[t] # "unload_entry"
    BY <1>22 DEF CallUnload, CallReload, StartScheduledReload, SetDisabledBy, AcquireReloadLock,
                CallRemove, Idle
  <2>2. CASE Outside /\ Broken' = Broken
    BY <1>2, <1>22, <2>2, UnloadSlice
  <2>3. CASE Outside /\ state = "LOADED" /\ state' = "FAILED_UNLOAD"
    BY <1>22, <2>3, UnloadSlice, Breaks
  <2>4. CASE state = "LOADED" /\ state' = state /\ pc' = [pc EXCEPT ![t] = "unload_entry"]
    BY <1>22, <2>1, <2>4, UnloadSlice, UnloadBegins
  <2> QED BY <1>22, <2>2, <2>3, <2>4, UnloadSlice
<1> QED
  BY <1>3, <1>4, <1>5, <1>6, <1>7, <1>8, <1>9, <1>10, <1>11, <1>12, <1>13, <1>14, <1>15, <1>16, <1>17, <1>18, <1>19, <1>20, <1>21, <1>22
  DEF Next, Call, Progress, Service!SNext

\* ConfigEntry implements the abstract service: the integration's coroutines
\* are called in turn, whatever interleaving of reloads, retries, start-up
\* and shutdown there is.
THEOREM OrderlyImplements == Orderly => (Spec => ImplementsService)
<1> SUFFICES ASSUME Orderly PROVE Spec => ImplementsService
  OBVIOUS
<1>1. Spec => []OrderlyInv
  BY OrderlySafety
<1> QED BY <1>1, ServiceInit, ServiceStep, PTL DEF Spec, ImplementsService, Service!SSpec

-----------------------------------------------------------------------------
(* Whatever the calls *)

\* The holders of reload_lock, for every set of calls.
LockInv ==
  /\ TypeInv /\ LockHeld
  /\ \A t \in Task : (pc[t] = "idle" => op[t] = "none")
                     /\ (pc[t] = "lock" => op[t] \in LockedOps)

\* Nobody holds reload_lock at the start.
LEMMA LockInit == Init => LockInv
<1> SUFFICES ASSUME Init PROVE LockInv
  OBVIOUS
<1>1. \A t \in Task : pc[t] = "idle" /\ op[t] = "none"
  BY DEF Init
<1> QED BY <1>1, TypeInit DEF LockInv, LockHeld, LockedOps

\* Whatever the calls, a reload past the lock is its only holder.
LEMMA LockStep == LockInv /\ [Next]_vars => LockInv'
<1> SUFFICES ASSUME LockInv, [Next]_vars PROVE LockInv'
  OBVIOUS
<1>1. TypeInv /\ TypeInv' /\ TypeOK
  BY TypeStep DEF LockInv, TypeInv
<1> USE <1>1, TaskAssumption DEF LockInv, TypeOK, LockHeld, LockedOps, Idle
<1>2. ASSUME NEW t \in Task, Add(t) PROVE LockInv'
  BY <1>2 DEF Add, ManagerSetup, EntrySetup, Await, Finish
<1>3. ASSUME NEW t \in Task, CallSetup(t) PROVE LockInv'
  BY <1>3 DEF CallSetup, ManagerSetup, EntrySetup, Await, Finish
<1>4. ASSUME NEW t \in Task, CallUnload(t) PROVE LockInv'
  BY <1>4 DEF CallUnload, ManagerUnload, EntryUnload, AfterUnload, ManagerSetup, EntrySetup, Await, Finish
<1>5. ASSUME NEW t \in Task, CallReload(t) PROVE LockInv'
  BY <1>5 DEF CallReload, Reload, ManagerUnload, EntryUnload, AfterUnload, ManagerSetup, EntrySetup, Await, Finish
<1>6. ASSUME NEW t \in Task, ScheduleReload(t) PROVE LockInv'
  BY <1>6 DEF ScheduleReload
<1>7. ASSUME NEW t \in Task, StartScheduledReload(t) PROVE LockInv'
  BY <1>7 DEF StartScheduledReload, Reload, ManagerUnload, EntryUnload, AfterUnload, ManagerSetup, EntrySetup, Await, Finish
<1>8. ASSUME NEW t \in Task, SetDisabledBy(t) PROVE LockInv'
  BY <1>8 DEF SetDisabledBy, Reload, ManagerUnload, EntryUnload, AfterUnload, ManagerSetup, EntrySetup, Await, Finish
<1>9. ASSUME NEW t \in Task, AcquireReloadLock(t) PROVE LockInv'
  BY <1>9 DEF AcquireReloadLock, ManagerUnload, EntryUnload, AfterUnload, ManagerSetup, EntrySetup, Await, Finish
<1>10. ASSUME NEW t \in Task, CallRemove(t) PROVE LockInv'
  BY <1>10 DEF CallRemove, EntryUnload, AfterUnload, ManagerSetup, EntrySetup, Await, Finish
<1>11. ASSUME NEW t \in Task, StartComponent(t) PROVE LockInv'
  BY <1>11 DEF StartComponent, Await
<1>12. ASSUME NEW t \in Task, ComponentReady(t) PROVE LockInv'
  BY <1>12 DEF ComponentReady, EntrySetup, Await, Finish
<1>13. ASSUME NEW t \in Task, ComponentFails(t) PROVE LockInv'
  BY <1>13 DEF ComponentFails
<1>14. ASSUME NEW t \in Task, ComponentAwaited(t) PROVE LockInv'
  BY <1>14 DEF ComponentAwaited, Finish
<1>15. ASSUME NEW t \in Task, Prepared(t) PROVE LockInv'
  BY <1>15 DEF Prepared, Await, Finish
<1>16. ASSUME NEW t \in Task, RegisterOnUnload(t) PROVE LockInv'
  BY <1>16 DEF RegisterOnUnload, taskVars
<1>17. ASSUME NEW t \in Task, SetupEntryTrue(t) PROVE LockInv'
  BY <1>17 DEF SetupEntryTrue, Finish
<1>18. ASSUME NEW t \in Task, SetupEntryFalse(t) PROVE LockInv'
  BY <1>18 DEF SetupEntryFalse, Finish
<1>19. ASSUME NEW t \in Task, SetupEntryError(t) PROVE LockInv'
  BY <1>19 DEF SetupEntryError, Await, Finish
<1>20. ASSUME NEW t \in Task, CleanupErrorDone(t) PROVE LockInv'
  BY <1>20 DEF CleanupErrorDone, Finish
<1>21. ASSUME NEW t \in Task, SetupEntryNotReady(t) PROVE LockInv'
  BY <1>21 DEF SetupEntryNotReady, Await, Finish
<1>22. ASSUME NEW t \in Task, CleanupRetryDone(t) PROVE LockInv'
  BY <1>22 DEF CleanupRetryDone, Finish
<1>23. ASSUME NEW t \in Task, UnloadEntryTrue(t) PROVE LockInv'
  BY <1>23 DEF UnloadEntryTrue, AfterUnload, ManagerSetup, EntrySetup, Await, Finish
<1>24. ASSUME NEW t \in Task, UnloadEntryFalse(t) PROVE LockInv'
  BY <1>24 DEF UnloadEntryFalse, AfterUnload, ManagerSetup, EntrySetup, Await, Finish
<1>25. ASSUME NEW t \in Task, UnloadEntryRaises(t) PROVE LockInv'
  BY <1>25 DEF UnloadEntryRaises, AfterUnload, ManagerSetup, EntrySetup, Await, Finish
<1>26. ASSUME NEW t \in Task, CleanupUnloadDone(t) PROVE LockInv'
  BY <1>26 DEF CleanupUnloadDone, AfterUnload, ManagerSetup, EntrySetup, Await, Finish
<1>27. ASSUME NEW t \in Task, Removed(t) PROVE LockInv'
  BY <1>27 DEF Removed, Finish
<1>28. ASSUME NEW t \in Task, RetryTimer(t) PROVE LockInv'
  BY <1>28 DEF RetryTimer, EntrySetup, Await, Finish, taskVars
<1>29. CASE Started
  BY <1>29 DEF Started
<1>30. CASE Stop \/ UNCHANGED vars
  BY <1>30 DEF Stop, vars, taskVars
<1> QED
  BY <1>2, <1>3, <1>4, <1>5, <1>6, <1>7, <1>8, <1>9, <1>10, <1>11, <1>12, <1>13, <1>14, <1>15, <1>16, <1>17, <1>18, <1>19, <1>20, <1>21, <1>22, <1>23, <1>24, <1>25, <1>26, <1>27, <1>28, <1>29, <1>30
  DEF Next, Call, Progress, SetupEntryReturns, UnloadEntryReturns

\* Reloads never overlap, also with calls that ignore the lock.
THEOREM ReloadsAreExclusive == Spec => []ReloadsExclusive
<1>1. LockInv => ReloadsExclusive
  BY DEF LockInv, LockHeld, ReloadsExclusive
<1> QED BY <1>1, LockInit, LockStep, PTL DEF Spec

\* The runner of the component's future waits for nobody: it sets up the
\* component or, inside it, the entry.
RunnerWorks ==
  setupFuture \in Task => pc[setupFuture] \in SettingUp \union {"component", "cleanup_retry"}

\* The holder of reload_lock is a reload or a disable past the lock.
HolderWorks ==
  reloadLock \in Task =>
    op[reloadLock] \in LockedOps /\ pc[reloadLock] \notin {"idle", "scheduled", "lock"}

WaitsInv == TypeInv /\ RunnerWorks /\ HolderWorks

\* Nobody holds or runs anything at the start.
LEMMA WaitsInit == Init => WaitsInv
  BY TypeInit, TaskAssumption DEF Init, WaitsInv, RunnerWorks, HolderWorks

\* A task that owns the lock or the future keeps to its work until it gives
\* both up; who begins a call owned neither.
LEMMA WaitsStep == WaitsInv /\ [Next]_vars => WaitsInv'
<1> SUFFICES ASSUME WaitsInv, [Next]_vars PROVE WaitsInv'
  OBVIOUS
<1>1. TypeInv /\ TypeInv' /\ TypeOK
  BY TypeStep DEF WaitsInv, TypeInv
<1> USE <1>1, TaskAssumption DEF WaitsInv, TypeOK, RunnerWorks, HolderWorks, SettingUp, LockedOps, Idle
<1>2. ASSUME NEW t \in Task, Add(t) PROVE WaitsInv'
  BY <1>2 DEF Add, ManagerSetup, EntrySetup, Await, Finish
<1>3. ASSUME NEW t \in Task, CallSetup(t) PROVE WaitsInv'
  BY <1>3 DEF CallSetup, ManagerSetup, EntrySetup, Await, Finish
<1>4. ASSUME NEW t \in Task, CallUnload(t) PROVE WaitsInv'
  BY <1>4 DEF CallUnload, ManagerUnload, EntryUnload, AfterUnload, ManagerSetup, EntrySetup, Await, Finish
<1>5. ASSUME NEW t \in Task, CallReload(t) PROVE WaitsInv'
  BY <1>5 DEF CallReload, Reload, ManagerUnload, EntryUnload, AfterUnload, ManagerSetup, EntrySetup, Await, Finish
<1>6. ASSUME NEW t \in Task, ScheduleReload(t) PROVE WaitsInv'
  BY <1>6 DEF ScheduleReload
<1>7. ASSUME NEW t \in Task, StartScheduledReload(t) PROVE WaitsInv'
  BY <1>7 DEF StartScheduledReload, Reload, ManagerUnload, EntryUnload, AfterUnload, ManagerSetup, EntrySetup, Await, Finish
<1>8. ASSUME NEW t \in Task, SetDisabledBy(t) PROVE WaitsInv'
  BY <1>8 DEF SetDisabledBy, Reload, ManagerUnload, EntryUnload, AfterUnload, ManagerSetup, EntrySetup, Await, Finish
<1>9. ASSUME NEW t \in Task, AcquireReloadLock(t) PROVE WaitsInv'
  BY <1>9 DEF AcquireReloadLock, ManagerUnload, EntryUnload, AfterUnload, ManagerSetup, EntrySetup, Await, Finish
<1>10. ASSUME NEW t \in Task, CallRemove(t) PROVE WaitsInv'
  BY <1>10 DEF CallRemove, EntryUnload, AfterUnload, ManagerSetup, EntrySetup, Await, Finish
<1>11. ASSUME NEW t \in Task, StartComponent(t) PROVE WaitsInv'
  BY <1>11 DEF StartComponent, Await
<1>12. ASSUME NEW t \in Task, ComponentReady(t) PROVE WaitsInv'
  BY <1>12 DEF ComponentReady, EntrySetup, Await, Finish
<1>13. ASSUME NEW t \in Task, ComponentFails(t) PROVE WaitsInv'
  BY <1>13 DEF ComponentFails
<1>14. ASSUME NEW t \in Task, ComponentAwaited(t) PROVE WaitsInv'
  BY <1>14 DEF ComponentAwaited, Finish
<1>15. ASSUME NEW t \in Task, Prepared(t) PROVE WaitsInv'
  BY <1>15 DEF Prepared, Await, Finish
<1>16. ASSUME NEW t \in Task, RegisterOnUnload(t) PROVE WaitsInv'
  BY <1>16 DEF RegisterOnUnload, taskVars
<1>17. ASSUME NEW t \in Task, SetupEntryTrue(t) PROVE WaitsInv'
  BY <1>17 DEF SetupEntryTrue, Finish
<1>18. ASSUME NEW t \in Task, SetupEntryFalse(t) PROVE WaitsInv'
  BY <1>18 DEF SetupEntryFalse, Finish
<1>19. ASSUME NEW t \in Task, SetupEntryError(t) PROVE WaitsInv'
  BY <1>19 DEF SetupEntryError, Await, Finish
<1>20. ASSUME NEW t \in Task, CleanupErrorDone(t) PROVE WaitsInv'
  BY <1>20 DEF CleanupErrorDone, Finish
<1>21. ASSUME NEW t \in Task, SetupEntryNotReady(t) PROVE WaitsInv'
  BY <1>21 DEF SetupEntryNotReady, Await, Finish
<1>22. ASSUME NEW t \in Task, CleanupRetryDone(t) PROVE WaitsInv'
  BY <1>22 DEF CleanupRetryDone, Finish
<1>23. ASSUME NEW t \in Task, UnloadEntryTrue(t) PROVE WaitsInv'
  BY <1>23 DEF UnloadEntryTrue, AfterUnload, ManagerSetup, EntrySetup, Await, Finish
<1>24. ASSUME NEW t \in Task, UnloadEntryFalse(t) PROVE WaitsInv'
  BY <1>24 DEF UnloadEntryFalse, AfterUnload, ManagerSetup, EntrySetup, Await, Finish
<1>25. ASSUME NEW t \in Task, UnloadEntryRaises(t) PROVE WaitsInv'
  BY <1>25 DEF UnloadEntryRaises, AfterUnload, ManagerSetup, EntrySetup, Await, Finish
<1>26. ASSUME NEW t \in Task, CleanupUnloadDone(t) PROVE WaitsInv'
  BY <1>26 DEF CleanupUnloadDone, AfterUnload, ManagerSetup, EntrySetup, Await, Finish
<1>27. ASSUME NEW t \in Task, Removed(t) PROVE WaitsInv'
  BY <1>27 DEF Removed, Finish
<1>28. ASSUME NEW t \in Task, RetryTimer(t) PROVE WaitsInv'
  BY <1>28 DEF RetryTimer, EntrySetup, Await, Finish, taskVars
<1>29. CASE Started
  BY <1>29 DEF Started
<1>30. CASE Stop \/ UNCHANGED vars
  BY <1>30 DEF Stop, vars, taskVars
<1> QED
  BY <1>2, <1>3, <1>4, <1>5, <1>6, <1>7, <1>8, <1>9, <1>10, <1>11, <1>12, <1>13, <1>14, <1>15, <1>16, <1>17, <1>18, <1>19, <1>20, <1>21, <1>22, <1>23, <1>24, <1>25, <1>26, <1>27, <1>28, <1>29, <1>30
  DEF Next, Call, Progress, SetupEntryReturns, UnloadEntryReturns

\* Whatever the calls, waiting ends in a task that is at work: no deadlock
\* between reload_lock and the future of the component.
THEOREM WaitsEndAtWork == Spec => []WaitsEnd
<1>1. WaitsInv => WaitsEnd
  <2> SUFFICES ASSUME WaitsInv, NEW t \in Task, AwaitedBy(t) \in Task
               PROVE  LET u == AwaitedBy(t) IN
                        \/ Busy(u)
                        \/ pc[u] = "await_component" /\ (AwaitedBy(u) \in Task => Busy(AwaitedBy(u)))
    BY DEF WaitsEnd
  <2>1. setupFuture \in Task => Busy(setupFuture)
    BY DEF WaitsInv, RunnerWorks, Busy, SettingUp
  <2>2. CASE pc[t] = "await_component"
    BY <2>1, <2>2 DEF AwaitedBy
  <2>3. CASE pc[t] = "lock"
    <3>1. AwaitedBy(t) = reloadLock
      BY <2>3 DEF AwaitedBy
    <3>2. Busy(reloadLock) \/ pc[reloadLock] = "await_component"
      BY <3>1 DEF WaitsInv, HolderWorks, Busy
    <3>3. pc[reloadLock] = "await_component" => AwaitedBy(reloadLock) = setupFuture
      BY DEF AwaitedBy
    <3> QED BY <2>1, <3>1, <3>2, <3>3
  <2> QED BY <2>2, <2>3, TaskAssumption DEF AwaitedBy
<1> QED BY <1>1, WaitsInit, WaitsStep, PTL DEF Spec

\* Orderly calls: nothing takes an entry out of MIGRATION_ERROR or FAILED_UNLOAD.
THEOREM OrderlyUnrecoverableIsFinal == Orderly => (Spec => UnrecoverableIsFinal)
<1> SUFFICES ASSUME Orderly PROVE Spec => UnrecoverableIsFinal
  OBVIOUS
<1>1. OrderlyInv /\ [Next]_vars =>
        [(state \in {"MIGRATION_ERROR", "FAILED_UNLOAD"}) => state' = state]_vars
  <2> SUFFICES ASSUME OrderlyInv, Next, state \in {"MIGRATION_ERROR", "FAILED_UNLOAD"}
               PROVE  state' = state
    BY DEF vars
  <2>1. AwaitsMatchState /\ UnloadedBefore /\ RetryIsCancellable
    BY DEF OrderlyInv
  <2> USE <2>1 DEF AwaitsMatchState, UnloadedBefore, RetryIsCancellable, SettingUp, Recoverable
  <2>2. ASSUME NEW t \in Task, Add(t) PROVE state' = state
    BY <2>2 DEF Add, ManagerSetup, EntrySetup, Await, Finish
  <2>3. ASSUME NEW t \in Task, CallSetup(t) PROVE state' = state
    BY <2>3 DEF CallSetup, ManagerSetup, EntrySetup, Await, Finish
  <2>4. ASSUME NEW t \in Task, CallUnload(t) PROVE state' = state
    BY <2>4 DEF CallUnload, ManagerUnload, EntryUnload, AfterUnload, ManagerSetup, EntrySetup, Await, Finish
  <2>5. ASSUME NEW t \in Task, CallReload(t) PROVE state' = state
    BY <2>5 DEF CallReload, Reload, ManagerUnload, EntryUnload, AfterUnload, ManagerSetup, EntrySetup, Await, Finish
  <2>6. ASSUME NEW t \in Task, ScheduleReload(t) PROVE state' = state
    BY <2>6 DEF ScheduleReload
  <2>7. ASSUME NEW t \in Task, StartScheduledReload(t) PROVE state' = state
    BY <2>7 DEF StartScheduledReload, Reload, ManagerUnload, EntryUnload, AfterUnload, ManagerSetup, EntrySetup, Await, Finish
  <2>8. ASSUME NEW t \in Task, SetDisabledBy(t) PROVE state' = state
    BY <2>8 DEF SetDisabledBy, Reload, ManagerUnload, EntryUnload, AfterUnload, ManagerSetup, EntrySetup, Await, Finish
  <2>9. ASSUME NEW t \in Task, AcquireReloadLock(t) PROVE state' = state
    BY <2>9 DEF AcquireReloadLock, ManagerUnload, EntryUnload, AfterUnload, ManagerSetup, EntrySetup, Await, Finish
  <2>10. ASSUME NEW t \in Task, CallRemove(t) PROVE state' = state
    BY <2>10 DEF CallRemove, EntryUnload, AfterUnload, ManagerSetup, EntrySetup, Await, Finish
  <2>11. ASSUME NEW t \in Task, StartComponent(t) PROVE state' = state
    BY <2>11 DEF StartComponent, Await
  <2>12. ASSUME NEW t \in Task, ComponentReady(t) PROVE state' = state
    BY <2>12 DEF ComponentReady, EntrySetup, Await, Finish
  <2>13. ASSUME NEW t \in Task, ComponentFails(t) PROVE state' = state
    BY <2>13 DEF ComponentFails
  <2>14. ASSUME NEW t \in Task, ComponentAwaited(t) PROVE state' = state
    BY <2>14 DEF ComponentAwaited, Finish
  <2>15. ASSUME NEW t \in Task, Prepared(t) PROVE state' = state
    BY <2>15 DEF Prepared, Await, Finish
  <2>16. ASSUME NEW t \in Task, RegisterOnUnload(t) PROVE state' = state
    BY <2>16 DEF RegisterOnUnload, taskVars
  <2>17. ASSUME NEW t \in Task, SetupEntryTrue(t) PROVE state' = state
    BY <2>17 DEF SetupEntryTrue, Finish
  <2>18. ASSUME NEW t \in Task, SetupEntryFalse(t) PROVE state' = state
    BY <2>18 DEF SetupEntryFalse, Finish
  <2>19. ASSUME NEW t \in Task, SetupEntryError(t) PROVE state' = state
    BY <2>19 DEF SetupEntryError, Await, Finish
  <2>20. ASSUME NEW t \in Task, CleanupErrorDone(t) PROVE state' = state
    BY <2>20 DEF CleanupErrorDone, Finish
  <2>21. ASSUME NEW t \in Task, SetupEntryNotReady(t) PROVE state' = state
    BY <2>21 DEF SetupEntryNotReady, Await, Finish
  <2>22. ASSUME NEW t \in Task, CleanupRetryDone(t) PROVE state' = state
    BY <2>22 DEF CleanupRetryDone, Finish
  <2>23. ASSUME NEW t \in Task, UnloadEntryTrue(t) PROVE state' = state
    BY <2>23 DEF UnloadEntryTrue, AfterUnload, ManagerSetup, EntrySetup, Await, Finish
  <2>24. ASSUME NEW t \in Task, UnloadEntryFalse(t) PROVE state' = state
    BY <2>24 DEF UnloadEntryFalse, AfterUnload, ManagerSetup, EntrySetup, Await, Finish
  <2>25. ASSUME NEW t \in Task, UnloadEntryRaises(t) PROVE state' = state
    BY <2>25 DEF UnloadEntryRaises, AfterUnload, ManagerSetup, EntrySetup, Await, Finish
  <2>26. ASSUME NEW t \in Task, CleanupUnloadDone(t) PROVE state' = state
    BY <2>26 DEF CleanupUnloadDone, AfterUnload, ManagerSetup, EntrySetup, Await, Finish
  <2>27. ASSUME NEW t \in Task, Removed(t) PROVE state' = state
    BY <2>27 DEF Removed, Finish
  <2>28. ASSUME NEW t \in Task, RetryTimer(t) PROVE state' = state
    BY <2>28 DEF RetryTimer, EntrySetup, Await, Finish, taskVars
  <2>29. CASE Started
    <3>1. PICK S \in SUBSET {t \in Task : Idle(t)} :
            Cardinality(S) = listeners /\ (S = {} => state' = state)
      BY <2>29 DEF Started
    <3>2. listeners = 0
      OBVIOUS
    <3> QED BY <3>1, <3>2, TaskFinite, FS_Subset, FS_EmptySet
  <2>30. CASE Stop
    BY <2>30 DEF Stop
  <2> QED
    BY <2>2, <2>3, <2>4, <2>5, <2>6, <2>7, <2>8, <2>9, <2>10, <2>11, <2>12, <2>13, <2>14, <2>15, <2>16, <2>17, <2>18, <2>19, <2>20, <2>21, <2>22, <2>23, <2>24, <2>25, <2>26, <2>27, <2>28, <2>29, <2>30
    DEF Next, Call, Progress, SetupEntryReturns, UnloadEntryReturns
<1> QED BY <1>1, OrderlySafety, PTL DEF Spec, UnrecoverableIsFinal
-----------------------------------------------------------------------------
(* Orderly calls: a retry is never lost. *)

\* The slices of a retry, a reload or a disable hand the duty on: the retry
\* runs, or it is cancelled by a task that unloads the entry.
LEMMA RetryAheadStep == Orderly /\ OrderlyInv /\ RetryAhead /\ [Next]_vars => RetryAhead'
<1> SUFFICES ASSUME Orderly, OrderlyInv, RetryAhead, [Next]_vars PROVE RetryAhead'
  OBVIOUS
<1>1. TypeOK /\ AwaitsMatchState /\ UnloadedBefore /\ RetryIsCancellable
  BY DEF OrderlyInv
<1> USE <1>1 DEF RetryAhead, TypeOK, AwaitsMatchState, UnloadedBefore, RetryIsCancellable,
                 SettingUp, Recoverable, LockedOps, Idle, retryVars
<1>2. ASSUME NEW t \in Task, Add(t) PROVE RetryAhead'
  BY <1>2 DEF Add, ManagerSetup, EntrySetup, Await, Finish
<1>3. ASSUME NEW t \in Task, CallSetup(t) PROVE RetryAhead'
  BY <1>3 DEF CallSetup, ManagerSetup, EntrySetup, Await, Finish
<1>4. ASSUME NEW t \in Task, CallUnload(t) PROVE RetryAhead'
  BY <1>4 DEF CallUnload, ManagerUnload, EntryUnload, AfterUnload, ManagerSetup, EntrySetup, Await, Finish, CancelRetry
<1>5. ASSUME NEW t \in Task, CallReload(t) PROVE RetryAhead'
  BY <1>5 DEF CallReload, Reload, ManagerUnload, EntryUnload, AfterUnload, ManagerSetup, EntrySetup, Await, Finish, CancelRetry
<1>6. ASSUME NEW t \in Task, ScheduleReload(t) PROVE RetryAhead'
  BY <1>6 DEF ScheduleReload, CancelRetry
<1>7. ASSUME NEW t \in Task, StartScheduledReload(t) PROVE RetryAhead'
  BY <1>7 DEF StartScheduledReload, Reload, ManagerUnload, EntryUnload, AfterUnload, ManagerSetup, EntrySetup, Await, Finish, CancelRetry
<1>8. ASSUME NEW t \in Task, SetDisabledBy(t) PROVE RetryAhead'
  BY <1>8 DEF SetDisabledBy, Reload, ManagerUnload, EntryUnload, AfterUnload, ManagerSetup, EntrySetup, Await, Finish, CancelRetry
<1>9. ASSUME NEW t \in Task, AcquireReloadLock(t) PROVE RetryAhead'
  BY <1>9 DEF AcquireReloadLock, ManagerUnload, EntryUnload, AfterUnload, ManagerSetup, EntrySetup, Await, Finish, CancelRetry
<1>10. ASSUME NEW t \in Task, CallRemove(t) PROVE RetryAhead'
  BY <1>10 DEF CallRemove, EntryUnload, AfterUnload, ManagerSetup, EntrySetup, Await, Finish, CancelRetry
<1>11. ASSUME NEW t \in Task, StartComponent(t) PROVE RetryAhead'
  BY <1>11 DEF StartComponent, Await
<1>12. ASSUME NEW t \in Task, ComponentReady(t) PROVE RetryAhead'
  BY <1>12 DEF ComponentReady, EntrySetup, Await, Finish
<1>13. ASSUME NEW t \in Task, ComponentFails(t) PROVE RetryAhead'
  BY <1>13 DEF ComponentFails
<1>14. ASSUME NEW t \in Task, ComponentAwaited(t) PROVE RetryAhead'
  BY <1>14 DEF ComponentAwaited, Finish
<1>15. ASSUME NEW t \in Task, Prepared(t) PROVE RetryAhead'
  BY <1>15 DEF Prepared, Await, Finish
<1>16. ASSUME NEW t \in Task, RegisterOnUnload(t) PROVE RetryAhead'
  BY <1>16 DEF RegisterOnUnload, taskVars
<1>17. ASSUME NEW t \in Task, SetupEntryTrue(t) PROVE RetryAhead'
  BY <1>17 DEF SetupEntryTrue, CancelRetry, Finish
<1>18. ASSUME NEW t \in Task, SetupEntryFalse(t) PROVE RetryAhead'
  BY <1>18 DEF SetupEntryFalse, CancelRetry, Finish
<1>19. ASSUME NEW t \in Task, SetupEntryError(t) PROVE RetryAhead'
  BY <1>19 DEF SetupEntryError, Await, Finish
<1>20. ASSUME NEW t \in Task, CleanupErrorDone(t) PROVE RetryAhead'
  BY <1>20 DEF CleanupErrorDone, CancelRetry, Finish
<1>21. ASSUME NEW t \in Task, SetupEntryNotReady(t) PROVE RetryAhead'
  BY <1>21 DEF SetupEntryNotReady, ScheduleRetry, Await, Finish
<1>22. ASSUME NEW t \in Task, CleanupRetryDone(t) PROVE RetryAhead'
  BY <1>22 DEF CleanupRetryDone, Finish
<1>23. ASSUME NEW t \in Task, UnloadEntryTrue(t) PROVE RetryAhead'
  BY <1>23 DEF UnloadEntryTrue, AfterUnload, ManagerSetup, EntrySetup, Await, Finish
<1>24. ASSUME NEW t \in Task, UnloadEntryFalse(t) PROVE RetryAhead'
  BY <1>24 DEF UnloadEntryFalse, AfterUnload, ManagerSetup, EntrySetup, Await, Finish
<1>25. ASSUME NEW t \in Task, UnloadEntryRaises(t) PROVE RetryAhead'
  BY <1>25 DEF UnloadEntryRaises, AfterUnload, ManagerSetup, EntrySetup, Await, Finish
<1>26. ASSUME NEW t \in Task, CleanupUnloadDone(t) PROVE RetryAhead'
  BY <1>26 DEF CleanupUnloadDone, AfterUnload, ManagerSetup, EntrySetup, Await, Finish
<1>27. ASSUME NEW t \in Task, Removed(t) PROVE RetryAhead'
  BY <1>27 DEF Removed, Finish
<1>28. ASSUME NEW t \in Task, RetryTimer(t) PROVE RetryAhead'
  BY <1>28 DEF RetryTimer, EntrySetup, Await, Finish, taskVars
<1>29. CASE Started
  <2>1. PICK S \in SUBSET {t \in Task : Idle(t)} :
          /\ Cardinality(S) = listeners
          /\ IF S # {} /\ ~disabled
             THEN state' = "SETUP_IN_PROGRESS"
             ELSE UNCHANGED <<state, op, pc>>
    BY <1>29 DEF Started
  <2>2. cancelRetry = "listener" => S # {}
    BY <2>1, FS_EmptySet
  <2> QED BY <1>29, <2>1, <2>2 DEF Started
<1>30. CASE Stop \/ UNCHANGED vars
  BY <1>30 DEF Stop, vars, taskVars
<1> QED
  BY <1>2, <1>3, <1>4, <1>5, <1>6, <1>7, <1>8, <1>9, <1>10, <1>11, <1>12, <1>13, <1>14, <1>15, <1>16, <1>17, <1>18, <1>19, <1>20, <1>21, <1>22, <1>23, <1>24, <1>25, <1>26, <1>27, <1>28, <1>29, <1>30
  DEF Next, Call, Progress, SetupEntryReturns, UnloadEntryReturns

\* An entry that was not ready has a retry or a reload ahead of it as long as
\* it is registered and enabled and Home Assistant is not stopping.
THEOREM OrderlyRetryAhead == Orderly => (Spec => []RetryAhead)
<1> SUFFICES ASSUME Orderly PROVE Spec => []RetryAhead
  OBVIOUS
<1>1. Init => RetryAhead
  BY DEF Init, RetryAhead
<1> QED BY <1>1, OrderlyInit, OrderlyStep, RetryAheadStep, PTL DEF Spec
=============================================================================
