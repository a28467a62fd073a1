-------------------------------- MODULE Store --------------------------------
(***************************************************************************)
(* One storage file: homeassistant/helpers/storage.py (Store and its part  *)
(* of _StoreManager), with the stages of HomeAssistant.async_stop that     *)
(* decide what is still written, and the process dying at any moment.      *)
(*                                                                         *)
(* The data is its version: the owner's n-th change.  A slice of a task    *)
(* between two awaits is one action; the executor's thread runs            *)
(* concurrently with the loop, so what it does is a sequence of actions of *)
(* its own.  A file is replaced as a whole (util/file.py writes a          *)
(* temporary file and renames it).                                         *)
(*                                                                         *)
(* Abstractions.  Time: whether a delay has passed is a choice.  The       *)
(* store is writable, the file not corrupt, and the stages of a stop do    *)
(* not time out.                                                           *)
(*                                                                         *)
(* The owner is assumed to keep an order that the Store does not enforce:  *)
(* it loads its data before it saves or removes, and while a load may have *)
(* to migrate the file no other task of it uses the store.                 *)
(***************************************************************************)
EXTENDS Naturals

CONSTANTS
  Task,        \* asyncio tasks that work on the store
  NoTask,      \* nobody holds the write lock
  MaxVersion,  \* bound: the owner's changes
  Faults,      \* what may go wrong in a write, a subset of AllFaults
  OldFormat,   \* the file may be of an older version of the store
  MayRemove,   \* async_remove is called
  SavesLate    \* async_delay_save is called while the final writes run

ASSUME TaskAssumption == NoTask \notin Task
ASSUME VersionAssumption == MaxVersion \in Nat
ASSUME StoreFlags == OldFormat \in BOOLEAN /\ MayRemove \in BOOLEAN /\ SavesLate \in BOOLEAN

\* disk: SerializationError or WriteError.  func: the data_func, which runs in
\* a thread, raises because the owner changes its data meanwhile.
AllFaults == {"disk", "func"}
ASSUME FaultsAssumption == Faults \subseteq AllFaults

Version == 0..MaxVersion   \* 0: no file, nothing saved

VARIABLES
  hass,         \* CoreState, as far as the store reads it
  loaded,       \* the owner has loaded its data
  value,        \* the owner's data
  data,         \* Store._data: nothing, a data_func or data of some version
  handle,       \* Store._delay_handle: none, armed, or left after it fired
  postponed,    \* Store._next_write_time is past the time of the handle
  finalWrite,   \* Store._unsub_final_write_listener is set
  lock,         \* holder of Store._write_lock
  pc,           \* per task: where it is
  buf,          \* per task: the version it carries
  byFunc,       \* per task: it carries a data_func
  goal,         \* per task: the version its async_save was given, 0 if none
  leftBehind,   \* tasks async_stop does not wait for
  file,         \* the version on disk
  oldFile,      \* the file is of an older version of the store
  cache,        \* _StoreManager: what it knows of the file
  cacheVersion, \* the version in _data_preload
  invalidated,  \* the key is in _invalidated
  preload,      \* _preload in the executor: the thread's progress
  acked,        \* newest version whose async_save returned, unless the write
                \* that carried it failed
  due           \* newest version left to a delayed or the final write

memoryVars == <<data, handle, postponed, finalWrite>>
taskVars   == <<lock, pc, buf, byFunc, goal, leftBehind>>
diskVars   == <<file, oldFile>>
cacheVars  == <<cache, cacheVersion, invalidated, preload>>
ownerVars  == <<loaded, value>>
ghostVars  == <<acked, due>>
vars == <<hass, ownerVars, memoryVars, taskVars, diskVars, cacheVars, ghostVars>>

NoData  == [kind |-> "none", version |-> 0]
Func    == [kind |-> "func", version |-> 0]
Data(v) == [kind |-> "data", version |-> v]
Pending == {NoData, Func} \union {Data(v) : v \in Version}

Loading == {"read", "migrate"}
Writing == {"job", "replace", "written"}
PC == {"idle", "lock", "unlink"} \union Loading \union Writing

TypeOK ==
  /\ hass \in {"running", "stopping", "final_write", "stopped"}
  /\ loaded \in BOOLEAN /\ value \in Version
  /\ data \in Pending
  /\ handle \in {"none", "armed", "fired"} /\ postponed \in BOOLEAN
  /\ finalWrite \in BOOLEAN
  /\ lock \in Task \union {NoTask}
  /\ pc \in [Task -> PC] /\ buf \in [Task -> Version]
  /\ byFunc \in [Task -> BOOLEAN] /\ goal \in [Task -> Version]
  /\ leftBehind \subseteq Task
  /\ file \in Version /\ oldFile \in BOOLEAN
  /\ cache \in {"absent", "listed", "data"} /\ cacheVersion \in Version
  /\ invalidated \in BOOLEAN
  /\ preload \in {"idle", "reading", "done"}
  /\ acked \in Version /\ due \in Version

\* A process starts: only the file is there, and the manager lists it.
Init ==
  /\ file \in Version \intersect {0, 1}
  /\ oldFile = (OldFormat /\ file # 0)
  /\ acked = 0
  /\ hass = "running" /\ loaded = FALSE /\ value = 0
  /\ data = NoData
  /\ handle = "none" /\ postponed = FALSE /\ finalWrite = FALSE
  /\ lock = NoTask /\ leftBehind = {}
  /\ pc = [t \in Task |-> "idle"] /\ buf = [t \in Task |-> 0]
  /\ byFunc = [t \in Task |-> FALSE] /\ goal = [t \in Task |-> 0]
  /\ cache = (IF file = 0 THEN "absent" ELSE "listed")
  /\ cacheVersion = 0 /\ invalidated = FALSE /\ preload = "idle"
  /\ due = 0

Idle(t) == pc[t] = "idle"
Larger(m, n) == IF m < n THEN n ELSE m

-----------------------------------------------------------------------------
(* Writing *)

\* Mutant of Invalidate: what a preload still reads would be used.
InvalidateForgets ==
  /\ cache' = IF cache = "data" THEN "listed" ELSE cache
  /\ UNCHANGED <<cacheVersion, invalidated, preload>>

\* async_invalidate: preloaded data is dropped, and never used again.
Invalidate ==
  /\ invalidated' = TRUE
  /\ cache' = IF cache = "data" THEN "listed" ELSE cache
  /\ UNCHANGED <<cacheVersion, preload>>

\* _async_handle_write_data once task t, whose save has goal g, got the lock
\* and finds d.
TakeData(t, d, g) ==
  /\ Invalidate
  /\ handle' = "none" /\ finalWrite' = FALSE /\ data' = NoData
  /\ IF d = NoData
     THEN /\ pc' = [pc EXCEPT ![t] = "idle"] /\ goal' = [goal EXCEPT ![t] = 0]
          /\ acked' = Larger(acked, g)
          /\ UNCHANGED <<lock, buf, byFunc>>
     ELSE /\ pc' = [pc EXCEPT ![t] = "job"] /\ goal' = [goal EXCEPT ![t] = g]
          /\ lock' = t
          /\ byFunc' = [byFunc EXCEPT ![t] = (d = Func)]
          /\ buf' = [buf EXCEPT ![t] = IF d = Func THEN value ELSE d.version]
          /\ UNCHANGED acked

\* Mutants of HandleWrite: there is no write lock; who finds it taken returns.
HandleWriteUnlocked(t, d, g, h, w) == TakeData(t, d, g)
HandleWriteSkips(t, d, g, h, w) ==
  IF lock = NoTask
  THEN TakeData(t, d, g)
  ELSE /\ data' = d /\ handle' = h /\ finalWrite' = w /\ acked' = Larger(acked, g)
       /\ UNCHANGED <<pc, goal, lock, buf, byFunc, cacheVars>>

\* _async_handle_write_data called with d pending, the handle h and the
\* listener w; asyncio.Lock lets nobody overtake a waiter.
HandleWrite(t, d, g, h, w) ==
  IF lock = NoTask /\ \A u \in Task : pc[u] # "lock"
  THEN TakeData(t, d, g)
  ELSE /\ pc' = [pc EXCEPT ![t] = "lock"] /\ goal' = [goal EXCEPT ![t] = g]
       /\ data' = d /\ handle' = h /\ finalWrite' = w
       /\ UNCHANGED <<lock, buf, byFunc, cacheVars, acked>>

AcquireLock(t) ==
  /\ pc[t] = "lock" /\ lock = NoTask /\ hass # "stopped"
  /\ TakeData(t, data, goal[t])
  /\ UNCHANGED <<hass, ownerVars, postponed, leftBehind, diskVars, due>>

\* In the thread: a data_func reads the owner's data now.
Serialize(t) ==
  /\ pc[t] = "job"
  /\ pc' = [pc EXCEPT ![t] = "replace"]
  /\ buf' = IF byFunc[t] THEN [buf EXCEPT ![t] = value] ELSE buf
  /\ UNCHANGED <<hass, ownerVars, memoryVars, lock, byFunc, goal, leftBehind, diskVars,
                 cacheVars, ghostVars>>

\* ... and raises if that changed since the write began: the save fails.
SerializeRaises(t) ==
  /\ "func" \in Faults
  /\ pc[t] = "job" /\ byFunc[t] /\ buf[t] # value
  /\ pc' = [pc EXCEPT ![t] = "written"] /\ goal' = [goal EXCEPT ![t] = 0]
  /\ UNCHANGED <<hass, ownerVars, memoryVars, lock, buf, byFunc, leftBehind, diskVars,
                 cacheVars, ghostVars>>

\* The temporary file takes the place of the file.
Replace(t) ==
  /\ pc[t] = "replace"
  /\ pc' = [pc EXCEPT ![t] = "written"]
  /\ file' = buf[t] /\ oldFile' = FALSE
  /\ UNCHANGED <<hass, ownerVars, memoryVars, lock, buf, byFunc, goal, leftBehind,
                 cacheVars, ghostVars>>

\* The saves whose data is lost when the write of t fails: its own, and those
\* that wait for the lock while the write of t has taken their data.
Lost(t) == {u \in Task : file < goal[u] /\ (u = t \/ data = NoData)}

\* The write fails, which is logged and otherwise forgotten: these saves
\* return as if they were on disk.
WriteFails(t) ==
  /\ "disk" \in Faults
  /\ pc[t] \in {"job", "replace"}
  /\ pc' = [pc EXCEPT ![t] = "written"]
  /\ goal' = [u \in Task |-> IF u \in Lost(t) THEN 0 ELSE goal[u]]
  /\ UNCHANGED <<hass, ownerVars, memoryVars, lock, buf, byFunc, leftBehind, diskVars,
                 cacheVars, ghostVars>>

\* The task resumes, releases the lock and returns; if it migrated the file,
\* the load returns.
Written(t) ==
  /\ pc[t] = "written" /\ hass # "stopped"
  /\ pc' = [pc EXCEPT ![t] = "idle"] /\ goal' = [goal EXCEPT ![t] = 0]
  /\ lock' = NoTask
  /\ acked' = Larger(acked, goal[t])
  /\ loaded' = TRUE
  /\ buf' = [buf EXCEPT ![t] = 0] /\ byFunc' = [byFunc EXCEPT ![t] = FALSE]
  /\ UNCHANGED <<hass, value, memoryVars, leftBehind, diskVars, cacheVars, due>>

-----------------------------------------------------------------------------
(* Saving *)

\* async_save of version v.
Save(t, v) ==
  IF hass = "stopping"
  THEN /\ data' = Data(v) /\ finalWrite' = TRUE /\ due' = v
       /\ pc' = [pc EXCEPT ![t] = "idle"]
       /\ UNCHANGED <<handle, lock, buf, byFunc, goal, cacheVars, acked>>
  ELSE HandleWrite(t, Data(v), v, handle, finalWrite) /\ UNCHANGED due

AsyncSave(t) ==
  /\ Idle(t) /\ hass # "stopped" /\ loaded /\ value < MaxVersion
  /\ value' = value + 1
  /\ Save(t, value + 1)
  /\ UNCHANGED <<hass, loaded, postponed, leftBehind, diskVars>>

\* Mutant of DelaySave: the final write is not ensured.
DelaySaveNoListener ==
  /\ hass # "stopped" /\ (hass = "final_write" => SavesLate)
  /\ loaded /\ value' \in {value, value + 1} \intersect (1..MaxVersion) /\ data' = Func
  /\ due' = IF hass = "final_write" THEN due ELSE value'
  /\ handle' = IF hass = "stopping" THEN "none" ELSE "armed"
  /\ UNCHANGED <<hass, loaded, postponed, finalWrite, taskVars, diskVars, cacheVars, acked>>

\* async_delay_save, of a change or of data that has not changed since, so that
\* there is no end to the calls: if the handle is due earlier it stays, and
\* moves itself to the new time when it fires.
DelaySave ==
  /\ hass # "stopped" /\ (hass = "final_write" => SavesLate)
  /\ loaded /\ value' \in {value, value + 1} \intersect (1..MaxVersion) /\ data' = Func
  /\ due' = IF hass = "final_write" THEN due ELSE value'
  /\ \/ /\ handle # "none"
        /\ postponed' = TRUE /\ UNCHANGED <<handle, finalWrite>>
     \/ /\ handle # "fired"
        /\ finalWrite' = TRUE
        /\ handle' = IF hass = "stopping" THEN "none" ELSE "armed"
        /\ UNCHANGED postponed
  /\ UNCHANGED <<hass, loaded, taskVars, diskVars, cacheVars, acked>>

\* Mutant of TimerFires: a timer that fires too early is not armed again.
TimerFiresOnce ==
  /\ handle = "armed" /\ hass # "stopped"
  /\ \/ /\ postponed /\ postponed' = FALSE /\ handle' = "fired"
        /\ UNCHANGED <<data, finalWrite, taskVars, cacheVars, acked>>
     \/ /\ \E t \in Task : Idle(t) /\ HandleWrite(t, data, 0, "fired", finalWrite)
        /\ UNCHANGED <<postponed, leftBehind>>
  /\ UNCHANGED <<hass, ownerVars, diskVars, due>>

\* _async_schedule_callback_delayed_write: too early, or the delayed write,
\* which leaves the data to the final write when Home Assistant is stopping.
TimerFires ==
  /\ handle = "armed" /\ hass # "stopped"
  /\ \/ /\ postponed /\ postponed' = FALSE
        /\ UNCHANGED <<data, handle, finalWrite, taskVars, cacheVars, acked>>
     \/ /\ hass = "stopping"
        /\ handle' = "fired" /\ finalWrite' = TRUE
        /\ UNCHANGED <<data, postponed, taskVars, cacheVars, acked>>
     \/ /\ hass # "stopping"
        /\ \E t \in Task : Idle(t) /\ HandleWrite(t, data, 0, "fired", finalWrite)
        /\ UNCHANGED <<postponed, leftBehind>>
  /\ UNCHANGED <<hass, ownerVars, diskVars, due>>

-----------------------------------------------------------------------------
(* Loading; the loads that come while one is in progress share its result *)

\* The load of task t gets version v, of the file or of the cache.
Loads(t, v) ==
  IF oldFile
  THEN /\ pc' = [pc EXCEPT ![t] = "migrate"] /\ buf' = [buf EXCEPT ![t] = v]
       /\ UNCHANGED ownerVars
  ELSE /\ pc' = [pc EXCEPT ![t] = "idle"]
       /\ loaded' = TRUE /\ value' = (IF loaded THEN value ELSE v)
       /\ UNCHANGED buf

\* Pending data is made final and returned, else the manager is asked, else
\* the file is read.  Only the owner loads a file that must be migrated.
Load(t) ==
  /\ Idle(t) /\ hass # "stopped" /\ \A u \in Task : pc[u] \notin Loading
  /\ IF loaded THEN ~oldFile ELSE \A u \in Task : Idle(u)
  /\ \/ /\ data # NoData
        /\ data' = IF data = Func THEN Data(value) ELSE data
        /\ UNCHANGED <<ownerVars, pc, buf, cache>>
     \/ /\ data = NoData /\ ~invalidated /\ cache = "absent"
        /\ pc' = pc /\ loaded' = TRUE
        /\ UNCHANGED <<value, data, buf, cache>>
     \/ /\ data = NoData /\ ~invalidated /\ cache = "data"
        /\ cache' = "listed" /\ Loads(t, cacheVersion) /\ UNCHANGED data
     \/ /\ data = NoData /\ (invalidated \/ cache = "listed")
        /\ pc' = [pc EXCEPT ![t] = "read"] /\ UNCHANGED <<ownerVars, data, buf, cache>>
  /\ UNCHANGED <<hass, handle, postponed, finalWrite, lock, byFunc, goal, leftBehind, diskVars,
                 cacheVersion, invalidated, preload, ghostVars>>

Read(t) ==
  /\ pc[t] = "read" /\ hass # "stopped"
  /\ Loads(t, file)
  /\ UNCHANGED <<hass, memoryVars, lock, byFunc, goal, leftBehind, diskVars, cacheVars, ghostVars>>

\* _async_migrate_func returned: async_save, and the load returns with it.
Migrated(t) ==
  /\ pc[t] = "migrate" /\ hass # "stopped"
  /\ value' = (IF loaded THEN value ELSE buf[t])
  /\ loaded' = (loaded \/ hass = "stopping")
  /\ Save(t, buf[t])
  /\ UNCHANGED <<hass, postponed, leftBehind, diskVars>>

\* async_preload: a thread reads the file, and keeps it for the first load.
PreloadReads ==
  /\ preload = "idle" /\ cache = "listed" /\ hass = "running"
  /\ preload' = "reading" /\ cacheVersion' = file
  /\ UNCHANGED <<hass, ownerVars, memoryVars, taskVars, diskVars, cache, invalidated, ghostVars>>
PreloadKeeps ==
  /\ preload = "reading" /\ hass # "stopped"
  /\ preload' = "done" /\ cache' = "data"
  /\ UNCHANGED <<hass, ownerVars, memoryVars, taskVars, diskVars, cacheVersion, invalidated,
                 ghostVars>>

\* _async_cleanup, a minute after the start and at the stop.
CacheCleanup ==
  /\ cache = "data" /\ cache' = "listed"
  /\ UNCHANGED <<hass, ownerVars, memoryVars, taskVars, diskVars, cacheVersion, invalidated,
                 preload, ghostVars>>

-----------------------------------------------------------------------------
(* Removing *)

Remove(t) ==
  /\ MayRemove /\ Idle(t) /\ hass # "stopped" /\ loaded
  /\ Invalidate /\ handle' = "none" /\ finalWrite' = FALSE
  /\ pc' = [pc EXCEPT ![t] = "unlink"]
  /\ UNCHANGED <<hass, ownerVars, data, postponed, lock, buf, byFunc, goal, leftBehind,
                 diskVars, ghostVars>>

\* The file is gone, and with it the saves that were in it.
Unlinked(t) ==
  /\ pc[t] = "unlink" /\ hass # "stopped"
  /\ pc' = [pc EXCEPT ![t] = "idle"]
  /\ goal' = [u \in Task |-> IF goal[u] <= file THEN 0 ELSE goal[u]]
  /\ file' = 0 /\ oldFile' = FALSE
  /\ acked' = 0 /\ due' = 0
  /\ UNCHANGED <<hass, ownerVars, memoryVars, lock, buf, byFunc, leftBehind, cacheVars>>

-----------------------------------------------------------------------------
(* The stop of Home Assistant, and the death of the process *)

\* Tasks that exist by now are not waited for.
Stop ==
  /\ hass = "running" /\ hass' = "stopping"
  /\ leftBehind' = {t \in Task : ~Idle(t)}
  /\ UNCHANGED <<ownerVars, memoryVars, lock, pc, buf, byFunc, goal, diskVars, cacheVars,
                 ghostVars>>

BlockTillDone == \A t \in Task \ leftBehind : Idle(t)

FinalWrite ==
  /\ hass = "stopping" /\ BlockTillDone /\ hass' = "final_write"
  /\ IF finalWrite
     THEN \E t \in Task : Idle(t) /\ leftBehind' = leftBehind \ {t}
                          /\ HandleWrite(t, data, 0, handle, FALSE)
     ELSE UNCHANGED <<data, handle, finalWrite, taskVars, cacheVars, acked>>
  /\ UNCHANGED <<ownerVars, postponed, diskVars, due>>

\* Stage 4: what was left behind is cancelled; a thread finishes its write.
Close ==
  /\ hass = "final_write" /\ BlockTillDone /\ hass' = "stopped"
  /\ pc' = [t \in Task |-> IF pc[t] \in {"job", "replace"} THEN pc[t] ELSE "idle"]
  /\ goal' = [t \in Task |-> IF pc[t] \in {"job", "replace"} THEN goal[t] ELSE 0]
  /\ UNCHANGED <<ownerVars, memoryVars, lock, buf, byFunc, leftBehind, diskVars, cacheVars,
                 ghostVars>>

\* The process dies, or ended, and a new one starts.
Restart ==
  /\ hass' = "running" /\ loaded' = FALSE /\ value' = 0
  /\ data' = NoData
  /\ handle' = "none" /\ postponed' = FALSE /\ finalWrite' = FALSE
  /\ lock' = NoTask /\ leftBehind' = {}
  /\ pc' = [t \in Task |-> "idle"] /\ buf' = [t \in Task |-> 0]
  /\ byFunc' = [t \in Task |-> FALSE] /\ goal' = [t \in Task |-> 0]
  /\ cache' = (IF file = 0 THEN "absent" ELSE "listed")
  /\ cacheVersion' = 0 /\ invalidated' = FALSE /\ preload' = "idle"
  /\ due' = 0
  /\ UNCHANGED <<diskVars, acked>>

-----------------------------------------------------------------------------
Thread(t) == Serialize(t) \/ SerializeRaises(t) \/ Replace(t) \/ WriteFails(t)
Resume(t) == AcquireLock(t) \/ Written(t) \/ Read(t) \/ Migrated(t) \/ Unlinked(t)

Next ==
  \/ \E t \in Task : Thread(t) \/ Resume(t) \/ AsyncSave(t) \/ Load(t) \/ Remove(t)
  \/ DelaySave \/ TimerFires \/ PreloadReads \/ PreloadKeeps \/ CacheCleanup
  \/ Stop \/ FinalWrite \/ Close \/ Restart

Spec == Init /\ [][Next]_vars

\* Tasks are resumed, waiters of the lock in their order, jobs of the
\* executor end, timers fire.  There is a free task for a timer again and
\* again, as real tasks are not bounded.
FairSpec ==
  /\ Spec
  /\ \A t \in Task : WF_vars(Thread(t)) /\ WF_vars(Resume(t)) /\ SF_vars(AcquireLock(t))
  /\ SF_vars(TimerFires)

-----------------------------------------------------------------------------
\* A save that returned is on disk, also when another task wrote its data, when
\* a data_func replaced it or when the process died right after; unless the
\* write that carried it failed, which async_save does not tell, or the file
\* was removed since.
AckedIsDurable == file >= acked

\* What a load can get, from _data, from the preloaded cache or from disk, is
\* never older than a save that returned.
LoadsSeeAcked ==
  /\ data.kind = "data" => data.version >= acked
  /\ ~invalidated /\ cache = "data" => cacheVersion >= acked
  /\ ~invalidated /\ cache = "absent" => acked = 0

\* The lock: who writes has it, and nobody else keeps it.
LockHeld ==
  /\ \A t \in Task : pc[t] \in Writing => lock = t
  /\ hass # "stopped" /\ lock # NoTask => pc[lock] \in Writing
\* The versions go up from the file over what is being written to the data
\* that waits, which is the owner's newest.
VersionsOrdered ==
  /\ loaded => file <= value
  /\ data.kind = "data" => data.version = value
  /\ \A t \in Task : pc[t] \in {"job", "replace"} =>
       /\ file <= buf[t] /\ buf[t] <= value
       /\ buf[t] = value \/ data # NoData
\* Before the owner has its data at most one task is at work, the one that
\* loads, and what it carries is the file.
NothingBeforeLoad ==
  /\ ~loaded => data = NoData /\ handle = "none" /\ ~finalWrite /\ value \in {0, file}
  /\ ~loaded => \A t, u \in Task : pc[t] # "idle" /\ pc[u] # "idle" => t = u
  /\ \A t \in Task :
       /\ ~loaded => pc[t] \notin {"lock", "unlink"}
       /\ ~loaded /\ pc[t] \in Writing => value = file /\ goal[t] <= file
       /\ pc[t] = "migrate" => ~loaded /\ buf[t] = file
       /\ pc[t] = "read" /\ loaded => ~oldFile
       /\ pc[t] = "unlink" => MayRemove
\* What the manager still hands out is the file.
CacheIsFile ==
  /\ ~invalidated => /\ cache = "absent" => file = 0
                     /\ cache = "data" \/ preload = "reading" => cacheVersion = file
  /\ \A t \in Task : pc[t] \in Writing \union {"unlink"} => invalidated
\* A save that is under way reaches the disk: in its own task, as data that
\* waits for the lock, or in the hands of whoever has the lock.
GoalsCovered ==
  \A t \in Task :
    /\ goal[t] <= value
    /\ pc[t] \notin {"lock"} \union Writing => goal[t] = 0
    /\ pc[t] \in {"job", "replace"} => goal[t] <= buf[t]
    /\ pc[t] = "written" => goal[t] <= file
    /\ pc[t] = "lock" =>
         \/ data # NoData
         \/ goal[t] <= file
         \/ lock # NoTask /\ pc[lock] \in {"job", "replace"} /\ goal[t] <= buf[lock]

\* The inductive invariant.
StoreInv ==
  /\ TypeOK /\ LockHeld /\ VersionsOrdered /\ NothingBeforeLoad /\ CacheIsFile /\ GoalsCovered
  /\ AckedIsDurable

\* While the disk and the data_funcs do not fail and nobody removes the file:
\* what was left to a delayed or the final write is on disk, in the hands of
\* whoever has the lock, or it waits.  Until the final writes begin, data that
\* waits has its listener; then a task takes it that the stop waits for.
DueCovered ==
  /\ due <= value /\ (~loaded => due = 0)
  /\ hass \in {"running", "stopping"} /\ handle # "none" => finalWrite
  /\ file < due =>
       \/ lock # NoTask /\ pc[lock] \in {"job", "replace"} /\ due <= buf[lock]
       \/ hass \in {"running", "stopping"} /\ data # NoData /\ finalWrite
       \/ /\ hass = "final_write" /\ data # NoData
          /\ \E t \in Task \ leftBehind : pc[t] = "lock"

\* The safety half of EventuallyWritten, while the disk does not fail and nobody
\* removes the file.  Data that waits has somebody to write it, the armed timer
\* or a task that waits for the lock: a timer that has fired left such a task,
\* so a save that finds its handle and only moves its time is not forgotten.
\* What the file lacks waits as data, or the holder of the lock carries it; one
\* whose data_func raises leaves newer data behind.
WriteAhead ==
  hass = "running" =>
    /\ data # NoData \/ handle = "fired" =>
         handle = "armed" \/ \E t \in Task : pc[t] = "lock"
    /\ file < value =>
         \/ data # NoData
         \/ lock # NoTask /\ pc[lock] \in {"job", "replace"} /\ buf[lock] = value

\* Whatever was left to a delayed write or to the final write before that
\* began is on disk once Home Assistant has stopped.
StopIsDurable == hass = "stopped" /\ (\A t \in Task : Idle(t)) => file >= due

\* The store behaves as a register that loses only what was not acknowledged
\* and never goes back to an older version.
Register == INSTANCE DurableRegister WITH
  saved   <- IF loaded THEN value ELSE file,
  durable <- file
ImplementsRegister == Register!RSpec

\* Calls of async_delay_save keep moving the time of an armed timer, for ever.
PostponedForEver == <>[](handle = "armed") /\ []<>postponed

\* What is saved while Home Assistant runs reaches the disk, however often a
\* delayed write was postponed, unless calls never stop postponing it.
EventuallyWritten ==
  \A v \in Version :
    \/ PostponedForEver
    \/ (value >= v /\ loaded /\ hass = "running") ~>
         (file >= v \/ ~loaded \/ hass # "running")
=============================================================================
