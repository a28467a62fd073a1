# Home Assistant core: a verification project

TLA+ models of the parts of Home Assistant's core where the order of steps
decides: the life of a config entry, the index of config entries and the flows
that fill it, the storage files, the set-up of components and the timeouts that
bound the start-up, the coordinators that poll devices, and the runs of a
script. TLC checks the models on small instances, TLAPS proves the main safety
properties for every value of the constants.

* [The system](#the-system): components, state, operations, what is hard
* [The modules](#the-modules): what models what
* [The runs](#the-runs): what is checked, bounds, fairness
* [The proofs](#the-proofs)
* [Where the code and its documentation differ](#where-the-code-and-its-documentation-differ)
* [What is not modelled](#what-is-not-modelled) and [the plan](#the-plan)

## The system

Home Assistant is one asyncio event loop with an executor of threads beside it.
A task runs alone until its next `await`; between two awaits nothing else on the
loop happens. So on the loop there are no data races, but whatever a task read
before an `await` may be different after it. Threads of the executor do run
beside the loop (file access, and the `data_func` of a delayed save). The
process may be killed at any time, or be stopped in stages by
`HomeAssistant.async_stop`.

A slice of a task from one await to the next is therefore the unit of all
models: one action of the specification is one slice, with all the calls it
makes; the job of a thread is a sequence of actions of its own.

### Inventory

| component | state | operations | interacts with |
|---|---|---|---|
| config entry life cycle (`config_entries.py`: `ConfigEntry`, `ConfigEntries`) | `state`, `disabled_by`, `reload_lock`, the handle of a pending retry, `_on_unload` | add, set up, unload, reload, schedule a reload, disable, remove, retry, shut down | awaits the integration's coroutines and the set-up of its component; listens to the start and the stop |
| config entry index and flows (`ConfigEntryItems`, `ConfigEntriesFlowManager`, `ConfigFlow`) | the entries by id, by domain, by domain and unique id; flows in progress | set and delete an item, update a unique id; a flow sets its unique id, aborts, finishes, replaces an entry | flows await the life cycle of entries in the middle of an update of the index |
| storage (`helpers/storage.py`, `util/file.py`, `helpers/json.py`) | pending data, timer, final-write listener, write lock; preload cache; the file | load, save, delayed save, final write, migrate, preload, remove | writes in the executor; the stages of the stop |
| timeout manager (`util/timeout.py`) | the table of zones, recorded freezes; timer, state and event of every timeout | enter and leave a timeout or a freeze, of a zone or of all | cancels the tasks of bootstrap and of component set-ups |
| component set-up (`setup.py`, `bootstrap.py`) | a future per domain in `DATA_SETUP` and in `DATA_SETUP_DONE`, `hass.config.components`; the stages of the start-up | announce domains; set up a domain after its dependencies, then its entries; time out a stage | config entries, timeouts, loader |
| start and stop (`core.py`: `HomeAssistant`) | `CoreState`, pending tasks | start, stop in stages, block till done | fires the events everybody above listens to |
| event bus, state machine, service registry (`core.py`) | listeners, states, services | fire, listen, listen once; set and remove states; call services | everything |
| debouncer (`helpers/debounce.py`) | timer, execution lock, "execute at the end of the timer" | call, schedule, cancel, shut down | update coordinator, registries |
| update coordinator (`helpers/update_coordinator.py`) | listeners, scheduled refresh, data and success of the last refresh, its debouncer | refresh, request a refresh, poll, push data or an error, listen, shut down | debouncer, config entries, entities |
| data entry flow manager (`data_entry_flow.py`) | flows in progress, their current step | init, configure, abort, finish | config flows, options, auth |
| scripts and automations (`helpers/script.py`, `components/automation`) | runs of a script, their stop futures, the queue's lock | run in four modes, restart, stop, stop at the shutdown | services, triggers, timeouts |
| registries (`helpers/*_registry.py`) | entities, devices, areas | create, update, remove, clean up | each other through events, config entries, storage |
| entity platforms (`helpers/entity_platform.py`, `entity.py`) | entities, pollers, platform retries | set up, add, update, remove entities | config entries, registries |
| authentication (`auth/`) | users, refresh tokens, revocation callbacks | log in, create and revoke tokens | storage |
| loader, requirements, YAML configuration | integrations on disk | resolve dependencies, import, install, parse | component set-up |
| small helpers (`dispatcher`, `singleton`, `ratelimit`, `restore_state`, `integration_platform`) | signal targets; futures; timers; last states; platforms | send; get once; limit; restore; process | everything |
| integrations (`components/`) | theirs | theirs | clients of all of the above |

### What is hard, and what makes each component right

* **Config entries.** A reload, a retry timer, the start of Home Assistant and
  the set-up of the component all end in the integration's
  `async_setup_entry`, and only the reload takes `reload_lock`. Right means:
  the integration is never inside two of its coroutines, `LOADED` says that it
  runs the entry, a retry that is pending can be cancelled, an entry that failed
  for good stays so, nobody waits for ever, and an entry that was not ready is
  tried again.
* **Index and flows.** A flow checks that its unique id is free and creates the
  entry many awaits later, and it may be aborted while its step runs, which does not
  stop the step. Right means: no lookup answers with an entry that is
  gone or has another id, no stored entry is lost to the lookups, no two share
  an id. For the last two the code relies on the integration: it must look whether an id is
  taken before a flow uses it, and before an update of an entry does.
* **Storage.** Timers, saves, the final write, a migration, a preload in a
  thread and the death of the process race for one file. Right means: a save
  that returned is on disk (unless its write failed: `async_save` does not tell), the file never goes back, a load never gets what is
  older, what was left to a delayed write is on disk after the stop.
* **Timeouts.** Freezes of a zone and of all zones overlap the timeouts they
  pause; a global timeout waits for zones that come and go. Right means: the timer of
  a zone stops with the first freeze and starts again with the last, a task is cancelled only inside its
  timeout, no timeout hangs.
* **Component set-up.** Stages, dependents and config entries ask for one domain
  at overlapping times, and a cancelled caller cancels a future that belongs to
  somebody else. Right means: a component is set up once, after its
  dependencies, all who asked get answers that agree, and set-ups that wait for
  each other never do so for ever.
* **Coordinators.** Requests, polls, pushes and direct refreshes overlap, with
  two timers whose handles may be overwritten. Right means: every timer can be
  cancelled, polling never falls asleep while anyone listens, no request is
  lost, listeners see the state there is, and a shutdown ends in rest.
* **Scripts.** Restarts overlap restarts, and a run may be told to stop before it
  has started. Right means: the mode is kept, the newest restart wins, who was
  stopped never executes again, and every stop returns.

`PROJECT.json` lists the hazards one by one, at their lines, with the properties
that cover them.

Three behaviours of config entries are what they are, and no property speaks of
them. Callbacks that a set-up registered with `async_on_unload` stay unrun when
the entry is unloaded from `SETUP_ERROR` or `SETUP_RETRY`
(`config_entries.py:742`). They run although the integration refused to
unload (`config_entries.py:765`). And an entry removed while it is being set up is
answered with "no restart needed" and is set up nevertheless
(`config_entries.py:1593`).

## The modules

| module | models | state and actions |
|---|---|---|
| `ConfigEntry` | one entry, the tasks that work on it, the part of `setup.py` that sets up the entries of a domain | `pc[t]` names the await task `t` is in, `op[t]` the call it serves. `CallSetup`, `CallReload`, `SetDisabledBy`, ... start a call; `Prepared`, `SetupEntryTrue`, `SetupEntryNotReady`, `UnloadEntryFalse`, ... are the slices after each await; `RetryTimer`, `Started`, `Stop` come from outside |
| `EntryService` | abstract: what an integration may rely on | set-up and unload in turn, one at a time, never after a failed unload |
| `ConfigEntryItems` | the container with both indexes, and config flows over it | `SetItem`, `DelItem`, `UpdateUniqueId` are the container's methods; `Start`, `SetUniqueId`, `ShowForm`, `Configure`, `FinishFlow`, `Unloaded`, `Added`, `ExistingRemoved` the slices of a flow, `AbortFlow` comes from outside |
| `Store` | one file, the store's tasks and threads, the manager's cache, the stages of the stop, the death of the process | the data is its version. `AsyncSave`, `DelaySave`, `TimerFires`, `Load`, `Remove`; `Serialize`, `Replace`, `WriteFails` in the thread; `Stop`, `FinalWrite`, `Close`, `Restart` |
| `DurableRegister` | abstract: what a store promises | the file moves only forward, to something saved; what was acknowledged survives |
| `TimeoutManager` | timeouts and freezes of zones and of all | `EnterGlobal`, `EnterZone`, `BodyEnds`, `BodyCancelled`, `TimerFires`, `ZonesAwaited`, `CooledDown`; `FreezeZone`, `UnfreezeZone`, `FreezeGlobal`, `UnfreezeGlobal` |
| `SetupComponent` | several domains, their tasks of each origin, both tables of futures, the stages of the bootstrap | `pc[t]` names the await. `Start`, `Loaded`, `AskDependency`, `AskAfter`, `Gathered`, `BeginSetup`, `SetupTrue`, `FlowsAwaited`, `EntriesSetUp` are the slices of a set-up, `Resolve` the end of each; `BeginStage`, `StageTimesOut` come from the bootstrap, `Call` from elsewhere |
| `Debouncer` | the state of a debouncer as a record, its methods as operators on it | `RunsNow`, `Deferred`, `TimerFired`, `Unlocked`, `Cancel`, `Shut` |
| `UpdateCoordinator` | a coordinator with its debouncer, the fetches under way, listeners, the source | data is a version of the source. `Refresh`, `RequestRefresh`, `PollTimer`, `DebounceTimer` begin a fetch through `Begin`; `FetchSucceeds`, `FetchFails`, `AuthFails`, `FetchCancelled` end it through `End`; `SetUpdatedData`, `AddListener`, `Shutdown`, ... |
| `ScriptRuns` | one script, the calls that run and stop it | `Call`, `Restarted`, `CancelCaller` are `Script.async_run`; `Launch`, `LockAcquired`, `StepsEnd`, `Finish` the run; `Stop`, `StopRun`, `StopReturns` the two `async_stop` |
| `MC*` | symmetry sets for TLC; `MCSetupComponent`: the manifests and stages to check | |
| `*Proofs` | theorems and their proofs | |

Two refinements connect the levels. `ConfigEntry` implements `EntryService`
with the tasks inside `async_setup_entry` and `async_unload_entry` as the
abstract callers (`ImplementsService`). `Store` implements `DurableRegister`
with the owner's newest data as the register and the file as its durable value;
before the owner has loaded its data, the file stands for it
(`ImplementsRegister`).

`ConfigEntry` and `ConfigEntryItems` split `config_entries.py` along its data:
the indexes do not depend on the state of an entry, and the life of an entry
depends on the container only in whether it is still in it (`registered`). In
`ConfigEntryItems` the awaits of the life cycle are the points where a flow is
interrupted.

`UpdateCoordinator` composes `Debouncer`: the debouncer's methods are operators
from state to state, because the coordinator calls several of them in one
slice. `SetupComponent` takes up what `ConfigEntry` has of `setup.py` as seen from
one domain, and adds the waits between domains; the timeouts of `TimeoutManager` are
there the choice `StageTimesOut`.

Choices that stand for code outside the models:

* *The integration.* Its coroutines return, refuse or raise: one action per
  outcome that the handlers tell apart. `HooksMayRaise` lets an on_unload
  callback raise, `SupportsUnload` says whether there is an `async_unload_entry`.
  `careful` (index) says that the integration aborts a flow whose unique id is
  taken, by another flow (`raise_on_progress`) or by an entry (`_abort_if_unique_id_configured`);
  it is chosen at the start and never changes, so both kinds of integrations are
  checked. It says nothing about updates of entries: `UpdateUniqueId` takes any id, as
  `async_update_entry` does.
* *Time.* A timer that is armed may fire at any time; whether a delay has passed
  is a choice.
* *The owner of a store.* It loads its data before it saves or removes, and while a load may have to
  migrate the file none of its other tasks uses the store. The code of the store enforces
  neither; this is an assumption on its callers, and without it a migration could put an old
  version back (`storage.py:418`).
* *The disk.* `util/file.py` writes a temporary file and renames it, so the file
  is the old or the new one; `Faults` lets a write fail or a `data_func` raise.
* *Manifests and stages* (set-up). One of the set `Plans` is chosen at the start, and
  so is whether a stage may time out (`mayCancel`). The loader and the integration's own
  set-up answer as they like.
* *The source* (coordinator). It changes at any time; a fetch answers with a version
  from between its begin and its end, or fails, or is cancelled.
* *A script's sequence.* One step that ends by itself or when it is stopped.
  `mayCancel` lets callers be cancelled.
* *The body of a timeout.* It ends, gives in to a cancellation, or swallows it.

## The runs

| run | instance | distinct states | shows |
|---|---|---|---|
| `entry_orderly` | 3 tasks; set up, reload, disable | 108 000 | with calls that respect `reload_lock`: all invariants of the entry, the refinement, every call returns, an unready entry is tried again |
| `entry_any_calls` | 3 tasks; unload and remove, too | 1 240 000 | reloads exclude each other, nobody waits in a circle, or for a task that is gone |
| `items` | 3 entries, 2 flows, 2 ids; any and careful integrations | 569 000 | lookups are sound; with care they are complete, and ids unique, but for contested ids |
| `items_replaced` | the same | violation | see below |
| `store_any` | 3 tasks, 2 changes, all faults, removal, crashes | 2 000 000 | acknowledged saves are on disk, loads are current |
| `store_stop` | 2 tasks, 2 changes, a file to migrate, crashes | 122 000 | the stop writes what is due, the refinement, every change reaches the disk |
| `timeouts` | 2 timeouts, 3 freezes, 2 zones, one task cancelled by others | 169 000 | timers follow freezes, no late cancellation, nothing forgotten, every timeout ends |
| `setup` | 3 domains, 7 plans, one caller from elsewhere | 118 000 | one set-up per component, dependencies first, answers agree, everybody gets one |
| `setup_announced` | the same | violation | see below |
| `coordinator` | 2 fetches at a time, 2 listeners, 1 change of the source | 585 000 | timers held, exclusion, polling goes on, views current, requests served, rest after shutdown |
| `scripts` | 3 runs, 1 stop, at most 2 runs allowed, 4 modes | 418 000 | the mode is kept, the newest wins, stops are final and return |
| `script_abandoned` | the same | violation | see below |

**Bounds, and why they are enough.**

* *Tasks of an entry.* The hazards of an entry are between two tasks at a time; the third is
  the one that waits for the lock while one holds it and one comes without it
  (a retry, the component). With three, a reload can wait behind a reload behind
  a set-up, and a chain of waits is as long as it gets: one waits for the lock, its holder
  for the component, the third sets that up. What `entry_any_calls` checks is proved for any number.
* `MaxRetries = 2`: `RetryIsCancellable` says there is at most one, so two let a
  wrong one show.
* *Entries, ids, flows.* Replacing takes two entries, and a third that takes the id
  meanwhile; two flows race for one id, while updates and removals race for the entry; a second
  id lets an update move an entry away. The invariants are proved for any number of each.
* *`MaxVersion` of the store is 2*: one version being written, or on disk, and a newer one that
  waits or overtakes it. The owner's changes are the only counter; calls of
  `async_delay_save` are not counted, as one may come without a change. So there is no end to
  the calls, and postponing a write for ever is a behaviour of the instance.
* *Timeouts.* Two, so that a global one waits for one of a zone or for another's
  zone; with three freezes two nest in a zone under or over a global one, and keep
  two zones busy. Each context is entered once, as each `async with` is. The
  safety properties are proved for any number.
* *Plans.* Chains, a domain with two dependencies and with two ways to one, a cycle of
  dependencies, a dependency that waits for its dependent by an
  after_dependency, and two plans of two stages, where a domain is announced later than
  it is needed, or twice. Each domain can have a task of a stage, of a dependent and
  of a caller at the same time, which is every origin there is. A cycle with two
  after_dependencies in it is excluded: `script/hassfest/dependencies.py` refuses
  such manifests, and the code at run time would not notice. The safety properties are proved for any
  manifests and stages.
* *Coordinator.* Two fetches overlap, or one overlaps a push or a request; two
  listeners, so that one goes and one stays. One change of the source tells a fetch
  that began before it from one that began after it; that the data may be equal again
  does not need another.
* *Script.* Three runs: one executes, one is restarting, one comes; or one executes, one
  waits in the queue and one is refused. One stop at any time, the stops of the
  restarts beside it.

**Deadlock** is checked where the system goes on for ever: `entry_orderly`,
`coordinator` and the runs of `Store`. It is off where the instance really ends:
`entry_any_calls` (after the removal of the entry, or after
the stop), the flows of `ConfigEntryItems` (each is closed once), the
timeouts (each is left once), the set-ups and the runs of a script (each task returns once).

**Fairness, and why the code justifies it.**

* The event loop resumes every task that can run: weak fairness of a task's slices, or
  of all together where each can be taken only a bounded number of times (`SetupComponent`, `ScriptRuns`).
* `asyncio.Lock` wakes its waiters in the order they came, so a task that waits
  for `reload_lock` or `_write_lock` gets it even if others come again and again:
  strong fairness of getting the lock. In `ScriptRuns` the queue of the lock is a
  sequence, and no more is needed.
* Timers that are armed fire (`RetryTimer`, `TimerFires`, `Timers`). The timer of a store runs
  on a task of its own; in the model it must find a free one of the few there
  are, hence strong fairness.
* The integration's coroutines return. The code does not bound those of an entry, and with one that
  hangs `EveryCallReturns` is false: this is an assumption on integrations. The set-up of a
  component is bounded by `SLOW_SETUP_MAX_WAIT`; fetches by the timeouts of the integrations.
* The executor's jobs end; work done under a freeze ends; a body that is cancelled
  ends. Bodies of timeouts need not end by themselves, and neither need the steps of
  a script: only one that is told to stop does. For steps that run a scene or a device action
  (`script.py:750-764`), which do not watch `_stop`, that is an assumption on what they call: that it ends.
* Nothing is assumed of callers: no call need ever be made, and calls may come
  for ever.

Some liveness properties have a way out that the code needs. `SetupsReturn` excepts runs
where a stage times out and states with a future that nobody will set
(`Orphan`); `setup_announced` shows that the second exception is real.
`EventuallyWritten` excepts one behaviour (`PostponedForEver`): calls of `async_delay_save`
that keep coming before the timer fires move its time on and on (`storage.py:452-454`, `475-480`), and
nothing is ever written. Without the exception TLC finds just that; with it, and while no write fails, neither a
finite number of postponements nor a handle left over from a timer that fired keeps data off the disk.
`RequestsServed` excepts requests that come during a fetch of a coordinator that does
not poll: the debouncer drops them ("Any call is good, so abort."), although the fetch may
have read what it returns before the request.

## The proofs

All proofs are checked by TLAPS, for any tasks, entries, ids, flows, versions,
contexts, zones, domains, manifests, listeners and runs. The assumptions are the
named `ASSUME`s of the modules: that model values differ from the sets they are
not in, that flags are Booleans, that sets of tasks and runs are finite where they are
counted, and that plans are plans.

**ConfigEntryProofs.** `TypeCorrect` holds for all calls. The safety
properties need the calls to be *orderly*: nobody awaits an unload without holding
`reload_lock`, that is, no `async_unload` and no `async_remove`, unless the integration
cannot unload at all. Then `OrderlyInv` is inductive:

* at most one task is setting up (`SetupExclusive`), because `EntrySetup` starts only
  from a recoverable state and leaves it in the same slice;
* who serves a locked call and is past the lock holds it (`LockHeld`);
* the await a task is in agrees with the state of the entry (`AwaitsMatchState`):
  this is what makes the write of the state after an await safe;
* an entry whose component is not there yet is `NOT_LOADED` (`UnloadedBefore`).

`IntegrationExclusive` follows from the first three, `LoadedIffLive`,
`RetryIsCancellable` and `NoTimerWhileStopping` are parts of it. The refinement
`OrderlyImplements` goes through slices: a slice that neither begins nor ends one of
the integration's coroutines stutters, the others are `BeginSetup`,
`EndSetup`, `BeginUnload`, `EndUnload` or `Break`. `OrderlyUnrecoverableIsFinal` is an
action property from the same invariant, and `OrderlyRetryAhead` is inductive
beside it: the timer, the listener, or the reload that cancelled them is always there.
`ReloadsAreExclusive` holds for all calls, from an
invariant about the lock alone. So does `WaitsEndAtWork`, from two facts that each action
keeps: the holder of `reload_lock` is a reload past the lock (`HolderWorks`), and the runner
of the component's future waits for nobody (`RunnerWorks`). A chain of waits is then at
most two long, lock and future, and ends at work.

**ConfigEntryItemsProofs.** `LookupSound` is inductive with the types, whatever the
integrations do: the index is never wrong, only incomplete. `CarefulInv` adds why
ids stay unique over the awaits of a flow (`FlowHoldsId`): an id that a flow in progress
holds is free until the flow creates its entry, as every other flow
looks first; so no flow ever finds an entry to replace, and the order in which
replacing updates the index does not matter. Two steps break this, and nothing in the code prevents
either: an update of an entry that takes an id which an entry or a flow has
(`config_entries.py:1847`), and a flow that was aborted during its step and creates its entry all the
same (`data_entry_flow.py:556-561` does not look). A history variable, `contested`, collects the
ids they take; everything is claimed, and proved, for the ids outside it. So the harm never
spreads: an entry whose own id was not contested is found, can be removed, and shares
its id with nobody.

**StoreProofs.** `StoreInv` orders the versions: the file, then what is being
written, then what waits, which is the owner's newest (`VersionsOrdered`); whoever
waits for the lock with a goal finds the goal in the data that waits, in the
hands of the task that holds the lock, or on disk (`GoalsCovered`); before the
owner has its data only the load is at work (`NothingBeforeLoad`); and
what the cache still hands out is the file (`CacheIsFile`). It holds with all
faults, removal and crashes. A save whose data is lost because the write that carries it fails has no
goal any more (`Lost`), nor has one whose data was in a file that was removed: `async_save` returns
to its caller as if nothing had happened, and `SavesAreDurable` claims nothing for these two. A save whose data
still waits when the write of another fails keeps its goal. From it: `SavesAreDurable`, `LoadsAreCurrent` and, if
nothing is removed, the refinement `RemovelessImplements`.

Two more invariants are inductive beside `StoreInv` and follow the data that nobody awaits.
`DueCovered` says where what was left to a delayed or the final write is, up to the
end: with its listener, then in a task that the stop waits for, then with the lock;
`StopLosesNothing` follows. It needs that nothing fails and nothing is removed
(`NothingIsDropped`), and each of the three is needed: a write that fails is forgotten; a
`data_func` that raises leaves newer data behind, which the task that then waits for the lock
may be too late for; a removal that the stop left behind cancels the listener.
`WriteAhead` says that while Home Assistant runs all that is not on disk is being
written, or has an armed timer or a task at the lock. `WritesAreAhead` needs
only that the disk works and nothing is removed (`DiskWorks`): a `data_func` raises only
if newer data waits.

**TimeoutProofs.** `TimeoutInv` has one lemma per part, each by cases over the
actions: the table of zones (from how entering and leaving change `Members`), who is
recorded (`Recorded`, `UnrecordedNested`), `TimersFollowRecorded`, `ExpiredIsHandled`, and
`CancelledOnce`. The manager's timers follow the freezes it records. `TimersFollowFreezes` speaks of
the freezes somebody is in: it follows because a freeze that is not recorded is one of all zones that began
inside another one, which the history variable `nested` tells. `CancelledOnce`
says how far a timeout is on its way to one cancellation (timer, wait, cancellation),
and holds as long as nobody froze all zones: a global freeze that ends starts the
timers of expired timeouts again.

**UpdateCoordinatorProofs.** `CoordinatorInv` adds to the properties the reason for
`ViewsCurrent` (`SoleFetch`): a fetch that nothing has overlapped is the only one, and what it
read before it fetched still is the coordinator's state, so comparing with it tells
whether a listener is behind. Every operation on a timer is one of the debouncer's
operators, each with a lemma about what it does to a handle and the timers it
leads to. `TimersHeld` follows because a timer is armed only where its handle is
free: the poll timer is cancelled first, `Deferred` looks at the handle, and at the end of a
debounced refresh no cooldown runs, which is the third part of `DebouncedAlone`.

`RequestsAreCovered` adds what holds of a request that no fetch has begun for: the debouncer
will execute at the end of its timer, or the coordinator polls and has a poll or a fetch ahead,
unless the credentials were refused, which ends polling for good.
With it goes that the debouncer is shut exactly when the coordinator is, and
has no timer then (`ShutDown`); `ShutdownIsQuiet` is the action property about fetches.

**SetupComponentProofs.** `SetupInv` has the following parts. A domain whose set-up
runs has exactly one running task and a key in `DATA_SETUP`, which only the last
step of a successful set-up removes (`Runners`, `Touched`): so nobody begins a
second one, and `SetUpOnce` follows. What a future, a task's answer and
`hass.config.components` say agrees, with cancellations as the exception
(`Truth`, `Uncancelled`): this is `AnswersAgree`. What a set-up has gathered
covers every dependency that is not loaded (`DepsAwaited`), and, for a task of a
stage, every after_dependency announced with it (`StageTasks`, `AfterAwaited`): hence
`DependenciesFirst`, when the gather is done.

`WaitInv` is about waiting. A future of `DATA_SETUP` that is pending has its runner, a
task past the loader gathers only for a domain that does not depend on itself, and what it awaits
for each kind of future is settled or has somebody to settle it (`AskOk`). `WaitsAreCovered` follows,
cancellations included: a cancelled caller may take the answer away, never the
runner. `NobodyWaitsInCircles` holds because the domains below one that gathers are below it in the plan
too, and the loader refused the plan where it goes round (`Circular`).

**ScriptRunsProofs.** `ScriptInv` says which runs are in `_runs` (`Listed`), that in mode
queued who executes holds the lock (`LockHeld`), and how far each stop is with
each run it found: a task that is done has told a run that does not execute and never
will (`StopsTold`), and a stop returns when its tasks are done or their runs finished
(`StopsOver`). The heart is `StopsCross`: of two runs of a restart that have not
started, one has a stop task for the other, and one that has not started stops the one that
executes or was told to stop. So never can two execute, and whoever executes
undisturbed is the newest.
`ModeKept`, `NewestExecutes` and `StopIsFinal` follow for any number of runs and stops.

`RunsInv` is about waiting. The queue of the lock is the sequence of the runs that wait for it, which
takes three lemmas about appending, taking the first and taking one out of the middle;
so `QueueIsKept` and, as a run is told to stop before anybody awaits it,
`NobodyWaitsForWaiters`. `RunsAreRunning` is `IsRunning` for all behaviours in which no
caller is cancelled, the case that `script_abandoned` refutes. `StoppedDoNotStart` is the
action property behind them.

**Liveness and its safety half.** Every safety property and every action property of
the passing runs is proved. What stays with TLC is liveness under fairness (`EveryCallReturns`,
`RetriedUntilReady`, `EventuallyWritten`, `TimeoutsEnd`, `SetupsReturn`, `RequestsServed`,
`ComesToRest`, `StopsReturn`), which is beyond TLAPS. For most of them the part that could go
wrong by a step, that something is waited for that nobody will bring, is a safety property, and that
is proved for any number of tasks:

| checked by TLC | its safety half, proved |
|---|---|
| `EveryCallReturns` | `WaitsEnd` |
| `RetriedUntilReady` | `RetryAhead` |
| `EventuallyWritten` | `WriteAhead` |
| `TimeoutsEnd` | `ExpiredIsHandled` |
| `SetupsReturn` | `WaitsCovered`, `NoCircularWait` |
| `RequestsServed` | `RequestAhead` |
| `StopsReturn` | `QueueKept`, `WaitsForStopped` |

What is left to TLC there is that each task in such a state, once resumed, gets nearer to its
end. Of `ComesToRest` the half that a step could break is `ShutdownIsQuiet`. `WaitsEnd`
and `ExpiredIsHandled` are properties of runs of their own. The other
halves are not, as the liveness property they belong to says more on the
same instance; each was checked on the constants of those runs before it was proved.

## Where the code and its documentation differ

Each of these is a run that TLC ends with a counterexample.

* `items_replaced`: a flow that replaces an entry of the same unique id indexes the new
  one before it removes the old one, and the removal deletes the key of both. The
  new entry is not found under its id, and removing it raises `KeyError`.
* `setup_announced`: a domain whose set-up failed as somebody's dependency in one stage is
  announced again for the next ("Keep track of domains which will load but have not
  yet finished loading"). Its call returns the old answer and leaves the new future
  alone; whoever has it as after_dependency waits until the stage times out, five
  minutes later, and is cancelled.
* `script_abandoned`: `Script.async_run` adds its run and then, in mode restart, awaits the
  stop of the others outside of its `try`. Cancelled there it leaves a run that nobody
  starts or removes: `is_running` ("Return true if script is on.") stays true.

The models show more, which no run is about:

* `async_set_disabled_by` stores `disabled_by`, then reloads; while
  the entry is being set up the reload raises `OperationNotAllowed`, and the
  entry ends up disabled and loaded (`SetDisabledBy`, then `SetupEntryTrue` in
  `ConfigEntry`). The docstring says the entry will be reloaded (`config_entries.py:1777`).
* `async_remove` of a store ("Remove all data.", `storage.py:566`) neither drops the pending data nor
  takes the write lock; a write under way brings the file back (`Remove`, then `Replace` in `Store`).
* A delayed save called while the final writes run is never
  written ("Ensure that we write if we quit before delay has passed.", `storage.py:487`);
  `Store` has it with `SavesLate`.
* The event a global timeout waits for ("Wait until zones are done.", `timeout.py:245`)
  is never cleared. Once the zones have been done, a global timeout that
  expires while new zones are busy does not wait for them (`TimerFires`, `ZonesAwaited` in `TimeoutManager`).
* A global freeze inside a
  global freeze is not recorded, so when the outer one ends first the timers run under the
  inner one, whose end raises `ValueError`. And a global timeout that is entered
  under a global freeze starts its timer at once. Nothing in `homeassistant/`
  freezes all zones.
* When a stage times out, a cancelled task that awaits somebody else's set-up cancels that
  set-up's future. The set-up itself goes on and loads the component, but
  cannot set the future: it raises `InvalidStateError`, its caller is told that it failed, and its
  future in `DATA_SETUP_DONE` is taken out and never set (`Resolve` in `SetupComponent`). This is why
  `AnswersAgree` says less when `mayCancel` holds.
* When two refreshes of a coordinator overlap, each compares with what it read before its own
  fetch; an older answer that comes last wins, and without `always_update` a change may not be told to the
  listeners until the data changes again. `ViewsCurrent` therefore speaks of refreshes that do not
  overlap (`mixed`).
* A write that fails is logged, and `async_save` returns as if the data were on disk, to its own caller and to
  those whose data the failed write had taken along (`storage.py:539-540`; `WriteFails` in `Store`).
* A flow that is aborted while its step runs creates its entry nevertheless, and then raises
  `UnknownFlow` (`AbortFlow`, then `FinishFlow` in `ConfigEntryItems`). An update may give an entry the
  unique id of another: both then share one key of the index, and removing the second raises `KeyError`
  (`UpdateUniqueId`).

## What is not modelled

* Of config entries: forwarded platform set-ups, ignored entries, reauth flows, the
  reload that `EntityRegistryDisabledHandler` schedules, background tasks of an entry.
* Of flows: discovery, import, reauth and options flows, single-entry integrations,
  `DEFAULT_DISCOVERY_UNIQUE_ID`; of `FlowManager` itself: two calls that configure one flow at once, the progress task whose end
  configures a flow that has moved on.
* Of storage: corrupt files, read-only stores, the semaphore that bounds
  loads, several stores at a time (they share only the manager's set of files).
* Of the stop: the time limits of its stages.
* Of timeouts: freezes entered by executor threads; two timeouts in one task.
* Of component set-up: platforms, the phases of `async_start_setup`, `async_when_setup`; a domain that
  is asked for more than once from outside the bootstrap.
* Of coordinators: an interval that changes, listeners whose callback raises (the ones after it are not told),
  `TimestampDataUpdateCoordinator`; of the debouncer `async_schedule_call`. The end of a debounced refresh and the
  debouncer's `finally` (`debounce.py:117-119`) are one action, `End`; in the code the second runs
  when the debouncer is resumed, a slice later. No property tells the two apart.
* Of scripts: the steps, sub-scripts, the stack that detects recursion, variables, traces.
* Event bus, state machine, services, registries, entity
  platforms and authentication: planned, see below.
* Templates, conditions, triggers, loader, requirements, YAML: evaluation, parsing, file
  system and network, where there is nothing to interleave.
* The integrations: clients of the core, present as the outcomes of their coroutines.

## The plan

The order is that of importance: what loses data or wedges the system first.

| step | module | composes | abstract specification | theorems |
|---|---|---|---|---|
| done | `ConfigEntry` | set-up future of `setup.py` | `EntryService` | types, safety, refinement, waits, retries |
| done | `ConfigEntryItems` | container and flows | - | soundness, completeness, uniqueness |
| done | `Store` | manager, stop | `DurableRegister` | durability, refinement without removal, what is ahead and after a stop |
| done | `TimeoutManager` | zones, freezes, tasks | - | safety |
| done | `UpdateCoordinator` | `Debouncer` | - | exclusion, timers, polling, views, requests, shutdown |
| done | `SetupComponent` | stages of the bootstrap | - | once, in order, answers agree, waits |
| done | `ScriptRuns` | run modes, stops, queue | - | mode, newest, stops, queue and waits |
| 1 | `FlowManager` | two calls on one flow, progress tasks, external steps | a flow ends once | no step after the end |
| 2 | `HassLifecycle` | stages of the stop, tracked tasks, `EventBus` | stages in order | once-listeners run at most once |
| 3 | `EntityRegistry` with `DeviceRegistry` | events between them | no entity of a device that is gone | consistency |
| 4 | `RestoreState`, `Singleton`, `KeyedRateLimit`, `IntegrationPlatform` | - | - | where TLC agrees |
| 5 | refresh tokens of `auth` | - | - | a revoked token is unusable |

Then, in the modules there are: forwarded platform set-ups in `ConfigEntry`, an abstract
set-up service that `SetupComponent` implements, freezes from threads in `TimeoutManager`, `SetupComponent` with the
timeouts of `TimeoutManager` instead of a choice. Runs stay at two to
four tasks and at the smallest set of values that lets the hazard of the module happen.
