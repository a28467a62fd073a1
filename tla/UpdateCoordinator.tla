-------------------------- MODULE UpdateCoordinator --------------------------
(***************************************************************************)
(* helpers/update_coordinator.py: one DataUpdateCoordinator, its poll      *)
(* timer, the debouncer of its requests, and its listeners (entities).     *)
(*                                                                         *)
(* Nothing keeps two refreshes apart: a request, a caller of async_refresh *)
(* and the poll timer may fetch at the same time, the owner may push data  *)
(* or an error meanwhile, and each refresh compares its outcome with what  *)
(* it read before it fetched.                                              *)
(*                                                                         *)
(* Abstractions.  Data is the version of the source it was read at; a      *)
(* fetch answers with a version from between its begin and its end, or     *)
(* fails, or is cancelled.  A timer that is armed may fire at any time.    *)
(* Every fetch has a task of its own.  The interval and always_update are  *)
(* fixed.  A listener is an entity: it reads the state when it is added,   *)
(* and it is not added during the first refresh.                           *)
(***************************************************************************)
EXTENDS Debouncer

CONSTANTS
  Task,        \* tasks that refresh
  Listener,
  MaxVersion   \* bound: the versions of the source

ASSUME VersionAssumption == MaxVersion \in Nat

VARIABLES
  polling,      \* there is an update interval and polling is not disabled
  alwaysUpdate, \* always_update
  listeners,    \* _listeners
  poll,         \* the timer of _unsub_refresh
  debouncer,    \* _debounced_refresh
  shutdown,     \* _shutdown_requested
  stopping,     \* hass.is_stopping
  data, ok,     \* data, last_update_success
  task,         \* per task: idle, or in a fetch and of which kind
  since,        \* per task: version of the source when its fetch began
  before,       \* per task: previous_update_success and previous_data
  seen,         \* per listener: ok and data when it was last told
  source,       \* the newest version at the source
  wanted,       \* the version at the last request, 0 if nothing is due to it
  begun,        \* the version at the begin of the last fetch or push
  authFailed,   \* the last refresh that ended found its credentials refused
  mixed         \* refreshes or pushes overlapped since all was told

configVars  == <<polling, alwaysUpdate>>
endVars     == <<shutdown, stopping>>
fetchVars   == <<task, since, before>>
vars == <<configVars, listeners, poll, debouncer, endVars, data, ok, fetchVars, seen,
          source, wanted, begun, authFailed, mixed>>

Version == 0..MaxVersion
View == [ok : BOOLEAN, data : Version]
Kind == {"refresh", "first", "debounced"}

TypeOK ==
  /\ polling \in BOOLEAN /\ alwaysUpdate \in BOOLEAN
  /\ listeners \subseteq Listener
  /\ poll \in [handle : BOOLEAN, armed : Nat] /\ debouncer \in DebouncerState
  /\ shutdown \in BOOLEAN /\ stopping \in BOOLEAN
  /\ data \in Version /\ ok \in BOOLEAN
  /\ task \in [Task -> Kind \union {"idle"}]
  /\ since \in [Task -> Version] /\ before \in [Task -> View]
  /\ seen \in [Listener -> View]
  /\ source \in Version /\ wanted \in Version /\ begun \in Version
  /\ authFailed \in BOOLEAN /\ mixed \in BOOLEAN

Start == [ok |-> TRUE, data |-> 0]

Init ==
  /\ polling \in BOOLEAN /\ alwaysUpdate \in BOOLEAN
  /\ listeners = {} /\ debouncer \in {NewDebouncer(i) : i \in BOOLEAN}
  /\ poll = [handle |-> FALSE, armed |-> 0]
  /\ shutdown = FALSE /\ stopping = FALSE /\ data = 0 /\ ok = TRUE
  /\ task = [t \in Task |-> "idle"] /\ since = [t \in Task |-> 0]
  /\ before = [t \in Task |-> Start] /\ seen = [l \in Listener |-> Start]
  /\ source = 0 /\ wanted = 0 /\ begun = 0 /\ authFailed = FALSE /\ mixed = FALSE

-----------------------------------------------------------------------------
(* Scheduling *)

Fetching == {t \in Task : task[t] # "idle"}
Now == [ok |-> ok, data |-> data]

\* Mutant of Scheduled: the timer that is armed already is left alone.
ScheduledTwice(p) == IF polling THEN Arm(p) ELSE p

\* Mutant of Scheduled: the interval is set up once, by the first listener.
ScheduledOnce(p) == IF polling /\ listeners = {} THEN Arm(CancelTimer(p)) ELSE p

\* _schedule_refresh.
Scheduled(p) == IF polling THEN Arm(CancelTimer(p)) ELSE p

\* async_update_listeners, if anything is told; nobody else is fetching then,
\* or the tellings of several refreshes are mixed.
Tell(told, fetching) ==
  /\ seen' = [l \in Listener |->
               IF told /\ l \in listeners THEN [ok |-> ok', data |-> data'] ELSE seen[l]]
  /\ mixed' = (mixed /\ ~(told /\ fetching = {}))

-----------------------------------------------------------------------------
(* Refreshes *)

\* Mutant of Begin: the finally clause runs when a refresh is ignored, too.
BeginReschedules(t, kind, scheduled, p, d) ==
  /\ task[t] = "idle"
  /\ debouncer' = Cancel(d)
  /\ IF shutdown \/ (scheduled /\ stopping)
     THEN /\ poll' = IF listeners # {} THEN Scheduled(CancelTimer(p)) ELSE CancelTimer(p)
          /\ UNCHANGED <<fetchVars, begun, mixed>>
     ELSE /\ poll' = CancelTimer(p)
          /\ task' = [task EXCEPT ![t] = kind]
          /\ since' = [since EXCEPT ![t] = source]
          /\ before' = [before EXCEPT ![t] = Now]
          /\ begun' = source /\ mixed' = (mixed \/ Fetching # {})
  /\ UNCHANGED <<configVars, listeners, endVars, data, ok, seen, source, authFailed>>

\* _async_refresh up to the fetch, by t, with the timers as p and d.
Begin(t, kind, scheduled, p, d) ==
  /\ task[t] = "idle"
  /\ poll' = CancelTimer(p)
  /\ IF shutdown \/ (scheduled /\ stopping)
     THEN /\ debouncer' = IF kind = "debounced" THEN Unlocked(Cancel(d)) ELSE Cancel(d)
          /\ UNCHANGED <<fetchVars, begun, mixed>>
     ELSE /\ debouncer' = Cancel(d)
          /\ task' = [task EXCEPT ![t] = kind]
          /\ since' = [since EXCEPT ![t] = source]
          /\ before' = [before EXCEPT ![t] = Now]
          /\ begun' = source /\ mixed' = (mixed \/ Fetching # {})
  /\ UNCHANGED <<configVars, listeners, endVars, data, ok, seen, source, authFailed>>

\* async_refresh.
Refresh(t) == Begin(t, "refresh", FALSE, poll, debouncer) /\ UNCHANGED wanted

\* async_config_entry_first_refresh, in the set-up of the config entry.
FirstRefresh(t) ==
  /\ listeners = {} /\ Fetching = {}
  /\ Begin(t, "first", FALSE, poll, debouncer) /\ UNCHANGED wanted

\* __wrap_handle_refresh_interval.
PollTimer(t) ==
  /\ poll.armed > 0
  /\ Begin(t, "refresh", TRUE, [handle |-> FALSE, armed |-> poll.armed - 1], debouncer)
  /\ UNCHANGED wanted

\* async_request_refresh: Debouncer.async_call.  A call that is dropped because
\* one is in progress can only count on the poll timer.
RequestRefresh(t) ==
  /\ wanted' = IF debouncer.shut \/ (debouncer.locked /\ ~(polling /\ listeners # {}))
               THEN wanted ELSE source
  /\ IF RunsNow(debouncer)
     THEN Begin(t, "debounced", FALSE, poll, Locked(debouncer))
     ELSE /\ debouncer' = Deferred(debouncer)
          /\ UNCHANGED <<configVars, listeners, poll, endVars, data, ok, fetchVars, seen, source,
                         begun, authFailed, mixed>>

\* Debouncer._on_debounce and _handle_timer_finish.
DebounceTimer(t) ==
  /\ debouncer.armed > 0
  /\ IF RunsAtEnd(debouncer)
     THEN Begin(t, "debounced", FALSE, poll, Locked(TimerFired(debouncer)))
     ELSE /\ debouncer' = TimerFired(debouncer)
          /\ UNCHANGED <<configVars, listeners, poll, endVars, data, ok, fetchVars, seen, source,
                         begun, authFailed, mixed>>
  /\ UNCHANGED wanted

\* The end of a refresh by t: the finally clause, unless the credentials were
\* refused, then the listeners, then the debouncer's finally clause, which in
\* the code runs when the debouncer is resumed, a slice later.
End(t, refused, told) ==
  /\ task[t] # "idle"
  /\ task' = [task EXCEPT ![t] = "idle"]
  /\ since' = [since EXCEPT ![t] = 0] /\ before' = [before EXCEPT ![t] = Start]
  /\ poll' = IF ~refused /\ listeners # {} /\ ~stopping THEN Scheduled(poll) ELSE poll
  /\ debouncer' = IF task[t] = "debounced" THEN Unlocked(debouncer) ELSE debouncer
  /\ authFailed' = refused
  /\ Tell(told, Fetching \ {t})
  /\ UNCHANGED <<configVars, listeners, endVars, source, wanted, begun>>

\* Mutant of FetchSucceeds: a recovery with the same data is not told.
FetchSucceedsUntold(t) ==
  \E v \in since[t]..source :
    /\ data' = v /\ ok' = TRUE
    /\ End(t, FALSE, alwaysUpdate \/ before[t].data # v)

FetchSucceeds(t) ==
  \E v \in since[t]..source :
    /\ data' = v /\ ok' = TRUE
    /\ End(t, FALSE, alwaysUpdate \/ ~before[t].ok \/ before[t].data # v)

\* A timeout, a client error, UpdateFailed, ConfigEntryError or any exception.
\* The first refresh raises some of them instead of telling the listeners, of
\* whom there are none.
FetchFails(t) == data' = data /\ ok' = FALSE /\ End(t, FALSE, before[t].ok)

\* ConfigEntryAuthFailed: a reauth flow is started, and polling pauses.
AuthFails(t) == data' = data /\ ok' = FALSE /\ End(t, TRUE, before[t].ok)

\* The task is cancelled in the fetch.
FetchCancelled(t) == UNCHANGED <<data, ok>> /\ End(t, FALSE, FALSE)

FetchEnds(t) == FetchSucceeds(t) \/ FetchFails(t) \/ AuthFails(t) \/ FetchCancelled(t)

-----------------------------------------------------------------------------
(* The owner and the listeners *)

AddListener(l) ==
  /\ l \notin listeners /\ \A t \in Task : task[t] # "first"
  /\ listeners' = listeners \union {l}
  /\ seen' = [seen EXCEPT ![l] = Now]
  /\ poll' = IF listeners = {} THEN Scheduled(poll) ELSE poll
  /\ UNCHANGED <<configVars, debouncer, endVars, data, ok, fetchVars, source, wanted, begun,
                 authFailed, mixed>>

\* remove_listener; with the last listener go the requests that wait.
RemoveListener(l) ==
  /\ l \in listeners
  /\ listeners' = listeners \ {l}
  /\ seen' = [seen EXCEPT ![l] = Start]
  /\ IF listeners = {l}
     THEN poll' = CancelTimer(poll) /\ debouncer' = Cancel(debouncer) /\ wanted' = 0
     ELSE UNCHANGED <<poll, debouncer, wanted>>
  /\ UNCHANGED <<configVars, endVars, data, ok, fetchVars, source, begun, authFailed, mixed>>

\* async_set_updated_data: the owner pushes what the source sent.
SetUpdatedData ==
  /\ data' = source /\ ok' = TRUE /\ begun' = source
  /\ poll' = IF listeners # {} THEN Scheduled(CancelTimer(poll)) ELSE CancelTimer(poll)
  /\ debouncer' = Cancel(debouncer)
  /\ seen' = [l \in Listener |-> IF l \in listeners THEN [ok |-> TRUE, data |-> source] ELSE seen[l]]
  /\ mixed' = (Fetching # {})
  /\ UNCHANGED <<configVars, listeners, endVars, fetchVars, source, wanted, authFailed>>

\* async_set_update_error.
SetUpdateError ==
  /\ ok /\ ok' = FALSE /\ data' = data
  /\ seen' = [l \in Listener |-> IF l \in listeners THEN [ok |-> FALSE, data |-> data] ELSE seen[l]]
  /\ mixed' = (Fetching # {})
  /\ UNCHANGED <<configVars, listeners, poll, debouncer, endVars, fetchVars, source, wanted, begun,
                 authFailed>>

\* async_shutdown, when the config entry is unloaded or Home Assistant stops.
Shutdown ==
  /\ ~shutdown /\ shutdown' = TRUE
  /\ poll' = CancelTimer(poll) /\ debouncer' = Shut(debouncer)
  /\ UNCHANGED <<configVars, listeners, stopping, data, ok, fetchVars, seen, source, wanted, begun,
                 authFailed, mixed>>

Stop ==
  /\ ~stopping /\ stopping' = TRUE
  /\ UNCHANGED <<configVars, listeners, poll, debouncer, shutdown, data, ok, fetchVars, seen, source,
                 wanted, begun, authFailed, mixed>>

SourceChanges ==
  /\ source < MaxVersion /\ source' = source + 1
  /\ UNCHANGED <<configVars, listeners, poll, debouncer, endVars, data, ok, fetchVars, seen, wanted,
                 begun, authFailed, mixed>>

Timers == \E t \in Task : PollTimer(t) \/ DebounceTimer(t)

Next ==
  \/ \E t \in Task : \/ Refresh(t) \/ FirstRefresh(t) \/ RequestRefresh(t)
                     \/ FetchEnds(t)
  \/ Timers
  \/ \E l \in Listener : AddListener(l) \/ RemoveListener(l)
  \/ SetUpdatedData \/ SetUpdateError \/ Shutdown \/ Stop \/ SourceChanges

Spec == Init /\ [][Next]_vars

\* The event loop runs timers that are due, and fetches end: integrations
\* bound theirs with timeouts.  Nothing more is needed of either.
FairSpec == Spec /\ WF_vars(Timers) /\ WF_vars(\E t \in Task : FetchEnds(t))

-----------------------------------------------------------------------------
(* Safety *)

\* However requests, polls, pushes and listeners overlap, every timer on the
\* loop is reached by its handle, so a shutdown or the last listener stops it,
\* and there is never a second poll or a second cooldown beside it.
TimersHeld ==
  /\ poll.armed = IF poll.handle THEN 1 ELSE 0
  /\ debouncer.armed = IF debouncer.handle THEN 1 ELSE 0

\* Debounced refreshes exclude each other, and no cooldown runs beside one.
DebouncedAlone ==
  /\ \A t, u \in Task : task[t] = "debounced" /\ task[u] = "debounced" => t = u
  /\ debouncer.locked <=> \E t \in Task : task[t] = "debounced"
  /\ debouncer.locked => ~debouncer.handle

\* While anyone listens a coordinator that polls never falls asleep: whatever
\* fails, is cancelled, overlaps or is pushed, a poll or a refresh is ahead,
\* unless the credentials were refused.
PollingGoesOn ==
  polling /\ listeners # {} /\ ~shutdown /\ ~stopping /\ ~authFailed =>
    poll.armed > 0 \/ Fetching # {}

\* Refreshes that do not overlap leave no listener behind: what it was told
\* last is the coordinator's state, also when always_update saves the telling.
ViewsCurrent == ~mixed => \A l \in listeners : seen[l] = Now

\* Why: a fetch that nothing has overlapped is the only one, and what it read
\* before it fetched still stands.
SoleFetch ==
  ~mixed => \A t \in Fetching : before[t] = Now /\ \A u \in Fetching : t = u

\* The inductive invariant.
CoordinatorInv ==
  TypeOK /\ TimersHeld /\ DebouncedAlone /\ PollingGoesOn /\ ViewsCurrent /\ SoleFetch

\* A request that no fetch and no push has answered yet is not forgotten: the
\* timer of the debouncer will run it, or the coordinator polls and a refresh
\* or the poll timer is ahead, unless the credentials were refused.
RequestAhead ==
  wanted > begun /\ ~shutdown /\ ~stopping =>
    \/ debouncer.armed > 0 /\ debouncer.atEnd
    \/ polling /\ listeners # {} /\ (authFailed \/ poll.armed > 0 \/ Fetching # {})

\* A request, a fetch and a push are not newer than the source, and after a
\* shutdown the debouncer has no timer and gets none.
ShutDown ==
  /\ wanted <= source /\ begun <= source
  /\ debouncer.shut = shutdown /\ (shutdown => ~debouncer.handle)

\* After a shutdown no fetch begins, whatever is requested, polled or added;
\* those under way end.
NoFetchAfterShutdown ==
  [][shutdown => shutdown' /\ \A t \in Task : task'[t] \in {task[t], "idle"}]_vars

-----------------------------------------------------------------------------
(* Liveness *)

\* A request of a refresh that the debouncer merges, puts off, or drops in
\* favour of the call in progress is followed by a fetch or a push that is not
\* older, unless the last listener goes or polling ends or pauses.
RequestsServed ==
  \A v \in 1..MaxVersion :
    wanted >= v ~> \/ begun >= v \/ wanted < v \/ shutdown \/ stopping \/ authFailed

\* After a shutdown the coordinator comes to rest, although a refresh that was
\* under way arms the poll timer once more.
ComesToRest ==
  shutdown ~> (poll.armed = 0 /\ debouncer.armed = 0 /\ Fetching = {})
=============================================================================
