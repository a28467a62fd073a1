----------------------- MODULE UpdateCoordinatorProofs -----------------------
(***************************************************************************)
(* Proofs about UpdateCoordinator, for any number of tasks, listeners and  *)
(* versions.  What the methods of the debouncer and the poll timer do to   *)
(* their timers is stated once; then each action is shown to keep          *)
(* CoordinatorInv.  The second part is about requests, which are answered  *)
(* or have a refresh ahead, and about the shutdown.                        *)
(***************************************************************************)
EXTENDS UpdateCoordinator, TLAPS

\* A debouncer whose only timer has the handle, and none in a call.
Sound(d) ==
  /\ d \in DebouncerState
  /\ d.armed = IF d.handle THEN 1 ELSE 0
  /\ d.locked => ~d.handle

\* The same of the poll timer.
PollSound(p) ==
  /\ p \in [handle : BOOLEAN, armed : Nat]
  /\ p.armed = IF p.handle THEN 1 ELSE 0

\* Everything but the timer of two debouncers agrees.
SameBut(e, d) == e.atEnd = d.atEnd /\ e.locked = d.locked /\ e.shut = d.shut

\* A debouncer with its timer stopped, started, or with one of its flags set.
LEMMA Stopped ==
  ASSUME NEW d \in DebouncerState, NEW e, e = [d EXCEPT !.handle = FALSE, !.armed = 0]
  PROVE  Sound(e) /\ ~e.handle /\ SameBut(e, d)
BY DEF DebouncerState, SameBut, Sound

LEMMA Started ==
  ASSUME NEW d \in DebouncerState, ~d.locked, NEW e, e = [d EXCEPT !.handle = TRUE, !.armed = 1]
  PROVE  Sound(e) /\ SameBut(e, d)
BY DEF DebouncerState, SameBut, Sound

LEMMA SetAtEnd ==
  ASSUME NEW d, Sound(d), NEW b \in BOOLEAN, NEW e, e = [d EXCEPT !.atEnd = b]
  PROVE  Sound(e) /\ e.handle = d.handle /\ e.armed = d.armed /\ e.locked = d.locked /\ e.shut = d.shut
BY DEF DebouncerState, Sound

LEMMA SetLocked ==
  ASSUME NEW d, Sound(d), ~d.handle, NEW b \in BOOLEAN, NEW e, e = [d EXCEPT !.locked = b]
  PROVE  Sound(e) /\ ~e.handle /\ e.armed = 0 /\ e.locked = b /\ e.shut = d.shut
BY DEF DebouncerState, Sound

LEMMA SetShut ==
  ASSUME NEW d, Sound(d), NEW e, e = [d EXCEPT !.shut = TRUE]
  PROVE  Sound(e) /\ e.locked = d.locked
BY DEF DebouncerState, Sound

\* A timer that is started when there is none.
LEMMA ArmSound ==
  ASSUME NEW d, Sound(d), ~d.handle, ~d.locked
  PROVE  Sound(Arm(d)) /\ SameBut(Arm(d), d)
<1>1. d \in DebouncerState
  BY DEF Sound
<1>2. d.armed + 1 = 1
  BY DEF Sound
<1>3. Arm(d) = [d EXCEPT !.handle = TRUE, !.armed = 1]
  BY <1>2 DEF Arm
<1> QED BY <1>1, <1>3, Started

\* A timer that is cancelled.
LEMMA CancelTimerSound ==
  ASSUME NEW d, Sound(d)
  PROVE  Sound(CancelTimer(d)) /\ ~CancelTimer(d).handle /\ SameBut(CancelTimer(d), d)
<1>0. d \in DebouncerState
  BY DEF Sound
<1>1. CASE d.handle
  <2>1. d.armed - 1 = 0
    BY <1>1 DEF Sound
  <2>2. CancelTimer(d) = [d EXCEPT !.handle = FALSE, !.armed = 0]
    BY <1>1, <2>1 DEF CancelTimer
  <2> QED BY <1>0, <2>2, Stopped
<1>2. CASE ~d.handle
  BY <1>2 DEF CancelTimer, SameBut
<1> QED BY <1>1, <1>2

\* Debouncer.async_cancel leaves no timer and does not touch the lock.
LEMMA CancelSound ==
  ASSUME NEW d, Sound(d)
  PROVE  Sound(Cancel(d)) /\ Cancel(d).locked = d.locked /\ ~Cancel(d).handle
<1> DEFINE e == CancelTimer(d)
<1>1. Cancel(d) = [e EXCEPT !.atEnd = FALSE]
  BY DEF Cancel
<1>2. Sound(e) /\ ~e.handle /\ e.locked = d.locked
  BY CancelTimerSound DEF SameBut
<1> HIDE DEF e
<1>3. Sound(Cancel(d)) /\ Cancel(d).handle = e.handle /\ Cancel(d).locked = e.locked
  BY <1>1, <1>2, SetAtEnd
<1> QED BY <1>2, <1>3

\* Nor does Debouncer.async_shutdown.
LEMMA ShutSound ==
  ASSUME NEW d, Sound(d)
  PROVE  Sound(Shut(d)) /\ Shut(d).locked = d.locked
<1>1. Shut(d) = [Cancel(d) EXCEPT !.shut = TRUE]
  BY DEF Shut
<1> QED BY <1>1, CancelSound, SetShut

\* The lock is taken when there is no timer.
LEMMA LockedSound ==
  ASSUME NEW d, Sound(d), ~d.handle
  PROVE  Sound(Locked(d)) /\ Locked(d).locked
BY SetLocked DEF Locked

\* When the lock is given back there is none either, so none is overwritten.
LEMMA UnlockedSound ==
  ASSUME NEW d, Sound(d), d.locked
  PROVE  Sound(Unlocked(d)) /\ ~Unlocked(d).locked
<1> DEFINE e == [d EXCEPT !.locked = FALSE]
<1>1. ~d.handle
  BY DEF Sound
<1>2. Sound(e) /\ ~e.handle /\ ~e.locked
  BY <1>1, SetLocked
<1>3. Unlocked(d) = e \/ Unlocked(d) = Arm(e)
  BY DEF Unlocked, ScheduleTimer
<1> HIDE DEF e
<1> QED BY <1>2, <1>3, ArmSound DEF SameBut

\* A call that does not run now starts a timer only if there is none.
LEMMA DeferredSound ==
  ASSUME NEW d, Sound(d)
  PROVE  Sound(Deferred(d)) /\ Deferred(d).locked = d.locked
<1> DEFINE e == [d EXCEPT !.atEnd = TRUE]
<1>1. CASE d.shut \/ (d.locked /\ ~d.handle)
  BY <1>1 DEF Deferred
<1>2. Sound(e) /\ e.handle = d.handle /\ e.locked = d.locked /\ e.shut = d.shut
  BY SetAtEnd
<1>3. CASE ~d.shut /\ d.handle
  <2>1. Deferred(d) = e
    BY <1>3 DEF Deferred
  <2> QED BY <1>2, <2>1
<1>4. CASE ~d.shut /\ ~d.handle /\ ~d.locked
  <2>1. Deferred(d) = ScheduleTimer(e)
    BY <1>4 DEF Deferred
  <2>2. Deferred(d) = Arm(e)
    BY <1>2, <1>4, <2>1 DEF ScheduleTimer
  <2> HIDE DEF e
  <2> QED BY <1>2, <1>4, <2>2, ArmSound DEF SameBut
<1> QED BY <1>1, <1>3, <1>4 DEF Sound, DebouncerState

\* A timer that fires was the only one, and no call was in progress.
LEMMA FiredSound ==
  ASSUME NEW d, Sound(d), d.armed > 0
  PROVE  Sound(TimerFired(d)) /\ ~TimerFired(d).handle /\ ~TimerFired(d).locked /\ ~d.locked
<1>1. d \in DebouncerState /\ d.handle /\ ~d.locked
  BY DEF Sound
<1>2. d.armed - 1 = 0
  BY DEF Sound
<1> DEFINE e == [d EXCEPT !.handle = FALSE, !.armed = 0]
<1>3. Sound(e) /\ ~e.handle /\ SameBut(e, d)
  BY <1>1, Stopped
<1>4. TimerFired(d) = [e EXCEPT !.atEnd = FALSE]
  BY <1>2 DEF TimerFired
<1> HIDE DEF e
<1> QED BY <1>1, <1>3, <1>4, SetAtEnd DEF SameBut

\* The poll timer, stopped or started, ...
LEMMA PollStopped ==
  ASSUME NEW p, PollSound(p), NEW q, q = [p EXCEPT !.handle = FALSE, !.armed = 0]
  PROVE  PollSound(q) /\ ~q.handle
BY DEF PollSound

LEMMA PollStarted ==
  ASSUME NEW p, PollSound(p), NEW q, q = [p EXCEPT !.handle = TRUE, !.armed = 1]
  PROVE  PollSound(q) /\ q.armed > 0
<1>1. q \in [handle : BOOLEAN, armed : Nat]
  BY DEF PollSound
<1>2. q.handle = TRUE /\ q.armed = 1
  BY DEF PollSound
<1> QED BY <1>1, <1>2 DEF PollSound

\* ... that is, cancelled or scheduled again.
LEMMA PollCancelSound ==
  ASSUME NEW p, PollSound(p)
  PROVE  PollSound(CancelTimer(p)) /\ ~CancelTimer(p).handle
<1>1. CASE p.handle
  <2>1. p.armed - 1 = 0
    BY <1>1 DEF PollSound
  <2>2. CancelTimer(p) = [p EXCEPT !.handle = FALSE, !.armed = 0]
    BY <1>1, <2>1 DEF CancelTimer
  <2> QED BY <2>2, PollStopped
<1>2. CASE ~p.handle
  BY <1>2 DEF CancelTimer
<1> QED BY <1>1, <1>2

LEMMA ScheduledSound ==
  ASSUME NEW p, PollSound(p)
  PROVE  PollSound(Scheduled(p)) /\ (polling => Scheduled(p).armed > 0)
<1> DEFINE q == CancelTimer(p)
<1>1. PollSound(q) /\ ~q.handle
  BY PollCancelSound
<1>2. CASE polling
  <2>1. q.armed + 1 = 1
    BY <1>1 DEF PollSound
  <2>2. Scheduled(p) = [q EXCEPT !.handle = TRUE, !.armed = 1]
    BY <1>2, <2>1 DEF Scheduled, Arm
  <2> HIDE DEF q
  <2> QED BY <1>1, <2>2, PollStarted
<1>3. CASE ~polling
  BY <1>3 DEF Scheduled
<1> QED BY <1>2, <1>3

-----------------------------------------------------------------------------
(* The steps *)

\* The invariant, with the timers as Sound and PollSound see them.
LEMMA InvTimers ==
  ASSUME CoordinatorInv
  PROVE  Sound(debouncer) /\ PollSound(poll)
BY DEF CoordinatorInv, TypeOK, TimersHeld, DebouncedAlone, Sound, PollSound

\* Version 0 exists.
LEMMA StartTyped == 0 \in Version /\ Start \in View
BY VersionAssumption DEF Version, View, Start

\* What is left of DebouncedAlone when Sound is known.
Exclusive ==
  /\ \A t, u \in Task : task[t] = "debounced" /\ task[u] = "debounced" => t = u
  /\ debouncer.locked <=> \E t \in Task : task[t] = "debounced"

\* The types but those of the timers.
PlainType ==
  /\ polling \in BOOLEAN /\ alwaysUpdate \in BOOLEAN
  /\ listeners \subseteq Listener
  /\ shutdown \in BOOLEAN /\ stopping \in BOOLEAN
  /\ data \in Version /\ ok \in BOOLEAN
  /\ task \in [Task -> Kind \union {"idle"}]
  /\ since \in [Task -> Version] /\ before \in [Task -> View]
  /\ seen \in [Listener -> View]
  /\ source \in Version /\ wanted \in Version /\ begun \in Version
  /\ authFailed \in BOOLEAN /\ mixed \in BOOLEAN

\* The invariant after a step, from its parts.
LEMMA InvFromParts ==
  ASSUME Sound(debouncer'), PollSound(poll'), Exclusive', PlainType', PollingGoesOn', ViewsCurrent',
         SoleFetch'
  PROVE  CoordinatorInv'
BY DEF Sound, PollSound, Exclusive, PlainType, CoordinatorInv, TypeOK, TimersHeld, DebouncedAlone

\* A refresh begins, or is ignored, whatever timer or call it comes from.
LEMMA BeginStep ==
  ASSUME CoordinatorInv,
         NEW t \in Task, NEW kind \in Kind, NEW scheduled \in BOOLEAN,
         NEW p, PollSound(p), NEW d, Sound(d),
         Begin(t, kind, scheduled, p, d), wanted' \in Version,
         kind = "debounced" => d.locked /\ ~debouncer.locked,
         kind # "debounced" => d.locked = debouncer.locked
  PROVE  CoordinatorInv'
<1> USE DEF CoordinatorInv
<1>0. PollSound(poll') /\ task[t] = "idle"
      /\ UNCHANGED <<configVars, listeners, endVars, data, ok, seen, source, authFailed>>
  BY PollCancelSound DEF Begin
<1>1. CASE shutdown \/ (scheduled /\ stopping)
  <2>1. /\ debouncer' = IF kind = "debounced" THEN Unlocked(Cancel(d)) ELSE Cancel(d)
        /\ UNCHANGED <<fetchVars, begun, mixed>>
    BY <1>1 DEF Begin
  <2>2. Sound(debouncer') /\ debouncer'.locked = debouncer.locked
    BY <2>1, CancelSound, UnlockedSound, InvTimers DEF Sound, DebouncerState
  <2>3. Exclusive'
    BY <2>1, <2>2 DEF Exclusive, DebouncedAlone, fetchVars
  <2>4. PlainType' /\ PollingGoesOn' /\ ViewsCurrent' /\ SoleFetch'
    BY <1>0, <1>1, <2>1 DEF PlainType, TypeOK, PollingGoesOn, ViewsCurrent, SoleFetch, fetchVars,
       configVars, endVars, Fetching, Now
  <2> QED BY <1>0, <2>2, <2>3, <2>4, InvFromParts
<1>2. CASE ~(shutdown \/ (scheduled /\ stopping))
  <2>1. /\ debouncer' = Cancel(d)
        /\ task' = [task EXCEPT ![t] = kind]
        /\ since' = [since EXCEPT ![t] = source] /\ before' = [before EXCEPT ![t] = Now]
        /\ begun' = source /\ mixed' = (mixed \/ Fetching # {})
    BY <1>2 DEF Begin
  <2>2. Sound(debouncer') /\ debouncer'.locked = d.locked
    BY <2>1, CancelSound
  <2>3. Exclusive'
    BY <1>0, <2>1, <2>2 DEF Exclusive, DebouncedAlone, TypeOK, Kind
  <2>4. PlainType'
    <3>1. mixed' \in BOOLEAN
      BY <2>1
    <3> QED BY <1>0, <2>1, <3>1 DEF PlainType, TypeOK, configVars, endVars, Now, View
  <2>5. PollingGoesOn'
    BY <2>1 DEF PollingGoesOn, Fetching, Kind, TypeOK
  <2>6. ViewsCurrent'
    BY <1>0, <2>1 DEF ViewsCurrent, Now
  <2>7. SoleFetch'
    <3> SUFFICES ASSUME ~mixed' PROVE \A u \in Fetching' : before'[u] = Now' /\ u = t
      BY DEF SoleFetch
    <3>1. Fetching = {}
      BY <2>1
    <3> QED BY <1>0, <2>1, <3>1 DEF Fetching, TypeOK, Now
  <2> QED BY <1>0, <2>2, <2>3, <2>4, <2>5, <2>6, <2>7, InvFromParts
<1> QED BY <1>1, <1>2

\* A refresh ends, whatever its outcome, and tells the listeners if its data
\* or its success is not what it read before.
LEMMA EndStep ==
  ASSUME CoordinatorInv, NEW t \in Task, NEW refused \in BOOLEAN, NEW told \in BOOLEAN,
         End(t, refused, told), data' \in Version, ok' \in BOOLEAN,
         ~told => \/ ok' = before[t].ok /\ data' = before[t].data
                  \/ ~before[t].ok /\ ~ok' /\ data' = data
                  \/ UNCHANGED <<ok, data>>
  PROVE  CoordinatorInv'
<1> USE DEF CoordinatorInv
<1>1. /\ task[t] # "idle" /\ task' = [task EXCEPT ![t] = "idle"]
      /\ since' = [since EXCEPT ![t] = 0] /\ before' = [before EXCEPT ![t] = Start]
      /\ authFailed' = refused
      /\ UNCHANGED <<configVars, listeners, endVars, source, wanted, begun>>
  BY DEF End
<1>2. mixed' = (mixed /\ ~(told /\ Fetching \ {t} = {}))
  BY DEF End, Tell
<1>3. seen' = [l \in Listener |->
                IF told /\ l \in listeners THEN [ok |-> ok', data |-> data'] ELSE seen[l]]
  BY DEF End, Tell
<1>4. PollSound(poll') /\ (polling /\ ~refused /\ listeners # {} /\ ~stopping => poll'.armed > 0)
  BY InvTimers, ScheduledSound DEF End
<1>5. Sound(debouncer') /\ (debouncer'.locked <=> debouncer.locked /\ task[t] # "debounced")
  <2>1. CASE task[t] = "debounced"
    <3>1. debouncer.locked /\ debouncer' = Unlocked(debouncer)
      BY <2>1 DEF End, DebouncedAlone
    <3> QED BY <2>1, <3>1, InvTimers, UnlockedSound
  <2>2. CASE task[t] # "debounced"
    BY <2>2, InvTimers DEF End
  <2> QED BY <2>1, <2>2
<1>6. Fetching' = Fetching \ {t}
  BY <1>1 DEF Fetching, TypeOK
<1>7. Exclusive'
  BY <1>1, <1>5 DEF Exclusive, DebouncedAlone, TypeOK
<1>8. PlainType'
  <2>1. mixed' \in BOOLEAN
    BY <1>2
  <2>2. seen' \in [Listener -> View]
    BY <1>3 DEF TypeOK, View
  <2>3. task' \in [Task -> Kind \union {"idle"}]
    BY <1>1 DEF TypeOK
  <2>4. since' \in [Task -> Version]
    BY <1>1, StartTyped DEF TypeOK
  <2>5. before' \in [Task -> View]
    BY <1>1, StartTyped DEF TypeOK
  <2> QED BY <1>1, <2>1, <2>2, <2>3, <2>4, <2>5 DEF PlainType, TypeOK, configVars, endVars
<1>9. PollingGoesOn'
  BY <1>1, <1>4 DEF PollingGoesOn, configVars, endVars
<1>10. ViewsCurrent'
  <2> SUFFICES ASSUME ~mixed', NEW l \in listeners PROVE seen'[l] = [ok |-> ok', data |-> data']
    BY <1>1 DEF ViewsCurrent, Now
  <2>1. CASE told
    BY <1>3, <2>1 DEF TypeOK
  <2>2. CASE ~told
    <3>1. ~mixed /\ seen'[l] = seen[l] /\ seen[l] = Now
      BY <1>2, <1>3, <2>2 DEF TypeOK, ViewsCurrent
    <3>2. before[t] = Now
      BY <1>1, <3>1 DEF SoleFetch, Fetching
    <3>3. ok' = ok /\ data' = data
      BY <2>2, <3>2 DEF Now, TypeOK
    <3> QED BY <3>1, <3>3 DEF Now
  <2> QED BY <2>1, <2>2
<1>11. SoleFetch'
  <2> SUFFICES ASSUME ~mixed' PROVE Fetching' = {}
    BY DEF SoleFetch
  <2>1. CASE ~mixed
    BY <1>1, <1>6, <2>1 DEF SoleFetch, Fetching
  <2>2. CASE mixed
    BY <1>2, <1>6, <2>2
  <2> QED BY <2>1, <2>2
<1> QED BY <1>4, <1>5, <1>7, <1>8, <1>9, <1>10, <1>11, InvFromParts

\* Every outcome of a fetch keeps the invariant.
LEMMA FetchEndsStep ==
  ASSUME CoordinatorInv, NEW t \in Task, FetchEnds(t)
  PROVE  CoordinatorInv'
<1> USE DEF CoordinatorInv, TypeOK
<1>0. before[t] \in View /\ before[t].ok \in BOOLEAN
  BY DEF View
<1>1. CASE FetchSucceeds(t)
  <2> DEFINE told(v) == alwaysUpdate \/ ~before[t].ok \/ before[t].data # v
  <2>1. PICK v \in since[t]..source : data' = v /\ ok' = TRUE /\ End(t, FALSE, told(v))
    BY <1>1 DEF FetchSucceeds
  <2>2. data' \in Version
    BY <2>1, VersionAssumption DEF Version
  <2>3. ~told(v) => ok' = before[t].ok /\ data' = before[t].data
    BY <1>0, <2>1
  <2>4. told(v) \in BOOLEAN
    OBVIOUS
  <2> QED BY <2>1, <2>2, <2>3, <2>4, EndStep
<1>2. CASE FetchFails(t)
  BY <1>0, <1>2, EndStep DEF FetchFails
<1>3. CASE AuthFails(t)
  BY <1>0, <1>3, EndStep DEF AuthFails
<1>4. CASE FetchCancelled(t)
  BY <1>4, EndStep DEF FetchCancelled
<1> QED BY <1>1, <1>2, <1>3, <1>4 DEF FetchEnds

\* The timers.
LEMMA TimersStep ==
  ASSUME CoordinatorInv, NEW t \in Task, PollTimer(t) \/ DebounceTimer(t)
  PROVE  CoordinatorInv'
<1> USE DEF CoordinatorInv
<1>1. CASE PollTimer(t)
  <2> DEFINE p == [handle |-> FALSE, armed |-> poll.armed - 1]
  <2>1. PollSound(p) /\ wanted' \in Version
    BY <1>1, InvTimers DEF PollTimer, PollSound, TypeOK
  <2>2. Begin(t, "refresh", TRUE, p, debouncer)
    BY <1>1 DEF PollTimer
  <2> HIDE DEF p
  <2> QED BY <2>1, <2>2, InvTimers, BeginStep DEF Kind
<1>2. CASE DebounceTimer(t) /\ RunsAtEnd(debouncer)
  <2> DEFINE d == Locked(TimerFired(debouncer))
  <2>1. Sound(d) /\ d.locked /\ ~debouncer.locked /\ wanted' \in Version
    BY <1>2, InvTimers, FiredSound, LockedSound DEF DebounceTimer, TypeOK
  <2>2. Begin(t, "debounced", FALSE, poll, d)
    BY <1>2 DEF DebounceTimer
  <2> HIDE DEF d
  <2> QED BY <2>1, <2>2, InvTimers, BeginStep DEF Kind
<1>3. CASE DebounceTimer(t) /\ ~RunsAtEnd(debouncer)
  <2>1. Sound(debouncer') /\ ~debouncer'.locked /\ ~debouncer.locked
        /\ UNCHANGED <<configVars, listeners, poll, endVars, data, ok, fetchVars, seen, source,
                       wanted, begun, authFailed, mixed>>
    BY <1>3, InvTimers, FiredSound DEF DebounceTimer
  <2>2. Exclusive'
    BY <2>1 DEF Exclusive, DebouncedAlone, fetchVars
  <2>3. PlainType' /\ PollingGoesOn' /\ ViewsCurrent' /\ SoleFetch' /\ PollSound(poll')
    BY <2>1, InvTimers DEF PlainType, TypeOK, PollingGoesOn, ViewsCurrent, SoleFetch, fetchVars,
       configVars, endVars, Fetching, Now
  <2> QED BY <2>1, <2>2, <2>3, InvFromParts
<1> QED BY <1>1, <1>2, <1>3

\* A request that runs now, waits, or is dropped.
LEMMA RequestStep ==
  ASSUME CoordinatorInv, NEW t \in Task, RequestRefresh(t)
  PROVE  CoordinatorInv'
<1> USE DEF CoordinatorInv
<1>0. wanted' \in Version
  BY DEF RequestRefresh, TypeOK
<1>1. CASE RunsNow(debouncer)
  <2>1. Sound(Locked(debouncer)) /\ Locked(debouncer).locked /\ ~debouncer.locked
    BY <1>1, InvTimers, LockedSound DEF RunsNow
  <2>2. Begin(t, "debounced", FALSE, poll, Locked(debouncer))
    BY <1>1 DEF RequestRefresh
  <2> QED BY <1>0, <2>1, <2>2, InvTimers, BeginStep DEF Kind
<1>2. CASE ~RunsNow(debouncer)
  <2>1. /\ debouncer' = Deferred(debouncer)
        /\ UNCHANGED <<configVars, listeners, poll, endVars, data, ok, fetchVars, seen, source,
                       begun, authFailed, mixed>>
    BY <1>2 DEF RequestRefresh
  <2>2. Sound(debouncer') /\ debouncer'.locked = debouncer.locked
    BY <2>1, InvTimers, DeferredSound
  <2>3. Exclusive'
    BY <2>1, <2>2 DEF Exclusive, DebouncedAlone, fetchVars
  <2>4. PlainType' /\ PollingGoesOn' /\ ViewsCurrent' /\ SoleFetch' /\ PollSound(poll')
    BY <1>0, <2>1, InvTimers DEF PlainType, TypeOK, PollingGoesOn, ViewsCurrent, SoleFetch, fetchVars,
       configVars, endVars, Fetching, Now
  <2> QED BY <2>2, <2>3, <2>4, InvFromParts
<1> QED BY <1>1, <1>2

\* Listeners come and go.
LEMMA ListenerStep ==
  ASSUME CoordinatorInv, NEW l \in Listener, AddListener(l) \/ RemoveListener(l)
  PROVE  CoordinatorInv'
<1> USE DEF CoordinatorInv
<1>1. CASE AddListener(l)
  <2>1. /\ listeners' = listeners \union {l} /\ seen' = [seen EXCEPT ![l] = Now]
        /\ poll' = IF listeners = {} THEN Scheduled(poll) ELSE poll
        /\ UNCHANGED <<configVars, debouncer, endVars, data, ok, fetchVars, source, wanted, begun,
                       authFailed, mixed>>
    BY <1>1 DEF AddListener
  <2>2. PollSound(poll') /\ Sound(debouncer') /\ Exclusive'
    BY <2>1, InvTimers, ScheduledSound DEF Exclusive, DebouncedAlone, fetchVars
  <2>3. PlainType' /\ ViewsCurrent' /\ SoleFetch'
    BY <2>1 DEF PlainType, TypeOK, ViewsCurrent, SoleFetch, fetchVars, configVars, endVars, Fetching,
                Now, View
  <2>4. PollingGoesOn'
    BY <2>1, InvTimers, ScheduledSound DEF PollingGoesOn, fetchVars, configVars, endVars, Fetching
  <2> QED BY <2>2, <2>3, <2>4, InvFromParts
<1>2. CASE RemoveListener(l)
  <2>1. /\ listeners' = listeners \ {l} /\ seen' = [seen EXCEPT ![l] = Start]
        /\ wanted' \in {0, wanted}
        /\ UNCHANGED <<configVars, endVars, data, ok, fetchVars, source, begun, authFailed, mixed>>
    BY <1>2 DEF RemoveListener
  <2>2. /\ PollSound(poll') /\ Sound(debouncer') /\ debouncer'.locked = debouncer.locked
        /\ listeners' # {} => poll' = poll
    BY <1>2, InvTimers, PollCancelSound, CancelSound DEF RemoveListener
  <2>3. Exclusive'
    BY <2>1, <2>2 DEF Exclusive, DebouncedAlone, fetchVars
  <2>4. PlainType' /\ ViewsCurrent' /\ SoleFetch'
    <3>1. PlainType'
      BY <2>1, VersionAssumption DEF PlainType, TypeOK, fetchVars, configVars, endVars, Start, View, Version
    <3> QED BY <2>1, <3>1 DEF TypeOK, ViewsCurrent, SoleFetch, fetchVars, Fetching, Now
  <2>5. PollingGoesOn'
    BY <2>1, <2>2 DEF PollingGoesOn, fetchVars, configVars, endVars, Fetching
  <2> QED BY <2>2, <2>3, <2>4, <2>5, InvFromParts
<1> QED BY <1>1, <1>2

\* The owner pushes data, reports an error, or shuts the coordinator down.
LEMMA OwnerStep ==
  ASSUME CoordinatorInv, SetUpdatedData \/ SetUpdateError \/ Shutdown \/ Stop \/ SourceChanges
  PROVE  CoordinatorInv'
<1> USE DEF CoordinatorInv
<1>1. CASE SetUpdatedData
  <2>1. /\ data' = source /\ ok' = TRUE /\ begun' = source /\ mixed' = (Fetching # {})
        /\ seen' = [m \in Listener |->
                     IF m \in listeners THEN [ok |-> TRUE, data |-> source] ELSE seen[m]]
        /\ debouncer' = Cancel(debouncer)
        /\ UNCHANGED <<configVars, listeners, endVars, fetchVars, source, wanted, authFailed>>
    BY <1>1 DEF SetUpdatedData
  <2>2. PollSound(poll') /\ (polling /\ listeners # {} => poll'.armed > 0)
    BY <1>1, InvTimers, PollCancelSound, ScheduledSound DEF SetUpdatedData
  <2>3. Sound(debouncer') /\ Exclusive'
    BY <2>1, InvTimers, CancelSound DEF Exclusive, DebouncedAlone, fetchVars
  <2>4. PlainType'
    <3>1. mixed' \in BOOLEAN
      BY <2>1
    <3> QED BY <2>1, <3>1 DEF PlainType, TypeOK, fetchVars, configVars, endVars, View
  <2>5. ViewsCurrent' /\ SoleFetch'
    BY <2>1 DEF TypeOK, ViewsCurrent, SoleFetch, fetchVars, Fetching, Now
  <2>6. PollingGoesOn'
    BY <2>1, <2>2 DEF PollingGoesOn, configVars
  <2> QED BY <2>2, <2>3, <2>4, <2>5, <2>6, InvFromParts
<1>2. CASE SetUpdateError
  <2>1. /\ data' = data /\ ok' = FALSE /\ mixed' = (Fetching # {})
        /\ seen' = [m \in Listener |->
                     IF m \in listeners THEN [ok |-> FALSE, data |-> data] ELSE seen[m]]
        /\ UNCHANGED <<configVars, listeners, poll, debouncer, endVars, fetchVars, source, wanted, begun,
                       authFailed>>
    BY <1>2 DEF SetUpdateError
  <2>2. PollSound(poll') /\ Sound(debouncer') /\ Exclusive'
    BY <2>1, InvTimers DEF Exclusive, DebouncedAlone, fetchVars
  <2>3. PlainType'
    <3>1. mixed' \in BOOLEAN
      BY <2>1
    <3> QED BY <2>1, <3>1 DEF PlainType, TypeOK, fetchVars, configVars, endVars, View
  <2>4. ViewsCurrent' /\ SoleFetch'
    BY <2>1 DEF TypeOK, ViewsCurrent, SoleFetch, fetchVars, Fetching, Now
  <2>5. PollingGoesOn'
    BY <2>1 DEF PollingGoesOn, configVars, endVars, fetchVars, Fetching
  <2> QED BY <2>2, <2>3, <2>4, <2>5, InvFromParts
<1>3. CASE Shutdown
  <2>1. /\ shutdown' = TRUE
        /\ UNCHANGED <<configVars, listeners, stopping, data, ok, fetchVars, seen, source, wanted, begun,
                       authFailed, mixed>>
    BY <1>3 DEF Shutdown
  <2>2. PollSound(poll') /\ Sound(debouncer') /\ debouncer'.locked = debouncer.locked
    BY <1>3, InvTimers, PollCancelSound, ShutSound DEF Shutdown
  <2>3. Exclusive'
    BY <2>1, <2>2 DEF Exclusive, DebouncedAlone, fetchVars
  <2>4. PlainType' /\ ViewsCurrent' /\ SoleFetch' /\ PollingGoesOn'
    BY <2>1 DEF PlainType, TypeOK, fetchVars, configVars, ViewsCurrent, SoleFetch, PollingGoesOn,
                Fetching, Now
  <2> QED BY <2>2, <2>3, <2>4, InvFromParts
<1>4. CASE Stop \/ SourceChanges
  <2>0. source' \in Version
    BY <1>4, VersionAssumption DEF Stop, SourceChanges, TypeOK, Version
  <2>1. /\ stopping' \in {stopping, TRUE}
        /\ UNCHANGED <<configVars, listeners, poll, debouncer, shutdown, data, ok, fetchVars, seen,
                       wanted, begun, authFailed, mixed>>
    BY <1>4 DEF Stop, SourceChanges, endVars
  <2>2. PollSound(poll') /\ Sound(debouncer') /\ Exclusive'
    BY <2>1, InvTimers DEF Exclusive, DebouncedAlone, fetchVars
  <2>3. PlainType'
    <3>1. stopping' \in BOOLEAN
      BY <2>1 DEF TypeOK
    <3> QED BY <2>0, <2>1, <3>1 DEF PlainType, TypeOK, fetchVars, configVars
  <2>4. ViewsCurrent' /\ SoleFetch'
    BY <2>1 DEF fetchVars, ViewsCurrent, SoleFetch, Fetching, Now
  <2>5. PollingGoesOn'
    BY <2>1 DEF TypeOK, fetchVars, configVars, PollingGoesOn, Fetching
  <2> QED BY <2>2, <2>3, <2>4, <2>5, InvFromParts
<1> QED BY <1>1, <1>2, <1>3, <1>4

-----------------------------------------------------------------------------
(* The theorems *)

\* The invariant of the coordinator is inductive: of _async_refresh, the
\* debouncer's methods, the listeners and the owner's calls, in any order.
THEOREM CoordinatorSafety == Spec => []CoordinatorInv
<1>1. Init => CoordinatorInv
  <2> SUFFICES ASSUME Init PROVE CoordinatorInv
    OBVIOUS
  <2>1. Sound(debouncer) /\ PollSound(poll) /\ ~debouncer.locked
    <3>1. PICK i \in BOOLEAN : debouncer = NewDebouncer(i)
      BY DEF Init
    <3>2. Sound(NewDebouncer(i)) /\ ~NewDebouncer(i).locked
      BY DEF NewDebouncer, Sound, DebouncerState
    <3> QED BY <3>1, <3>2 DEF Init, PollSound
  <2>2. Exclusive /\ PollingGoesOn /\ ViewsCurrent /\ SoleFetch
    BY <2>1 DEF Init, Exclusive, PollingGoesOn, ViewsCurrent, SoleFetch, Fetching
  <2>3. PlainType
    <3>1. task \in [Task -> Kind \union {"idle"}] /\ since \in [Task -> Version]
          /\ before \in [Task -> View] /\ seen \in [Listener -> View]
      BY StartTyped DEF Init
    <3> QED BY <3>1, StartTyped DEF Init, PlainType
  <2> QED BY <2>1, <2>2, <2>3 DEF Sound, PollSound, Exclusive, PlainType, CoordinatorInv, TypeOK,
                                  TimersHeld, DebouncedAlone
<1>2. CoordinatorInv /\ [Next]_vars => CoordinatorInv'
  <2> SUFFICES ASSUME CoordinatorInv, [Next]_vars PROVE CoordinatorInv'
    OBVIOUS
  <2>1. ASSUME NEW t \in Task, Refresh(t) \/ FirstRefresh(t) PROVE CoordinatorInv'
    <3>1. PICK kind \in {"refresh", "first"} : Begin(t, kind, FALSE, poll, debouncer) /\ UNCHANGED wanted
      BY <2>1 DEF Refresh, FirstRefresh
    <3>2. wanted' \in Version
      BY <3>1 DEF CoordinatorInv, TypeOK
    <3> QED BY <3>1, <3>2, InvTimers, BeginStep DEF Kind
  <2>2. CASE UNCHANGED vars
    BY <2>2 DEF vars, CoordinatorInv, TypeOK, TimersHeld, DebouncedAlone, PollingGoesOn, ViewsCurrent,
                SoleFetch, Fetching, Now, configVars, endVars, fetchVars
  <2> QED BY <2>1, <2>2, FetchEndsStep, TimersStep, RequestStep, ListenerStep, OwnerStep DEF Next, Timers
<1> QED BY <1>1, <1>2, PTL DEF Spec

\* Every timer of a coordinator and of its debouncer can be cancelled, and
\* there is never a second one.
THEOREM TimersAreHeld == Spec => []TimersHeld
<1>1. CoordinatorInv => TimersHeld
  BY DEF CoordinatorInv
<1> QED BY <1>1, CoordinatorSafety, PTL

\* Debounced refreshes exclude each other.
THEOREM DebouncedRefreshesExclude == Spec => []DebouncedAlone
<1>1. CoordinatorInv => DebouncedAlone
  BY DEF CoordinatorInv
<1> QED BY <1>1, CoordinatorSafety, PTL

\* A coordinator with listeners does not fall asleep.
THEOREM PollingDoesGoOn == Spec => []PollingGoesOn
<1>1. CoordinatorInv => PollingGoesOn
  BY DEF CoordinatorInv
<1> QED BY <1>1, CoordinatorSafety, PTL

\* Refreshes that do not overlap leave no listener behind.
THEOREM ViewsAreCurrent == Spec => []ViewsCurrent
<1>1. CoordinatorInv => ViewsCurrent
  BY DEF CoordinatorInv
<1> QED BY <1>1, CoordinatorSafety, PTL
-----------------------------------------------------------------------------
(* Requests and shutdown *)

\* No method but async_shutdown touches the flag that it sets, and a debouncer
\* that is shut arms no timer.
LEMMA ShutKept ==
  ASSUME NEW d, Sound(d)
  PROVE  /\ Cancel(d).shut = d.shut /\ TimerFired(d).shut = d.shut /\ Shut(d).shut /\ ~Shut(d).handle
         /\ Locked(d).shut = d.shut /\ Unlocked(d).shut = d.shut /\ Deferred(d).shut = d.shut
         /\ Locked(d).handle = d.handle
         /\ d.shut => /\ Unlocked(d).handle = d.handle /\ Deferred(d) = d
BY DEF Sound, DebouncerState, Cancel, CancelTimer, TimerFired, Shut, Locked, Unlocked, Deferred,
       ScheduleTimer, Arm

\* A call that is put off has a timer that will run it.
LEMMA DeferredRuns ==
  ASSUME NEW d, Sound(d), ~d.shut, d.handle \/ ~d.locked
  PROVE  Deferred(d).armed > 0 /\ Deferred(d).atEnd
<1>1. CASE d.handle
  BY <1>1 DEF Sound, DebouncerState, Deferred
<1>2. CASE ~d.handle
  BY <1>2 DEF Sound, DebouncerState, Deferred, ScheduleTimer, Arm
<1> QED BY <1>1, <1>2

\* The invariant about requests, and the timers as above.
RequestInv == CoordinatorInv /\ RequestAhead /\ ShutDown

\* A refresh that begins answers every request; one that is ignored changes
\* nothing that a request waits for, for Home Assistant stops.
LEMMA BeginRequests ==
  ASSUME RequestInv, NEW t \in Task, NEW kind, NEW scheduled \in BOOLEAN, NEW p, NEW d, Sound(d),
         Begin(t, kind, scheduled, p, d), wanted' \in {wanted, source}, d.shut = debouncer.shut,
         kind = "debounced" => d.locked, shutdown => ~d.handle
  PROVE  RequestAhead' /\ ShutDown'
<1> USE DEF RequestInv, ShutDown
<1>0. source \in Nat /\ wanted \in Nat /\ begun \in Nat /\ shutdown \in BOOLEAN
      /\ UNCHANGED <<listeners, endVars, source>>
  BY DEF Begin, CoordinatorInv, TypeOK, Version
<1>1. Sound(Cancel(d)) /\ ~Cancel(d).handle /\ Cancel(d).locked = d.locked /\ Cancel(d).shut = d.shut
  BY CancelSound, ShutKept
<1>2. debouncer'.shut = debouncer.shut /\ (shutdown => ~debouncer'.handle)
  BY <1>1, ShutKept DEF Begin
<1>3. begun' \in {begun, source}
      /\ (~(shutdown \/ (scheduled /\ stopping)) => begun' = source)
  BY DEF Begin
<1>4. ShutDown'
  BY <1>0, <1>2, <1>3 DEF endVars
<1>5. RequestAhead'
  BY <1>0, <1>3 DEF RequestAhead, endVars
<1> QED BY <1>4, <1>5

\* A refresh that ends arms the poll timer for the requests it leaves.
LEMMA EndRequests ==
  ASSUME RequestInv, NEW t \in Task, NEW refused \in BOOLEAN, NEW told, End(t, refused, told)
  PROVE  RequestAhead' /\ ShutDown'
<1> USE DEF RequestInv, ShutDown
<1>0. authFailed' = refused /\ UNCHANGED <<configVars, listeners, endVars, source, wanted, begun>>
  BY DEF End
<1>1. polling /\ ~refused /\ listeners # {} /\ ~stopping => poll'.armed > 0
  BY InvTimers, ScheduledSound DEF End
<1>2. CASE task[t] = "debounced"
  <2>1. debouncer.locked /\ debouncer' = Unlocked(debouncer)
    BY <1>2 DEF End, CoordinatorInv, DebouncedAlone
  <2>2. debouncer.armed = 0
    BY <2>1, InvTimers DEF Sound
  <2>3. ShutDown'
    BY <1>0, <2>1, InvTimers, ShutKept DEF endVars
  <2> QED BY <1>0, <1>1, <2>2, <2>3 DEF RequestAhead, endVars, configVars
<1>3. CASE task[t] # "debounced"
  <2>1. debouncer' = debouncer
    BY <1>3 DEF End
  <2> QED BY <1>0, <1>1, <2>1 DEF RequestAhead, endVars, configVars
<1> QED BY <1>2, <1>3

\* A request begins a refresh, or has a timer or a poll that will.
LEMMA RequestRequests ==
  ASSUME RequestInv, NEW t \in Task, RequestRefresh(t)
  PROVE  RequestAhead' /\ ShutDown'
<1>0. Sound(debouncer) /\ source \in Nat /\ wanted \in Nat /\ begun \in Nat
  BY InvTimers DEF RequestInv, CoordinatorInv, TypeOK, Version
<1>1. CASE RunsNow(debouncer)
  <2>1. /\ Sound(Locked(debouncer)) /\ Locked(debouncer).locked
        /\ Locked(debouncer).shut = debouncer.shut /\ ~Locked(debouncer).handle
    BY <1>0, <1>1, LockedSound, ShutKept DEF RunsNow
  <2>2. Begin(t, "debounced", FALSE, poll, Locked(debouncer)) /\ wanted' \in {wanted, source}
    BY <1>1 DEF RequestRefresh
  <2> QED BY <2>1, <2>2, BeginRequests
<1>2. CASE ~RunsNow(debouncer)
  <2>1. /\ debouncer' = Deferred(debouncer)
        /\ UNCHANGED <<configVars, listeners, poll, endVars, fetchVars, source, begun, authFailed>>
    BY <1>2 DEF RequestRefresh
  <2>2. wanted' = IF debouncer.shut \/ (debouncer.locked /\ ~(polling /\ listeners # {}))
                  THEN wanted ELSE source
    BY DEF RequestRefresh
  <2>3. ShutDown'
    BY <1>0, <2>1, <2>2, ShutKept DEF RequestInv, ShutDown, endVars
  <2>4. CASE shutdown
    BY <2>1, <2>3, <2>4 DEF RequestAhead, endVars
  <2>5. CASE ~shutdown /\ ~debouncer.locked
    <3>1. debouncer'.armed > 0 /\ debouncer'.atEnd
      BY <1>0, <2>1, <2>5, DeferredRuns DEF RequestInv, ShutDown
    <3> QED BY <2>3, <3>1 DEF RequestAhead
  <2>6. CASE ~shutdown /\ debouncer.locked
    <3>1. Deferred(debouncer) = debouncer
      BY <1>0, <2>6 DEF Sound, Deferred
    <3>2. Fetching # {}
      BY <2>6 DEF RequestInv, CoordinatorInv, DebouncedAlone, Fetching
    <3>3. wanted' = wanted \/ (polling /\ listeners # {})
      BY <2>2, <2>6 DEF RequestInv, ShutDown
    <3> QED BY <2>1, <2>3, <3>1, <3>2, <3>3
            DEF RequestInv, RequestAhead, configVars, endVars, fetchVars, Fetching
  <2> QED BY <2>4, <2>5, <2>6, <1>0 DEF RequestInv, CoordinatorInv, TypeOK
<1> QED BY <1>1, <1>2

\* The timers begin a refresh, but for a cooldown that nothing has come into.
LEMMA TimersRequests ==
  ASSUME RequestInv, NEW t \in Task, PollTimer(t) \/ DebounceTimer(t)
  PROVE  RequestAhead' /\ ShutDown'
<1>0. Sound(debouncer) /\ (shutdown => ~debouncer.handle)
  BY InvTimers DEF RequestInv, ShutDown
<1>1. CASE PollTimer(t)
  BY <1>0, <1>1, BeginRequests DEF PollTimer
<1>2. CASE DebounceTimer(t) /\ RunsAtEnd(debouncer)
  <2> DEFINE d == Locked(TimerFired(debouncer))
  <2>1. Sound(d) /\ d.locked /\ d.shut = debouncer.shut /\ ~d.handle
    BY <1>0, <1>2, FiredSound, LockedSound, ShutKept DEF DebounceTimer
  <2>2. Begin(t, "debounced", FALSE, poll, d) /\ wanted' = wanted
    BY <1>2 DEF DebounceTimer
  <2> HIDE DEF d
  <2> QED BY <2>1, <2>2, BeginRequests
<1>3. CASE DebounceTimer(t) /\ ~RunsAtEnd(debouncer)
  <2>1. /\ debouncer.armed > 0 /\ debouncer' = TimerFired(debouncer)
        /\ UNCHANGED <<configVars, listeners, poll, endVars, fetchVars, source, wanted, begun, authFailed>>
    BY <1>3 DEF DebounceTimer
  <2>2. ~debouncer.locked /\ ~debouncer'.handle /\ debouncer'.shut = debouncer.shut
    BY <1>0, <2>1, FiredSound, ShutKept
  <2>3. ~debouncer.atEnd
    BY <1>3, <2>2 DEF RunsAtEnd
  <2> QED BY <2>1, <2>2, <2>3
          DEF RequestInv, ShutDown, RequestAhead, configVars, endVars, fetchVars, Fetching
<1> QED BY <1>1, <1>2, <1>3

\* Listeners: with the last one the requests go.
LEMMA ListenerRequests ==
  ASSUME RequestInv, NEW l \in Listener, AddListener(l) \/ RemoveListener(l)
  PROVE  RequestAhead' /\ ShutDown'
<1> USE DEF RequestInv, ShutDown
<1>0. source \in Nat /\ wanted \in Nat /\ begun \in Nat
  BY DEF CoordinatorInv, TypeOK, Version
<1>1. CASE AddListener(l)
  <2>1. /\ listeners' = listeners \union {l} /\ (listeners # {} => poll' = poll)
        /\ UNCHANGED <<configVars, debouncer, endVars, fetchVars, source, wanted, begun, authFailed>>
    BY <1>1 DEF AddListener
  <2> QED BY <2>1 DEF RequestAhead, configVars, endVars, fetchVars, Fetching
<1>2. CASE RemoveListener(l) /\ listeners = {l}
  <2>1. wanted' = 0 /\ debouncer' = Cancel(debouncer) /\ UNCHANGED <<endVars, source, begun>>
    BY <1>2 DEF RemoveListener
  <2> QED BY <1>0, <2>1, InvTimers, CancelSound, ShutKept DEF RequestAhead, endVars
<1>3. CASE RemoveListener(l) /\ listeners # {l}
  <2>1. /\ listeners' # {}
        /\ UNCHANGED <<configVars, poll, debouncer, endVars, fetchVars, source, wanted, begun, authFailed>>
    BY <1>3 DEF RemoveListener
  <2> QED BY <2>1 DEF RequestAhead, configVars, endVars, fetchVars, Fetching
<1> QED BY <1>1, <1>2, <1>3

\* The owner: a push answers the requests, a shutdown ends them.
LEMMA OwnerRequests ==
  ASSUME RequestInv, SetUpdatedData \/ SetUpdateError \/ Shutdown \/ Stop \/ SourceChanges
  PROVE  RequestAhead' /\ ShutDown'
<1> USE DEF RequestInv, ShutDown
<1>0. source \in Nat /\ wanted \in Nat /\ begun \in Nat
  BY DEF CoordinatorInv, TypeOK, Version
<1>1. CASE SetUpdatedData
  <2>1. begun' = source /\ debouncer' = Cancel(debouncer) /\ UNCHANGED <<endVars, source, wanted>>
    BY <1>1 DEF SetUpdatedData
  <2> QED BY <1>0, <2>1, InvTimers, CancelSound, ShutKept DEF RequestAhead, endVars
<1>2. CASE SetUpdateError
  <2>1. UNCHANGED <<configVars, listeners, poll, debouncer, endVars, fetchVars, source, wanted, begun,
                    authFailed>>
    BY <1>2 DEF SetUpdateError
  <2> QED BY <2>1 DEF RequestAhead, configVars, endVars, fetchVars, Fetching
<1>3. CASE Shutdown
  <2>1. shutdown' = TRUE /\ debouncer' = Shut(debouncer) /\ UNCHANGED <<source, wanted, begun>>
    BY <1>3 DEF Shutdown
  <2>2. debouncer'.shut /\ ~debouncer'.handle /\ debouncer'.shut \in BOOLEAN
    BY <2>1, InvTimers, ShutSound, ShutKept DEF Sound, DebouncerState
  <2> QED BY <2>1, <2>2 DEF RequestAhead
<1>4. CASE Stop
  <2>1. stopping' = TRUE /\ UNCHANGED <<debouncer, shutdown, source, wanted, begun>>
    BY <1>4 DEF Stop
  <2> QED BY <2>1 DEF RequestAhead
<1>5. CASE SourceChanges
  <2>1. /\ source' = source + 1
        /\ UNCHANGED <<configVars, listeners, poll, debouncer, endVars, fetchVars, wanted, begun, authFailed>>
    BY <1>5 DEF SourceChanges
  <2> QED BY <1>0, <2>1 DEF RequestAhead, configVars, endVars, fetchVars, Fetching
<1> QED BY <1>1, <1>2, <1>3, <1>4, <1>5

\* The core of RequestsServed: whatever is merged, put off, cancelled, pushed
\* or refused, a request is answered, or what will answer it is armed or under
\* way; and a debouncer that is shut has no timer.
THEOREM RequestsAreCovered == Spec => [](RequestAhead /\ ShutDown)
<1>1. Init => RequestAhead /\ ShutDown
  <2> SUFFICES ASSUME Init PROVE RequestAhead /\ ShutDown
    OBVIOUS
  <2>1. PICK i \in BOOLEAN : debouncer = NewDebouncer(i)
    BY DEF Init
  <2>2. debouncer.shut = FALSE /\ debouncer.handle = FALSE
    BY <2>1 DEF NewDebouncer
  <2>3. wanted = 0 /\ begun = 0 /\ source = 0 /\ shutdown = FALSE
    BY DEF Init
  <2>4. ~(wanted > begun) /\ wanted <= source /\ begun <= source
    BY <2>3
  <2> QED BY <2>2, <2>3, <2>4 DEF RequestAhead, ShutDown
<1>2. RequestInv /\ [Next]_vars => (RequestAhead /\ ShutDown)'
  <2> SUFFICES ASSUME RequestInv, [Next]_vars PROVE (RequestAhead /\ ShutDown)'
    OBVIOUS
  <2>1. ASSUME NEW t \in Task, Refresh(t) \/ FirstRefresh(t) PROVE (RequestAhead /\ ShutDown)'
    <3>1. PICK kind \in {"refresh", "first"} : Begin(t, kind, FALSE, poll, debouncer) /\ UNCHANGED wanted
      BY <2>1 DEF Refresh, FirstRefresh
    <3>2. Sound(debouncer) /\ (shutdown => ~debouncer.handle)
      BY InvTimers DEF RequestInv, ShutDown
    <3> QED BY <3>1, <3>2, BeginRequests
  <2>2. ASSUME NEW t \in Task, FetchEnds(t) PROVE (RequestAhead /\ ShutDown)'
    <3>1. \E refused \in BOOLEAN : \E told : End(t, refused, told)
      BY <2>2 DEF FetchEnds, FetchSucceeds, FetchFails, AuthFails, FetchCancelled
    <3> QED BY <3>1, EndRequests
  <2>3. CASE UNCHANGED vars
    BY <2>3 DEF vars, RequestInv, RequestAhead, ShutDown, configVars, endVars, fetchVars, Fetching
  <2> QED BY <2>1, <2>2, <2>3, RequestRequests, TimersRequests, ListenerRequests, OwnerRequests
          DEF Next, Timers
<1> QED BY <1>1, <1>2, CoordinatorSafety, PTL DEF Spec, RequestInv

\* Once async_shutdown has run no request, poll, listener or caller begins
\* another fetch.
THEOREM ShutdownIsQuiet == Spec => NoFetchAfterShutdown
<1>1. ASSUME CoordinatorInv, [Next]_vars
      PROVE  [shutdown => shutdown' /\ \A t \in Task : task'[t] \in {task[t], "idle"}]_vars
  <2> SUFFICES ASSUME shutdown, Next
               PROVE  shutdown' /\ \A t \in Task : task'[t] \in {task[t], "idle"}
    BY <1>1
  <2>1. ASSUME NEW t, NEW kind, NEW scheduled, NEW p, NEW d, Begin(t, kind, scheduled, p, d)
        PROVE  UNCHANGED <<shutdown, task>>
    BY <2>1 DEF Begin, endVars, fetchVars
  <2>2. ASSUME NEW t \in Task, FetchEnds(t)
        PROVE  UNCHANGED shutdown /\ task' = [task EXCEPT ![t] = "idle"]
    BY <2>2 DEF FetchEnds, FetchSucceeds, FetchFails, AuthFails, FetchCancelled, End, endVars
  <2>3. ASSUME NEW t \in Task,
               Refresh(t) \/ FirstRefresh(t) \/ RequestRefresh(t) \/ PollTimer(t) \/ DebounceTimer(t)
        PROVE  UNCHANGED <<shutdown, task>>
    BY <2>1, <2>3 DEF Refresh, FirstRefresh, RequestRefresh, PollTimer, DebounceTimer, endVars, fetchVars
  <2>4. ASSUME NEW l \in Listener, AddListener(l) \/ RemoveListener(l)
        PROVE  UNCHANGED <<shutdown, task>>
    BY <2>4 DEF AddListener, RemoveListener, endVars, fetchVars
  <2>5. SetUpdatedData \/ SetUpdateError \/ Shutdown \/ Stop \/ SourceChanges => shutdown' /\ task' = task
    BY DEF SetUpdatedData, SetUpdateError, Shutdown, Stop, SourceChanges, endVars, fetchVars
  <2>6. task \in [Task -> Kind \union {"idle"}]
    BY <1>1 DEF CoordinatorInv, TypeOK
  <2> QED BY <2>2, <2>3, <2>4, <2>5, <2>6 DEF Next, Timers
<1> QED BY <1>1, CoordinatorSafety, PTL DEF Spec, NoFetchAfterShutdown
=============================================================================
