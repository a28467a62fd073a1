--------------------------- MODULE TimeoutManager ---------------------------
(***************************************************************************)
(* homeassistant/util/timeout.py: timeouts and freezes of named zones, and *)
(* of all zones together ("global").  A timeout that expires cancels its   *)
(* task; a global one first waits until no zone is busy.  A freeze stops   *)
(* the timers of its zone while it is entered.  Bootstrap and the set-up   *)
(* of components nest them: global timeouts around zone timeouts around    *)
(* zone freezes, in as many tasks as there are components.                 *)
(*                                                                         *)
(* Everything runs on the event loop, and each action is what happens      *)
(* there between two awaits.                                               *)
(*                                                                         *)
(* Abstractions.  Time: an armed timer may fire at any time.  Every        *)
(* timeout is entered by a task of its own, once, and the task outlives    *)
(* it.  What the task does inside is a choice: it ends, it gives in to a   *)
(* cancellation, or it swallows one and ends.  Freezes are entered on the  *)
(* event loop, as all of them in homeassistant/ are; TimeoutManager.freeze *)
(* for executor threads is left out.  A zone object is made for a context  *)
(* that enters it at once, so it is its name.                              *)
(***************************************************************************)
EXTENDS Naturals

CONSTANTS
  Ctx,            \* contexts of async_timeout
  Frz,            \* contexts of async_freeze
  Zone,           \* names of zones
  ZONE_GLOBAL,
  Cancellable     \* contexts whose task may be cancelled by others, too

ASSUME ZoneAssumption == ZONE_GLOBAL \notin Zone
ASSUME ContextsDiffer == Ctx \intersect Frz = {}
ASSUME CancellableAssumption == Cancellable \subseteq Ctx

VARIABLES
  zones,     \* the keys of TimeoutManager._zones
  freezes,   \* TimeoutManager._freezes
  place,     \* per context: new, in, out
  zone,      \* per context that is in: its zone
  state,     \* per timeout: _state
  timer,     \* per timeout: _timeout_handler is armed
  waitZone,  \* per timeout: the event _wait_zone is set
  waiting,   \* per timeout: _on_wait tasks that wait for it
  cooling,   \* per timeout: _on_wait tasks in the cool-down
  cancelled, \* per timeout: its task is to be cancelled
  everFrozen, \* ZONE_GLOBAL was frozen at some time
  nested     \* global freezes that began while another one was entered

placeVars == <<zones, place, zone>>
waitVars  == <<waiting, cooling>>
vars == <<placeVars, freezes, state, timer, waitZone, waitVars, cancelled, everFrozen, nested>>

Context == Ctx \union Frz

TypeOK ==
  /\ zones \subseteq Zone /\ freezes \subseteq Frz
  /\ place \in [Context -> {"new", "in", "out"}]
  /\ zone \in [Context -> Zone \union {ZONE_GLOBAL}]
  /\ state \in [Ctx -> {"INIT", "ACTIVE", "TIMEOUT", "EXIT"}]
  /\ timer \in [Ctx -> BOOLEAN] /\ waitZone \in [Ctx -> BOOLEAN]
  /\ waiting \in [Ctx -> Nat] /\ cooling \in [Ctx -> Nat]
  /\ cancelled \in [Ctx -> BOOLEAN] /\ everFrozen \in BOOLEAN
  /\ nested \subseteq Frz

Init ==
  /\ zones = {} /\ freezes = {}
  /\ place = [x \in Context |-> "new"] /\ zone = [x \in Context |-> ZONE_GLOBAL]
  /\ state = [c \in Ctx |-> "INIT"]
  /\ timer = [c \in Ctx |-> FALSE] /\ waitZone = [c \in Ctx |-> FALSE]
  /\ waiting = [c \in Ctx |-> 0] /\ cooling = [c \in Ctx |-> 0]
  /\ cancelled = [c \in Ctx |-> FALSE] /\ everFrozen = FALSE /\ nested = {}

-----------------------------------------------------------------------------
(* Zones *)

In(x) == place[x] = "in"
Global(x) == zone[x] = ZONE_GLOBAL
ZonesDone == zones = {}

\* The timeouts and the freezes in z.
Members(z) == {x \in Context : In(x) /\ zone[x] = z}
FreezesDone(z) == Members(z) \intersect Frz = {} /\ freezes = {}

Enter(x, z) ==
  /\ place[x] = "new" /\ place' = [place EXCEPT ![x] = "in"]
  /\ zone' = [zone EXCEPT ![x] = z]
  /\ zones' = IF z = ZONE_GLOBAL THEN zones ELSE zones \union {z}

\* x is the last one in its zone.
Last(x) == ~Global(x) /\ Members(zone[x]) \subseteq {x}

\* Mutant of Leave: only the last timeout, not the last freeze, drops the zone.
LeaveKeepsZone(x) ==
  /\ In(x) /\ place' = [place EXCEPT ![x] = "out"]
  /\ zone' = [zone EXCEPT ![x] = ZONE_GLOBAL]
  /\ zones' = IF Last(x) /\ x \in Ctx THEN zones \ {zone[x]} ELSE zones

\* The last one takes its zone out of the table.
Leave(x) ==
  /\ In(x) /\ place' = [place EXCEPT ![x] = "out"]
  /\ zone' = [zone EXCEPT ![x] = ZONE_GLOBAL]
  /\ zones' = IF Last(x) THEN zones \ {zone[x]} ELSE zones

\* Mutant of Signalled: a freeze that ends a zone signals nobody.
SignalledByTimeouts(c, x) == x \in Ctx /\ Last(x) /\ zones' = {} /\ In(c) /\ Global(c)

\* ... and when that was the last zone, signals every global timeout.
Signalled(c, x) == Last(x) /\ zones' = {} /\ In(c) /\ Global(c)

-----------------------------------------------------------------------------
(* Timeouts *)

\* A global timeout starts its timer even under a global freeze.
EnterGlobal(c) ==
  /\ Enter(c, ZONE_GLOBAL)
  /\ state' = [state EXCEPT ![c] = "ACTIVE"]
  /\ timer' = [timer EXCEPT ![c] = TRUE]
  /\ UNCHANGED <<freezes, waitZone, waitVars, cancelled, everFrozen, nested>>

EnterZone(c, z) ==
  /\ Enter(c, z)
  /\ state' = [state EXCEPT ![c] = "ACTIVE"]
  /\ timer' = [timer EXCEPT ![c] = FreezesDone(z)]
  /\ UNCHANGED <<freezes, waitZone, waitVars, cancelled, everFrozen, nested>>

\* Mutant of Exit: the state stays what it was.
ExitKeepsState(c, s) ==
  /\ Leave(c)
  /\ timer' = [timer EXCEPT ![c] = FALSE]
  /\ waitZone' = [d \in Ctx |-> waitZone[d] \/ Signalled(d, c) \/ (d = c /\ s = "EXIT" /\ Global(c))]
  /\ cancelled' = [cancelled EXCEPT ![c] = FALSE]
  /\ UNCHANGED <<freezes, state, waitVars, everFrozen, nested>>

\* __aexit__ of c, which ends in state s.
Exit(c, s) ==
  /\ Leave(c)
  /\ timer' = [timer EXCEPT ![c] = FALSE]
  /\ state' = [state EXCEPT ![c] = s]
  /\ waitZone' = [d \in Ctx |-> waitZone[d] \/ Signalled(d, c) \/ (d = c /\ s = "EXIT" /\ Global(c))]
  /\ cancelled' = [cancelled EXCEPT ![c] = FALSE]
  /\ UNCHANGED <<freezes, waitVars, everFrozen, nested>>

\* The body ends, perhaps because a cancellation was swallowed inside it.
BodyEnds(c) == Exit(c, "EXIT")

\* CancelledError reaches __aexit__: TimeoutError if the timer fired.
BodyCancelled(c) ==
  /\ cancelled[c]
  /\ Exit(c, IF state[c] = "TIMEOUT" THEN "TIMEOUT" ELSE "EXIT")

\* _on_timeout: a global timeout waits as long as there are zones.
TimerFires(c) ==
  /\ timer[c] /\ timer' = [timer EXCEPT ![c] = FALSE]
  /\ state' = [state EXCEPT ![c] = "TIMEOUT"]
  /\ IF Global(c) /\ ~ZonesDone
     THEN waiting' = [waiting EXCEPT ![c] = waiting[c] + 1] /\ UNCHANGED cancelled
     ELSE cancelled' = [cancelled EXCEPT ![c] = TRUE] /\ UNCHANGED waiting
  /\ UNCHANGED <<placeVars, freezes, waitZone, cooling, everFrozen, nested>>

\* _on_wait: the event is set, then the cool-down is over.
ZonesAwaited(c) ==
  /\ waiting[c] > 0 /\ waitZone[c]
  /\ waiting' = [waiting EXCEPT ![c] = waiting[c] - 1]
  /\ cooling' = [cooling EXCEPT ![c] = cooling[c] + 1]
  /\ UNCHANGED <<placeVars, freezes, state, timer, waitZone, cancelled, everFrozen, nested>>

CooledDown(c) ==
  /\ cooling[c] > 0 /\ cooling' = [cooling EXCEPT ![c] = cooling[c] - 1]
  /\ cancelled' = [cancelled EXCEPT ![c] = cancelled[c] \/ state[c] = "TIMEOUT"]
  /\ UNCHANGED <<placeVars, freezes, state, timer, waitZone, waiting, everFrozen, nested>>

CancelTask(c) ==
  /\ c \in Cancellable /\ In(c)
  /\ cancelled' = [cancelled EXCEPT ![c] = TRUE]
  /\ UNCHANGED <<placeVars, freezes, state, timer, waitZone, waitVars, everFrozen, nested>>

-----------------------------------------------------------------------------
(* Freezes *)

\* The first freeze pauses the timers of the zone.
FreezeZone(f, z) ==
  /\ Enter(f, z)
  /\ timer' = [c \in Ctx |-> timer[c] /\ ~(FreezesDone(z) /\ c \in Members(z))]
  /\ UNCHANGED <<freezes, state, waitZone, waitVars, cancelled, everFrozen, nested>>

\* Mutant of UnfreezeZone: every freeze that ends starts the timers again.
UnfreezeZoneEarly(f) ==
  /\ ~Global(f) /\ Leave(f)
  /\ timer' = [c \in Ctx |-> timer[c] \/ c \in Members(zone[f])]
  /\ waitZone' = [c \in Ctx |-> waitZone[c] \/ Signalled(c, f)]
  /\ UNCHANGED <<freezes, state, waitVars, cancelled, everFrozen, nested>>

\* The last freeze of the zone starts them again, unless all zones are frozen.
UnfreezeZone(f) ==
  /\ ~Global(f) /\ Leave(f)
  /\ timer' = [c \in Ctx |->
       timer[c] \/ /\ Members(zone[f]) \intersect Frz = {f} /\ freezes = {}
                   /\ c \in Members(zone[f])]
  /\ waitZone' = [c \in Ctx |-> waitZone[c] \/ Signalled(c, f)]
  /\ UNCHANGED <<freezes, state, waitVars, cancelled, everFrozen, nested>>

\* What a global freeze pauses and resets: the global timeouts, and the zones
\* that are not frozen themselves.
Covered(c) == In(c) /\ (Global(c) \/ Members(zone[c]) \intersect Frz = {})

\* A global freeze inside a global freeze is not recorded.
FreezeGlobal(f) ==
  /\ Enter(f, ZONE_GLOBAL) /\ everFrozen' = TRUE
  /\ freezes' = IF freezes = {} THEN {f} ELSE freezes
  /\ timer' = [c \in Ctx |-> timer[c] /\ ~(freezes = {} /\ Covered(c))]
  /\ nested' = IF \E g \in Frz : In(g) /\ Global(g) THEN nested \union {f} ELSE nested
  /\ UNCHANGED <<state, waitZone, waitVars, cancelled>>

\* ... and raises ValueError when it ends.
UnfreezeGlobal(f) ==
  /\ Global(f) /\ Leave(f)
  /\ freezes' = freezes \ {f}
  /\ timer' = [c \in Ctx |-> timer[c] \/ (freezes = {f} /\ Covered(c))]
  /\ UNCHANGED <<state, waitZone, waitVars, cancelled, everFrozen, nested>>

-----------------------------------------------------------------------------
Wait(c) == TimerFires(c) \/ ZonesAwaited(c) \/ CooledDown(c)

Next ==
  \/ \E c \in Ctx : \/ EnterGlobal(c) \/ \E z \in Zone : EnterZone(c, z)
                    \/ BodyEnds(c) \/ BodyCancelled(c) \/ Wait(c) \/ CancelTask(c)
  \/ \E f \in Frz : \/ FreezeGlobal(f) \/ \E z \in Zone : FreezeZone(f, z)
                    \/ UnfreezeGlobal(f) \/ UnfreezeZone(f)

Spec == Init /\ [][Next]_vars

\* Timers fire, the tasks of the event loop run, a cancelled body ends, and so
\* does the work under a freeze.  Bodies need not end by themselves: that is
\* what timeouts are for.
FairSpec ==
  /\ Spec
  /\ \A c \in Ctx : WF_vars(Wait(c) \/ BodyCancelled(c))
  /\ WF_vars(\E f \in Frz : UnfreezeZone(f) \/ UnfreezeGlobal(f))

-----------------------------------------------------------------------------
\* The table holds exactly the zones that somebody is in, so a global timeout
\* is held up by every busy zone and by no other.
KnowsBusyZones ==
  \A z \in Zone : z \in zones <=> \E x \in Context : In(x) /\ zone[x] = z

\* The freezes that somebody is in now and that are to stop the timer of c.
Freezing(c) == {f \in Frz : In(f) /\ (Global(f) \/ zone[f] = zone[c])}

\* However freezes of a zone and of all zones overlap: no timer of a zone runs
\* while somebody is in a freeze of the zone or of all zones, and when the last
\* of them has left, the timer of every timeout that has not expired runs.  The
\* manager does not know a freeze of all zones inside another one: it may find
\* the timers running again, when the outer one ends first.
TimersFollowFreezes ==
  \A c \in Ctx : In(c) /\ ~Global(c) =>
    /\ timer[c] => Freezing(c) \subseteq nested
    /\ state[c] = "ACTIVE" /\ Freezing(c) = {} => timer[c]

\* The manager cancels a task only while that is inside the timeout: no late
\* timer and no end of a cool-down hits what it does afterwards.  A global
\* freeze may arm an expired timer again, and a foreign cancellation may take
\* the task out of a timeout that waits for zones: then it can happen.
CancelsOnlyInside ==
  ~everFrozen => \A c \in Ctx \ Cancellable : cancelled[c] => In(c)

\* A global timeout that has expired is never forgotten: its task is
\* cancelled, or somebody waits for zones that are still busy or have
\* signalled that they are done.
ExpiredIsHandled ==
  \A c \in Ctx : In(c) /\ Global(c) /\ state[c] = "TIMEOUT" =>
    \/ cancelled[c] \/ cooling[c] > 0
    \/ waiting[c] > 0 /\ (waitZone[c] \/ ~ZonesDone)

\* Global freezes are recorded one at a time, while they are entered; timers
\* and zones belong to contexts that are entered.
Recorded ==
  /\ \A f \in freezes : In(f) /\ Global(f) /\ \A g \in freezes : g = f
  /\ \A x \in Context : ~In(x) => Global(x)
  /\ \A c \in Ctx : timer[c] => In(c)
\* What the manager does not record is nested, and timers follow what it does.
UnrecordedNested == \A f \in Frz : In(f) /\ Global(f) => f \in freezes \union nested
TimersFollowRecorded ==
  \A c \in Ctx : In(c) /\ ~Global(c) =>
    /\ timer[c] => FreezesDone(zone[c])
    /\ state[c] = "ACTIVE" /\ FreezesDone(zone[c]) => timer[c]

\* How far c is on its way to one cancellation: a timer, then at most one wait,
\* then the cancellation, and nothing of it is left outside.
OneCancel(c) ==
  /\ cancelled[c] => In(c) /\ waiting[c] + cooling[c] = 0
  /\ state[c] = "INIT" <=> place[c] = "new"
  /\ In(c) /\ Global(c) /\ timer[c] =>
       state[c] = "ACTIVE" /\ ~cancelled[c] /\ waiting[c] + cooling[c] = 0
  /\ waiting[c] + cooling[c] <= 1
  /\ waiting[c] + cooling[c] = 1 =>
       IF place[c] = "out" THEN state[c] = "EXIT" ELSE In(c) /\ Global(c)

CancelledOnce == ~everFrozen => freezes = {} /\ \A c \in Ctx \ Cancellable : OneCancel(c)

\* The inductive invariant.
TimeoutInv ==
  /\ TypeOK /\ Recorded /\ UnrecordedNested /\ KnowsBusyZones /\ TimersFollowRecorded
  /\ CancelledOnce /\ ExpiredIsHandled

\* Every timeout ends, although its timer is paused by freezes and a global
\* one waits for zones.
TimeoutsEnd == \A c \in Ctx : In(c) ~> ~In(c)
=============================================================================
