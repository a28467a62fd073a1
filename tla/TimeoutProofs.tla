--------------------------- MODULE TimeoutProofs ---------------------------
(***************************************************************************)
(* Theorems about TimeoutManager, for any contexts and zones.              *)
(***************************************************************************)
EXTENDS TimeoutManager, TLAPS

\* Entering adds a context to its zone and to no other.
LEMMA MembersEnter ==
  ASSUME TypeOK, NEW x \in Context, NEW z \in Zone \union {ZONE_GLOBAL}, Enter(x, z),
         NEW w \in Zone \union {ZONE_GLOBAL}
  PROVE  Members(w)' = IF w = z THEN Members(w) \union {x} ELSE Members(w)
  BY DEF TypeOK, Enter, Members, In

\* Leaving takes a context out of its zone.
LEMMA MembersLeave ==
  ASSUME TypeOK, NEW x \in Context, Leave(x), NEW w \in Zone \union {ZONE_GLOBAL}
  PROVE  Members(w)' = Members(w) \ {x}
  BY DEF TypeOK, Leave, Members, In

\* Nothing enters or leaves: the zones stay as they are.
LEMMA MembersSame ==
  ASSUME UNCHANGED placeVars
  PROVE  \A w : Members(w)' = Members(w)
  BY DEF placeVars, Members, In

\* What entering a zone leaves well typed.
LEMMA EnterType ==
  ASSUME TypeOK, NEW x \in Context, NEW z \in Zone \union {ZONE_GLOBAL}, Enter(x, z)
  PROVE  /\ zones' \subseteq Zone
         /\ place' \in [Context -> {"new", "in", "out"}]
         /\ zone' \in [Context -> Zone \union {ZONE_GLOBAL}]
  BY DEF TypeOK, Enter

\* What leaving a zone leaves well typed.
LEMMA LeaveType ==
  ASSUME TypeOK, NEW x \in Context, Leave(x)
  PROVE  /\ zones' \subseteq Zone
         /\ place' \in [Context -> {"new", "in", "out"}]
         /\ zone' \in [Context -> Zone \union {ZONE_GLOBAL}]
  BY DEF TypeOK, Leave

\* Leaving a timeout, however it ends.
LEMMA ExitType ==
  ASSUME TypeOK, NEW c \in Ctx, NEW s \in {"EXIT", "TIMEOUT"}, Exit(c, s)
  PROVE  TypeOK'
<1>1. c \in Context /\ Leave(c)
  BY DEF Exit, Context
<1>2. zones' \subseteq Zone /\ place' \in [Context -> {"new", "in", "out"}]
      /\ zone' \in [Context -> Zone \union {ZONE_GLOBAL}]
  BY <1>1, LeaveType
<1> QED BY <1>2 DEF TypeOK, Exit, waitVars, Signalled

\* Every action keeps the types.
LEMMA TypeStep == TypeOK /\ [Next]_vars => TypeOK'
<1> SUFFICES ASSUME TypeOK, [Next]_vars PROVE TypeOK'
  OBVIOUS
<1>1. ASSUME NEW c \in Ctx, EnterGlobal(c) PROVE TypeOK'
  <2>1. c \in Context /\ ZONE_GLOBAL \in Zone \union {ZONE_GLOBAL} /\ Enter(c, ZONE_GLOBAL)
    BY <1>1 DEF EnterGlobal, Context
  <2>2. zones' \subseteq Zone /\ place' \in [Context -> {"new", "in", "out"}]
        /\ zone' \in [Context -> Zone \union {ZONE_GLOBAL}]
    BY <2>1, EnterType
  <2> QED BY <1>1, <2>2 DEF TypeOK, EnterGlobal, waitVars
<1>2. ASSUME NEW c \in Ctx, NEW z \in Zone, EnterZone(c, z) PROVE TypeOK'
  <2>1. c \in Context /\ z \in Zone \union {ZONE_GLOBAL} /\ Enter(c, z)
    BY <1>2 DEF EnterZone, Context
  <2>2. zones' \subseteq Zone /\ place' \in [Context -> {"new", "in", "out"}]
        /\ zone' \in [Context -> Zone \union {ZONE_GLOBAL}]
    BY <2>1, EnterType
  <2>3. FreezesDone(z) \in BOOLEAN
    BY DEF FreezesDone
  <2> QED BY <1>2, <2>2, <2>3 DEF TypeOK, EnterZone, waitVars
<1>3. ASSUME NEW c \in Ctx, BodyEnds(c) PROVE TypeOK'
  BY <1>3, ExitType DEF BodyEnds
<1>4. ASSUME NEW c \in Ctx, BodyCancelled(c) PROVE TypeOK'
  BY <1>4, ExitType DEF BodyCancelled
<1>5. ASSUME NEW c \in Ctx, TimerFires(c) PROVE TypeOK'
  <2>1. CASE Global(c) /\ ~ZonesDone
    BY <1>5, <2>1 DEF TypeOK, TimerFires, placeVars
  <2>2. CASE ~(Global(c) /\ ~ZonesDone)
    BY <1>5, <2>2 DEF TypeOK, TimerFires, placeVars
  <2> QED BY <2>1, <2>2
<1>6. ASSUME NEW c \in Ctx, ZonesAwaited(c) PROVE TypeOK'
  BY <1>6 DEF TypeOK, ZonesAwaited, placeVars
<1>7. ASSUME NEW c \in Ctx, CooledDown(c) PROVE TypeOK'
  BY <1>7 DEF TypeOK, CooledDown, placeVars
<1>8. ASSUME NEW c \in Ctx, CancelTask(c) PROVE TypeOK'
  BY <1>8 DEF TypeOK, CancelTask, placeVars, waitVars
<1>9. ASSUME NEW f \in Frz, NEW z \in Zone, FreezeZone(f, z) PROVE TypeOK'
  <2>1. f \in Context /\ z \in Zone \union {ZONE_GLOBAL} /\ Enter(f, z)
    BY <1>9 DEF FreezeZone, Context
  <2>2. zones' \subseteq Zone /\ place' \in [Context -> {"new", "in", "out"}]
        /\ zone' \in [Context -> Zone \union {ZONE_GLOBAL}]
    BY <2>1, EnterType
  <2> QED BY <1>9, <2>2 DEF TypeOK, FreezeZone, waitVars
<1>10. ASSUME NEW f \in Frz, UnfreezeZone(f) PROVE TypeOK'
  <2>1. f \in Context /\ Leave(f)
    BY <1>10 DEF UnfreezeZone, Context
  <2>2. zones' \subseteq Zone /\ place' \in [Context -> {"new", "in", "out"}]
        /\ zone' \in [Context -> Zone \union {ZONE_GLOBAL}]
    BY <2>1, LeaveType
  <2> QED BY <1>10, <2>2 DEF TypeOK, UnfreezeZone, waitVars, Signalled
<1>11. ASSUME NEW f \in Frz, FreezeGlobal(f) PROVE TypeOK'
  <2>1. f \in Context /\ ZONE_GLOBAL \in Zone \union {ZONE_GLOBAL} /\ Enter(f, ZONE_GLOBAL)
    BY <1>11 DEF FreezeGlobal, Context
  <2>2. zones' \subseteq Zone /\ place' \in [Context -> {"new", "in", "out"}]
        /\ zone' \in [Context -> Zone \union {ZONE_GLOBAL}]
    BY <2>1, EnterType
  <2> QED BY <1>11, <2>2 DEF TypeOK, FreezeGlobal, waitVars
<1>12. ASSUME NEW f \in Frz, UnfreezeGlobal(f) PROVE TypeOK'
  <2>1. f \in Context /\ Leave(f)
    BY <1>12 DEF UnfreezeGlobal, Context
  <2>2. zones' \subseteq Zone /\ place' \in [Context -> {"new", "in", "out"}]
        /\ zone' \in [Context -> Zone \union {ZONE_GLOBAL}]
    BY <2>1, LeaveType
  <2> QED BY <1>12, <2>2 DEF TypeOK, UnfreezeGlobal, waitVars
<1>13. CASE UNCHANGED vars
  BY <1>13 DEF TypeOK, vars, placeVars, waitVars
<1> QED
  BY <1>1, <1>2, <1>3, <1>4, <1>5, <1>6, <1>7, <1>8, <1>9, <1>10, <1>11, <1>12, <1>13
     DEF Next, Wait

-----------------------------------------------------------------------------
(* The table of zones *)

\* A zone that is entered is in the table.
LEMMA BusyEnter ==
  ASSUME TypeOK, KnowsBusyZones, NEW x \in Context, NEW z \in Zone \union {ZONE_GLOBAL},
         Enter(x, z)
  PROVE  KnowsBusyZones'
  BY ZoneAssumption DEF TypeOK, KnowsBusyZones, Enter, In

\* A zone leaves the table with the last of its contexts.
LEMMA BusyLeave ==
  ASSUME TypeOK, KnowsBusyZones, NEW x \in Context, Leave(x)
  PROVE  KnowsBusyZones'
<1> SUFFICES ASSUME NEW z \in Zone
             PROVE  z \in zones' <=> \E y \in Context : In(y)' /\ zone'[y] = z
  BY DEF KnowsBusyZones
<1>1. \A y \in Context : In(y)' /\ zone'[y] = z <=> y # x /\ In(y) /\ zone[y] = z
  BY DEF TypeOK, Leave, In
<1>2. z \in zones <=> \E y \in Context : In(y) /\ zone[y] = z
  BY DEF KnowsBusyZones
<1>3. CASE zone[x] # z
  BY <1>1, <1>2, <1>3 DEF Leave
<1>4. CASE zone[x] = z
  <2>1. In(x) /\ ~Global(x)
    BY <1>4, ZoneAssumption DEF Leave, Global
  <2>2. Last(x) <=> \A y \in Context : In(y) /\ zone[y] = z => y = x
    BY <1>4, <2>1 DEF Last, Members
  <2> QED BY <1>1, <1>2, <1>4, <2>1, <2>2 DEF Leave
<1> QED BY <1>3, <1>4

\* Every step enters one context, or leaves one, or does neither.
LEMMA OneMoves ==
  ASSUME [Next]_vars
  PROVE  \/ \E x \in Context, z \in Zone \union {ZONE_GLOBAL} : Enter(x, z)
         \/ \E x \in Context : Leave(x)
         \/ UNCHANGED placeVars
  BY DEF Next, vars, Context, Wait, EnterGlobal, EnterZone, BodyEnds, BodyCancelled, Exit,
         TimerFires, ZonesAwaited, CooledDown, CancelTask, FreezeZone, UnfreezeZone,
         FreezeGlobal, UnfreezeGlobal

\* Every step keeps the table right.
LEMMA BusyStep == TypeOK /\ KnowsBusyZones /\ [Next]_vars => KnowsBusyZones'
<1> SUFFICES ASSUME TypeOK, KnowsBusyZones, [Next]_vars PROVE KnowsBusyZones'
  OBVIOUS
<1>1. CASE UNCHANGED placeVars
  BY <1>1 DEF KnowsBusyZones, placeVars, In
<1> QED BY <1>1, OneMoves, BusyEnter, BusyLeave

-----------------------------------------------------------------------------
(* Who is recorded *)

\* Contexts that are not entered are in no zone.
Outside == \A x \in Context : ~In(x) => Global(x)

\* Every step keeps it so.
LEMMA OutsideStep == TypeOK /\ Outside /\ [Next]_vars => Outside'
<1> SUFFICES ASSUME TypeOK, Outside, [Next]_vars PROVE Outside'
  OBVIOUS
<1>1. ASSUME NEW x \in Context, NEW z \in Zone \union {ZONE_GLOBAL}, Enter(x, z) PROVE Outside'
  BY <1>1 DEF TypeOK, Outside, Enter, In, Global
<1>2. ASSUME NEW x \in Context, Leave(x) PROVE Outside'
  BY <1>2 DEF TypeOK, Outside, Leave, In, Global
<1>3. CASE UNCHANGED placeVars
  BY <1>3 DEF Outside, placeVars, In, Global
<1> QED BY <1>1, <1>2, <1>3, OneMoves

\* Timers belong to timeouts that are entered.
TimersInside == \A c \in Ctx : timer[c] => In(c)

\* Every step keeps it so: a timeout that is left has its timer cancelled.
LEMMA TimersInsideStep == TypeOK /\ TimersInside /\ [Next]_vars => TimersInside'
<1> SUFFICES ASSUME TypeOK, TimersInside, [Next]_vars PROVE TimersInside'
  OBVIOUS
<1> USE DEF TypeOK, TimersInside, In, Context
<1>1. ASSUME NEW c \in Ctx, EnterGlobal(c) PROVE TimersInside'
  BY <1>1 DEF EnterGlobal, Enter
<1>2. ASSUME NEW c \in Ctx, NEW z \in Zone, EnterZone(c, z) PROVE TimersInside'
  BY <1>2 DEF EnterZone, Enter
<1>3. ASSUME NEW c \in Ctx, NEW s \in {"EXIT", "TIMEOUT"}, Exit(c, s) PROVE TimersInside'
  BY <1>3 DEF Exit, Leave
<1>4. ASSUME NEW c \in Ctx, Wait(c) \/ CancelTask(c) PROVE TimersInside'
  BY <1>4 DEF Wait, TimerFires, ZonesAwaited, CooledDown, CancelTask, placeVars
<1>5. ASSUME NEW f \in Frz, NEW z \in Zone, FreezeZone(f, z) PROVE TimersInside'
  BY <1>5, ContextsDiffer DEF FreezeZone, Enter
<1>6. ASSUME NEW f \in Frz, UnfreezeZone(f) PROVE TimersInside'
  <2>1. \A c \in Ctx : In(c) => In(c)'
    BY <1>6, ContextsDiffer DEF UnfreezeZone, Leave
  <2> QED BY <1>6, <2>1 DEF UnfreezeZone, Members
<1>7. ASSUME NEW f \in Frz, FreezeGlobal(f) PROVE TimersInside'
  BY <1>7, ContextsDiffer DEF FreezeGlobal, Enter
<1>8. ASSUME NEW f \in Frz, UnfreezeGlobal(f) PROVE TimersInside'
  <2>1. \A c \in Ctx : In(c) => In(c)'
    BY <1>8, ContextsDiffer DEF UnfreezeGlobal, Leave
  <2> QED BY <1>8, <2>1 DEF UnfreezeGlobal, Covered
<1>9. CASE UNCHANGED vars
  BY <1>9 DEF vars, placeVars
<1> QED
  BY <1>1, <1>2, <1>3, <1>4, <1>5, <1>6, <1>7, <1>8, <1>9 DEF Next, BodyEnds, BodyCancelled

\* Global freezes are recorded one at a time, while they are entered.
FreezesInside ==
  \A f \in freezes : In(f) /\ Global(f) /\ \A g \in freezes : g = f

\* Every step keeps it so: a global freeze inside another is not recorded.
LEMMA FreezesInsideStep == TypeOK /\ FreezesInside /\ [Next]_vars => FreezesInside'
<1> SUFFICES ASSUME TypeOK, FreezesInside, [Next]_vars PROVE FreezesInside'
  OBVIOUS
<1> USE DEF TypeOK, FreezesInside, In, Global, Context
<1>1. ASSUME NEW c \in Ctx, EnterGlobal(c) PROVE FreezesInside'
  BY <1>1, ContextsDiffer DEF EnterGlobal, Enter
<1>2. ASSUME NEW c \in Ctx, NEW z \in Zone, EnterZone(c, z) PROVE FreezesInside'
  BY <1>2, ContextsDiffer DEF EnterZone, Enter
<1>3. ASSUME NEW c \in Ctx, NEW s \in {"EXIT", "TIMEOUT"}, Exit(c, s) PROVE FreezesInside'
  BY <1>3, ContextsDiffer DEF Exit, Leave
<1>4. ASSUME NEW c \in Ctx, Wait(c) \/ CancelTask(c) PROVE FreezesInside'
  BY <1>4 DEF Wait, TimerFires, ZonesAwaited, CooledDown, CancelTask, placeVars
<1>5. ASSUME NEW f \in Frz, NEW z \in Zone, FreezeZone(f, z) PROVE FreezesInside'
  BY <1>5 DEF FreezeZone, Enter
<1>6. ASSUME NEW f \in Frz, UnfreezeZone(f) PROVE FreezesInside'
  BY <1>6 DEF UnfreezeZone, Leave
<1>7. ASSUME NEW f \in Frz, FreezeGlobal(f) PROVE FreezesInside'
  BY <1>7 DEF FreezeGlobal, Enter
<1>8. ASSUME NEW f \in Frz, UnfreezeGlobal(f) PROVE FreezesInside'
  BY <1>8 DEF UnfreezeGlobal, Leave
<1>9. CASE UNCHANGED vars
  BY <1>9 DEF vars, placeVars
<1> QED
  BY <1>1, <1>2, <1>3, <1>4, <1>5, <1>6, <1>7, <1>8, <1>9 DEF Next, BodyEnds, BodyCancelled

-----------------------------------------------------------------------------
(* Timers and freezes *)

\* A timeout that is not in x's place, before and after.
LEMMA OthersStay ==
  ASSUME TypeOK, NEW x \in Context, NEW d \in Ctx, d # x,
         Leave(x) \/ \E z \in Zone \union {ZONE_GLOBAL} : Enter(x, z)
  PROVE  In(d)' = In(d) /\ Global(d)' = Global(d) /\ zone'[d] = zone[d]
  BY DEF TypeOK, Leave, Enter, In, Global, Context

\* What a timeout that enters or leaves does to the freezes of a zone: nothing.
LEMMA TimeoutsFreezeNothing ==
  ASSUME TypeOK, NEW c \in Ctx, UNCHANGED freezes,
         Leave(c) \/ \E z \in Zone \union {ZONE_GLOBAL} : Enter(c, z),
         NEW w \in Zone
  PROVE  FreezesDone(w)' = FreezesDone(w)
<1>1. c \in Context /\ c \notin Frz
  BY ContextsDiffer DEF Context
<1>2. Members(w)' \intersect Frz = Members(w) \intersect Frz
  BY <1>1, MembersEnter, MembersLeave
<1> QED BY <1>2 DEF FreezesDone

\* Timers follow the recorded freezes: every step keeps it so.
LEMMA FollowStep == TypeOK /\ TimersFollowRecorded /\ [Next]_vars => TimersFollowRecorded'
<1> SUFFICES ASSUME TypeOK, TimersFollowRecorded, [Next]_vars PROVE TimersFollowRecorded'
  OBVIOUS
<1> SUFFICES ASSUME NEW d \in Ctx, NEW w \in Zone, In(d)', zone'[d] = w
             PROVE  /\ timer'[d] => FreezesDone(w)'
                    /\ state'[d] = "ACTIVE" /\ FreezesDone(w)' => timer'[d]
  <2>1. TypeOK'
    BY TypeStep
  <2>2. \A d \in Ctx : ~Global(d)' => zone'[d] \in Zone
    BY <2>1 DEF TypeOK, Global, Context
  <2> QED BY <2>2 DEF TimersFollowRecorded, FreezesDone, Members
<1> DEFINE Follows == /\ timer'[d] => FreezesDone(w)'
                      /\ state'[d] = "ACTIVE" /\ FreezesDone(w)' => timer'[d]
<1>a. d \in Context /\ \A f \in Frz : f \in Context /\ f # d
  BY ContextsDiffer DEF Context
<1>b. In(d) /\ zone[d] = w =>
        /\ timer[d] => FreezesDone(w)
        /\ state[d] = "ACTIVE" /\ FreezesDone(w) => timer[d]
  BY ZoneAssumption DEF TimersFollowRecorded, Global, FreezesDone, Members
<1>c. \A x \in Context :
        /\ x # d
        /\ Leave(x) \/ \E z \in Zone \union {ZONE_GLOBAL} : Enter(x, z)
        => In(d) /\ zone[d] = w
  BY OthersStay
<1>1. ASSUME NEW c \in Ctx, EnterGlobal(c) PROVE Follows
  <2>1. c \in Context /\ ZONE_GLOBAL \in Zone \union {ZONE_GLOBAL} /\ Enter(c, ZONE_GLOBAL)
        /\ UNCHANGED freezes
    BY <1>1 DEF EnterGlobal, Context
  <2>2. d # c
    BY <1>1, <1>a, ZoneAssumption DEF EnterGlobal, Enter, TypeOK
  <2>3. FreezesDone(w)' = FreezesDone(w)
    BY <2>1, TimeoutsFreezeNothing
  <2>4. timer'[d] = timer[d] /\ state'[d] = state[d]
    BY <1>1, <2>2 DEF EnterGlobal, TypeOK
  <2> QED BY <1>b, <1>c, <2>1, <2>2, <2>3, <2>4
<1>2. ASSUME NEW c \in Ctx, NEW z \in Zone, EnterZone(c, z) PROVE Follows
  <2>1. c \in Context /\ z \in Zone \union {ZONE_GLOBAL} /\ Enter(c, z) /\ UNCHANGED freezes
    BY <1>2 DEF EnterZone, Context
  <2>2. FreezesDone(w)' = FreezesDone(w)
    BY <2>1, TimeoutsFreezeNothing
  <2>3. CASE d = c
    <3>1. w = z
      BY <2>1, <2>3 DEF Enter, TypeOK
    <3>2. timer'[d] = FreezesDone(w)
      BY <1>2, <2>3, <3>1 DEF EnterZone, TypeOK
    <3> QED BY <2>2, <3>2
  <2>4. CASE d # c
    <3>1. timer'[d] = timer[d] /\ state'[d] = state[d]
      BY <1>2, <2>4 DEF EnterZone, TypeOK
    <3> QED BY <1>b, <1>c, <2>1, <2>2, <2>4, <3>1
  <2> QED BY <2>3, <2>4
<1>3. ASSUME NEW c \in Ctx, NEW s \in {"EXIT", "TIMEOUT"}, Exit(c, s) PROVE Follows
  <2>1. c \in Context /\ Leave(c) /\ UNCHANGED freezes
    BY <1>3 DEF Exit, Context
  <2>2. d # c
    BY <2>1 DEF Leave, In, TypeOK
  <2>3. FreezesDone(w)' = FreezesDone(w)
    BY <2>1, TimeoutsFreezeNothing
  <2>4. timer'[d] = timer[d] /\ state'[d] = state[d]
    BY <1>3, <2>2 DEF Exit, TypeOK
  <2> QED BY <1>b, <1>c, <2>1, <2>2, <2>3, <2>4
<1>4. ASSUME NEW c \in Ctx, Wait(c) \/ CancelTask(c) PROVE Follows
  <2>1. UNCHANGED placeVars /\ UNCHANGED freezes
    BY <1>4 DEF Wait, TimerFires, ZonesAwaited, CooledDown, CancelTask
  <2>2. In(d) /\ zone[d] = w /\ FreezesDone(w)' = FreezesDone(w)
    BY <2>1, MembersSame DEF placeVars, In, FreezesDone
  <2>3. \/ timer'[d] = timer[d] /\ state'[d] = state[d]
        \/ ~timer'[d] /\ state'[d] = "TIMEOUT"
    BY <1>4 DEF Wait, TimerFires, ZonesAwaited, CooledDown, CancelTask, TypeOK
  <2> QED BY <1>b, <2>2, <2>3
<1>5. ASSUME NEW f \in Frz, NEW z \in Zone, FreezeZone(f, z) PROVE Follows
  <2>1. f \in Context /\ f # d /\ z \in Zone \union {ZONE_GLOBAL} /\ Enter(f, z)
        /\ UNCHANGED freezes
    BY <1>5, <1>a DEF FreezeZone
  <2>2. In(d) /\ zone[d] = w
    BY <1>c, <2>1
  <2>3. Members(w)' = IF w = z THEN Members(w) \union {f} ELSE Members(w)
    BY <2>1, MembersEnter
  <2>4. timer'[d] <=> timer[d] /\ ~(FreezesDone(z) /\ w = z)
    BY <1>5, <1>a, <2>2 DEF FreezeZone, Members
  <2>5. state'[d] = state[d]
    BY <1>5 DEF FreezeZone
  <2> QED BY <1>b, <2>1, <2>2, <2>3, <2>4, <2>5 DEF FreezesDone
<1>6. ASSUME NEW f \in Frz, UnfreezeZone(f) PROVE Follows
  <2>1. f \in Context /\ f # d /\ Leave(f) /\ UNCHANGED freezes /\ state'[d] = state[d]
    BY <1>6, <1>a DEF UnfreezeZone
  <2>2. In(d) /\ zone[d] = w
    BY <1>c, <2>1
  <2>3. Members(w)' = Members(w) \ {f}
    BY <2>1, MembersLeave
  <2>4. timer'[d] <=> timer[d] \/ (Members(w) \intersect Frz = {f} /\ freezes = {} /\ zone[f] = w)
    BY <1>6, <1>a, <2>2 DEF UnfreezeZone, Members
  <2>5. f \in Members(w) <=> zone[f] = w
    BY <2>1 DEF Members, Leave
  <2>6. FreezesDone(w)' <=> (Members(w) \intersect Frz) \ {f} = {} /\ freezes = {}
    BY <2>1, <2>3 DEF FreezesDone
  <2> QED BY <1>b, <2>1, <2>2, <2>4, <2>5, <2>6 DEF FreezesDone
<1>7. ASSUME NEW f \in Frz, FreezeGlobal(f) PROVE Follows
  <2>1. f \in Context /\ f # d /\ ZONE_GLOBAL \in Zone \union {ZONE_GLOBAL}
        /\ Enter(f, ZONE_GLOBAL) /\ freezes' # {}
    BY <1>7, <1>a DEF FreezeGlobal
  <2>2. In(d) /\ zone[d] = w
    BY <1>c, <2>1
  <2>3. ~FreezesDone(w)'
    BY <2>1 DEF FreezesDone
  <2>4. timer'[d] <=> timer[d] /\ ~(freezes = {} /\ Covered(d))
    BY <1>7 DEF FreezeGlobal
  <2> QED BY <1>b, <2>2, <2>3, <2>4 DEF FreezesDone, Covered
<1>8. ASSUME NEW f \in Frz, UnfreezeGlobal(f) PROVE Follows
  <2>1. f \in Context /\ f # d /\ Leave(f) /\ Global(f) /\ state'[d] = state[d]
    BY <1>8, <1>a DEF UnfreezeGlobal
  <2>2. In(d) /\ zone[d] = w /\ ~Global(d)
    BY <1>c, <2>1, ZoneAssumption DEF Global
  <2>3. f \notin Members(w)
    BY <2>1, ZoneAssumption DEF Members, Global
  <2>4. Members(w)' = Members(w)
    BY <2>1, <2>3, MembersLeave
  <2>5. timer'[d] <=> timer[d] \/ (freezes = {f} /\ Members(w) \intersect Frz = {})
    BY <1>8, <2>2 DEF UnfreezeGlobal, Covered
  <2>6. freezes' = freezes \ {f}
    BY <1>8 DEF UnfreezeGlobal
  <2>7. FreezesDone(w)' <=> Members(w) \intersect Frz = {} /\ freezes \ {f} = {}
    BY <2>4, <2>6 DEF FreezesDone
  <2> QED BY <1>b, <2>1, <2>2, <2>5, <2>7 DEF FreezesDone
<1>9. CASE UNCHANGED vars
  BY <1>9, <1>b DEF vars, placeVars, In, FreezesDone, Members
<1> QED
  BY <1>1, <1>2, <1>3, <1>4, <1>5, <1>6, <1>7, <1>8, <1>9 DEF Next, BodyEnds, BodyCancelled

-----------------------------------------------------------------------------
(* Expired timeouts *)

\* A global timeout that has expired is handled: every step keeps it so.
LEMMA ExpiredStep == TypeOK /\ ExpiredIsHandled /\ [Next]_vars => ExpiredIsHandled'
<1> SUFFICES ASSUME TypeOK, ExpiredIsHandled, [Next]_vars PROVE ExpiredIsHandled'
  OBVIOUS
<1> SUFFICES ASSUME NEW d \in Ctx, In(d)', Global(d)', state'[d] = "TIMEOUT"
             PROVE  \/ cancelled'[d] \/ cooling'[d] > 0
                    \/ waiting'[d] > 0 /\ (waitZone'[d] \/ ~ZonesDone')
  BY DEF ExpiredIsHandled
<1> DEFINE Handled == \/ cancelled'[d] \/ cooling'[d] > 0
                      \/ waiting'[d] > 0 /\ (waitZone'[d] \/ ~ZonesDone')
<1>a. d \in Context /\ \A f \in Frz : f \in Context /\ f # d
  BY ContextsDiffer DEF Context
<1>b. In(d) /\ Global(d) /\ state[d] = "TIMEOUT" =>
        \/ cancelled[d] \/ cooling[d] > 0
        \/ waiting[d] > 0 /\ (waitZone[d] \/ ~ZonesDone)
  BY DEF ExpiredIsHandled
<1>c. \A x \in Context :
        /\ x # d
        /\ Leave(x) \/ \E z \in Zone \union {ZONE_GLOBAL} : Enter(x, z)
        => In(d) /\ Global(d)
  BY OthersStay
\* Who enters d makes it active; who enters elsewhere makes no zone done.
<1>1. ASSUME NEW x \in Context, NEW z \in Zone \union {ZONE_GLOBAL}, Enter(x, z),
             x \in Ctx => state'[x] = "ACTIVE",
             x # d => state'[d] = state[d],
             UNCHANGED <<waitZone, waitVars, cancelled>>
      PROVE  Handled
  <2>1. x # d
    BY <1>1
  <2>2. ~ZonesDone => ~ZonesDone'
    BY <1>1 DEF Enter, ZonesDone
  <2> QED BY <1>1, <1>b, <1>c, <2>1, <2>2 DEF waitVars
\* Who leaves the last zone signals d.
<1>2. ASSUME NEW x \in Context, Leave(x), x # d,
             waitZone'[d] <=> waitZone[d] \/ Signalled(d, x),
             state'[d] = state[d], cancelled'[d] = cancelled[d], UNCHANGED waitVars
      PROVE  Handled
  <2>1. In(d) /\ Global(d)
    BY <1>2, <1>c
  <2>2. ~ZonesDone => waitZone'[d] \/ ~ZonesDone'
    BY <1>2, <2>1 DEF Leave, ZonesDone, Signalled
  <2> QED BY <1>2, <1>b, <2>1, <2>2 DEF waitVars
<1>3. ASSUME NEW c \in Ctx, EnterGlobal(c) PROVE Handled
  BY <1>3, <1>1 DEF EnterGlobal, Context, TypeOK
<1>4. ASSUME NEW c \in Ctx, NEW z \in Zone, EnterZone(c, z) PROVE Handled
  BY <1>4, <1>1 DEF EnterZone, Context, TypeOK
<1>5. ASSUME NEW c \in Ctx, NEW s \in {"EXIT", "TIMEOUT"}, Exit(c, s) PROVE Handled
  <2>1. c \in Context /\ Leave(c) /\ c # d
    BY <1>5 DEF Exit, Context, Leave, In, TypeOK
  <2> QED BY <1>5, <1>2, <2>1 DEF Exit, TypeOK
<1>6. ASSUME NEW c \in Ctx, TimerFires(c) PROVE Handled
  BY <1>6, <1>b DEF TimerFires, placeVars, In, Global, ZonesDone, TypeOK
<1>7. ASSUME NEW c \in Ctx, ZonesAwaited(c) PROVE Handled
  BY <1>7, <1>b DEF ZonesAwaited, placeVars, In, Global, ZonesDone, TypeOK
<1>8. ASSUME NEW c \in Ctx, CooledDown(c) PROVE Handled
  BY <1>8, <1>b DEF CooledDown, placeVars, In, Global, ZonesDone, TypeOK
<1>9. ASSUME NEW c \in Ctx, CancelTask(c) PROVE Handled
  BY <1>9, <1>b DEF CancelTask, placeVars, waitVars, In, Global, ZonesDone, TypeOK
<1>10. ASSUME NEW f \in Frz, NEW z \in Zone, FreezeZone(f, z) PROVE Handled
  BY <1>10, <1>1, <1>a, ContextsDiffer DEF FreezeZone
<1>11. ASSUME NEW f \in Frz, UnfreezeZone(f) PROVE Handled
  BY <1>11, <1>2, <1>a DEF UnfreezeZone
<1>12. ASSUME NEW f \in Frz, FreezeGlobal(f) PROVE Handled
  BY <1>12, <1>1, <1>a, ContextsDiffer DEF FreezeGlobal
<1>13. ASSUME NEW f \in Frz, UnfreezeGlobal(f) PROVE Handled
  BY <1>13, <1>2, <1>a DEF UnfreezeGlobal, Signalled, Last
<1>14. CASE UNCHANGED vars
  BY <1>14, <1>b DEF vars, placeVars, waitVars, In, Global, ZonesDone
<1> QED
  BY <1>3, <1>4, <1>5, <1>6, <1>7, <1>8, <1>9, <1>10, <1>11, <1>12, <1>13, <1>14
     DEF Next, Wait, BodyEnds, BodyCancelled

-----------------------------------------------------------------------------
(* One cancellation per timeout *)

\* Every step of a manager that nobody freezes keeps it to one cancellation.
LEMMA CancelledStep == TypeOK /\ TimersInside /\ CancelledOnce /\ [Next]_vars => CancelledOnce'
<1> SUFFICES ASSUME TypeOK, TimersInside, CancelledOnce, [Next]_vars, ~everFrozen'
             PROVE  freezes' = {} /\ \A c \in Ctx \ Cancellable : OneCancel(c)'
  BY DEF CancelledOnce
<1>a. ~everFrozen /\ \A f \in Frz : ~FreezeGlobal(f)
  BY DEF TypeOK, Next, vars, Wait, EnterGlobal, EnterZone, BodyEnds, BodyCancelled, Exit,
         TimerFires, ZonesAwaited, CooledDown, CancelTask, FreezeZone, UnfreezeZone,
         FreezeGlobal, UnfreezeGlobal
<1>b. freezes = {} /\ \A c \in Ctx \ Cancellable : OneCancel(c)
  BY <1>a DEF CancelledOnce
<1>c. freezes' = {}
  BY <1>a, <1>b DEF Next, vars, Wait, EnterGlobal, EnterZone, BodyEnds, BodyCancelled, Exit,
         TimerFires, ZonesAwaited, CooledDown, CancelTask, FreezeZone, UnfreezeZone,
         UnfreezeGlobal
<1> SUFFICES ASSUME NEW d \in Ctx \ Cancellable PROVE OneCancel(d)'
  BY <1>c
<1>d. d \in Context /\ d \in Ctx /\ OneCancel(d) /\ (timer[d] => In(d))
      /\ \A f \in Frz : f \in Context /\ f # d
  BY <1>b, ContextsDiffer DEF Context, TimersInside
<1>e. waiting[d] \in Nat /\ cooling[d] \in Nat
  BY <1>d DEF TypeOK
\* Others do not touch d.
<1>1. ASSUME UNCHANGED <<place, zone, state, timer, waiting, cooling, cancelled>>
      PROVE  OneCancel(d)'
  BY <1>1, <1>d DEF OneCancel, In, Global
<1>2. ASSUME place'[d] = place[d], zone'[d] = zone[d], state'[d] = state[d],
             timer'[d] => timer[d] \/ ~Global(d),
             waiting'[d] = waiting[d], cooling'[d] = cooling[d], cancelled'[d] = cancelled[d]
      PROVE  OneCancel(d)'
  BY <1>2, <1>d DEF OneCancel, In, Global
<1>3. ASSUME NEW c \in Ctx, NEW z \in Zone \union {ZONE_GLOBAL}, Enter(c, z),
             state' = [state EXCEPT ![c] = "ACTIVE"],
             c # d => timer'[d] = timer[d],
             UNCHANGED <<waitVars, cancelled>>
      PROVE  OneCancel(d)'
  <2>1. CASE c = d
    BY <1>3, <2>1, <1>d, <1>e DEF OneCancel, In, Global, Enter, waitVars, TypeOK
  <2>2. CASE c # d
    BY <1>3, <2>2, <1>2 DEF Enter, waitVars, TypeOK
  <2> QED BY <2>1, <2>2
<1>4. ASSUME NEW c \in Ctx, NEW s \in {"EXIT", "TIMEOUT"}, Exit(c, s),
             s = "EXIT" \/ (cancelled[c] /\ state[c] = "TIMEOUT")
      PROVE  OneCancel(d)'
  <2>1. CASE c = d
    BY <1>4, <2>1, <1>d, <1>e DEF OneCancel, In, Global, Exit, Leave, waitVars, TypeOK
  <2>2. CASE c # d
    <3>1. place'[d] = place[d] /\ zone'[d] = zone[d]
      BY <1>4, <2>2, <1>d DEF Exit, Leave, TypeOK
    <3>2. timer'[d] = timer[d] /\ state'[d] = state[d] /\ cancelled'[d] = cancelled[d]
          /\ waiting'[d] = waiting[d] /\ cooling'[d] = cooling[d]
      BY <1>4, <2>2 DEF Exit, waitVars, TypeOK
    <3> QED BY <3>1, <3>2, <1>2
  <2> QED BY <2>1, <2>2
<1>5. ASSUME NEW c \in Ctx, EnterGlobal(c) PROVE OneCancel(d)'
  BY <1>5, <1>3 DEF EnterGlobal, TypeOK
<1>6. ASSUME NEW c \in Ctx, NEW z \in Zone, EnterZone(c, z) PROVE OneCancel(d)'
  BY <1>6, <1>3 DEF EnterZone, TypeOK
<1>7. ASSUME NEW c \in Ctx, BodyEnds(c) PROVE OneCancel(d)'
  BY <1>7, <1>4 DEF BodyEnds
<1>8. ASSUME NEW c \in Ctx, BodyCancelled(c) PROVE OneCancel(d)'
  BY <1>8, <1>4 DEF BodyCancelled
<1>9. ASSUME NEW c \in Ctx, TimerFires(c) PROVE OneCancel(d)'
  <2>1. CASE c = d
    <3>1. In(d) /\ UNCHANGED <<place, zone>> /\ cooling'[d] = cooling[d]
          /\ ~timer'[d] /\ state'[d] = "TIMEOUT" /\ waiting[d] + cooling[d] = 0
      BY <1>9, <2>1, <1>d, <1>e DEF OneCancel, In, TimerFires, placeVars, TypeOK
    <3>2. Global(d) => ~cancelled[d]
      BY <1>9, <2>1, <1>d, <3>1 DEF OneCancel, TimerFires
    <3>3. CASE Global(d) /\ ~ZonesDone
      <4>1. waiting'[d] = waiting[d] + 1 /\ cancelled'[d] = cancelled[d]
        BY <1>9, <2>1, <3>3 DEF TimerFires, TypeOK
      <4> QED BY <1>d, <1>e, <3>1, <3>2, <3>3, <4>1 DEF OneCancel, In, Global
    <3>4. CASE ~(Global(d) /\ ~ZonesDone)
      <4>1. waiting'[d] = waiting[d] /\ cancelled'[d]
        BY <1>9, <2>1, <3>4 DEF TimerFires, TypeOK
      <4> QED BY <1>d, <1>e, <3>1, <4>1 DEF OneCancel, In, Global
    <3> QED BY <3>3, <3>4
  <2>2. CASE c # d
    BY <1>9, <2>2, <1>2 DEF TimerFires, placeVars, TypeOK
  <2> QED BY <2>1, <2>2
<1>10. ASSUME NEW c \in Ctx, ZonesAwaited(c) PROVE OneCancel(d)'
  <2>1. CASE c = d
    BY <1>10, <2>1, <1>d, <1>e DEF OneCancel, In, Global, ZonesAwaited, placeVars, TypeOK
  <2>2. CASE c # d
    BY <1>10, <2>2, <1>2 DEF ZonesAwaited, placeVars, TypeOK
  <2> QED BY <2>1, <2>2
<1>11. ASSUME NEW c \in Ctx, CooledDown(c) PROVE OneCancel(d)'
  <2>1. CASE c = d
    BY <1>11, <2>1, <1>d, <1>e DEF OneCancel, In, Global, CooledDown, placeVars, TypeOK
  <2>2. CASE c # d
    BY <1>11, <2>2, <1>2 DEF CooledDown, placeVars, TypeOK
  <2> QED BY <2>1, <2>2
<1>12. ASSUME NEW c \in Ctx, CancelTask(c) PROVE OneCancel(d)'
  BY <1>12, <1>2 DEF CancelTask, placeVars, waitVars, TypeOK
<1>13. ASSUME NEW f \in Frz, NEW z \in Zone, FreezeZone(f, z) PROVE OneCancel(d)'
  BY <1>13, <1>2, <1>d DEF FreezeZone, Enter, waitVars, TypeOK
<1>14. ASSUME NEW f \in Frz, UnfreezeZone(f) PROVE OneCancel(d)'
  BY <1>14, <1>2, <1>d DEF UnfreezeZone, Leave, Members, Global, waitVars, TypeOK
<1>15. ASSUME NEW f \in Frz, UnfreezeGlobal(f) PROVE OneCancel(d)'
  BY <1>15, <1>2, <1>b, <1>d DEF UnfreezeGlobal, Leave, waitVars, TypeOK
<1>16. CASE UNCHANGED vars
  BY <1>16, <1>1 DEF vars, placeVars, waitVars
<1> QED
  BY <1>a, <1>5, <1>6, <1>7, <1>8, <1>9, <1>10, <1>11, <1>12, <1>13, <1>14, <1>15, <1>16
     DEF Next, Wait

-----------------------------------------------------------------------------
(* Freezes of all zones that the manager does not record *)

\* They began inside another one: every step keeps it so.
LEMMA NestedStep ==
  TypeOK /\ FreezesInside /\ UnrecordedNested /\ [Next]_vars => UnrecordedNested'
<1> SUFFICES ASSUME TypeOK, FreezesInside, UnrecordedNested, [Next]_vars PROVE UnrecordedNested'
  OBVIOUS
<1> USE DEF TypeOK, UnrecordedNested, In, Global, Context
<1>1. ASSUME NEW c \in Ctx, EnterGlobal(c) PROVE UnrecordedNested'
  BY <1>1, ContextsDiffer DEF EnterGlobal, Enter
<1>2. ASSUME NEW c \in Ctx, NEW z \in Zone, EnterZone(c, z) PROVE UnrecordedNested'
  BY <1>2, ContextsDiffer DEF EnterZone, Enter
<1>3. ASSUME NEW c \in Ctx, NEW s \in {"EXIT", "TIMEOUT"}, Exit(c, s) PROVE UnrecordedNested'
  BY <1>3, ContextsDiffer DEF Exit, Leave
<1>4. ASSUME NEW c \in Ctx, Wait(c) \/ CancelTask(c) PROVE UnrecordedNested'
  BY <1>4 DEF Wait, TimerFires, ZonesAwaited, CooledDown, CancelTask, placeVars
<1>5. ASSUME NEW f \in Frz, NEW z \in Zone, FreezeZone(f, z) PROVE UnrecordedNested'
  BY <1>5, ZoneAssumption DEF FreezeZone, Enter
<1>6. ASSUME NEW f \in Frz, UnfreezeZone(f) PROVE UnrecordedNested'
  BY <1>6 DEF UnfreezeZone, Leave
<1>7. ASSUME NEW f \in Frz, FreezeGlobal(f) PROVE UnrecordedNested'
  <2>1. freezes \subseteq freezes' /\ nested \subseteq nested' /\ f \in freezes' \union nested'
    BY <1>7 DEF FreezeGlobal, FreezesInside
  <2>2. \A g \in Frz \ {f} : place'[g] = place[g] /\ zone'[g] = zone[g]
    BY <1>7 DEF FreezeGlobal, Enter
  <2> QED BY <2>1, <2>2
<1>8. ASSUME NEW f \in Frz, UnfreezeGlobal(f) PROVE UnrecordedNested'
  BY <1>8 DEF UnfreezeGlobal, Leave
<1>9. CASE UNCHANGED vars
  BY <1>9 DEF vars, placeVars
<1> QED
  BY <1>1, <1>2, <1>3, <1>4, <1>5, <1>6, <1>7, <1>8, <1>9 DEF Next, BodyEnds, BodyCancelled

\* What follows the recorded freezes follows those that somebody is in, except
\* the nested ones.
LEMMA RecordedSuffices ==
  ASSUME TypeOK, FreezesInside, UnrecordedNested, TimersFollowRecorded
  PROVE  TimersFollowFreezes
<1> SUFFICES ASSUME NEW c \in Ctx, In(c), ~Global(c)
             PROVE  /\ timer[c] => Freezing(c) \subseteq nested
                    /\ state[c] = "ACTIVE" /\ Freezing(c) = {} => timer[c]
  BY DEF TimersFollowFreezes
<1>1. FreezesDone(zone[c]) => Freezing(c) \subseteq nested
  BY DEF FreezesDone, Members, Freezing, UnrecordedNested, Context
<1>2. Freezing(c) = {} => FreezesDone(zone[c])
  BY DEF FreezesDone, Members, Freezing, FreezesInside, TypeOK
<1> QED BY <1>1, <1>2 DEF TimersFollowRecorded

-----------------------------------------------------------------------------
(* Theorems *)

\* What Recorded says, in its three parts.
LEMMA RecordedParts == Recorded <=> FreezesInside /\ Outside /\ TimersInside
  BY DEF Recorded, FreezesInside, Outside, TimersInside

\* The inductive invariant of the timeout manager holds in every state.
THEOREM TimeoutSafety == Spec => []TimeoutInv
<1>1. Init => TimeoutInv
  <2> SUFFICES ASSUME Init PROVE TimeoutInv
    OBVIOUS
  <2>1. TypeOK
    BY DEF Init, TypeOK
  <2>2. Recorded /\ UnrecordedNested /\ KnowsBusyZones /\ TimersFollowRecorded
        /\ ExpiredIsHandled
    BY DEF Init, Recorded, UnrecordedNested, KnowsBusyZones, TimersFollowRecorded,
           ExpiredIsHandled, In, Global, Context
  <2>3. ASSUME NEW c \in Ctx PROVE OneCancel(c)
    <3>1. waiting[c] = 0 /\ cooling[c] = 0 /\ ~cancelled[c] /\ ~timer[c]
          /\ state[c] = "INIT" /\ place[c] = "new"
      BY DEF Init, Context
    <3> QED BY <3>1 DEF OneCancel
  <2> QED BY <2>1, <2>2, <2>3 DEF Init, TimeoutInv, CancelledOnce
<1>2. TimeoutInv /\ [Next]_vars => TimeoutInv'
  <2> SUFFICES ASSUME TimeoutInv, [Next]_vars PROVE TimeoutInv'
    OBVIOUS
  <2>1. TypeOK' /\ KnowsBusyZones' /\ TimersFollowRecorded' /\ ExpiredIsHandled'
    BY TypeStep, BusyStep, FollowStep, ExpiredStep DEF TimeoutInv
  <2>2. FreezesInside' /\ Outside' /\ TimersInside'
    BY FreezesInsideStep, OutsideStep, TimersInsideStep, RecordedParts DEF TimeoutInv
  <2>3. CancelledOnce'
    BY CancelledStep, RecordedParts DEF TimeoutInv
  <2>4. Recorded'
    BY <2>2 DEF Recorded, FreezesInside, Outside, TimersInside
  <2>5. UnrecordedNested'
    BY NestedStep, RecordedParts DEF TimeoutInv
  <2> QED BY <2>1, <2>3, <2>4, <2>5 DEF TimeoutInv
<1> QED BY <1>1, <1>2, PTL DEF Spec

\* A global timeout is held up by exactly the zones that somebody is in.
THEOREM BusyZonesAreKnown == Spec => []KnowsBusyZones
<1>1. TimeoutInv => KnowsBusyZones
  BY DEF TimeoutInv
<1> QED BY <1>1, TimeoutSafety, PTL

\* The timer of a zone timeout is stopped while somebody is in a freeze of its
\* zone or of all zones, and runs when nobody is; a freeze of all zones inside
\* another one, which the manager does not record, stops nothing by itself.
THEOREM TimersRunUnfrozen == Spec => []TimersFollowFreezes
<1>1. TimeoutInv => TimersFollowFreezes
  BY RecordedSuffices, RecordedParts DEF TimeoutInv
<1> QED BY <1>1, TimeoutSafety, PTL

\* No late timer cancels a task that has left the timeout.
THEOREM NoLateCancel == Spec => []CancelsOnlyInside
<1>1. TimeoutInv => CancelsOnlyInside
  BY DEF TimeoutInv, CancelledOnce, OneCancel, CancelsOnlyInside
<1> QED BY <1>1, TimeoutSafety, PTL

\* No expired global timeout is forgotten.
THEOREM NoExpiredForgotten == Spec => []ExpiredIsHandled
<1>1. TimeoutInv => ExpiredIsHandled
  BY DEF TimeoutInv
<1> QED BY <1>1, TimeoutSafety, PTL
=============================================================================
