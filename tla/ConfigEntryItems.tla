-------------------------- MODULE ConfigEntryItems --------------------------
(***************************************************************************)
(* The container of config entries with its two indexes (ConfigEntryItems) *)
(* and the config flows that fill it (ConfigEntriesFlowManager): a flow    *)
(* picks a unique id, finishes, and replaces the entry that already has    *)
(* that id.  The flow awaits in between, and other flows, removals and     *)
(* updates run meanwhile; it may also be aborted meanwhile, which nobody   *)
(* tells its step.                                                         *)
(*                                                                         *)
(* One domain is modelled: both indexes are keyed by it first, and an      *)
(* operation touches the keys of its own domain only.  How an entry is     *)
(* unloaded and set up is module ConfigEntry.  A flow is configured by one *)
(* call at a time, and DEFAULT_DISCOVERY_UNIQUE_ID is not among the ids.   *)
(* The integration allows several entries, and is in the loader's cache, so *)
(* asking for its manifest does not suspend a flow.                        *)
(***************************************************************************)
EXTENDS Naturals

CONSTANTS
  Entry,     \* ConfigEntry objects; each gets a fresh entry_id
  UniqueId,  \* unique ids an integration uses
  Flow,      \* config flows
  None       \* no unique id, no entry

ASSUME ItemsAssumption == None \notin UniqueId /\ None \notin Entry

VARIABLES
  careful,     \* the integration aborts a flow whose unique id is taken
  used,        \* entries ever created
  data,        \* ConfigEntryItems.data
  uniqueId,    \* ConfigEntry.unique_id
  domainIndex, \* ConfigEntryItems._domain_index of the domain
  uniqueIndex, \* ConfigEntryItems._domain_unique_id_index of the domain
  inProgress,  \* flows in FlowManager._progress
  shown,       \* flows that have shown a form: their cur_step is set
  flowId,      \* per flow: context["unique_id"]
  flowPc,      \* per flow: where its task is
  existing,    \* per flow: existing_entry of async_finish_flow
  created,     \* per flow: the entry it created
  contested    \* history: ids an update took although an entry or a flow had
               \* them, and ids of entries that aborted flows created

itemVars == <<used, data, uniqueId, domainIndex, uniqueIndex>>
flowVars == <<inProgress, shown, flowId, flowPc, existing, created>>
vars == <<careful, itemVars, flowVars, contested>>

FlowPC == {"new", "step", "form", "unloading", "adding", "removing", "done"}

TypeOK ==
  /\ careful \in BOOLEAN
  /\ used \subseteq Entry /\ data \subseteq used /\ domainIndex \subseteq Entry
  /\ uniqueId \in [Entry -> UniqueId \union {None}]
  /\ uniqueIndex \in [UniqueId -> Entry \union {None}]
  /\ inProgress \subseteq Flow /\ shown \subseteq Flow
  /\ flowId \in [Flow -> UniqueId \union {None}]
  /\ flowPc \in [Flow -> FlowPC]
  /\ existing \in [Flow -> Entry \union {None}]
  /\ created \in [Flow -> Entry \union {None}]
  /\ contested \subseteq UniqueId

Init ==
  /\ careful \in BOOLEAN
  /\ used = {} /\ data = {} /\ domainIndex = {}
  /\ uniqueId = [e \in Entry |-> None]
  /\ uniqueIndex = [u \in UniqueId |-> None]
  /\ inProgress = {} /\ shown = {} /\ flowId = [f \in Flow |-> None]
  /\ flowPc = [f \in Flow |-> "new"]
  /\ existing = [f \in Flow |-> None] /\ created = [f \in Flow |-> None]
  /\ contested = {}

-----------------------------------------------------------------------------
(* The container *)

\* _index_entry of e under u, in a unique-id index that is index so far.
Indexed(index, e, u) == IF u = None THEN index ELSE [index EXCEPT ![u] = e]

\* The unique-id key _unindex_entry deletes is there; else it raises KeyError,
\* with e already gone from the domain index.
CanUnindex(e) == e \in domainIndex /\ (uniqueId[e] # None => uniqueIndex[uniqueId[e]] # None)
\* Mutant of Unindexed: the key stays.
UnindexedKeepsKey(e) == uniqueIndex
Unindexed(e) ==
  IF uniqueId[e] = None THEN uniqueIndex ELSE [uniqueIndex EXCEPT ![uniqueId[e]] = None]

\* __setitem__ of a new entry with unique id u.
SetItem(e, u) ==
  /\ used' = used \union {e} /\ data' = data \union {e}
  /\ uniqueId' = [uniqueId EXCEPT ![e] = u]
  /\ domainIndex' = domainIndex \union {e}
  /\ uniqueIndex' = Indexed(uniqueIndex, e, u)

\* __delitem__; when it raises KeyError the entry stays in data.
DelItem(e) ==
  /\ e \in data
  /\ domainIndex' = domainIndex \ {e}
  /\ IF CanUnindex(e)
     THEN data' = data \ {e} /\ uniqueIndex' = Unindexed(e)
     ELSE UNCHANGED <<data, uniqueIndex>>
  /\ UNCHANGED <<used, uniqueId>>

\* Flow f has the id u and is yet to create its entry.
Holds(f, u) == f \in inProgress /\ flowPc[f] \in {"step", "form"} /\ flowId[f] = u

\* An entry or a flow has the id u.
InUse(u) == u # None /\ ((\E d \in data : uniqueId[d] = u) \/ \E f \in Flow : Holds(f, u))

\* Mutant of UpdateUniqueId: the entry is indexed before it has its new id.
UpdateUniqueIdIndexedEarly(e, u) ==
  /\ e \in data /\ uniqueId[e] # u /\ CanUnindex(e)
  /\ uniqueId' = [uniqueId EXCEPT ![e] = u]
  /\ uniqueIndex' = Indexed(Unindexed(e), e, uniqueId[e])
  /\ contested' = IF InUse(u) THEN contested \union {u} ELSE contested
  /\ UNCHANGED <<used, data, domainIndex, flowVars>>

\* async_update_entry with a new unique id, which may be anybody's.
UpdateUniqueId(e, u) ==
  /\ e \in data /\ uniqueId[e] # u
  /\ IF CanUnindex(e)
     THEN /\ uniqueId' = [uniqueId EXCEPT ![e] = u]
          /\ uniqueIndex' = Indexed(Unindexed(e), e, u)
          /\ contested' = IF InUse(u) THEN contested \union {u} ELSE contested
          /\ UNCHANGED domainIndex
     ELSE /\ domainIndex' = domainIndex \ {e}
          /\ UNCHANGED <<uniqueId, uniqueIndex, contested>>
  /\ UNCHANGED <<used, data, flowVars>>

\* The last slice of async_remove.
Remove(e) == DelItem(e) /\ UNCHANGED <<flowVars, contested>>

-----------------------------------------------------------------------------
(* Config flows *)

Goto(f, p) == flowPc' = [flowPc EXCEPT ![f] = p]

\* The flow is over: _async_handle_step takes it out of _progress, or raises
\* UnknownFlow because somebody aborted it.
Ends(f) == Goto(f, "done") /\ inProgress' = inProgress \ {f}

\* async_finish_flow raises: the flow stays in _progress with the step it had.
Raises(f) == Goto(f, IF f \in shown THEN "form" ELSE "done") /\ UNCHANGED inProgress

\* async_init: the flow is in progress, and its first step begins.
Start(f) ==
  /\ flowPc[f] = "new" /\ Goto(f, "step")
  /\ inProgress' = inProgress \union {f}
  /\ UNCHANGED <<itemVars, shown, flowId, existing, created, contested>>

\* Mutant of SetUniqueId: flows that have not shown a form are overlooked
\* (_async_in_progress without include_uninitialized).
SetUniqueIdShownOnly(f, u) ==
  /\ flowPc[f] = "step"
  /\ IF careful /\ u # None
        /\ (uniqueIndex[u] # None \/ \E g \in (inProgress \intersect shown) \ {f} : flowId[g] = u)
     THEN Ends(f) /\ UNCHANGED flowId
     ELSE flowId' = [flowId EXCEPT ![f] = u] /\ UNCHANGED <<inProgress, flowPc>>
  /\ UNCHANGED <<itemVars, shown, existing, created, contested>>

\* async_set_unique_id raises AbortFlow when another flow in progress has the
\* id, _abort_if_unique_id_configured when an entry has it; an integration
\* may turn off the one and not call the other.
SetUniqueId(f, u) ==
  /\ flowPc[f] = "step"
  /\ IF careful /\ u # None
        /\ (uniqueIndex[u] # None \/ \E g \in inProgress \ {f} : flowId[g] = u)
     THEN Ends(f) /\ UNCHANGED flowId
     ELSE flowId' = [flowId EXCEPT ![f] = u] /\ UNCHANGED <<inProgress, flowPc>>
  /\ UNCHANGED <<itemVars, shown, existing, created, contested>>

\* The step returns a form, and the user, if the flow is still in progress,
\* has the next one begun.
ShowForm(f) ==
  /\ flowPc[f] = "step" /\ Goto(f, "form")
  /\ shown' = shown \union {f}
  /\ UNCHANGED <<itemVars, inProgress, flowId, existing, created, contested>>

Configure(f) ==
  /\ flowPc[f] = "form" /\ f \in inProgress /\ Goto(f, "step")
  /\ UNCHANGED <<itemVars, inProgress, shown, flowId, existing, created, contested>>

\* async_abort, by the user or another task: a step that runs goes on.
AbortFlow(f) ==
  /\ f \in inProgress /\ inProgress' = inProgress \ {f}
  /\ UNCHANGED <<itemVars, shown, flowId, flowPc, existing, created, contested>>

\* async_finish_flow creates the entry and calls async_add.
CreateEntry(f) ==
  \E e \in Entry \ used :
    /\ SetItem(e, flowId[f])
    /\ created' = [created EXCEPT ![f] = e]
    /\ Goto(f, "adding")

\* The step returns an entry.  async_finish_flow does not look whether the
\* flow is still in progress; it aborts the other flows with the id that have
\* shown a form, finds the entry that has it in the domain's list, and unloads
\* that one first.
FinishFlow(f) ==
  /\ flowPc[f] = "step"
  /\ inProgress' = {g \in inProgress :
       g = f \/ g \notin shown \/ flowId[f] = None \/ flowId[g] # flowId[f]}
  /\ contested' = IF f \in inProgress \/ flowId[f] = None THEN contested
                  ELSE contested \union {flowId[f]}
  /\ LET same == {e \in domainIndex : flowId[f] # None /\ uniqueId[e] = flowId[f]} IN
     IF same = {}
     THEN CreateEntry(f) /\ existing' = [existing EXCEPT ![f] = None]
     ELSE \E e \in same :
            /\ existing' = [existing EXCEPT ![f] = e]
            /\ \/ Goto(f, "unloading") /\ UNCHANGED <<itemVars, created>>
               \/ CreateEntry(f)   \* it is not recoverable
  /\ UNCHANGED <<shown, flowId>>

Unloaded(f) ==
  /\ flowPc[f] = "unloading"
  /\ CreateEntry(f)
  /\ UNCHANGED <<inProgress, shown, flowId, existing, contested>>

\* The new entry is set up; async_remove of the existing one begins, or
\* raises UnknownEntry when it is gone.
Added(f) ==
  /\ flowPc[f] = "adding"
  /\ IF existing[f] = None THEN Ends(f)
     ELSE IF existing[f] \in data THEN Goto(f, "removing") /\ UNCHANGED inProgress
     ELSE Raises(f)
  /\ UNCHANGED <<itemVars, shown, flowId, existing, created, contested>>

\* The existing entry is deleted; KeyError if it is gone or cannot be unindexed.
ExistingRemoved(f) ==
  /\ flowPc[f] = "removing"
  /\ LET e == existing[f] IN
     /\ IF e \in data THEN DelItem(e) ELSE UNCHANGED itemVars
     /\ IF e \in data /\ CanUnindex(e) THEN Ends(f) ELSE Raises(f)
  /\ UNCHANGED <<shown, flowId, existing, created, contested>>

Step ==
  \/ \E f \in Flow : \/ Start(f) \/ ShowForm(f) \/ Configure(f) \/ AbortFlow(f)
                     \/ \E u \in UniqueId \union {None} : SetUniqueId(f, u)
                     \/ FinishFlow(f) \/ Unloaded(f) \/ Added(f) \/ ExistingRemoved(f)
  \/ \E e \in Entry : Remove(e) \/ \E u \in UniqueId \union {None} : UpdateUniqueId(e, u)

Next == Step /\ UNCHANGED careful

Spec == Init /\ [][Next]_vars

-----------------------------------------------------------------------------
(* Whatever the integrations do *)

\* A lookup never answers with an entry that was removed or has another id by
\* now, whatever two flows, a removal and an update do in whatever order.
LookupSound ==
  /\ domainIndex \subseteq data
  /\ \A u \in UniqueId : uniqueIndex[u] # None =>
       uniqueIndex[u] \in data /\ uniqueId[uniqueIndex[u]] = u

-----------------------------------------------------------------------------
(* With careful integrations, for the ids that are not contested: nothing    *)
(* in the code keeps an update from taking an id that is in use, or a flow   *)
(* that was aborted from creating its entry.                                 *)

\* Nothing that is stored is lost to the lookups, so everything can be removed.
LookupComplete ==
  \A e \in data : uniqueId[e] \notin contested =>
    e \in domainIndex /\ (uniqueId[e] # None => uniqueIndex[uniqueId[e]] = e)

\* No two entries share an id.
OneEntryPerUniqueId ==
  \A d, e \in data : uniqueId[d] = uniqueId[e] /\ uniqueId[d] # None
    => d = e \/ uniqueId[d] \in contested

\* Why: flows in progress have ids of their own, an id that a flow has is no
\* entry's until the flow creates one, and no flow finds an entry to replace.
FlowHoldsId ==
  /\ \A f, g \in inProgress : flowId[f] = flowId[g] /\ flowId[f] # None => f = g
  /\ \A f \in Flow, u \in UniqueId \ contested : Holds(f, u) => \A e \in data : uniqueId[e] # u
  /\ \A f \in Flow :
       /\ flowPc[f] = "new" => flowId[f] = None
       /\ flowPc[f] \in {"unloading", "removing"} => flowId[f] \in contested
       /\ flowPc[f] = "adding" => existing[f] = None \/ flowId[f] \in contested

\* The inductive invariant of careful integrations.
CarefulInv ==
  /\ TypeOK /\ careful
  /\ LookupSound /\ LookupComplete /\ OneEntryPerUniqueId /\ FlowHoldsId

\* A careful integration loses no stored entry to the lookups, in whatever
\* order flows, aborts, removals and updates take their steps: all can be
\* removed.  Only an update that takes an id in use, or an aborted flow that
\* creates its entry all the same, harms, and none but the entries of that id.
CarefulLookupComplete == careful => LookupComplete

\* A careful integration's flows never make two entries with one id, although
\* each creates its entry many awaits after it checked the id.  Two entries
\* come to share an id only when an update or an aborted flow took it.
CarefulOneEntryPerUniqueId == careful => OneEntryPerUniqueId

-----------------------------------------------------------------------------
(* What the documentation says, and the code does not do *)

\* ConfigEntryItems "maintains ... domain -> unique_id -> ConfigEntry": the
\* entry a flow put in the place of an existing one is found under its id.
ReplacementIsFound ==
  \A f \in Flow :
    /\ flowPc[f] = "done" /\ existing[f] # None
    /\ created[f] \in data /\ uniqueId[created[f]] # None
    => uniqueIndex[uniqueId[created[f]]] # None
=============================================================================
