----------------------- MODULE ConfigEntryItemsProofs -----------------------
(***************************************************************************)
(* Proofs about ConfigEntryItems, for any number of entries, ids and       *)
(* flows.  LookupSound needs nothing of the integrations.  LookupComplete  *)
(* and OneEntryPerUniqueId are about careful ones and the ids that are not *)
(* contested, and the strengthening is FlowHoldsId: between the check of   *)
(* an id and the creation of its entry there are awaits, and what carries  *)
(* the check over them is that the flow is in progress and seen by every   *)
(* other flow.                                                             *)
(***************************************************************************)
EXTENDS ConfigEntryItems, TLAPS

\* What every action keeps, written out once: the type of the primed state.
\* It holds initially.
LEMMA InitType == Init => TypeOK
BY DEF Init, TypeOK, FlowPC

\* An index with one key set keeps its type.
LEMMA IndexedType ==
  ASSUME TypeOK, NEW e \in Entry, NEW u \in UniqueId \union {None},
         NEW index \in [UniqueId -> Entry \union {None}]
  PROVE  Indexed(index, e, u) \in [UniqueId -> Entry \union {None}]
BY DEF Indexed

\* An index with one key deleted keeps its type.
LEMMA UnindexedType ==
  ASSUME TypeOK, NEW e \in Entry
  PROVE  Unindexed(e) \in [UniqueId -> Entry \union {None}]
BY DEF Unindexed, TypeOK

\* What deleting the key of an entry does to each key of the index.
LEMMA UnindexedAt ==
  ASSUME TypeOK, NEW e \in Entry, NEW k \in UniqueId
  PROVE  Unindexed(e)[k] = IF k = uniqueId[e] THEN None ELSE uniqueIndex[k]
BY ItemsAssumption DEF Unindexed, TypeOK

\* Setting an item keeps the types of the container.
LEMMA SetItemType ==
  ASSUME TypeOK, NEW e \in Entry \ used, NEW u \in UniqueId \union {None}, SetItem(e, u)
  PROVE  /\ used' \subseteq Entry /\ data' \subseteq used' /\ domainIndex' \subseteq Entry
         /\ uniqueId' \in [Entry -> UniqueId \union {None}]
         /\ uniqueIndex' \in [UniqueId -> Entry \union {None}]
BY IndexedType DEF TypeOK, SetItem

\* Deleting an item keeps the types of the container.
LEMMA DelItemType ==
  ASSUME TypeOK, NEW e \in Entry, DelItem(e)
  PROVE  /\ used' \subseteq Entry /\ data' \subseteq used' /\ domainIndex' \subseteq Entry
         /\ uniqueId' \in [Entry -> UniqueId \union {None}]
         /\ uniqueIndex' \in [UniqueId -> Entry \union {None}]
BY UnindexedType DEF TypeOK, DelItem

\* Ending a flow, or leaving it as it was before its step, keeps the types.
LEMMA FlowEndType ==
  ASSUME TypeOK, NEW f \in Flow, Ends(f) \/ Raises(f)
  PROVE  inProgress' \subseteq Flow /\ flowPc' \in [Flow -> FlowPC]
BY DEF TypeOK, FlowPC, Ends, Raises, Goto

\* The type invariant is inductive.
LEMMA TypeStep == TypeOK /\ [Next]_vars => TypeOK'
<1> SUFFICES ASSUME TypeOK, [Next]_vars PROVE TypeOK'
  OBVIOUS
<1>0. careful' = careful
  BY DEF Next, vars
<1> USE <1>0 DEF TypeOK
<1>1. ASSUME NEW f \in Flow, NEW u \in UniqueId \union {None}, SetUniqueId(f, u) PROVE TypeOK'
  <2>1. CASE Ends(f) /\ UNCHANGED flowId
    BY <1>1, <2>1, FlowEndType DEF SetUniqueId, itemVars
  <2>2. CASE flowId' = [flowId EXCEPT ![f] = u] /\ UNCHANGED <<inProgress, flowPc>>
    BY <1>1, <2>2 DEF SetUniqueId, itemVars
  <2> QED BY <1>1, <2>1, <2>2 DEF SetUniqueId
<1>2. ASSUME NEW f \in Flow, Start(f) \/ ShowForm(f) \/ Configure(f) \/ AbortFlow(f) PROVE TypeOK'
  BY <1>2 DEF Start, ShowForm, Configure, AbortFlow, Goto, itemVars, FlowPC
<1>3. ASSUME NEW f \in Flow, CreateEntry(f), inProgress' \subseteq Flow, contested' \subseteq UniqueId,
             UNCHANGED <<shown, flowId>>, existing' \in [Flow -> Entry \union {None}]
      PROVE  TypeOK'
  <2> PICK e \in Entry \ used : SetItem(e, flowId[f]) /\ created' = [created EXCEPT ![f] = e]
                                /\ Goto(f, "adding")
    BY <1>3 DEF CreateEntry
  <2>1. /\ used' \subseteq Entry /\ data' \subseteq used' /\ domainIndex' \subseteq Entry
        /\ uniqueId' \in [Entry -> UniqueId \union {None}]
        /\ uniqueIndex' \in [UniqueId -> Entry \union {None}]
    BY SetItemType
  <2> QED BY <1>3, <2>1 DEF Goto, FlowPC
<1>4. ASSUME NEW f \in Flow, FinishFlow(f) PROVE TypeOK'
  <2>1. /\ inProgress' \subseteq Flow /\ UNCHANGED <<shown, flowId>>
        /\ existing' \in [Flow -> Entry \union {None}]
    BY <1>4 DEF FinishFlow
  <2>2. contested' \subseteq UniqueId
    BY <1>4 DEF FinishFlow
  <2>3. CreateEntry(f) \/ (Goto(f, "unloading") /\ UNCHANGED <<itemVars, created>>)
    BY <1>4 DEF FinishFlow
  <2> QED BY <2>1, <2>2, <2>3, <1>3 DEF Goto, itemVars, FlowPC
<1>5. ASSUME NEW f \in Flow, Unloaded(f) PROVE TypeOK'
  BY <1>5, <1>3 DEF Unloaded
<1>6. ASSUME NEW f \in Flow, Added(f) PROVE TypeOK'
  <2>1. inProgress' \subseteq Flow /\ flowPc' \in [Flow -> FlowPC]
    BY <1>6, FlowEndType DEF Added, Goto, FlowPC
  <2> QED BY <1>6, <2>1 DEF Added, itemVars
<1>7. ASSUME NEW f \in Flow, ExistingRemoved(f) PROVE TypeOK'
  <2>1. /\ used' \subseteq Entry /\ data' \subseteq used' /\ domainIndex' \subseteq Entry
        /\ uniqueId' \in [Entry -> UniqueId \union {None}]
        /\ uniqueIndex' \in [UniqueId -> Entry \union {None}]
    BY <1>7, DelItemType DEF ExistingRemoved, itemVars
  <2>2. inProgress' \subseteq Flow /\ flowPc' \in [Flow -> FlowPC]
    BY <1>7, FlowEndType DEF ExistingRemoved
  <2> QED BY <1>7, <2>1, <2>2 DEF ExistingRemoved
<1>8. ASSUME NEW e \in Entry, Remove(e) PROVE TypeOK'
  BY <1>8, DelItemType DEF Remove, flowVars
<1>9. ASSUME NEW e \in Entry, NEW u \in UniqueId \union {None}, UpdateUniqueId(e, u) PROVE TypeOK'
  <2>1. /\ uniqueId' \in {uniqueId, [uniqueId EXCEPT ![e] = u]}
        /\ uniqueIndex' \in {uniqueIndex, Indexed(Unindexed(e), e, u)}
        /\ domainIndex' \in {domainIndex, domainIndex \ {e}}
        /\ UNCHANGED <<used, data, flowVars>>
    BY <1>9 DEF UpdateUniqueId
  <2>2. Indexed(Unindexed(e), e, u) \in [UniqueId -> Entry \union {None}]
    BY UnindexedType, IndexedType
  <2>3. contested' \subseteq UniqueId
    BY <1>9 DEF UpdateUniqueId, InUse
  <2> QED BY <2>1, <2>2, <2>3 DEF flowVars
<1>10. CASE UNCHANGED vars
  BY <1>10 DEF vars, itemVars, flowVars
<1> QED BY <1>1, <1>2, <1>4, <1>5, <1>6, <1>7, <1>8, <1>9, <1>10 DEF Next, Step

-----------------------------------------------------------------------------
(* LookupSound, whatever the integrations do *)

\* A new item leaves the lookups sound: its id now answers with it.
LEMMA SetItemSound ==
  ASSUME TypeOK, LookupSound, NEW e \in Entry \ used, NEW u \in UniqueId \union {None},
         SetItem(e, u)
  PROVE  LookupSound'
<1>1. domainIndex' \subseteq data'
  BY DEF SetItem, LookupSound
<1>2. ASSUME NEW k \in UniqueId, uniqueIndex'[k] # None
      PROVE  uniqueIndex'[k] \in data' /\ uniqueId'[uniqueIndex'[k]] = k
  <2>1. uniqueIndex'[k] = IF k = u THEN e ELSE uniqueIndex[k]
    BY ItemsAssumption DEF SetItem, TypeOK, Indexed
  <2>2. CASE k = u
    BY <2>1, <2>2 DEF SetItem, TypeOK
  <2>3. CASE k # u
    BY <1>2, <2>1, <2>3 DEF SetItem, TypeOK, LookupSound
  <2> QED BY <2>2, <2>3
<1> QED BY <1>1, <1>2 DEF LookupSound

\* A deleted item leaves them sound, also when the deletion raises halfway.
LEMMA DelItemSound ==
  ASSUME TypeOK, LookupSound, NEW e \in Entry, DelItem(e)
  PROVE  LookupSound'
<1>1. CASE CanUnindex(e)
  <2>1. domainIndex' \subseteq data'
    BY <1>1 DEF DelItem, LookupSound
  <2>2. ASSUME NEW k \in UniqueId, uniqueIndex'[k] # None
        PROVE  uniqueIndex'[k] \in data' /\ uniqueId'[uniqueIndex'[k]] = k
    <3>1. uniqueIndex'[k] = IF k = uniqueId[e] THEN None ELSE uniqueIndex[k]
      BY <1>1, UnindexedAt DEF DelItem
    <3>2. k # uniqueId[e] /\ uniqueIndex'[k] = uniqueIndex[k]
      BY <2>2, <3>1
    <3>3. uniqueIndex[k] \in data /\ uniqueId[uniqueIndex[k]] = k /\ uniqueIndex[k] # e
      BY <2>2, <3>2 DEF LookupSound
    <3> QED BY <1>1, <3>2, <3>3 DEF DelItem
  <2> QED BY <2>1, <2>2 DEF LookupSound
<1>2. CASE ~CanUnindex(e)
  BY <1>2 DEF DelItem, LookupSound
<1> QED BY <1>1, <1>2

\* A changed id leaves them sound: the old id answers nothing, the new one
\* with the entry.
LEMMA UpdateSound ==
  ASSUME TypeOK, LookupSound, NEW e \in Entry, NEW u \in UniqueId \union {None},
         UpdateUniqueId(e, u)
  PROVE  LookupSound'
<1>1. CASE CanUnindex(e)
  <2>1. domainIndex' \subseteq data'
    BY <1>1 DEF UpdateUniqueId, LookupSound
  <2>2. ASSUME NEW k \in UniqueId, uniqueIndex'[k] # None
        PROVE  uniqueIndex'[k] \in data' /\ uniqueId'[uniqueIndex'[k]] = k
    <3>1. uniqueIndex'[k] = IF k = u THEN e ELSE Unindexed(e)[k]
      <4>1. Unindexed(e) \in [UniqueId -> Entry \union {None}]
        BY UnindexedType
      <4> QED BY <1>1, <4>1, ItemsAssumption DEF UpdateUniqueId, Indexed
    <3>2. Unindexed(e)[k] = IF k = uniqueId[e] THEN None ELSE uniqueIndex[k]
      BY UnindexedAt
    <3>3. CASE k = u
      BY <1>1, <3>1, <3>3 DEF UpdateUniqueId, TypeOK
    <3>4. CASE k # u
      <4>1. k # uniqueId[e] /\ uniqueIndex'[k] = uniqueIndex[k]
        BY <2>2, <3>1, <3>2, <3>4
      <4>2. uniqueIndex[k] \in data /\ uniqueId[uniqueIndex[k]] = k /\ uniqueIndex[k] # e
        BY <2>2, <4>1 DEF LookupSound
      <4> QED BY <1>1, <4>1, <4>2 DEF UpdateUniqueId, TypeOK
    <3> QED BY <3>3, <3>4
  <2> QED BY <2>1, <2>2 DEF LookupSound
<1>2. CASE ~CanUnindex(e)
  BY <1>2 DEF UpdateUniqueId, LookupSound
<1> QED BY <1>1, <1>2

\* No step makes a lookup wrong.
LEMMA SoundStep == TypeOK /\ LookupSound /\ [Next]_vars => LookupSound'
<1> SUFFICES ASSUME TypeOK, LookupSound, [Next]_vars PROVE LookupSound'
  OBVIOUS
<1>1. ASSUME UNCHANGED itemVars PROVE LookupSound'
  BY <1>1 DEF LookupSound, itemVars
<1>2. ASSUME NEW f \in Flow, CreateEntry(f) PROVE LookupSound'
  <2>1. flowId[f] \in UniqueId \union {None}
    BY DEF TypeOK
  <2> QED BY <1>2, <2>1, SetItemSound DEF CreateEntry
<1>3. ASSUME NEW f \in Flow, NEW u \in UniqueId \union {None}, SetUniqueId(f, u) PROVE LookupSound'
  BY <1>1, <1>3 DEF SetUniqueId
<1>4. ASSUME NEW f \in Flow, Start(f) \/ ShowForm(f) \/ Configure(f) \/ AbortFlow(f) \/ Added(f)
      PROVE  LookupSound'
  BY <1>1, <1>4 DEF Start, ShowForm, Configure, AbortFlow, Added
<1>5. ASSUME NEW f \in Flow, FinishFlow(f) PROVE LookupSound'
  BY <1>1, <1>2, <1>5 DEF FinishFlow
<1>6. ASSUME NEW f \in Flow, Unloaded(f) PROVE LookupSound'
  BY <1>2, <1>6 DEF Unloaded
<1>7. ASSUME NEW f \in Flow, ExistingRemoved(f) PROVE LookupSound'
  BY <1>1, <1>7, DelItemSound DEF ExistingRemoved, TypeOK
<1>8. ASSUME NEW e \in Entry, Remove(e) PROVE LookupSound'
  BY <1>8, DelItemSound DEF Remove
<1>9. ASSUME NEW e \in Entry, NEW u \in UniqueId \union {None}, UpdateUniqueId(e, u)
      PROVE  LookupSound'
  BY <1>9, UpdateSound
<1>10. CASE UNCHANGED vars
  BY <1>1, <1>10 DEF vars
<1> QED BY <1>3, <1>4, <1>5, <1>6, <1>7, <1>8, <1>9, <1>10 DEF Next, Step

\* No lookup by unique id (async_entry_for_domain_unique_id) ever answers
\* with an entry that is gone or has another id.
THEOREM LookupIsSound == Spec => []LookupSound
<1>1. Init => TypeOK /\ LookupSound
  BY InitType DEF Init, LookupSound
<1>2. TypeOK /\ LookupSound /\ [Next]_vars => (TypeOK /\ LookupSound)'
  BY TypeStep, SoundStep
<1> QED BY <1>1, <1>2, PTL DEF Spec

-----------------------------------------------------------------------------
(* Careful integrations *)

CarefulParts == LookupComplete /\ OneEntryPerUniqueId /\ FlowHoldsId

\* What the flows' own part of the invariant rests on, when the entries stay.
LEMMA FlowsHold ==
  ASSUME CarefulInv, UNCHANGED <<itemVars, contested>>, FlowHoldsId'
  PROVE  CarefulParts'
BY DEF CarefulInv, CarefulParts, LookupComplete, OneEntryPerUniqueId, itemVars

\* A flow that creates its entry keeps the invariant: its id is contested, or
\* no stored entry and no other flow has it.
LEMMA CarefulCreate ==
  ASSUME CarefulInv, TypeOK', NEW f \in Flow, NEW e \in Entry \ used, SetItem(e, flowId[f]),
         flowId[f] \notin contested' \union {None} =>
           /\ \A d \in data : uniqueId[d] # flowId[f]
           /\ \A g \in Flow \ {f} : ~Holds(g, flowId[f])
           /\ existing'[f] = None,
         flowPc' = [flowPc EXCEPT ![f] = "adding"], flowId' = flowId,
         \A g \in Flow \ {f} : existing'[g] = existing[g],
         flowId[f] = None => existing'[f] = None,
         contested \subseteq contested', inProgress' \subseteq inProgress
  PROVE  CarefulParts'
<1> DEFINE u == flowId[f]
<1> USE DEF CarefulInv
<1>1. /\ u \in UniqueId \union {None} /\ e \notin data
      /\ data' = data \union {e} /\ domainIndex' = domainIndex \union {e}
      /\ uniqueId' = [uniqueId EXCEPT ![e] = u] /\ uniqueIndex' = Indexed(uniqueIndex, e, u)
  BY DEF SetItem, TypeOK
<1>3. /\ uniqueId'[e] = u
      /\ \A d \in data : d \in Entry /\ d # e /\ uniqueId'[d] = uniqueId[d]
  BY <1>1 DEF TypeOK
<1>5. LookupComplete'
  <2>1. ASSUME NEW d \in data', uniqueId'[d] \notin contested'
        PROVE  d \in domainIndex' /\ (uniqueId'[d] # None => uniqueIndex'[uniqueId'[d]] = d)
    <3>1. CASE d = e
      BY <1>1, <1>3, <3>1 DEF Indexed, TypeOK
    <3>2. CASE d # e
      <4>1. d \in data /\ uniqueId'[d] = uniqueId[d] /\ uniqueId[d] \in UniqueId \union {None}
        BY <1>1, <1>3, <3>2 DEF TypeOK
      <4>2. d \in domainIndex /\ (uniqueId[d] # None => uniqueIndex[uniqueId[d]] = d /\ uniqueId[d] # u)
        BY <2>1, <4>1 DEF LookupComplete
      <4> QED BY <1>1, <4>1, <4>2 DEF Indexed, TypeOK
    <3> QED BY <3>1, <3>2
  <2> QED BY <2>1 DEF LookupComplete
<1>6. OneEntryPerUniqueId'
  BY <1>1, <1>3 DEF OneEntryPerUniqueId
<1>7. FlowHoldsId'
  <2>1. ASSUME NEW g \in Flow, NEW k \in UniqueId \ contested', Holds(g, k)'
        PROVE  \A d \in data' : uniqueId'[d] # k
    <3>1. g # f /\ Holds(g, k)
      BY <2>1 DEF Holds, TypeOK
    <3>2. \A d \in data : uniqueId[d] # k
      BY <2>1, <3>1 DEF FlowHoldsId
    <3>3. u # k
      BY <2>1, <3>1, ItemsAssumption
    <3> QED BY <1>1, <1>3, <3>2, <3>3
  <2>2. \A g, h \in inProgress' : flowId'[g] = flowId'[h] /\ flowId'[g] # None => g = h
    BY DEF FlowHoldsId
  <2>3. ASSUME NEW g \in Flow
        PROVE  /\ flowPc'[g] = "new" => flowId'[g] = None
               /\ flowPc'[g] \in {"unloading", "removing"} => flowId'[g] \in contested'
               /\ flowPc'[g] = "adding" => existing'[g] = None \/ flowId'[g] \in contested'
    <3>1. CASE g = f
      BY <3>1 DEF TypeOK
    <3>2. CASE g # f
      BY <3>2 DEF FlowHoldsId, TypeOK
    <3> QED BY <3>1, <3>2
  <2> QED BY <2>1, <2>2, <2>3 DEF FlowHoldsId
<1> QED BY <1>5, <1>6, <1>7 DEF CarefulParts

\* What deleting or re-indexing an entry meets: one whose id is not contested
\* can be unindexed, and nobody shares its key.
LEMMA CarefulKey ==
  ASSUME CarefulInv, NEW e \in data, uniqueId[e] \notin contested
  PROVE  /\ CanUnindex(e)
         /\ \A d \in data \ {e} : uniqueId[d] # None => uniqueId[d] # uniqueId[e]
<1> USE DEF CarefulInv
<1>1. e \in domainIndex /\ (uniqueId[e] # None => uniqueIndex[uniqueId[e]] = e)
  BY DEF LookupComplete
<1>2. CanUnindex(e)
  BY <1>1, ItemsAssumption DEF CanUnindex, TypeOK
<1>3. \A d \in data \ {e} : uniqueId[d] # None => uniqueId[d] # uniqueId[e]
  BY DEF OneEntryPerUniqueId
<1> QED BY <1>2, <1>3

\* A deleted entry leaves the others complete and unique.
LEMMA CarefulDelete ==
  ASSUME CarefulInv, NEW e \in Entry, DelItem(e), contested' = contested
  PROVE  LookupComplete' /\ OneEntryPerUniqueId' /\ data' \subseteq data /\ uniqueId' = uniqueId
<1> USE DEF CarefulInv
<1>1. /\ e \in data /\ uniqueId' = uniqueId /\ domainIndex' = domainIndex \ {e}
      /\ data' \subseteq data
  BY DEF DelItem
<1>2. ASSUME NEW d \in data', uniqueId'[d] \notin contested'
      PROVE  d \in domainIndex' /\ (uniqueId'[d] # None => uniqueIndex'[uniqueId'[d]] = d)
  <2>1. d \in data /\ uniqueId[d] \notin contested /\ uniqueId[d] \in UniqueId \union {None}
    BY <1>1, <1>2 DEF TypeOK
  <2>2. d \in domainIndex /\ (uniqueId[d] # None => uniqueIndex[uniqueId[d]] = d)
    BY <2>1 DEF LookupComplete
  <2>3. d # e
    BY <1>1, <1>2, <2>1, CarefulKey DEF DelItem
  <2>4. CASE CanUnindex(e)
    <3>1. uniqueIndex' = Unindexed(e)
      BY <2>4 DEF DelItem
    <3>2. uniqueId[d] # None => uniqueId[d] # uniqueId[e]
      BY <1>1, <2>1, <2>3, CarefulKey
    <3> QED BY <1>1, <2>1, <2>2, <2>3, <3>1, <3>2, UnindexedAt
  <2>5. CASE ~CanUnindex(e)
    BY <1>1, <2>2, <2>3, <2>5 DEF DelItem
  <2> QED BY <2>4, <2>5
<1> QED BY <1>1, <1>2 DEF LookupComplete, OneEntryPerUniqueId

\* A removal keeps the invariant.
LEMMA CarefulRemove ==
  ASSUME CarefulInv, NEW e \in Entry, Remove(e)
  PROVE  CarefulParts'
<1>1. DelItem(e) /\ contested' = contested /\ UNCHANGED flowVars
  BY DEF Remove
<1>2. LookupComplete' /\ OneEntryPerUniqueId' /\ data' \subseteq data /\ uniqueId' = uniqueId
  BY <1>1, CarefulDelete
<1>3. FlowHoldsId'
  BY <1>1, <1>2 DEF CarefulInv, FlowHoldsId, Holds, flowVars
<1> QED BY <1>2, <1>3 DEF CarefulParts

\* A changed id keeps it: the new id was nobody's, or it is contested now.
LEMMA CarefulUpdate ==
  ASSUME CarefulInv, NEW e \in Entry, NEW u \in UniqueId \union {None}, UpdateUniqueId(e, u)
  PROVE  CarefulParts'
<1> USE DEF CarefulInv
<1>1. CASE ~CanUnindex(e)
  <2>1. /\ e \in data /\ uniqueId[e] \in contested
        /\ domainIndex' = domainIndex \ {e}
        /\ UNCHANGED <<data, uniqueId, uniqueIndex, contested, flowVars>>
    BY <1>1, CarefulKey DEF UpdateUniqueId
  <2>2. LookupComplete'
    BY <2>1 DEF LookupComplete
  <2>3. OneEntryPerUniqueId' /\ FlowHoldsId'
    BY <2>1 DEF OneEntryPerUniqueId, FlowHoldsId, Holds, flowVars
  <2> QED BY <2>2, <2>3 DEF CarefulParts
<1>2. CASE CanUnindex(e)
  <2>1. /\ e \in data /\ e \in domainIndex
        /\ uniqueId' = [uniqueId EXCEPT ![e] = u] /\ data' = data /\ domainIndex' = domainIndex
        /\ uniqueIndex' = Indexed(Unindexed(e), e, u)
        /\ UNCHANGED flowVars
    BY <1>2 DEF UpdateUniqueId, CanUnindex
  <2>2. /\ contested \subseteq contested'
        /\ u \notin contested' \union {None} =>
             /\ \A d \in data : uniqueId[d] # u
             /\ \A f \in Flow : ~Holds(f, u)
    BY <1>2 DEF UpdateUniqueId, InUse
  <2>3. /\ uniqueId'[e] = u
        /\ \A d \in data : d \in Entry /\ (d # e => uniqueId'[d] = uniqueId[d])
    BY <2>1 DEF TypeOK
  <2>4. ASSUME NEW d \in data', uniqueId'[d] \notin contested'
        PROVE  d \in domainIndex' /\ (uniqueId'[d] # None => uniqueIndex'[uniqueId'[d]] = d)
    <3>0. Unindexed(e) \in [UniqueId -> Entry \union {None}]
      BY UnindexedType
    <3>1. CASE d = e
      BY <2>1, <2>3, <3>0, <3>1 DEF Indexed
    <3>2. CASE d # e
      <4>1. /\ d \in data /\ uniqueId'[d] = uniqueId[d] /\ uniqueId[d] \in UniqueId \union {None}
            /\ uniqueId[d] \notin contested
        BY <2>1, <2>2, <2>3, <2>4, <3>2 DEF TypeOK
      <4>2. d \in domainIndex /\ (uniqueId[d] # None => uniqueIndex[uniqueId[d]] = d)
        BY <4>1 DEF LookupComplete
      <4>3. CASE uniqueId[d] = None
        BY <2>1, <4>1, <4>2, <4>3
      <4>4. CASE uniqueId[d] # None
        <5>1. uniqueId[d] # u
          BY <2>2, <2>4, <4>1, <4>4
        <5>2. uniqueId[d] # uniqueId[e]
          BY <2>1, <3>2, <4>1, <4>4, CarefulKey
        <5>3. Unindexed(e)[uniqueId[d]] = d
          BY <4>1, <4>2, <4>4, <5>2, UnindexedAt
        <5> QED BY <2>1, <3>0, <4>1, <4>2, <4>4, <5>1, <5>3 DEF Indexed
      <4> QED BY <4>3, <4>4
    <3> QED BY <3>1, <3>2
  <2>5. LookupComplete'
    BY <2>4 DEF LookupComplete
  <2>6. OneEntryPerUniqueId'
    BY <2>1, <2>2, <2>3 DEF OneEntryPerUniqueId
  <2>7. FlowHoldsId'
    <3>1. \A g \in Flow, k \in UniqueId \ contested' : Holds(g, k)' => Holds(g, k)
      BY <2>1 DEF Holds, flowVars
    <3>2. ASSUME NEW g \in Flow, NEW k \in UniqueId \ contested', Holds(g, k)'
          PROVE  \A d \in data' : uniqueId'[d] # k
      <4>1. Holds(g, k) /\ \A d \in data : uniqueId[d] # k
        BY <2>2, <3>1, <3>2 DEF FlowHoldsId
      <4>2. u # k
        BY <2>2, <4>1, ItemsAssumption
      <4> QED BY <2>1, <2>3, <4>1, <4>2
    <3> QED BY <2>1, <2>2, <3>2 DEF FlowHoldsId, flowVars
  <2> QED BY <2>5, <2>6, <2>7 DEF CarefulParts
<1> QED BY <1>1, <1>2

\* A flow that takes an id keeps it: the index is complete, so an id without
\* a key is no entry's, unless it is contested.
LEMMA CarefulSetUniqueId ==
  ASSUME CarefulInv, NEW f \in Flow, NEW u \in UniqueId \union {None}, SetUniqueId(f, u)
  PROVE  CarefulParts'
<1> USE DEF CarefulInv
<1>1. UNCHANGED <<itemVars, contested, existing>> /\ flowPc[f] = "step"
  BY DEF SetUniqueId
<1>2. CASE Ends(f) /\ UNCHANGED flowId
  <2>1. FlowHoldsId'
    BY <1>1, <1>2 DEF FlowHoldsId, Holds, Ends, Goto, TypeOK, itemVars
  <2> QED BY <1>1, <2>1, FlowsHold
<1>3. CASE /\ ~(u # None /\ (uniqueIndex[u] # None \/ \E g \in inProgress \ {f} : flowId[g] = u))
           /\ flowId' = [flowId EXCEPT ![f] = u] /\ UNCHANGED <<inProgress, flowPc>>
  <2>1. u \notin contested \union {None} => \A d \in data : uniqueId[d] # u
    BY <1>3, ItemsAssumption DEF LookupComplete, TypeOK
  <2>2. \A g, h \in inProgress' : flowId'[g] = flowId'[h] /\ flowId'[g] # None => g = h
    <3> SUFFICES ASSUME NEW g \in inProgress, NEW h \in inProgress,
                        flowId'[g] = flowId'[h], flowId'[g] # None
                 PROVE  g = h
      BY <1>3
    <3>1. CASE g # f /\ h # f
      BY <1>3, <3>1 DEF FlowHoldsId, TypeOK
    <3>2. CASE g = f \/ h = f
      BY <1>3, <3>2 DEF TypeOK
    <3> QED BY <3>1, <3>2
  <2>3. ASSUME NEW g \in Flow, NEW k \in UniqueId \ contested', Holds(g, k)'
        PROVE  \A d \in data' : uniqueId'[d] # k
    <3>1. CASE g = f
      BY <1>1, <1>3, <2>1, <2>3, <3>1, ItemsAssumption DEF itemVars, TypeOK, Holds
    <3>2. CASE g # f
      BY <1>1, <1>3, <2>3, <3>2 DEF FlowHoldsId, Holds, itemVars, TypeOK
    <3> QED BY <3>1, <3>2
  <2>4. ASSUME NEW g \in Flow
        PROVE  /\ flowPc'[g] = "new" => flowId'[g] = None
               /\ flowPc'[g] \in {"unloading", "removing"} => flowId'[g] \in contested'
               /\ flowPc'[g] = "adding" => existing'[g] = None \/ flowId'[g] \in contested'
    BY <1>1, <1>3 DEF FlowHoldsId, TypeOK
  <2>5. FlowHoldsId'
    BY <2>2, <2>3, <2>4 DEF FlowHoldsId
  <2> QED BY <1>1, <2>5, FlowsHold
<1> QED BY <1>2, <1>3 DEF SetUniqueId

\* A flow in progress whose id is not contested finds no entry to replace,
\* and creates its own at once; any other has a contested id.
LEMMA CarefulFinish ==
  ASSUME CarefulInv, TypeOK', NEW f \in Flow, FinishFlow(f)
  PROVE  CarefulParts'
<1> USE DEF CarefulInv
<1> DEFINE u == flowId[f]
           same == {e \in domainIndex : u # None /\ uniqueId[e] = u}
<1>1. /\ flowPc[f] = "step" /\ UNCHANGED <<shown, flowId>> /\ inProgress' \subseteq inProgress
      /\ contested \subseteq contested' /\ u \in UniqueId \union {None}
      /\ u \notin contested' \union {None} => f \in inProgress
      /\ \A g \in Flow \ {f} : existing'[g] = existing[g]
  BY DEF FinishFlow, TypeOK
<1>2. u \notin contested' \union {None} => Holds(f, u)
  BY <1>1 DEF Holds
<1>3. u \notin contested' \union {None} =>
        /\ \A d \in data : uniqueId[d] # u
        /\ \A g \in Flow \ {f} : ~Holds(g, u)
        /\ same = {}
  <2>1. u \notin contested' \union {None} => \A d \in data : uniqueId[d] # u
    BY <1>1, <1>2 DEF FlowHoldsId
  <2>2. u \notin contested' \union {None} => \A g \in Flow \ {f} : ~Holds(g, u)
    BY <1>1, <1>2 DEF FlowHoldsId, Holds
  <2> QED BY <2>1, <2>2 DEF LookupSound
<1>4. same = {} => existing'[f] = None /\ CreateEntry(f)
  BY DEF FinishFlow, TypeOK
<1>5. CASE CreateEntry(f)
  <2>1. PICK e \in Entry \ used : SetItem(e, u) /\ Goto(f, "adding")
    BY <1>5 DEF CreateEntry
  <2>2. u = None => same = {}
    OBVIOUS
  <2> QED BY <1>1, <1>3, <1>4, <2>1, <2>2, CarefulCreate DEF Goto
<1>6. CASE Goto(f, "unloading") /\ UNCHANGED <<itemVars, created>> /\ same # {}
  <2>1. u \in contested'
    BY <1>3, <1>6
  <2>2. LookupComplete' /\ OneEntryPerUniqueId'
    BY <1>1, <1>6 DEF LookupComplete, OneEntryPerUniqueId, itemVars
  <2>3. \A g \in Flow : flowPc'[g] = (IF g = f THEN "unloading" ELSE flowPc[g])
    BY <1>6 DEF Goto, TypeOK
  <2>4. FlowHoldsId'
    <3>1. \A g, h \in inProgress' : flowId'[g] = flowId'[h] /\ flowId'[g] # None => g = h
      BY <1>1 DEF FlowHoldsId
    <3>2. \A g \in Flow, k \in UniqueId \ contested' :
            Holds(g, k)' => \A d \in data' : uniqueId'[d] # k
      BY <1>1, <1>6, <2>3 DEF FlowHoldsId, Holds, itemVars
    <3>3. \A g \in Flow :
            /\ flowPc'[g] = "new" => flowId'[g] = None
            /\ flowPc'[g] \in {"unloading", "removing"} => flowId'[g] \in contested'
            /\ flowPc'[g] = "adding" => existing'[g] = None \/ flowId'[g] \in contested'
      BY <1>1, <2>1, <2>3 DEF FlowHoldsId
    <3> QED BY <3>1, <3>2, <3>3 DEF FlowHoldsId
  <2> QED BY <2>2, <2>4 DEF CarefulParts
<1> QED BY <1>4, <1>5, <1>6 DEF FinishFlow

\* A flow ends, or fails and may be tried again: a flow that has replaced an
\* entry has a contested id.
LEMMA CarefulEnd ==
  ASSUME CarefulInv, NEW f \in Flow, UNCHANGED <<shown, flowId, existing, contested>>,
         data' \subseteq data, uniqueId' = uniqueId,
         Ends(f) \/ (Raises(f) /\ flowId[f] \in contested) \/
           (Goto(f, "removing") /\ UNCHANGED inProgress /\ flowId[f] \in contested),
         flowPc[f] \in {"adding", "removing"}
  PROVE  FlowHoldsId'
<1> USE DEF CarefulInv
<1>1. /\ inProgress' \subseteq inProgress
      /\ \A g \in Flow \ {f} : flowPc'[g] = flowPc[g]
      /\ flowPc'[f] \in {"done", "form", "removing"}
      /\ flowPc'[f] # "done" => flowId[f] \in contested
  BY DEF Ends, Raises, Goto, TypeOK
<1>2. ASSUME NEW g \in Flow, NEW k \in UniqueId \ contested', Holds(g, k)'
      PROVE  \A d \in data' : uniqueId'[d] # k
  <2>1. CASE g = f
    BY <1>1, <1>2, <2>1 DEF Holds
  <2>2. CASE g # f
    BY <1>1, <1>2, <2>2 DEF Holds, FlowHoldsId
  <2> QED BY <2>1, <2>2
<1>3. \A g, h \in inProgress' : flowId'[g] = flowId'[h] /\ flowId'[g] # None => g = h
  BY <1>1 DEF FlowHoldsId
<1>4. ASSUME NEW g \in Flow
      PROVE  /\ flowPc'[g] = "new" => flowId'[g] = None
             /\ flowPc'[g] \in {"unloading", "removing"} => flowId'[g] \in contested'
             /\ flowPc'[g] = "adding" => existing'[g] = None \/ flowId'[g] \in contested'
  <2>1. CASE g = f
    BY <1>1, <2>1
  <2>2. CASE g # f
    BY <1>1, <2>2 DEF FlowHoldsId
  <2> QED BY <2>1, <2>2
<1> QED BY <1>2, <1>3, <1>4 DEF FlowHoldsId

\* The invariant of careful integrations is inductive.
LEMMA CarefulStep == CarefulInv /\ [Next]_vars => CarefulInv'
<1> SUFFICES ASSUME CarefulInv, [Next]_vars, TypeOK' PROVE CarefulParts'
  BY TypeStep, SoundStep DEF CarefulInv, CarefulParts, Next, vars
<1> USE DEF CarefulInv
<1>1. ASSUME NEW f \in Flow, NEW u \in UniqueId \union {None}, SetUniqueId(f, u) PROVE CarefulParts'
  BY <1>1, CarefulSetUniqueId
<1>2. ASSUME NEW f \in Flow, AbortFlow(f) PROVE CarefulParts'
  <2>1. FlowHoldsId' /\ UNCHANGED <<itemVars, contested>>
    BY <1>2 DEF AbortFlow, itemVars, FlowHoldsId, Holds
  <2> QED BY <2>1, FlowsHold
<1>3. ASSUME NEW f \in Flow, Start(f) PROVE CarefulParts'
  <2>1. flowId[f] = None /\ UNCHANGED <<itemVars, contested>>
    BY <1>3 DEF Start, FlowHoldsId
  <2>2. FlowHoldsId'
    BY <1>3, <2>1, ItemsAssumption DEF Start, Goto, itemVars, FlowHoldsId, Holds, TypeOK
  <2> QED BY <2>1, <2>2, FlowsHold
<1>4. ASSUME NEW f \in Flow, ShowForm(f) \/ Configure(f) PROVE CarefulParts'
  <2>1. FlowHoldsId' /\ UNCHANGED <<itemVars, contested>>
    BY <1>4 DEF ShowForm, Configure, Goto, itemVars, FlowHoldsId, Holds, TypeOK
  <2> QED BY <2>1, FlowsHold
<1>5. ASSUME NEW f \in Flow, FinishFlow(f) PROVE CarefulParts'
  BY <1>5, CarefulFinish
<1>6. ASSUME NEW f \in Flow, Unloaded(f) PROVE CarefulParts'
  <2>1. flowId[f] \in contested /\ flowId[f] # None
    BY <1>6, ItemsAssumption DEF Unloaded, FlowHoldsId, TypeOK
  <2>2. PICK e \in Entry \ used : SetItem(e, flowId[f]) /\ Goto(f, "adding")
    BY <1>6 DEF Unloaded, CreateEntry
  <2> QED BY <1>6, <2>1, <2>2, CarefulCreate DEF Unloaded, Goto
<1>7. ASSUME NEW f \in Flow, Added(f) PROVE CarefulParts'
  <2>1. /\ UNCHANGED <<itemVars, shown, flowId, existing, contested>> /\ flowPc[f] = "adding"
        /\ existing[f] # None => flowId[f] \in contested
    BY <1>7 DEF Added, FlowHoldsId
  <2>2. Ends(f) \/ (Raises(f) /\ flowId[f] \in contested)
          \/ (Goto(f, "removing") /\ UNCHANGED inProgress /\ flowId[f] \in contested)
    BY <1>7, <2>1 DEF Added
  <2>3. FlowHoldsId'
    BY <2>1, <2>2, CarefulEnd DEF itemVars
  <2> QED BY <2>1, <2>3, FlowsHold
<1>8. ASSUME NEW f \in Flow, ExistingRemoved(f) PROVE CarefulParts'
  <2>1. /\ UNCHANGED <<shown, flowId, existing, contested>> /\ flowPc[f] = "removing"
        /\ flowId[f] \in contested
        /\ Ends(f) \/ Raises(f)
    BY <1>8 DEF ExistingRemoved, FlowHoldsId
  <2>2. CASE existing[f] \in data
    <3>1. DelItem(existing[f]) /\ existing[f] \in Entry
      BY <1>8, <2>2 DEF ExistingRemoved, TypeOK
    <3>2. LookupComplete' /\ OneEntryPerUniqueId' /\ data' \subseteq data /\ uniqueId' = uniqueId
      BY <2>1, <3>1, CarefulDelete
    <3>3. FlowHoldsId'
      BY <2>1, <3>2, CarefulEnd
    <3> QED BY <3>2, <3>3 DEF CarefulParts
  <2>3. CASE existing[f] \notin data
    <3>1. UNCHANGED itemVars
      BY <1>8, <2>3 DEF ExistingRemoved
    <3>2. FlowHoldsId'
      BY <2>1, <3>1, CarefulEnd DEF itemVars
    <3> QED BY <2>1, <3>1, <3>2, FlowsHold
  <2> QED BY <2>2, <2>3
<1>9. ASSUME NEW e \in Entry, Remove(e) PROVE CarefulParts'
  BY <1>9, CarefulRemove
<1>10. ASSUME NEW e \in Entry, NEW u \in UniqueId \union {None}, UpdateUniqueId(e, u)
       PROVE  CarefulParts'
  BY <1>10, CarefulUpdate
<1>11. CASE UNCHANGED vars
  BY <1>11 DEF CarefulParts, vars, itemVars, flowVars, LookupComplete, OneEntryPerUniqueId,
               FlowHoldsId, Holds
<1> QED BY <1>1, <1>2, <1>3, <1>4, <1>5, <1>6, <1>7, <1>8, <1>9, <1>10, <1>11 DEF Next, Step

\* With careful integrations the whole invariant holds (_abort_if_unique_id_
\* configured, async_set_unique_id, async_finish_flow and ConfigEntryItems),
\* although updates take any id and flows are aborted at any moment.
THEOREM CarefulSafety == Spec => [](careful => CarefulInv)
<1>1. Init => TypeOK /\ (careful => CarefulInv)
  BY InitType DEF Init, CarefulInv, LookupSound, LookupComplete, OneEntryPerUniqueId, FlowHoldsId,
                  Holds
<1>2. TypeOK /\ (careful => CarefulInv) /\ [Next]_vars => (TypeOK /\ (careful => CarefulInv))'
  <2>1. [Next]_vars => careful' = careful
    BY DEF Next, vars
  <2> QED BY <2>1, TypeStep, CarefulStep
<1> QED BY <1>1, <1>2, PTL DEF Spec

\* No stored entry whose id is not contested is lost to the lookups, and each
\* of them can be removed.
THEOREM LookupIsComplete == Spec => []CarefulLookupComplete
<1>1. (careful => CarefulInv) => CarefulLookupComplete
  BY DEF CarefulInv, CarefulLookupComplete
<1> QED BY <1>1, CarefulSafety, PTL

\* Two entries share a unique id only if an update took it while it was in
\* use or an aborted flow created its entry: the awaits between the check of
\* an id and the creation of the entry let in nothing else.
THEOREM IdsAreUnique == Spec => []CarefulOneEntryPerUniqueId
<1>1. (careful => CarefulInv) => CarefulOneEntryPerUniqueId
  BY DEF CarefulInv, CarefulOneEntryPerUniqueId
<1> QED BY <1>1, CarefulSafety, PTL
=============================================================================
