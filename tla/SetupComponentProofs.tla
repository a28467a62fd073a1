------------------------- MODULE SetupComponentProofs -------------------------
(***************************************************************************)
(* Proofs about SetupComponent, for any domains, any callers and any       *)
(* plans, cyclic ones and any number of stages included.  A domain has one *)
(* running task at most; what its future, the answers about it and the     *)
(* components say is tied to where that task is.  The second part is about *)
(* whom a set-up waits for: somebody who comes, and never itself in turn.  *)
(***************************************************************************)
EXTENDS SetupComponent, TLAPS

Resolved(d) == future[d] \notin {"none", "pending"}

\* One task runs the set-up of a domain, which is in DATA_SETUP as long, and
\* becomes a component just before its entries are set up.
Runners ==
  /\ \A t, u \in Task :
       pc[t] \in Running /\ pc[u] \in Running /\ DomainOf(t) = DomainOf(u) => t = u
  /\ \A t \in Task :
       /\ pc[t] \in Running => DomainOf(t) \in inSetup
       /\ pc[t] \in Running \ {"entries"} => DomainOf(t) \notin components
       /\ pc[t] = "entries" => DomainOf(t) \in components
       /\ pc[t] \in {"loading", "asking", "gathering", "requirements"} => began[DomainOf(t)] = 0

\* A domain somebody asked for is never asked for afresh.
Touched ==
  /\ \A d \in Domain :
       /\ began[d] > 0 \/ future[d] # "none" => d \in inSetup \union components
       /\ d \in inSetup => future[d] # "none"
       /\ began[d] <= 1
  /\ \A t \in Task : pc[t] = "awaiting" => future[DomainOf(t)] # "none"

\* What futures and answers say is so.
Truth ==
  /\ \A d \in Domain :
       /\ future[d] = "true" => d \in components
       /\ \A s \in Stages : done[d][s] \in {"true", "false"} => Resolved(d)
  /\ \A t \in Task :
       /\ answer[t] = "true" => DomainOf(t) \in components
       /\ answer[t] = "false" => future[DomainOf(t)] = "false"

\* Without a timeout nothing is cancelled, and nothing raises.
Uncancelled ==
  ~mayCancel =>
    /\ thrown = {}
    /\ \A d \in Domain :
         /\ future[d] \notin Broken
         /\ \A s \in Stages : done[d][s] \notin Broken
         /\ tracked[d] # 0 => done[d][tracked[d]] = "pending"
         /\ future[d] = "false" => d \notin components
    /\ \A t \in Task :
         /\ answer[t] \notin Broken
         /\ pc[t] \in Running => future[DomainOf(t)] = "pending"
         /\ pc[t] = "returned" => answer[t] \notin {"none", "pending"}

DepsAwaited ==
  /\ \A t \in Task : \A d \in plan.deps[DomainOf(t)] :
       /\ pc[t] = "gathering" => d \in components \/ Asked(t, d)
       /\ pc[t] = "requirements" => d \in components
  /\ \A d \in Domain : began[d] > 0 => plan.deps[d] \subseteq components

\* The tasks of a stage, and the domains it announced.
StageTasks ==
  /\ \A d \in Domain : pc[<<d, "stage">>] \notin {"idle", "returned"} =>
       stage \in Stages /\ d \in plan.stages[stage].domains
  /\ todo # {} => stage \in Stages /\ todo \subseteq plan.stages[stage].domains
  /\ stage \in Stages => \A d \in plan.stages[stage].announced : tracked[d] = stage \/ Resolved(d)

AfterAwaited ==
  \A d \in Domain : stage \in Stages =>
    \A a \in plan.after[d] \intersect plan.stages[stage].announced :
      LET t == <<d, "stage">> IN
      /\ pc[t] = "gathering" =>
           \/ a \in components \/ Resolved(a) \/ Asked(t, a) \/ <<"done", a, stage>> \in asked[t]
      /\ pc[t] \in {"requirements", "setup", "flows", "entries"} => a \in components \/ Resolved(a)

SetupInv ==
  TypeOK /\ Runners /\ Touched /\ Truth /\ Uncancelled /\ DepsAwaited /\ StageTasks /\ AfterAwaited

-----------------------------------------------------------------------------
(* What plans and tasks are made of *)

LEMMA TaskFacts ==
  /\ \A t \in Task : DomainOf(t) \in Domain
  /\ \A d \in Domain, o \in {"stage", "dependency", "call"} :
       <<d, o>> \in Task /\ DomainOf(<<d, o>>) = d
BY DEF Task, DomainOf

LEMMA PlanFacts ==
  ASSUME TypeOK
  PROVE  /\ Len(plan.stages) \in Nat
         /\ \A d \in Domain : plan.deps[d] \subseteq Domain /\ plan.after[d] \subseteq Domain
         /\ \A s \in Stages : plan.stages[s].announced \subseteq Domain
                              /\ plan.stages[s].domains \subseteq Domain
         /\ \A d \in Domain : tracked[d] # 0 => tracked[d] \in Stages
         /\ stage # 0 => stage \in Stages
<1>1. plan \in Plan
  BY PlanAssumption DEF TypeOK
<1>2. plan.stages \in Seq(Stage) /\ plan.deps \in [Domain -> SUBSET Domain] /\ plan.after \in [Domain -> SUBSET Domain]
  BY <1>1 DEF Plan
<1>3. Len(plan.stages) \in Nat /\ \A s \in Stages : plan.stages[s] \in Stage
  BY <1>2 DEF Stages
<1>4. tracked \in [Domain -> 0..Len(plan.stages)] /\ stage \in 0..Len(plan.stages)
  BY DEF TypeOK
<1> QED BY <1>2, <1>3, <1>4 DEF Stage, Stages

LEMMA InitInv == Init => SetupInv
<1> SUFFICES ASSUME Init PROVE SetupInv
  OBVIOUS
<1> USE DEF Init
<1>1. TypeOK
  <2>1. Len(plan.stages) \in Nat
    BY PlanAssumption DEF Plan
  <2> QED BY <2>1 DEF TypeOK, Future, Await
<1>2. stage \notin Stages
  BY DEF Stages
<1>3. Runners /\ Touched /\ Truth /\ Uncancelled /\ DepsAwaited
  BY <1>1, PlanFacts, TaskFacts
     DEF Runners, Touched, Truth, Uncancelled, DepsAwaited, Running, Await, Broken
<1>4. StageTasks /\ AfterAwaited
  BY <1>2, TaskFacts DEF StageTasks, AfterAwaited
<1> QED BY <1>1, <1>3, <1>4 DEF SetupInv

-----------------------------------------------------------------------------
(* A set-up ends *)

\* What Resolve does, pointwise.
LEMMA ResolveFacts ==
  ASSUME TypeOK, NEW t \in Task, NEW result \in {"true", "false", "raised"}, Resolve(t, result), plan' = plan
  PROVE  LET d == DomainOf(t) IN
         /\ pc' \in [Task -> Await] /\ pc'[t] = "returned" /\ \A u \in Task \ {t} : pc'[u] = pc[u]
         /\ asked' \in [Task -> SUBSET Awaitable] /\ \A u \in Task \ {t} : asked'[u] = asked[u]
         /\ answer' \in [Task -> Future] /\ \A u \in Task \ {t} : answer'[u] = answer[u]
         /\ thrown' = thrown \ {t}
         /\ future' \in [Domain -> Future] /\ \A e \in Domain \ {d} : future'[e] = future[e]
         /\ future'[d] = IF future[d] = "pending" THEN result ELSE future[d]
         /\ tracked' \in [Domain -> 0..Len(plan.stages)]
         /\ tracked'[d] = 0 /\ \A e \in Domain \ {d} : tracked'[e] = tracked[e]
         /\ done' \in [Domain -> [Stages -> Future]] /\ \A e \in Domain \ {d} : done'[e] = done[e]
         /\ \A s \in Stages : \/ done'[d][s] = done[d][s]
                              \/ done'[d][s] = result /\ future[d] = "pending"
         /\ \/ answer'[t] = "raised" /\ (future[d] # "pending" \/ \E s \in Stages : tracked[d] = s /\ done[d][s] # "pending")
            \/ answer'[t] = result /\ future[d] = "pending"
<1> DEFINE d == DomainOf(t)
<1> DEFINE s == tracked[d]
<1> DEFINE lost == future[d] # "pending" \/ (s # 0 /\ done[d][s] # "pending")
<1>0. d \in Domain /\ Len(plan.stages) \in Nat /\ (s # 0 => s \in Stages)
  BY TaskFacts, PlanFacts
<1>1. pc' \in [Task -> Await] /\ pc'[t] = "returned" /\ \A u \in Task \ {t} : pc'[u] = pc[u]
  BY DEF Resolve, Return, Goto, TypeOK, Await
<1>2. asked' \in [Task -> SUBSET Awaitable] /\ \A u \in Task \ {t} : asked'[u] = asked[u]
  BY DEF Resolve, Return, TypeOK
<1>3. /\ answer' = [answer EXCEPT ![t] = IF lost THEN "raised" ELSE result] /\ thrown' = thrown \ {t}
      /\ future' = [future EXCEPT ![d] = IF @ = "pending" THEN result ELSE @]
      /\ tracked' = [tracked EXCEPT ![d] = 0]
      /\ done' = IF lost \/ s = 0 THEN done ELSE [done EXCEPT ![d][s] = result]
  BY DEF Resolve, Return
<1>4. answer' \in [Task -> Future] /\ \A u \in Task \ {t} : answer'[u] = answer[u]
  BY <1>3 DEF TypeOK, Future
<1>5. /\ future' \in [Domain -> Future] /\ \A e \in Domain \ {d} : future'[e] = future[e]
      /\ future'[d] = IF future[d] = "pending" THEN result ELSE future[d]
  BY <1>0, <1>3 DEF TypeOK, Future
<1>6. /\ tracked' \in [Domain -> 0..Len(plan.stages)]
      /\ tracked'[d] = 0 /\ \A e \in Domain \ {d} : tracked'[e] = tracked[e]
  BY <1>0, <1>3 DEF TypeOK
<1>7. /\ done' \in [Domain -> [Stages -> Future]] /\ \A e \in Domain \ {d} : done'[e] = done[e]
      /\ \A x \in Stages : \/ done'[d][x] = done[d][x]
                           \/ done'[d][x] = result /\ future[d] = "pending"
  <2>1. done \in [Domain -> [Stages -> Future]] /\ result \in Future
    BY DEF TypeOK, Future
  <2> QED BY <1>0, <1>3, <2>1
<1>8. \/ answer'[t] = "raised" /\ (future[d] # "pending" \/ \E x \in Stages : tracked[d] = x /\ done[d][x] # "pending")
      \/ answer'[t] = result /\ future[d] = "pending"
  <2>1. answer'[t] = IF lost THEN "raised" ELSE result
    BY <1>3 DEF TypeOK
  <2> QED BY <1>0, <2>1
<1> QED BY <1>1, <1>2, <1>3, <1>4, <1>5, <1>6, <1>7, <1>8

LEMMA KeptByResolve ==
  ASSUME SetupInv, NEW t \in Task, pc[t] \in Running,
         NEW result \in {"true", "false", "raised"}, Resolve(t, result),
         result = "true" => pc[t] = "entries",
         ~mayCancel => result # "raised" /\ (result = "false" => DomainOf(t) \notin components),
         inSetup' = inSetup \/ (pc[t] = "entries" /\ inSetup' = inSetup \ {DomainOf(t)}),
         UNCHANGED <<constVars, bootVars, components, began>>
  PROVE  SetupInv'
<1> DEFINE d == DomainOf(t)
<1> USE DEF SetupInv
<1>0. /\ d \in Domain
      /\ UNCHANGED <<plan, mayCancel, stage, todo, components, began>> /\ Stages' = Stages
  BY TaskFacts DEF constVars, bootVars, Stages
<1>1. /\ pc' \in [Task -> Await] /\ pc'[t] = "returned" /\ \A u \in Task \ {t} : pc'[u] = pc[u]
      /\ asked' \in [Task -> SUBSET Awaitable] /\ \A u \in Task \ {t} : asked'[u] = asked[u]
      /\ answer' \in [Task -> Future] /\ \A u \in Task \ {t} : answer'[u] = answer[u]
      /\ thrown' = thrown \ {t}
  BY <1>0, ResolveFacts
<1>2. /\ future' \in [Domain -> Future] /\ \A e \in Domain \ {d} : future'[e] = future[e]
      /\ future'[d] = IF future[d] = "pending" THEN result ELSE future[d]
      /\ tracked' \in [Domain -> 0..Len(plan.stages)]
      /\ tracked'[d] = 0 /\ \A e \in Domain \ {d} : tracked'[e] = tracked[e]
      /\ done' \in [Domain -> [Stages -> Future]] /\ \A e \in Domain \ {d} : done'[e] = done[e]
      /\ \A s \in Stages : \/ done'[d][s] = done[d][s]
                           \/ done'[d][s] = result /\ future[d] = "pending"
  BY <1>0, ResolveFacts
<1>3. \/ answer'[t] = "raised" /\ (future[d] # "pending" \/ \E s \in Stages : tracked[d] = s /\ done[d][s] # "pending")
      \/ answer'[t] = result /\ future[d] = "pending"
  BY <1>0, ResolveFacts
<1>4. "returned" \notin Running /\ d \in inSetup /\ future[d] # "none" /\ (pc[t] = "entries" => d \in components)
  BY <1>0 DEF Runners, Touched, Running
<1>5. \A e \in Domain : Resolved(e) => Resolved(e)' /\ future'[e] = future[e]
  BY <1>2 DEF Resolved
<1>6. Resolved(d)'
  BY <1>2, <1>4 DEF Resolved
<1>7. TypeOK'
  <2>1. inSetup' \subseteq Domain /\ thrown' \subseteq Task
    BY <1>1 DEF TypeOK
  <2>2. Awaitable' = Awaitable
    BY <1>0 DEF Awaitable
  <2> QED BY <1>0, <1>1, <1>2, <2>1, <2>2 DEF TypeOK
<1>8. Runners'
  BY <1>0, <1>1, <1>4 DEF Runners, Running
<1>9. Touched'
  BY <1>0, <1>1, <1>2, <1>4, TaskFacts DEF Touched
<1>10. Truth'
  <2>1. \A e \in Domain : future'[e] = "true" => e \in components
    BY <1>0, <1>2, <1>4 DEF Truth
  <2>2. \A e \in Domain, s \in Stages : done'[e][s] \in {"true", "false"} => Resolved(e)'
    BY <1>2, <1>5, <1>6 DEF Truth
  <2>3. \A u \in Task : answer'[u] = "true" => DomainOf(u) \in components
    BY <1>1, <1>3, <1>4 DEF Truth
  <2>4. \A u \in Task : answer'[u] = "false" => future'[DomainOf(u)] = "false"
    BY <1>1, <1>2, <1>3, <1>5, TaskFacts DEF Truth, Resolved
  <2> QED BY <1>0, <2>1, <2>2, <2>3, <2>4 DEF Truth
<1>11. Uncancelled'
  <2> SUFFICES ASSUME ~mayCancel PROVE Uncancelled'
    BY <1>0 DEF Uncancelled
  <2>1. future[d] = "pending" /\ result \in {"true", "false"}
    BY <1>0 DEF Uncancelled
  <2>2. answer'[t] = result
    BY <1>0, <1>3, <2>1, PlanFacts DEF Uncancelled, Stages
  <2>3. thrown' = {}
    BY <1>1 DEF Uncancelled
  <2>4. \A e \in Domain : /\ future'[e] \notin Broken
                          /\ \A s \in Stages : done'[e][s] \notin Broken
                          /\ future'[e] = "false" => e \notin components
    BY <1>2, <2>1 DEF Uncancelled, Broken
  <2>5. \A e \in Domain : tracked'[e] # 0 => done'[e][tracked'[e]] = "pending"
    BY <1>2 DEF Uncancelled
  <2>6. ASSUME NEW u \in Task
        PROVE  /\ answer'[u] \notin Broken
               /\ pc'[u] \in Running => future'[DomainOf(u)] = "pending"
               /\ pc'[u] = "returned" => answer'[u] \notin {"none", "pending"}
    <3>1. CASE u = t
      BY <3>1, <1>1, <1>4, <2>1, <2>2 DEF Broken
    <3>2. CASE u # t
      <4>1. pc[u] \in Running => DomainOf(u) # d
        BY <3>2 DEF Runners
      <4> QED BY <3>2, <4>1, <1>1, <1>2, TaskFacts DEF Uncancelled
    <3> QED BY <3>1, <3>2
  <2> QED BY <1>0, <2>3, <2>4, <2>5, <2>6 DEF Uncancelled
<1>12. DepsAwaited'
  BY <1>0, <1>1 DEF DepsAwaited, Asked
<1>13. StageTasks'
  BY <1>0, <1>1, <1>2, <1>5, <1>6, PlanFacts, TaskFacts DEF StageTasks
<1>14. AfterAwaited'
  BY <1>0, <1>1, <1>5, PlanFacts, TaskFacts DEF AfterAwaited, Asked
<1> QED BY <1>7, <1>8, <1>9, <1>10, <1>11, <1>12, <1>13, <1>14

\* Every end of a set-up but EntriesSetUp goes through Ends.
LEMMA KeptByEnds ==
  ASSUME SetupInv, NEW t \in Task, Fails(t) \/ SetupFails(t) \/ Cancelled(t) \/ EntriesSetUp(t)
  PROVE  SetupInv'
<1> USE DEF SetupInv
<1>1. CASE Fails(t) \/ SetupFails(t)
  <2>1. pc[t] \in {"loading", "requirements", "setup"} /\ Ends(t, "false")
    BY <1>1 DEF Fails, SetupFails
  <2>2. pc[t] \in Running \ {"entries"}
    BY <2>1 DEF Running, Await
  <2>3. DomainOf(t) \notin components
    BY <2>2 DEF Runners
  <2> QED BY <2>1, <2>2, <2>3, KeptByResolve DEF Ends
<1>2. CASE Cancelled(t)
  <2>1. /\ t \in thrown /\ pc[t] \in {"loading", "requirements", "flows", "entries"} /\ Ends(t, "raised")
    BY <1>2 DEF Cancelled
  <2>2. pc[t] \in Running /\ mayCancel
    BY <2>1 DEF Running, Await, Uncancelled
  <2> QED BY <2>1, <2>2, KeptByResolve DEF Ends
<1>3. CASE EntriesSetUp(t)
  <2>1. pc[t] \in Running
    BY <1>3 DEF EntriesSetUp, Running, Await
  <2>2. pc[t] = "entries" /\ inSetup' = inSetup \ {DomainOf(t)} /\ Resolve(t, "true")
        /\ UNCHANGED <<constVars, bootVars, components, began>>
    BY <1>3 DEF EntriesSetUp
  <2> QED BY <2>1, <2>2, KeptByResolve
<1> QED BY <1>1, <1>2, <1>3

-----------------------------------------------------------------------------
(* A set-up goes on *)

\* From one await to the next; what the invariant asks of the new place, the
\* action has to show.
LEMMA KeptByGoingOn ==
  ASSUME SetupInv, NEW t \in Task, pc[t] \in Running \ {"entries"},
         NEW p \in Running \ {"loading", "asking"}, pc' = [pc EXCEPT ![t] = p],
         asked' \in [Task -> SUBSET Awaitable], \A u \in Task \ {t} : asked'[u] = asked[u],
         thrown' \subseteq thrown,
         p \in {"gathering", "requirements"} => pc[t] \in {"loading", "asking", "gathering"},
         IF p = "entries" THEN components' = components \union {DomainOf(t)} ELSE components' = components,
         IF p = "setup" THEN /\ pc[t] = "requirements"
                             /\ began' = [began EXCEPT ![DomainOf(t)] = @ + 1]
                        ELSE began' = began,
         \A d \in plan.deps[DomainOf(t)] :
           /\ p = "gathering" => d \in components \/ Asked(t, d)'
           /\ p = "requirements" => d \in components,
         \A d \in Domain : stage \in Stages /\ t = <<d, "stage">> =>
           \A a \in plan.after[d] \intersect plan.stages[stage].announced :
             /\ p = "gathering" =>
                  a \in components \/ Resolved(a) \/ Asked(t, a)' \/ <<"done", a, stage>> \in asked'[t]
             /\ p # "gathering" => a \in components \/ Resolved(a),
         UNCHANGED <<constVars, bootVars, futureVars, answer>>
  PROVE  SetupInv'
<1> DEFINE d == DomainOf(t)
<1> USE DEF SetupInv
<1>0. /\ d \in Domain
      /\ UNCHANGED <<plan, mayCancel, stage, todo, inSetup, future, tracked, done, answer>> /\ Stages' = Stages
  BY TaskFacts DEF constVars, bootVars, futureVars, Stages
<1>1. /\ pc' \in [Task -> Await] /\ pc'[t] = p /\ \A u \in Task \ {t} : pc'[u] = pc[u]
  BY DEF TypeOK, Running
<1>2. \A e \in Domain \ {d} : began'[e] = began[e]
  BY <1>0 DEF TypeOK
<1>3. /\ p = "setup" => began'[d] = began[d] + 1
      /\ p # "setup" => began'[d] = began[d]
      /\ began[d] \in Nat /\ began' \in [Domain -> Nat]
  <2>1. began \in [Domain -> Nat]
    BY DEF TypeOK
  <2>2. CASE p = "setup"
    BY <2>1, <2>2, <1>0
  <2>3. CASE p # "setup"
    BY <2>1, <2>3, <1>0
  <2> QED BY <2>2, <2>3
<1>4. \A u \in Task \ {t} : pc[u] \in Running => DomainOf(u) # d
  BY DEF Runners
<1>5. \A e \in Domain : Resolved(e)' = Resolved(e)
  BY <1>0 DEF Resolved
<1>6. components' \subseteq Domain /\ components \subseteq components' /\ \A e \in Domain \ {d} : e \in components' => e \in components
  BY <1>0 DEF TypeOK
<1>7. TypeOK'
  <2>1. Awaitable' = Awaitable
    BY <1>0 DEF Awaitable
  <2> QED BY <1>0, <1>1, <1>3, <1>6, <2>1 DEF TypeOK
<1>8. p = "setup" => began[d] = 0
  BY DEF Runners
<1>9. Runners'
  <2>1. /\ d \in inSetup /\ (p # "entries" => d \notin components') /\ (p = "entries" => d \in components')
        /\ (p \in {"gathering", "requirements"} => began'[d] = 0)
    BY <1>0, <1>3 DEF Runners
  <2>2. \A u \in Task \ {t} : pc[u] \in Running => DomainOf(u) \in Domain \ {d}
    BY <1>4, TaskFacts
  <2>3. \A u, v \in Task : pc'[u] \in Running /\ pc'[v] \in Running /\ DomainOf(u) = DomainOf(v) => u = v
    BY <1>1, <1>4 DEF Runners
  <2>4. ASSUME NEW u \in Task
        PROVE  /\ pc'[u] \in Running => DomainOf(u) \in inSetup
               /\ pc'[u] \in Running \ {"entries"} => DomainOf(u) \notin components'
               /\ pc'[u] = "entries" => DomainOf(u) \in components'
               /\ pc'[u] \in {"loading", "asking", "gathering", "requirements"} => began'[DomainOf(u)] = 0
    <3>1. CASE u = t
      BY <3>1, <1>1, <2>1 DEF Running
    <3>2. CASE u # t
      <4>1. pc'[u] = pc[u] /\ (pc[u] \in {"loading", "asking", "gathering", "requirements"} => pc[u] \in Running)
        BY <3>2, <1>1 DEF Running, Await
      <4> QED BY <3>2, <4>1, <1>2, <1>6, <2>2 DEF Runners
    <3> QED BY <3>1, <3>2
  <2> QED BY <1>0, <2>3, <2>4 DEF Runners
<1>10. Touched'
  <2>1. d \in inSetup
    BY DEF Runners
  <2>2. p # "awaiting"
    BY DEF Running
  <2> QED BY <1>0, <1>1, <1>2, <1>3, <1>6, <1>8, <2>1, <2>2 DEF Touched
<1>11. Truth'
  BY <1>0, <1>5, <1>6 DEF Truth
<1>12. Uncancelled'
  <2>1. ~mayCancel => future[d] = "pending"
    BY DEF Uncancelled
  <2> QED BY <1>0, <1>1, <1>6, <2>1 DEF Uncancelled, Running
<1>13. DepsAwaited'
  <2>1. ASSUME NEW u \in Task, NEW e \in plan.deps[DomainOf(u)]
        PROVE  /\ pc'[u] = "gathering" => e \in components' \/ Asked(u, e)'
               /\ pc'[u] = "requirements" => e \in components'
    BY <1>1, <1>6 DEF DepsAwaited, Asked
  <2>2. ASSUME NEW e \in Domain, began'[e] > 0 PROVE plan.deps[e] \subseteq components'
    <3>1. CASE began[e] > 0
      BY <3>1, <1>6 DEF DepsAwaited
    <3>2. CASE ~(began[e] > 0)
      <4>1. e = d /\ pc[t] = "requirements"
        BY <3>2, <2>2, <1>2, <1>3
      <4> QED BY <4>1, <1>6 DEF DepsAwaited
    <3> QED BY <3>1, <3>2
  <2> QED BY <1>0, <2>1, <2>2 DEF DepsAwaited
<1>14. StageTasks'
  <2>1. p \notin {"idle", "returned"} /\ pc[t] \notin {"idle", "returned"}
    BY DEF Running
  <2> QED BY <1>0, <1>1, <1>5, <2>1, PlanFacts, TaskFacts DEF StageTasks
<1>15. AfterAwaited'
  <2> SUFFICES ASSUME NEW e \in Domain, stage \in Stages,
                      NEW a \in plan.after[e] \intersect plan.stages[stage].announced
               PROVE  LET u == <<e, "stage">> IN
                      /\ pc'[u] = "gathering" =>
                           a \in components' \/ Resolved(a)' \/ Asked(u, a)' \/ <<"done", a, stage>> \in asked'[u]
                      /\ pc'[u] \in {"requirements", "setup", "flows", "entries"} => a \in components' \/ Resolved(a)'
    BY <1>0 DEF AfterAwaited
  <2>1. a \in Domain /\ <<e, "stage">> \in Task
    BY PlanFacts, TaskFacts
  <2>2. CASE t = <<e, "stage">>
    BY <2>1, <2>2, <1>1, <1>5, <1>6 DEF Running
  <2>3. CASE t # <<e, "stage">>
    BY <2>1, <2>3, <1>1, <1>5, <1>6 DEF AfterAwaited, Asked
  <2> QED BY <2>2, <2>3
<1> QED BY <1>7, <1>9, <1>10, <1>11, <1>12, <1>13, <1>14, <1>15

LEMMA KeptByLoaded ==
  ASSUME SetupInv, NEW t \in Task, Loaded(t)
  PROVE  SetupInv'
<1> USE DEF SetupInv
<1> DEFINE d == DomainOf(t)
<1>0. /\ d \in Domain /\ pc[t] = "loading" /\ pc' = [pc EXCEPT ![t] = "asking"]
      /\ UNCHANGED <<plan, mayCancel, stage, todo, components, inSetup, future, tracked, done, asked,
                     thrown, answer, began>>
      /\ Stages' = Stages
  BY TaskFacts DEF Loaded, Goto, constVars, bootVars, futureVars, Stages
<1>1. /\ pc' \in [Task -> Await] /\ pc'[t] = "asking" /\ \A u \in Task \ {t} : pc'[u] = pc[u]
  BY <1>0 DEF TypeOK, Await
<1>2. pc[t] \in Running /\ "asking" \in Running
  BY <1>0 DEF Running, Await
<1>3. TypeOK'
  <2>1. Awaitable' = Awaitable
    BY <1>0 DEF Awaitable
  <2> QED BY <1>0, <1>1, <2>1 DEF TypeOK
<1>4. Runners' /\ Touched' /\ Truth' /\ Uncancelled'
  BY <1>0, <1>1, <1>2 DEF Runners, Touched, Truth, Uncancelled, Resolved
<1>5. DepsAwaited' /\ StageTasks' /\ AfterAwaited'
  <2>1. DepsAwaited'
    BY <1>0, <1>1 DEF DepsAwaited, Asked
  <2>2. StageTasks'
    BY <1>0, <1>1, TaskFacts DEF StageTasks, Resolved
  <2>3. AfterAwaited'
    BY <1>0, <1>1, TaskFacts DEF AfterAwaited, Resolved, Asked
  <2> QED BY <2>1, <2>2, <2>3
<1> QED BY <1>3, <1>4, <1>5

LEMMA KeptByAskAfter ==
  ASSUME SetupInv, NEW t \in Task, AskAfter(t)
  PROVE  SetupInv'
<1> USE DEF SetupInv
<1> DEFINE d == DomainOf(t)
<1> DEFINE after == {e \in plan.after[d] : ~Asked(t, e) /\ tracked[e] # 0 /\ e \notin components}
<1> DEFINE all == asked[t] \union {<<"done", e, tracked[e]>> : e \in after}
<1> DEFINE p == IF all = {} THEN "requirements" ELSE "gathering"
<1>0. /\ pc[t] = "asking" /\ \A e \in plan.deps[d] : e \in components \/ Asked(t, e)
      /\ asked' = [asked EXCEPT ![t] = all] /\ pc' = [pc EXCEPT ![t] = p]
      /\ UNCHANGED <<constVars, bootVars, components, futureVars, thrown, answer, began>>
  BY DEF AskAfter, Goto
<1>1. all \subseteq Awaitable
  <2>1. asked[t] \subseteq Awaitable
    BY DEF TypeOK
  <2>2. \A e \in after : e \in Domain /\ tracked[e] \in Stages
    BY PlanFacts, TaskFacts
  <2> QED BY <2>1, <2>2 DEF Awaitable
<1>2. asked' \in [Task -> SUBSET Awaitable] /\ asked'[t] = all /\ \A u \in Task \ {t} : asked'[u] = asked[u]
  <2> HIDE DEF all
  <2> QED BY <1>0, <1>1 DEF TypeOK
<1>3. p \in {"gathering", "requirements"} /\ p \in Running \ {"loading", "asking"} /\ pc[t] \in Running \ {"entries"}
  BY <1>0 DEF Running, Await
<1>4. \A e : Asked(t, e) => Asked(t, e)' /\ all # {}
  BY <1>2 DEF Asked
<1>5. \A e \in plan.deps[d] : /\ p = "gathering" => e \in components \/ Asked(t, e)'
                              /\ p = "requirements" => e \in components
  BY <1>0, <1>4
<1>6. ASSUME NEW e \in Domain, stage \in Stages, t = <<e, "stage">>,
             NEW a \in plan.after[e] \intersect plan.stages[stage].announced
      PROVE  /\ p = "gathering" =>
                  a \in components \/ Resolved(a) \/ Asked(t, a)' \/ <<"done", a, stage>> \in asked'[t]
             /\ p # "gathering" => a \in components \/ Resolved(a)
  <2>1. d = e /\ 0 \notin Stages
    <3>1. d = e
      BY <1>6 DEF DomainOf
    <3> QED BY <3>1 DEF Stages
  <2>2. tracked[a] = stage \/ Resolved(a)
    BY <1>6 DEF StageTasks
  <2>3. tracked[a] = stage /\ a \notin components /\ ~Asked(t, a) => <<"done", a, stage>> \in all
    BY <1>6, <2>1
  <2> QED BY <2>2, <2>3, <1>2, <1>4
<1> HIDE DEF p, all, after
<1> QED BY <1>0, <1>2, <1>3, <1>5, <1>6, KeptByGoingOn

\* The gather of a set-up: what it awaited has come true.
LEMMA KeptByGathered ==
  ASSUME SetupInv, NEW t \in Task, Gathered(t)
  PROVE  SetupInv'
<1> USE DEF SetupInv
<1> DEFINE d == DomainOf(t)
<1>0. pc[t] = "gathering" /\ pc[t] \in Running \ {"entries"} /\ d \in Domain
  BY TaskFacts DEF Gathered, Running, Await
<1>1. d \notin components
  BY <1>0 DEF Runners
<1>2. \A e \in Domain : /\ Outcome(<<"future", e>>) = future[e]
                        /\ Outcome(<<"task", e>>) = answer[<<e, "dependency">>]
                        /\ \A s : Outcome(<<"done", e, s>>) = done[e][s]
  BY DEF Outcome
<1>3. CASE Ends(t, "raised") /\ (t \in thrown \/ \E a \in asked[t] : Outcome(a) \in Broken)
  <2>1. asked[t] \subseteq Awaitable
    BY DEF TypeOK
  <2>2. ~mayCancel => \A a \in Awaitable : Outcome(a) \notin Broken
    <3> SUFFICES ASSUME ~mayCancel, NEW a \in Awaitable PROVE Outcome(a) \notin Broken
      OBVIOUS
    <3>1. ASSUME NEW e \in Domain, a = <<"future", e>> PROVE Outcome(a) \notin Broken
      BY <3>1, <1>2 DEF Uncancelled
    <3>2. ASSUME NEW e \in Domain, a = <<"task", e>> PROVE Outcome(a) \notin Broken
      <4>1. <<e, "dependency">> \in Task
        BY TaskFacts
      <4> QED BY <3>2, <4>1, <1>2 DEF Uncancelled
    <3>3. ASSUME NEW e \in Domain, NEW x \in Stages, a = <<"done", e, x>> PROVE Outcome(a) \notin Broken
      <4>1. Outcome(a) = done[e][x]
        BY <3>3, <1>2
      <4>2. done[e][x] \notin Broken
        BY <3>3 DEF Uncancelled
      <4> QED BY <4>1, <4>2
    <3> QED BY <3>1, <3>2, <3>3 DEF Awaitable
  <2>3. mayCancel
    BY <1>3, <2>1, <2>2 DEF Uncancelled
  <2> QED BY <1>0, <1>3, <2>3, KeptByResolve DEF Ends
<1>4. CASE Ends(t, "false")
  BY <1>0, <1>1, <1>4, KeptByResolve DEF Ends
<1>5. CASE /\ \A a \in asked[t] : Outcome(a) \in {"true", "false"}
           /\ \A a \in asked[t] : a[1] # "done" => Outcome(a) = "true"
           /\ Goto(t, "requirements") /\ asked' = [asked EXCEPT ![t] = {}]
           /\ UNCHANGED <<constVars, bootVars, components, futureVars, thrown, answer, began>>
  <2>1. asked' \in [Task -> SUBSET Awaitable] /\ \A u \in Task \ {t} : asked'[u] = asked[u]
    BY <1>5 DEF TypeOK
  <2>2. \A e \in Domain : Asked(t, e) => e \in components
    <3>1. \A e \in Domain : <<"future", e>> \in asked[t] => future[e] = "true"
      BY <1>2, <1>5
    <3>2. \A e \in Domain : <<"task", e>> \in asked[t] => answer[<<e, "dependency">>] = "true"
      BY <1>2, <1>5
    <3>3. \A e \in Domain : answer[<<e, "dependency">>] = "true" => e \in components
      BY TaskFacts DEF Truth
    <3> QED BY <3>1, <3>2, <3>3 DEF Asked, Truth
  <2>3. \A e \in plan.deps[d] : e \in components
    BY <1>0, <2>2, PlanFacts DEF DepsAwaited
  <2>4. ASSUME NEW e \in Domain, stage \in Stages, t = <<e, "stage">>,
               NEW a \in plan.after[e] \intersect plan.stages[stage].announced
        PROVE  a \in components \/ Resolved(a)
    <3>1. a \in Domain
      BY <2>4, PlanFacts
    <3>2. a \in components \/ Resolved(a) \/ Asked(t, a) \/ <<"done", a, stage>> \in asked[t]
      BY <1>0, <2>4 DEF AfterAwaited
    <3>3. <<"done", a, stage>> \in asked[t] => done[a][stage] \in {"true", "false"}
      BY <1>2, <1>5, <3>1
    <3> QED BY <2>2, <2>4, <3>1, <3>2, <3>3 DEF Truth
  <2>5. "requirements" \in Running \ {"loading", "asking"}
    BY DEF Running, Await
  <2> QED BY <1>0, <1>5, <2>1, <2>3, <2>4, <2>5, KeptByGoingOn DEF Goto
<1> QED BY <1>3, <1>4, <1>5 DEF Gathered

LEMMA KeptByOwnSetup ==
  ASSUME SetupInv, NEW t \in Task, BeginSetup(t) \/ SetupTrue(t) \/ FlowsAwaited(t)
  PROVE  SetupInv'
<1> USE DEF SetupInv
<1>1. \A e \in Domain : stage \in Stages /\ t = <<e, "stage">> =>
         \A a \in plan.after[e] \intersect plan.stages[stage].announced : a \in components \/ Resolved(a)
  BY DEF AfterAwaited, BeginSetup, SetupTrue, FlowsAwaited
<1>2. asked' \in [Task -> SUBSET Awaitable] /\ \A u \in Task \ {t} : asked'[u] = asked[u]
  BY DEF BeginSetup, SetupTrue, FlowsAwaited, TypeOK
<1>3. {"requirements", "setup", "flows", "entries"} \subseteq Running \ {"loading", "asking"}
  BY DEF Running, Await
<1>4. CASE BeginSetup(t)
  BY <1>1, <1>2, <1>3, <1>4, KeptByGoingOn DEF BeginSetup, Goto
<1>5. CASE SetupTrue(t)
  BY <1>1, <1>2, <1>3, <1>5, KeptByGoingOn DEF SetupTrue, Goto
<1>6. CASE FlowsAwaited(t)
  BY <1>1, <1>2, <1>3, <1>6, KeptByGoingOn DEF FlowsAwaited, Goto
<1> QED BY <1>4, <1>5, <1>6

-----------------------------------------------------------------------------
(* A set-up is asked for *)

\* A domain that nobody has asked for gets its task.
LEMMA KeptByRunner ==
  ASSUME SetupInv, NEW t \in Task, NEW d \in Domain, d = DomainOf(t), pc[t] = "idle",
         d \notin components, d \notin inSetup,
         t[2] = "stage" => stage \in Stages /\ d \in plan.stages[stage].domains,
         pc' = [pc EXCEPT ![t] = "loading"], inSetup' = inSetup \union {d},
         future' = [future EXCEPT ![d] = "pending"],
         asked' \in [Task -> SUBSET Awaitable],
         \A u \in Task : pc[u] # "asking" => asked'[u] = asked[u],
         todo' \subseteq todo,
         UNCHANGED <<constVars, stage, components, tracked, done, thrown, answer, began>>
  PROVE  SetupInv'
<1> USE DEF SetupInv
<1>0. UNCHANGED <<plan, mayCancel, stage, components, tracked, done, thrown, answer, began>> /\ Stages' = Stages
  BY DEF constVars, Stages
<1>1. /\ pc' \in [Task -> Await] /\ pc'[t] = "loading" /\ \A u \in Task \ {t} : pc'[u] = pc[u]
      /\ future' \in [Domain -> Future] /\ future'[d] = "pending"
      /\ \A e \in Domain \ {d} : future'[e] = future[e]
  BY DEF TypeOK, Await, Future
<1>2. began[d] = 0 /\ future[d] = "none" /\ "loading" \in Running \ {"entries"}
  BY DEF Touched, TypeOK, Running, Await
<1>3. \A u \in Task : pc[u] \in Running => DomainOf(u) # d
  BY DEF Runners
<1>4. \A e \in Domain : Resolved(e)' = Resolved(e)
  BY <1>1, <1>2 DEF Resolved
<1>5. TypeOK'
  <2>1. Awaitable' = Awaitable
    BY <1>0 DEF Awaitable
  <2> QED BY <1>0, <1>1, <2>1 DEF TypeOK
<1>6. Runners'
  <2>1. \A u, v \in Task : pc'[u] \in Running /\ pc'[v] \in Running /\ DomainOf(u) = DomainOf(v) => u = v
    BY <1>1, <1>3 DEF Runners
  <2>2. ASSUME NEW u \in Task
        PROVE  /\ pc'[u] \in Running => DomainOf(u) \in inSetup'
               /\ pc'[u] \in Running \ {"entries"} => DomainOf(u) \notin components
               /\ pc'[u] = "entries" => DomainOf(u) \in components
               /\ pc'[u] \in {"loading", "asking", "gathering", "requirements"} => began[DomainOf(u)] = 0
    BY <1>1, <1>2 DEF Runners
  <2> QED BY <1>0, <2>1, <2>2 DEF Runners
<1>7. Touched'
  BY <1>0, <1>1, <1>2, TaskFacts DEF Touched
<1>8. Truth'
  <2>1. \A u \in Task : answer[u] = "false" => DomainOf(u) # d
    BY <1>2 DEF Truth
  <2> QED BY <1>0, <1>1, <1>4, <2>1, TaskFacts DEF Truth
<1>9. Uncancelled'
  <2> SUFFICES ASSUME ~mayCancel PROVE Uncancelled'
    BY <1>0 DEF Uncancelled
  <2>1. \A e \in Domain : future'[e] \notin Broken /\ (future'[e] = "false" => e \notin components)
    BY <1>1 DEF Uncancelled, Broken
  <2>2. \A u \in Task : /\ pc'[u] \in Running => future'[DomainOf(u)] = "pending"
                        /\ pc'[u] = "returned" => answer[u] \notin {"none", "pending"}
    BY <1>1, <1>3, TaskFacts DEF Uncancelled
  <2> QED BY <1>0, <2>1, <2>2 DEF Uncancelled
<1>10. DepsAwaited'
  BY <1>0, <1>1 DEF DepsAwaited, Asked
<1>11. StageTasks'
  <2>1. \A e \in Domain : t = <<e, "stage">> => e = d /\ t[2] = "stage"
    BY DEF DomainOf
  <2> QED BY <1>0, <1>1, <1>4, <2>1, PlanFacts, TaskFacts DEF StageTasks
<1>12. AfterAwaited'
  <2> SUFFICES ASSUME NEW e \in Domain, stage \in Stages,
                      NEW a \in plan.after[e] \intersect plan.stages[stage].announced
               PROVE  LET u == <<e, "stage">> IN
                      /\ pc'[u] = "gathering" =>
                           a \in components \/ Resolved(a)' \/ Asked(u, a)' \/ <<"done", a, stage>> \in asked'[u]
                      /\ pc'[u] \in {"requirements", "setup", "flows", "entries"} => a \in components \/ Resolved(a)'
    BY <1>0 DEF AfterAwaited
  <2>1. a \in Domain /\ <<e, "stage">> \in Task
    BY PlanFacts, TaskFacts
  <2>2. CASE t = <<e, "stage">>
    BY <2>1, <2>2, <1>1
  <2>3. CASE t # <<e, "stage">>
    BY <2>1, <2>3, <1>1, <1>4 DEF AfterAwaited, Asked
  <2> QED BY <2>2, <2>3
<1> QED BY <1>5, <1>6, <1>7, <1>8, <1>9, <1>10, <1>11, <1>12

\* A task that only awaits, or has its answer.
LEMMA KeptByBystander ==
  ASSUME SetupInv, NEW t \in Task, pc[t] \in {"idle", "awaiting"},
         NEW p \in {"awaiting", "returned"}, pc' = [pc EXCEPT ![t] = p],
         t[2] = "stage" => stage \in Stages /\ DomainOf(t) \in plan.stages[stage].domains,
         asked' \in [Task -> SUBSET Awaitable], \A u \in Task \ {t} : asked'[u] = asked[u],
         thrown' \subseteq thrown,
         p = "awaiting" => answer' = answer /\ DomainOf(t) \in inSetup,
         p = "returned" => \E a \in Future \ {"pending", "none"} :
            /\ answer' = [answer EXCEPT ![t] = a]
            /\ a = "true" => DomainOf(t) \in components
            /\ a = "false" => future[DomainOf(t)] = "false"
            /\ ~mayCancel => a \notin Broken,
         todo' \subseteq todo,
         UNCHANGED <<constVars, stage, components, futureVars, began>>
  PROVE  SetupInv'
<1> USE DEF SetupInv
<1>0. /\ UNCHANGED <<plan, mayCancel, stage, components, inSetup, future, tracked, done, began>>
      /\ Stages' = Stages
  BY DEF constVars, futureVars, Stages
<1>1. /\ pc' \in [Task -> Await] /\ pc'[t] = p /\ \A u \in Task \ {t} : pc'[u] = pc[u]
      /\ answer' \in [Task -> Future] /\ \A u \in Task \ {t} : answer'[u] = answer[u]
  BY DEF TypeOK, Await
<1>2. /\ answer'[t] = "true" => DomainOf(t) \in components
      /\ answer'[t] = "false" => future[DomainOf(t)] = "false"
      /\ ~mayCancel => answer'[t] \notin Broken
      /\ p = "returned" => answer'[t] \notin {"none", "pending"}
  BY DEF TypeOK, Truth, Uncancelled
<1>3. p \notin Running /\ \A e \in Domain : Resolved(e)' = Resolved(e)
  BY <1>0 DEF Running, Resolved
<1>4. TypeOK'
  <2>1. Awaitable' = Awaitable
    BY <1>0 DEF Awaitable
  <2> QED BY <1>0, <1>1, <2>1 DEF TypeOK
<1>5. Runners' /\ Touched' /\ Truth'
  <2>1. Runners'
    BY <1>0, <1>1, <1>3 DEF Runners, Running
  <2>2. Touched'
    BY <1>0, <1>1, TaskFacts DEF Touched
  <2>3. Truth'
    BY <1>0, <1>1, <1>2, <1>3 DEF Truth
  <2> QED BY <2>1, <2>2, <2>3
<1>6. Uncancelled'
  BY <1>0, <1>1, <1>2, <1>3 DEF Uncancelled
<1>7. DepsAwaited'
  BY <1>0, <1>1 DEF DepsAwaited, Asked
<1>8. StageTasks'
  <2>1. \A e \in Domain : t = <<e, "stage">> => e = DomainOf(t) /\ t[2] = "stage"
    BY DEF DomainOf
  <2> QED BY <1>0, <1>1, <1>3, <2>1, PlanFacts, TaskFacts DEF StageTasks
<1>9. AfterAwaited'
  <2> SUFFICES ASSUME NEW e \in Domain, stage \in Stages,
                      NEW a \in plan.after[e] \intersect plan.stages[stage].announced
               PROVE  LET u == <<e, "stage">> IN
                      /\ pc'[u] = "gathering" =>
                           a \in components \/ Resolved(a)' \/ Asked(u, a)' \/ <<"done", a, stage>> \in asked'[u]
                      /\ pc'[u] \in {"requirements", "setup", "flows", "entries"} => a \in components \/ Resolved(a)'
    BY <1>0 DEF AfterAwaited
  <2>1. a \in Domain /\ <<e, "stage">> \in Task
    BY PlanFacts, TaskFacts
  <2>2. CASE t = <<e, "stage">>
    BY <2>1, <2>2, <1>1
  <2>3. CASE t # <<e, "stage">>
    BY <2>1, <2>3, <1>1, <1>3 DEF AfterAwaited, Asked
  <2> QED BY <2>2, <2>3
<1> QED BY <1>4, <1>5, <1>6, <1>7, <1>8, <1>9

LEMMA KeptByStart ==
  ASSUME SetupInv, NEW t \in Task, Start(t),
         t[2] = "stage" => stage \in Stages /\ DomainOf(t) \in plan.stages[stage].domains,
         todo' \subseteq todo,
         UNCHANGED <<constVars, stage, components, began>>
  PROVE  SetupInv'
<1> USE DEF SetupInv
<1> DEFINE d == DomainOf(t)
<1>0. d \in Domain /\ pc[t] = "idle"
  BY TaskFacts DEF Start
<1>1. asked \in [Task -> SUBSET Awaitable]
  BY DEF TypeOK
<1>2. CASE d \in components
  <2>1. /\ pc' = [pc EXCEPT ![t] = "returned"] /\ answer' = [answer EXCEPT ![t] = "true"]
        /\ thrown' = thrown \ {t} /\ asked' = [asked EXCEPT ![t] = {}] /\ UNCHANGED futureVars
    BY <1>2 DEF Start, Return, Goto
  <2>2. "true" \in Future \ ({"pending", "none"} \union Broken)
    BY DEF Future, Broken
  <2>3. asked' \in [Task -> SUBSET Awaitable] /\ \A u \in Task \ {t} : asked'[u] = asked[u]
    BY <1>1, <2>1
  <2> QED BY <1>0, <1>2, <2>1, <2>2, <2>3, KeptByBystander
<1>3. CASE d \notin components /\ d \in inSetup
  <2>1. pc' = [pc EXCEPT ![t] = "awaiting"] /\ UNCHANGED <<asked, thrown, answer, futureVars>>
    BY <1>3 DEF Start, Goto, futureVars
  <2> QED BY <1>0, <1>1, <1>3, <2>1, KeptByBystander
<1>4. CASE d \notin components /\ d \notin inSetup
  <2>1. /\ pc' = [pc EXCEPT ![t] = "loading"] /\ inSetup' = inSetup \union {d}
        /\ future' = [future EXCEPT ![d] = "pending"] /\ UNCHANGED <<asked, thrown, answer, tracked, done>>
    BY <1>4 DEF Start, Goto
  <2> QED BY <1>0, <1>1, <1>4, <2>1, KeptByRunner
<1> QED BY <1>2, <1>3, <1>4

LEMMA KeptByAsking ==
  ASSUME SetupInv,
         \/ \E d \in Domain : StartInStage(d) \/ Call(d)
         \/ \E t \in Task : Awaited(t) \/ \E d \in Domain : AskDependency(t, d)
  PROVE  SetupInv'
<1> USE DEF SetupInv
<1>1. ASSUME NEW d \in Domain, StartInStage(d) PROVE SetupInv'
  <2>1. /\ d \in todo /\ todo' \subseteq todo /\ Start(<<d, "stage">>)
        /\ UNCHANGED <<constVars, stage, components, began>>
    BY <1>1 DEF StartInStage
  <2>2. stage \in Stages /\ d \in plan.stages[stage].domains
    BY <2>1 DEF StageTasks
  <2> QED BY <2>1, <2>2, TaskFacts, KeptByStart
<1>2. ASSUME NEW d \in Domain, Call(d) PROVE SetupInv'
  <2>1. /\ todo' \subseteq todo /\ Start(<<d, "call">>)
        /\ UNCHANGED <<constVars, stage, components, began>>
    BY <1>2 DEF Call, bootVars
  <2> QED BY <2>1, TaskFacts, KeptByStart
<1>3. ASSUME NEW t \in Task, Awaited(t) PROVE SetupInv'
  <2> DEFINE d == DomainOf(t)
  <2> DEFINE a == IF t \in thrown \/ future[d] \in Broken THEN "raised" ELSE future[d]
  <2>0. /\ d \in Domain /\ pc[t] = "awaiting" /\ (future[d] # "pending" \/ t \in thrown)
        /\ pc' = [pc EXCEPT ![t] = "returned"] /\ answer' = [answer EXCEPT ![t] = a]
        /\ thrown' = thrown \ {t} /\ asked' = [asked EXCEPT ![t] = {}]
        /\ UNCHANGED <<constVars, stage, todo, components, futureVars, began>>
    BY <1>3, TaskFacts DEF Awaited, Return, Goto, bootVars
  <2>1. asked' \in [Task -> SUBSET Awaitable] /\ \A u \in Task \ {t} : asked'[u] = asked[u]
    BY <2>0 DEF TypeOK
  <2>2. t[2] = "stage" => stage \in Stages /\ d \in plan.stages[stage].domains
    <3>1. t[2] = "stage" => t = <<d, "stage">>
      BY DEF Task, DomainOf
    <3> QED BY <2>0, <3>1 DEF StageTasks
  <2>3. /\ a \in Future \ {"pending", "none"}
        /\ a = "true" => d \in components
        /\ a = "false" => future[d] = "false"
        /\ ~mayCancel => a \notin Broken
    <3>1. future[d] # "none"
      BY <2>0 DEF Touched
    <3> QED BY <2>0, <3>1 DEF TypeOK, Future, Truth, Uncancelled, Broken
  <2> HIDE DEF a
  <2> QED BY <2>0, <2>1, <2>2, <2>3, KeptByBystander
<1>4. ASSUME NEW t \in Task, NEW d \in Domain, AskDependency(t, d) PROVE SetupInv'
  <2> DEFINE u == <<d, "dependency">>
  <2>0. /\ pc[t] = "asking" /\ d \notin components /\ u \in Task /\ DomainOf(u) = d
        /\ UNCHANGED <<constVars, stage, todo, components, thrown, answer, began>>
    BY <1>4, TaskFacts DEF AskDependency, bootVars
  <2>1. CASE d \in inSetup
    <3>1. asked' = [asked EXCEPT ![t] = @ \union {<<"future", d>>}] /\ UNCHANGED <<futureVars, pc>>
      BY <1>4, <2>1 DEF AskDependency
    <3>2. asked' \in [Task -> SUBSET Awaitable] /\ \A x \in Task : pc[x] # "asking" => asked'[x] = asked[x]
      BY <2>0, <3>1 DEF TypeOK, Awaitable
    <3>3. /\ UNCHANGED <<plan, mayCancel, stage, todo, components, inSetup, future, tracked, done, pc, thrown,
                         answer, began>>
          /\ Stages' = Stages
      BY <2>0, <3>1 DEF constVars, futureVars, Stages
    <3>4. TypeOK'
      <4>1. Awaitable' = Awaitable
        BY <3>3 DEF Awaitable
      <4> QED BY <3>2, <3>3, <4>1 DEF TypeOK
    <3>5. Runners' /\ Touched' /\ Truth' /\ Uncancelled' /\ StageTasks'
      BY <3>3 DEF Runners, Touched, Truth, Uncancelled, StageTasks, Resolved
    <3>6. DepsAwaited'
      BY <3>2, <3>3 DEF DepsAwaited, Asked
    <3>7. AfterAwaited'
      BY <3>2, <3>3, TaskFacts DEF AfterAwaited, Asked, Resolved
    <3> QED BY <3>4, <3>5, <3>6, <3>7
  <2>2. CASE d \notin inSetup
    <3>1. /\ asked' = [asked EXCEPT ![t] = @ \union {<<"task", d>>}]
          /\ pc[u] = "idle" /\ pc' = [pc EXCEPT ![u] = "loading"] /\ inSetup' = inSetup \union {d}
          /\ future' = [future EXCEPT ![d] = "pending"] /\ UNCHANGED <<tracked, done>>
      BY <1>4, <2>2 DEF AskDependency, Goto
    <3>2. asked' \in [Task -> SUBSET Awaitable] /\ \A x \in Task : pc[x] # "asking" => asked'[x] = asked[x]
      BY <2>0, <3>1 DEF TypeOK, Awaitable
    <3> QED BY <2>0, <2>2, <3>1, <3>2, KeptByRunner
  <2> QED BY <2>1, <2>2
<1> QED BY <1>1, <1>2, <1>3, <1>4

-----------------------------------------------------------------------------
(* The stages *)

LEMMA KeptByBeginStage ==
  ASSUME SetupInv, BeginStage
  PROVE  SetupInv'
<1> USE DEF SetupInv
<1> DEFINE new == plan.stages[stage + 1]
<1>0. /\ StageOver /\ stage < Len(plan.stages) /\ stage' = stage + 1 /\ todo' = new.domains \ components
      /\ tracked' = [d \in Domain |-> IF d \in new.announced THEN stage + 1 ELSE tracked[d]]
      /\ done' = [d \in Domain |-> IF d \in new.announced
                                   THEN [done[d] EXCEPT ![stage + 1] = "pending"] ELSE done[d]]
      /\ UNCHANGED <<plan, mayCancel, components, inSetup, future, pc, asked, thrown, answer, began>>
      /\ Stages' = Stages
  BY DEF BeginStage, constVars, taskVars, Stages
<1>1. /\ Len(plan.stages) \in Nat /\ stage \in 0..Len(plan.stages) /\ stage' \in Stages /\ 0 \notin Stages
      /\ new.announced \subseteq Domain /\ new.domains \subseteq Domain
  <2>1. stage \in 0..Len(plan.stages) /\ Len(plan.stages) \in Nat
    BY PlanFacts DEF TypeOK
  <2>2. stage + 1 \in Stages /\ 0 \notin Stages
    BY <1>0, <2>1 DEF Stages
  <2> QED BY <1>0, <2>1, <2>2, PlanFacts
<1>2. /\ tracked' \in [Domain -> 0..Len(plan.stages)]
      /\ \A d \in Domain : tracked'[d] = IF d \in new.announced THEN stage' ELSE tracked[d]
  BY <1>0, <1>1 DEF TypeOK, Stages
<1>3. /\ done' \in [Domain -> [Stages -> Future]]
      /\ \A d \in Domain, s \in Stages :
           done'[d][s] = IF d \in new.announced /\ s = stage' THEN "pending" ELSE done[d][s]
  <2>1. done \in [Domain -> [Stages -> Future]] /\ "pending" \in Future
    BY DEF TypeOK, Future
  <2> QED BY <1>0, <1>1, <2>1
<1>4. \A d \in Domain : pc[<<d, "stage">>] \in {"idle", "returned"}
  <2> SUFFICES ASSUME NEW d \in Domain, pc[<<d, "stage">>] \notin {"idle", "returned"} PROVE FALSE
    OBVIOUS
  <2>1. stage \in Stages /\ d \in plan.stages[stage].domains
    BY DEF StageTasks
  <2>2. <<d, "stage">> \in Task /\ InStage(<<d, "stage">>)
    <3>1. stage > 0
      BY <2>1, <1>1 DEF Stages
    <3>2. <<d, "stage">>[2] = "stage"
      OBVIOUS
    <3> QED BY <2>1, <3>1, <3>2, TaskFacts DEF InStage
  <2> QED BY <1>0, <2>2 DEF StageOver
<1>5. TypeOK'
  <2>1. Awaitable' = Awaitable
    BY <1>0 DEF Awaitable
  <2>2. stage' \in 0..Len(plan.stages) /\ todo' \subseteq Domain
    BY <1>0, <1>1
  <2> QED BY <1>0, <1>2, <1>3, <2>1, <2>2 DEF TypeOK
<1>6. Runners' /\ Touched' /\ DepsAwaited'
  BY <1>0 DEF Runners, Touched, DepsAwaited, Asked
<1>7. Truth'
  BY <1>0, <1>3 DEF Truth, Resolved
<1>8. Uncancelled'
  <2> SUFFICES ASSUME ~mayCancel PROVE Uncancelled'
    BY <1>0 DEF Uncancelled
  <2>1. \A d \in Domain : \A s \in Stages : done'[d][s] \notin Broken
    BY <1>3 DEF Uncancelled, Broken
  <2>2. \A d \in Domain : tracked'[d] # 0 => done'[d][tracked'[d]] = "pending"
    <3> SUFFICES ASSUME NEW d \in Domain, tracked'[d] # 0 PROVE done'[d][tracked'[d]] = "pending"
      OBVIOUS
    <3>1. CASE d \in new.announced
      BY <3>1, <1>1, <1>2, <1>3
    <3>2. CASE d \notin new.announced
      BY <3>2, <1>2, <1>3, PlanFacts DEF Uncancelled
    <3> QED BY <3>1, <3>2
  <2> QED BY <1>0, <2>1, <2>2 DEF Uncancelled
<1>9. StageTasks'
  BY <1>0, <1>1, <1>2, <1>4 DEF StageTasks, Resolved
<1>10. AfterAwaited'
  BY <1>0, <1>4 DEF AfterAwaited, Asked, Resolved
<1> QED BY <1>5, <1>6, <1>7, <1>8, <1>9, <1>10

LEMMA KeptByTimeout ==
  ASSUME SetupInv, StageTimesOut
  PROVE  SetupInv'
<1> USE DEF SetupInv
<1>0. /\ mayCancel /\ thrown' \subseteq Task
      /\ UNCHANGED <<plan, mayCancel, stage, todo, components, inSetup, tracked, pc, asked, answer, began>>
      /\ Stages' = Stages
  BY DEF StageTimesOut, constVars, bootVars, TypeOK, Stages
<1>1. /\ future' \in [Domain -> Future]
      /\ \A d \in Domain : future'[d] = future[d] \/ (future[d] = "pending" /\ future'[d] = "cancelled")
  <2>1. \A d \in Domain : future[d] \in Future /\ "cancelled" \in Future
    BY DEF TypeOK, Future
  <2> QED BY <2>1 DEF StageTimesOut
<1>2. /\ done' \in [Domain -> [Stages -> Future]]
      /\ \A d \in Domain, s \in Stages : done'[d][s] = done[d][s] \/ done'[d][s] = "cancelled"
  <2>1. \A d \in Domain, s \in Stages : done[d][s] \in Future /\ "cancelled" \in Future
    BY DEF TypeOK, Future
  <2> QED BY <2>1 DEF StageTimesOut
<1>3. \A d \in Domain : Resolved(d) => Resolved(d)' /\ future'[d] = future[d]
  BY <1>1 DEF Resolved
<1>4. TypeOK'
  <2>1. Awaitable' = Awaitable
    BY <1>0 DEF Awaitable
  <2> QED BY <1>0, <1>1, <1>2, <2>1 DEF TypeOK
<1>5. Runners' /\ DepsAwaited'
  BY <1>0 DEF Runners, DepsAwaited, Asked
<1>6. Touched'
  BY <1>0, <1>1, TaskFacts DEF Touched
<1>7. Truth'
  BY <1>0, <1>1, <1>2, <1>3, TaskFacts DEF Truth, Resolved
<1>8. Uncancelled'
  BY <1>0 DEF Uncancelled
<1>9. StageTasks'
  BY <1>0, <1>3, PlanFacts DEF StageTasks
<1>10. AfterAwaited'
  BY <1>0, <1>3, PlanFacts DEF AfterAwaited, Asked
<1> QED BY <1>4, <1>5, <1>6, <1>7, <1>8, <1>9, <1>10

-----------------------------------------------------------------------------
(* The theorems *)

\* SetupInv is an invariant: tasks, futures, answers and components fit together.
THEOREM SetupSafety == Spec => []SetupInv
<1>1. SetupInv /\ [Next]_vars => SetupInv'
  <2> SUFFICES ASSUME SetupInv, [Next]_vars PROVE SetupInv'
    OBVIOUS
  <2>1. ASSUME NEW t \in Task, Slice(t) PROVE SetupInv'
    <3>1. CASE Awaited(t) \/ \E d \in Domain : AskDependency(t, d)
      BY <3>1, KeptByAsking
    <3>2. CASE Fails(t) \/ SetupFails(t) \/ Cancelled(t) \/ EntriesSetUp(t)
      BY <3>2, KeptByEnds
    <3>3. CASE Loaded(t)
      BY <3>3, KeptByLoaded
    <3>4. CASE AskAfter(t)
      BY <3>4, KeptByAskAfter
    <3>5. CASE Gathered(t)
      BY <3>5, KeptByGathered
    <3>6. CASE BeginSetup(t) \/ SetupTrue(t) \/ FlowsAwaited(t)
      BY <3>6, KeptByOwnSetup
    <3> QED BY <2>1, <3>1, <3>2, <3>3, <3>4, <3>5, <3>6 DEF Slice
  <2>2. ASSUME NEW d \in Domain, StartInStage(d) \/ Call(d) PROVE SetupInv'
    BY <2>2, KeptByAsking
  <2>3. CASE BeginStage
    BY <2>3, KeptByBeginStage
  <2>4. CASE StageTimesOut
    BY <2>4, KeptByTimeout
  <2>5. CASE UNCHANGED vars
    <3>1. /\ UNCHANGED <<plan, mayCancel, stage, todo, components, inSetup, future, tracked, done, pc, asked, thrown,
                         answer, began>>
          /\ Stages' = Stages
      BY <2>5 DEF vars, constVars, bootVars, futureVars, taskVars, Stages
    <3>2. TypeOK'
      <4>1. Awaitable' = Awaitable
        BY <3>1 DEF Awaitable
      <4> QED BY <3>1, <4>1 DEF SetupInv, TypeOK
    <3>3. Runners' /\ Touched' /\ Truth' /\ Uncancelled'
      BY <3>1 DEF SetupInv, Runners, Touched, Truth, Uncancelled, Resolved
    <3>4. DepsAwaited' /\ StageTasks' /\ AfterAwaited'
      BY <3>1 DEF SetupInv, DepsAwaited, StageTasks, AfterAwaited, Asked, Resolved
    <3> QED BY <3>2, <3>3, <3>4 DEF SetupInv
  <2> QED BY <2>1, <2>2, <2>3, <2>4, <2>5 DEF Next, Boot
<1> QED BY InitInv, <1>1, PTL DEF Spec

\* The own set-up of a component begins at most once.
THEOREM SetUpAtMostOnce == Spec => []SetUpOnce
<1>1. SetupInv => SetUpOnce
  BY DEF SetupInv, Touched, SetUpOnce
<1> QED BY SetupSafety, <1>1, PTL

\* Dependencies come first, and the after_dependencies a stage announced.
THEOREM DependenciesComeFirst == Spec => []DependenciesFirst
<1>1. SetupInv => DependenciesFirst
  <2> SUFFICES ASSUME SetupInv PROVE DependenciesFirst
    OBVIOUS
  <2>1. \A d \in Domain : began[d] > 0 => plan.deps[d] \subseteq components
    BY DEF SetupInv, DepsAwaited
  <2>2. ASSUME NEW d \in Domain, NEW s \in Stages, stage = s, d \in plan.stages[s].domains,
               pc[<<d, "stage">>] \in {"setup", "flows", "entries"},
               NEW a \in plan.after[d] \intersect plan.stages[s].announced
        PROVE  a \in components \/ future[a] \notin {"none", "pending"}
    BY <2>2 DEF SetupInv, AfterAwaited, Resolved
  <2> QED BY <2>1, <2>2 DEF DependenciesFirst
<1> QED BY SetupSafety, <1>1, PTL

\* Whoever asks for a domain is told the same.
THEOREM AnswersDoAgree == Spec => []AnswersAgree
<1>1. SetupInv => AnswersAgree
  <2> SUFFICES ASSUME SetupInv, NEW t \in Task, pc[t] = "returned"
               PROVE  /\ answer[t] = "true" => DomainOf(t) \in components
                      /\ ~mayCancel /\ answer[t] # "true" => DomainOf(t) \notin components
    BY DEF AnswersAgree
  <2>1. answer[t] = "true" => DomainOf(t) \in components
    BY DEF SetupInv, Truth
  <2>2. ASSUME ~mayCancel, answer[t] # "true" PROVE DomainOf(t) \notin components
    <3>1. answer[t] = "false"
      BY <2>2 DEF SetupInv, TypeOK, Future, Uncancelled, Broken
    <3>2. future[DomainOf(t)] = "false"
      BY <3>1 DEF SetupInv, Truth
    <3> QED BY <2>2, <3>2, TaskFacts DEF SetupInv, Uncancelled
  <2> QED BY <2>1, <2>2
<1> QED BY SetupSafety, <1>1, PTL

-----------------------------------------------------------------------------
(* Whom a set-up waits for *)

\* What makes it right that a task of d gathers a.
Settled(d) == future[d] = "none" \/ HasRunner(d) \/ (Resolved(d) /\ d \notin components)
AskOk(d, a) ==
  /\ \A e \in Domain : a = <<"future", e>> => e \in plan.deps[d] /\ future[e] # "none"
  /\ \A e \in Domain : a = <<"task", e>> =>
       e \in plan.deps[d] /\ pc[<<e, "dependency">>] \in Running \union {"returned"}
  /\ \A e \in Domain, s \in Stages : a = <<"done", e, s>> =>
       s <= stage /\ (done[e][s] = "pending" /\ tracked[e] = s => Settled(e))

\* A pending future has its runner, a task that is over its answer, and a domain
\* that the resolution of dependencies finds circular asks for nothing.
WaitInv ==
  /\ \A d \in Domain : (future[d] = "pending" => HasRunner(d)) /\ tracked[d] <= stage
  /\ \A t \in Task :
       /\ pc[t] = "returned" => answer[t] # "pending"
       /\ pc[t] \in {"asking", "gathering"} => ~Circular(DomainOf(t))
       /\ \A a \in asked[t] : AskOk(DomainOf(t), a)

\* Neither part of a plan changes in a step.
LEMMA SamePlan ==
  ASSUME plan' = plan
  PROVE  Stages' = Stages /\ \A d \in Domain : Circular(d)' = Circular(d)
BY DEF Stages, Circular, Below

\* What a step has to keep for WaitInv: a runner stays until it has resolved its
\* futures, futures are not forgotten, and what is asked anew is right.
LEMMA WaitsKept ==
  ASSUME SetupInv, WaitInv, plan' = plan, stage' \in {stage, stage + 1},
         \A d \in Domain : HasRunner(d) => HasRunner(d)' \/ (Resolved(d)' /\ tracked'[d] = 0),
         \A d \in Domain : \/ future'[d] = future[d]
                           \/ future'[d] = "pending" /\ HasRunner(d)'
                           \/ future[d] = "pending" /\ Resolved(d)',
         \A d \in Domain : tracked'[d] \in {tracked[d], 0} \/ (stage' = stage + 1 /\ tracked'[d] = stage'),
         \A d \in Domain, s \in Stages :
           done'[d][s] = "pending" => done[d][s] = "pending" \/ (stage' = stage + 1 /\ s = stage'),
         \A d \in Domain : d \in components' => d \in components \/ HasRunner(d)',
         \A t \in Task :
           /\ pc[t] \in Running \union {"returned"} => pc'[t] \in Running \union {"returned"}
           /\ pc'[t] = "returned" => answer'[t] # "pending"
           /\ pc'[t] \in {"asking", "gathering"} =>
                pc[t] \in {"asking", "gathering"} \/ ~Circular(DomainOf(t))
           /\ \A a \in asked'[t] : a \in asked[t] \/ AskOk(DomainOf(t), a)'
  PROVE  WaitInv'
<1>0. /\ stage \in Nat /\ stage' \in Nat /\ stage <= stage' /\ Stages' = Stages
      /\ \A d \in Domain : tracked[d] \in Nat /\ Circular(d)' = Circular(d)
      /\ \A s \in Stages : s \in Nat /\ s > 0
  BY SamePlan, PlanFacts DEF SetupInv, TypeOK, Stages
<1>1. \A d \in Domain : (future'[d] = "pending" => HasRunner(d)') /\ tracked'[d] <= stage'
  <2> TAKE d \in Domain
  <2>1. future'[d] = "pending" => HasRunner(d)'
    BY DEF WaitInv, Resolved
  <2>2. tracked'[d] <= stage'
    BY <1>0 DEF WaitInv
  <2> QED BY <2>1, <2>2
<1>2. ASSUME NEW d \in Domain, NEW a, AskOk(d, a) PROVE AskOk(d, a)'
  <2>1. \A e \in Domain : future[e] # "none" => future'[e] # "none"
    BY DEF Resolved
  <2>2. \A e \in Domain : <<e, "dependency">> \in Task
    BY TaskFacts
  <2>3. ASSUME NEW e \in Domain, NEW s \in Stages, s <= stage, done'[e][s] = "pending", tracked'[e] = s,
               done[e][s] = "pending" /\ tracked[e] = s => Settled(e)
        PROVE  Settled(e)'
    <3>1. done[e][s] = "pending" /\ tracked[e] = s /\ tracked'[e] # 0
      BY <1>0, <2>3
    <3>2. CASE future[e] = "none"
      BY <3>2 DEF Settled
    <3>3. CASE HasRunner(e)
      BY <3>1, <3>3 DEF Settled
    <3>4. CASE Resolved(e) /\ e \notin components
      BY <3>4 DEF Settled, Resolved
    <3> QED BY <2>3, <3>1, <3>2, <3>3, <3>4 DEF Settled
  <2>4. ASSUME NEW e \in Domain, NEW s \in Stages, a = <<"done", e, s>>
        PROVE  s <= stage' /\ (done'[e][s] = "pending" /\ tracked'[e] = s => Settled(e)')
    <3>1. s <= stage /\ (done[e][s] = "pending" /\ tracked[e] = s => Settled(e))
      BY <1>2, <2>4 DEF AskOk
    <3> QED BY <1>0, <2>3, <3>1
  <2>5. \A e \in Domain : a = <<"future", e>> => e \in plan'.deps[d] /\ future'[e] # "none"
    BY <1>2, <2>1 DEF AskOk
  <2>6. \A e \in Domain : a = <<"task", e>> =>
          e \in plan'.deps[d] /\ pc'[<<e, "dependency">>] \in Running \union {"returned"}
    BY <1>2, <2>2 DEF AskOk
  <2> QED BY <1>0, <2>4, <2>5, <2>6 DEF AskOk
<1>3. ASSUME NEW t \in Task
      PROVE  /\ pc'[t] = "returned" => answer'[t] # "pending"
             /\ pc'[t] \in {"asking", "gathering"} => ~Circular(DomainOf(t))'
             /\ \A a \in asked'[t] : AskOk(DomainOf(t), a)'
  <2>1. DomainOf(t) \in Domain
    BY TaskFacts
  <2>2. \A a \in asked'[t] : AskOk(DomainOf(t), a)'
    BY <1>2, <2>1 DEF WaitInv
  <2> QED BY <1>0, <2>1, <2>2 DEF WaitInv
<1> QED BY <1>1, <1>3 DEF WaitInv

\* A runner is over.
LEMMA WaitsByResolve ==
  ASSUME SetupInv, WaitInv, NEW t \in Task, pc[t] \in Running,
         NEW result \in {"true", "false", "raised"}, Resolve(t, result),
         UNCHANGED <<plan, stage, components>>
  PROVE  WaitInv'
<1> DEFINE d == DomainOf(t)
<1>1. /\ d \in Domain /\ pc'[t] = "returned" /\ \A u \in Task \ {t} : pc'[u] = pc[u]
      /\ asked'[t] = {} /\ \A u \in Task \ {t} : asked'[u] = asked[u] /\ answer'[u] = answer[u]
      /\ answer'[t] # "pending"
  <2>1. /\ d \in Domain /\ pc'[t] = "returned" /\ \A u \in Task \ {t} : pc'[u] = pc[u]
        /\ \A u \in Task \ {t} : asked'[u] = asked[u] /\ answer'[u] = answer[u]
        /\ answer'[t] \in {"raised", result}
    BY ResolveFacts, TaskFacts DEF SetupInv
  <2>2. asked' = [asked EXCEPT ![t] = {}]
    BY DEF Resolve, Return
  <2>3. asked'[t] = {}
    BY <2>2 DEF SetupInv, TypeOK
  <2> QED BY <2>1, <2>3
<1>2. /\ \A e \in Domain \ {d} : future'[e] = future[e] /\ tracked'[e] = tracked[e] /\ done'[e] = done[e]
      /\ future'[d] = IF future[d] = "pending" THEN result ELSE future[d]
      /\ tracked'[d] = 0
      /\ \A s \in Stages : done'[d][s] = "pending" => done[d][s] = "pending"
  BY ResolveFacts DEF SetupInv
<1>3. future[d] # "none" /\ Resolved(d)'
  <2>1. d \in inSetup
    BY DEF SetupInv, Runners
  <2> QED BY <1>1, <1>2, <2>1 DEF SetupInv, Touched, Resolved
<1>4. \A e \in Domain : HasRunner(e) => HasRunner(e)' \/ e = d
  BY <1>1 DEF HasRunner
<1>5. "returned" \notin {"asking", "gathering"}
  OBVIOUS
<1>6. \A u \in Task : u # t => pc'[u] = pc[u] /\ asked'[u] = asked[u] /\ answer'[u] = answer[u]
  BY <1>1
<1>7. \A e \in Domain : \/ future'[e] = future[e]
                        \/ future[e] = "pending" /\ Resolved(e)'
  BY <1>2, <1>3
<1>8. \A u \in Task : /\ pc[u] \in Running \union {"returned"} => pc'[u] \in Running \union {"returned"}
                      /\ pc'[u] = "returned" => answer'[u] # "pending"
                      /\ pc'[u] \in {"asking", "gathering"} => pc[u] \in {"asking", "gathering"}
                      /\ \A a \in asked'[u] : a \in asked[u]
  BY <1>1, <1>6 DEF WaitInv
<1>9. \A e \in Domain : HasRunner(e) => HasRunner(e)' \/ (Resolved(e)' /\ tracked'[e] = 0)
  BY <1>2, <1>3, <1>4
<1>10. \A e \in Domain : /\ tracked'[e] \in {tracked[e], 0}
                         /\ \A s \in Stages : done'[e][s] = "pending" => done[e][s] = "pending"
  BY <1>2
<1> QED BY <1>7, <1>8, <1>9, <1>10, WaitsKept

\* A runner goes on, and may ask for what it gathers next.
LEMMA WaitsByGoingOn ==
  ASSUME SetupInv, WaitInv, NEW t \in Task, pc[t] \in Running,
         NEW p \in Running, pc' = [pc EXCEPT ![t] = p],
         p \in {"asking", "gathering"} => pc[t] = "asking" \/ ~Circular(DomainOf(t)),
         \A u \in Task \ {t} : asked'[u] = asked[u],
         \A a \in asked'[t] : a \in asked[t] \/ AskOk(DomainOf(t), a)',
         components' \subseteq components \union {DomainOf(t)},
         UNCHANGED <<plan, stage, futureVars, answer>>
  PROVE  WaitInv'
<1>1. pc'[t] = p /\ \A u \in Task \ {t} : pc'[u] = pc[u]
  BY DEF SetupInv, TypeOK
<1>2. \A e \in Domain : HasRunner(e) => HasRunner(e)'
  BY <1>1 DEF HasRunner
<1>3. HasRunner(DomainOf(t))'
  BY <1>1 DEF HasRunner
<1>4. "returned" \notin Running
  BY DEF Running
<1>5. \A u \in Task : /\ pc[u] \in Running \union {"returned"} => pc'[u] \in Running \union {"returned"}
                      /\ pc'[u] = "returned" => answer'[u] # "pending"
                      /\ pc'[u] \in {"asking", "gathering"} =>
                           pc[u] \in {"asking", "gathering"} \/ ~Circular(DomainOf(u))
                      /\ \A a \in asked'[u] : a \in asked[u] \/ AskOk(DomainOf(u), a)'
  BY <1>1, <1>4 DEF WaitInv
<1> QED BY <1>2, <1>3, <1>5, WaitsKept DEF futureVars

\* A domain gets its runner.
LEMMA WaitsByRunner ==
  ASSUME SetupInv, WaitInv, NEW t \in Task, NEW d \in Domain, d = DomainOf(t), pc[t] = "idle",
         d \notin components, d \notin inSetup,
         pc' = [pc EXCEPT ![t] = "loading"], future' = [future EXCEPT ![d] = "pending"],
         \A u \in Task : \A a \in asked'[u] : a \in asked[u] \/ AskOk(DomainOf(u), a)',
         UNCHANGED <<plan, stage, components, tracked, done, answer>>
  PROVE  WaitInv'
<1>1. pc'[t] = "loading" /\ \A u \in Task \ {t} : pc'[u] = pc[u]
  BY DEF SetupInv, TypeOK
<1>2. "loading" \in Running /\ "idle" \notin Running
  BY DEF Running, Await
<1>3. HasRunner(d)' /\ \A e \in Domain : HasRunner(e) => HasRunner(e)'
  BY <1>1, <1>2 DEF HasRunner
<1>4. \A e \in Domain : \/ future'[e] = future[e]
                        \/ future'[e] = "pending" /\ HasRunner(e)'
  BY <1>3 DEF SetupInv, TypeOK
<1>5. \A u \in Task : /\ pc[u] \in Running \union {"returned"} => pc'[u] \in Running \union {"returned"}
                      /\ pc'[u] = "returned" => answer'[u] # "pending"
                      /\ pc'[u] \in {"asking", "gathering"} => pc[u] \in {"asking", "gathering"}
  BY <1>1, <1>2 DEF WaitInv
<1> QED BY <1>3, <1>4, <1>5, WaitsKept

\* A task that runs no set-up.
LEMMA WaitsByBystander ==
  ASSUME SetupInv, WaitInv, NEW t \in Task, pc[t] \in {"idle", "awaiting"},
         NEW p \in {"awaiting", "returned"}, pc' = [pc EXCEPT ![t] = p],
         \A u \in Task : asked'[u] \subseteq asked[u],
         \A u \in Task \ {t} : answer'[u] = answer[u],
         p = "returned" => answer'[t] # "pending",
         UNCHANGED <<plan, stage, components, futureVars>>
  PROVE  WaitInv'
<1>1. pc'[t] = p /\ \A u \in Task \ {t} : pc'[u] = pc[u]
  BY DEF SetupInv, TypeOK
<1>2. pc[t] \notin Running
  BY DEF Running
<1>3. \A e \in Domain : HasRunner(e) => HasRunner(e)'
  BY <1>1, <1>2 DEF HasRunner
<1>4. \A u \in Task : /\ pc[u] \in Running \union {"returned"} => pc'[u] \in Running \union {"returned"}
                      /\ pc'[u] = "returned" => answer'[u] # "pending"
                      /\ pc'[u] \in {"asking", "gathering"} => pc[u] \in {"asking", "gathering"}
                      /\ \A a \in asked'[u] : a \in asked[u]
  BY <1>1, <1>2 DEF WaitInv
<1> QED BY <1>3, <1>4, WaitsKept DEF futureVars

LEMMA WaitsByEnds ==
  ASSUME SetupInv, WaitInv, NEW t \in Task, Fails(t) \/ SetupFails(t) \/ Cancelled(t) \/ EntriesSetUp(t)
  PROVE  WaitInv'
<1>1. /\ pc[t] \in {"loading", "requirements", "setup", "flows", "entries"}
      /\ \E result \in {"true", "false", "raised"} : Resolve(t, result)
      /\ UNCHANGED <<plan, stage, components>>
  BY DEF Fails, SetupFails, Cancelled, EntriesSetUp, Ends, constVars, bootVars
<1>2. pc[t] \in Running
  BY <1>1 DEF Running, Await
<1> QED BY <1>1, <1>2, WaitsByResolve

LEMMA WaitsBySlice ==
  ASSUME SetupInv, WaitInv, NEW t \in Task,
         Loaded(t) \/ AskAfter(t) \/ Gathered(t) \/ BeginSetup(t) \/ SetupTrue(t) \/ FlowsAwaited(t)
  PROVE  WaitInv'
<1> DEFINE d == DomainOf(t)
<1>0. d \in Domain /\ asked[t] \subseteq Awaitable /\ asked \in [Task -> SUBSET Awaitable]
      /\ {"loading", "asking", "gathering", "requirements", "setup", "flows", "entries"} \subseteq Running
  BY TaskFacts DEF SetupInv, TypeOK, Running, Await
<1>1. CASE Loaded(t)
  <2>1. /\ pc[t] = "loading" /\ ~Circular(d) /\ pc' = [pc EXCEPT ![t] = "asking"]
        /\ UNCHANGED <<plan, stage, components, futureVars, asked, answer>>
    BY <1>1 DEF Loaded, Goto, constVars, bootVars
  <2> QED BY <1>0, <2>1, WaitsByGoingOn
<1>2. CASE AskAfter(t)
  <2> DEFINE after == {e \in plan.after[d] : ~Asked(t, e) /\ tracked[e] # 0 /\ e \notin components}
             all   == asked[t] \union {<<"done", e, tracked[e]>> : e \in after}
             p     == IF all = {} THEN "requirements" ELSE "gathering"
  <2>1. /\ pc[t] = "asking" /\ asked' = [asked EXCEPT ![t] = all] /\ pc' = [pc EXCEPT ![t] = p]
        /\ UNCHANGED <<plan, stage, components, futureVars, answer>>
    BY <1>2 DEF AskAfter, Goto, constVars, bootVars
  <2>2. p \in Running
    BY <1>0
  <2>3. ASSUME NEW e \in after PROVE AskOk(d, <<"done", e, tracked[e]>>)'
    <3>1. e \in Domain /\ tracked[e] # 0 /\ e \notin components /\ tracked[e] \in Stages
      BY <1>0, PlanFacts DEF SetupInv
    <3>2. Stages' = Stages /\ tracked[e] <= stage
      BY <2>1, <3>1, SamePlan DEF WaitInv
    <3>3. future[e] = "pending" => HasRunner(e)
      BY <3>1 DEF WaitInv
    <3>4. pc'[t] = p /\ \A u \in Task \ {t} : pc'[u] = pc[u]
      BY <2>1 DEF SetupInv, TypeOK
    <3>5. HasRunner(e) => HasRunner(e)'
      BY <2>2, <3>4 DEF HasRunner
    <3>6. Settled(e)'
      BY <2>1, <3>1, <3>3, <3>5 DEF Settled, Resolved, futureVars
    <3>7. \A x \in Domain : \A s : <<"done", e, tracked[e]>> = <<"done", x, s>> => x = e /\ s = tracked[e]
      OBVIOUS
    <3>8. \A x : <<"done", e, tracked[e]>> # <<"future", x>> /\ <<"done", e, tracked[e]>> # <<"task", x>>
      OBVIOUS
    <3> QED BY <2>1, <3>2, <3>6, <3>7, <3>8 DEF AskOk, futureVars
  <2>4. \A a \in asked'[t] : a \in asked[t] \/ AskOk(d, a)'
    <3>1. asked'[t] = all
      BY <1>0, <2>1
    <3>2. all = asked[t] \union {<<"done", e, tracked[e]>> : e \in after}
      OBVIOUS
    <3> HIDE DEF after, all
    <3> QED BY <2>1, <2>3, <3>1, <3>2 DEF futureVars
  <2>5. \A u \in Task \ {t} : asked'[u] = asked[u]
    <3> HIDE DEF all
    <3> QED BY <1>0, <2>1
  <2> HIDE DEF p, all, after
  <2> QED BY <1>0, <2>1, <2>2, <2>4, <2>5, WaitsByGoingOn
<1>3. CASE Gathered(t)
  <2>1. pc[t] = "gathering"
    BY <1>3 DEF Gathered
  <2>2. CASE \E result \in {"false", "raised"} : Ends(t, result)
    BY <1>0, <2>1, <2>2, WaitsByResolve DEF Ends, constVars, bootVars
  <2>3. CASE /\ Goto(t, "requirements") /\ asked' = [asked EXCEPT ![t] = {}]
             /\ UNCHANGED <<constVars, bootVars, components, futureVars, thrown, answer, began>>
    <3>1. asked'[t] = {} /\ \A u \in Task \ {t} : asked'[u] = asked[u]
      BY <1>0, <2>3
    <3> QED BY <1>0, <2>1, <2>3, <3>1, WaitsByGoingOn DEF Goto, constVars, bootVars
  <2> QED BY <1>3, <2>2, <2>3 DEF Gathered
<1>4. CASE BeginSetup(t) \/ SetupTrue(t) \/ FlowsAwaited(t)
  <2>1. /\ pc[t] \in {"requirements", "setup", "flows"}
        /\ \E p \in {"setup", "flows", "entries"} : pc' = [pc EXCEPT ![t] = p]
        /\ components' \subseteq components \union {d}
        /\ UNCHANGED <<plan, stage, futureVars, asked, answer>>
    BY <1>4 DEF BeginSetup, SetupTrue, FlowsAwaited, Goto, constVars, bootVars
  <2> QED BY <1>0, <2>1, WaitsByGoingOn
<1> QED BY <1>1, <1>2, <1>3, <1>4

LEMMA WaitsByStart ==
  ASSUME SetupInv, WaitInv, NEW t \in Task, Start(t), UNCHANGED <<plan, stage, components>>
  PROVE  WaitInv'
<1> DEFINE d == DomainOf(t)
<1>0. d \in Domain /\ pc[t] = "idle" /\ asked \in [Task -> SUBSET Awaitable]
      /\ answer \in [Task -> Future]
  BY TaskFacts DEF Start, SetupInv, TypeOK
<1>1. CASE d \in components
  <2>1. /\ pc' = [pc EXCEPT ![t] = "returned"] /\ answer' = [answer EXCEPT ![t] = "true"]
        /\ asked' = [asked EXCEPT ![t] = {}] /\ UNCHANGED futureVars
    BY <1>1 DEF Start, Return, Goto
  <2>2. \A u \in Task : asked'[u] \subseteq asked[u]
    BY <1>0, <2>1
  <2> QED BY <1>0, <2>1, <2>2, WaitsByBystander
<1>2. CASE d \notin components /\ d \in inSetup
  <2>1. pc' = [pc EXCEPT ![t] = "awaiting"] /\ UNCHANGED <<asked, answer, futureVars>>
    BY <1>2 DEF Start, Goto, futureVars
  <2> QED BY <1>0, <2>1, WaitsByBystander
<1>3. CASE d \notin components /\ d \notin inSetup
  <2>1. /\ pc' = [pc EXCEPT ![t] = "loading"] /\ future' = [future EXCEPT ![d] = "pending"]
        /\ UNCHANGED <<asked, answer, tracked, done>>
    BY <1>3 DEF Start, Goto
  <2> QED BY <1>0, <1>3, <2>1, WaitsByRunner
<1> QED BY <1>1, <1>2, <1>3

LEMMA WaitsByAsking ==
  ASSUME SetupInv, WaitInv, NEW t \in Task,
         Awaited(t) \/ \E d \in Domain : AskDependency(t, d)
  PROVE  WaitInv'
<1>1. CASE Awaited(t)
  <2> DEFINE d == DomainOf(t)
  <2>0. /\ d \in Domain /\ pc[t] = "awaiting" /\ (future[d] # "pending" \/ t \in thrown)
        /\ pc' = [pc EXCEPT ![t] = "returned"] /\ asked' = [asked EXCEPT ![t] = {}]
        /\ answer' = [answer EXCEPT ![t] = IF t \in thrown \/ future[d] \in Broken THEN "raised" ELSE future[d]]
        /\ UNCHANGED <<plan, stage, components, futureVars>>
    BY <1>1, TaskFacts DEF Awaited, Return, Goto, constVars, bootVars
  <2>1. answer'[t] # "pending" /\ \A u \in Task \ {t} : answer'[u] = answer[u]
    BY <2>0 DEF SetupInv, TypeOK
  <2>2. \A u \in Task : asked'[u] \subseteq asked[u]
    BY <2>0 DEF SetupInv, TypeOK
  <2> QED BY <2>0, <2>1, <2>2, WaitsByBystander
<1>2. ASSUME NEW d \in Domain, AskDependency(t, d) PROVE WaitInv'
  <2> DEFINE u == <<d, "dependency">>
  <2>0. /\ pc[t] = "asking" /\ d \in plan.deps[DomainOf(t)] /\ d \notin components
        /\ u \in Task /\ DomainOf(u) = d /\ "loading" \in Running /\ pc[t] \in Running
        /\ UNCHANGED <<plan, stage, components, answer>>
    BY <1>2, TaskFacts DEF AskDependency, constVars, bootVars, Running, Await
  <2>1. CASE d \in inSetup
    <3>1. asked' = [asked EXCEPT ![t] = @ \union {<<"future", d>>}] /\ UNCHANGED <<futureVars, pc>>
      BY <1>2, <2>1 DEF AskDependency
    <3>2. AskOk(DomainOf(t), <<"future", d>>)'
      <4>1. future'[d] # "none"
        BY <2>1, <3>1 DEF SetupInv, Touched, futureVars
      <4> QED BY <2>0, <4>1 DEF AskOk
    <3>3. pc' = [pc EXCEPT ![t] = "asking"]
      BY <2>0, <3>1 DEF SetupInv, TypeOK
    <3>4. \A a \in asked'[t] : a \in asked[t] \/ a = <<"future", d>>
      BY <3>1 DEF SetupInv, TypeOK
    <3>5. \A x \in Task \ {t} : asked'[x] = asked[x]
      BY <3>1 DEF SetupInv, TypeOK
    <3> QED BY <2>0, <3>1, <3>2, <3>3, <3>4, <3>5, WaitsByGoingOn DEF futureVars
  <2>2. CASE d \notin inSetup
    <3>1. /\ asked' = [asked EXCEPT ![t] = @ \union {<<"task", d>>}]
          /\ pc[u] = "idle" /\ pc' = [pc EXCEPT ![u] = "loading"]
          /\ future' = [future EXCEPT ![d] = "pending"] /\ UNCHANGED <<tracked, done>>
      BY <1>2, <2>2 DEF AskDependency, Goto
    <3>2. AskOk(DomainOf(t), <<"task", d>>)'
      <4>1. pc'[u] \in Running
        BY <2>0, <3>1 DEF SetupInv, TypeOK
      <4> QED BY <2>0, <4>1 DEF AskOk
    <3>3. \A x \in Task : \A a \in asked'[x] : a \in asked[x] \/ (x = t /\ a = <<"task", d>>)
      BY <3>1 DEF SetupInv, TypeOK
    <3> QED BY <2>0, <2>2, <3>1, <3>2, <3>3, WaitsByRunner
  <2> QED BY <2>1, <2>2
<1> QED BY <1>1, <1>2

\* A stage begins, and its futures are new.
LEMMA WaitsByBeginStage ==
  ASSUME SetupInv, WaitInv, BeginStage
  PROVE  WaitInv'
<1> DEFINE new == plan.stages[stage + 1]
<1>0. /\ stage' = stage + 1
      /\ tracked' = [d \in Domain |-> IF d \in new.announced THEN stage + 1 ELSE tracked[d]]
      /\ done' = [d \in Domain |-> IF d \in new.announced
                                   THEN [done[d] EXCEPT ![stage + 1] = "pending"] ELSE done[d]]
      /\ UNCHANGED <<plan, components, future, pc, asked, answer>>
  BY DEF BeginStage, constVars, taskVars
<1>1. \A d \in Domain : tracked'[d] = tracked[d] \/ tracked'[d] = stage'
  BY <1>0
<1>2. \A d \in Domain, s \in Stages : done'[d][s] = done[d][s] \/ s = stage'
  BY <1>0 DEF SetupInv, TypeOK
<1>3. \A d \in Domain : HasRunner(d) => HasRunner(d)'
  BY <1>0 DEF HasRunner
<1>4. \A t \in Task : pc[t] = "returned" => answer[t] # "pending"
  BY DEF WaitInv
<1> HIDE DEF new
<1> QED BY <1>0, <1>1, <1>2, <1>3, <1>4, WaitsKept

\* A stage times out, and futures are cancelled.
LEMMA WaitsByTimeout ==
  ASSUME SetupInv, WaitInv, StageTimesOut
  PROVE  WaitInv'
<1>0. UNCHANGED <<plan, stage, components, tracked, pc, asked, answer>>
  BY DEF StageTimesOut, constVars, bootVars
<1>1. \A d \in Domain : future'[d] = future[d] \/ (future[d] = "pending" /\ future'[d] = "cancelled")
  BY DEF StageTimesOut
<1>2. \A d \in Domain, s \in Stages : done'[d][s] = "pending" => done[d][s] = "pending"
  BY DEF StageTimesOut
<1>3. \A d \in Domain : HasRunner(d) => HasRunner(d)'
  BY <1>0 DEF HasRunner
<1>4. \A d \in Domain : future'[d] = future[d] \/ (future[d] = "pending" /\ Resolved(d)')
  BY <1>1 DEF Resolved
<1>5. \A t \in Task : pc[t] = "returned" => answer[t] # "pending"
  BY DEF WaitInv
<1> QED BY <1>0, <1>2, <1>3, <1>4, <1>5, WaitsKept

THEOREM WaitsSafety == Spec => [](SetupInv /\ WaitInv)
<1>1. Init => WaitInv
  <2> SUFFICES ASSUME Init PROVE WaitInv
    OBVIOUS
  <2>1. stage = 0 /\ \A d \in Domain : future[d] = "none" /\ tracked[d] = 0
    BY DEF Init
  <2>2. \A t \in Task : pc[t] = "idle" /\ asked[t] = {}
    BY DEF Init
  <2>3. ASSUME NEW d \in Domain PROVE tracked[d] <= stage
    <3>1. tracked[d] = 0 /\ stage = 0
      BY <2>1
    <3> QED BY <3>1
  <2> QED BY <2>1, <2>2, <2>3 DEF WaitInv
<1>2. SetupInv /\ WaitInv /\ [Next]_vars => WaitInv'
  <2> SUFFICES ASSUME SetupInv, WaitInv, [Next]_vars PROVE WaitInv'
    OBVIOUS
  <2>1. ASSUME NEW t \in Task, Slice(t) PROVE WaitInv'
    BY <2>1, WaitsByEnds, WaitsBySlice, WaitsByAsking DEF Slice
  <2>2. ASSUME NEW d \in Domain, StartInStage(d) \/ Call(d) PROVE WaitInv'
    <3>1. \E t \in Task : Start(t)
      BY <2>2, TaskFacts DEF StartInStage, Call
    <3>2. UNCHANGED <<plan, stage, components>>
      BY <2>2 DEF StartInStage, Call, constVars, bootVars
    <3> QED BY <3>1, <3>2, WaitsByStart
  <2>3. CASE UNCHANGED vars
    <3>1. UNCHANGED <<plan, stage, components, future, tracked, done, pc, asked, answer>>
      BY <2>3 DEF vars, constVars, bootVars, futureVars, taskVars
    <3>2. \A d \in Domain : HasRunner(d) => HasRunner(d)'
      BY <3>1 DEF HasRunner
    <3>3. \A t \in Task : pc[t] = "returned" => answer[t] # "pending"
      BY DEF WaitInv
    <3> QED BY <3>1, <3>2, <3>3, WaitsKept
  <2> QED BY <2>1, <2>2, <2>3, WaitsByBeginStage, WaitsByTimeout DEF Next, Boot
<1> QED BY <1>1, <1>2, SetupSafety, PTL DEF Spec

\* The core of SetupsReturn: what a call or a gather awaits has a task that
\* settles it, but for orphans and domains nobody has asked for yet.
THEOREM WaitsAreCovered == Spec => []WaitsCovered
<1>1. SetupInv /\ WaitInv => WaitsCovered
  <2> SUFFICES ASSUME SetupInv, WaitInv PROVE WaitsCovered
    OBVIOUS
  <2>1. /\ \A d \in Domain : future[d] = "pending" => HasRunner(d)
        /\ \A t \in Task : pc[t] = "awaiting" => future[DomainOf(t)] # "none"
    BY DEF SetupInv, Touched, WaitInv
  <2>2. ASSUME NEW t \in Task, NEW d \in Domain
        PROVE  /\ <<"future", d>> \in asked[t] => future[d] # "none"
               /\ <<"task", d>> \in asked[t] =>
                    pc[<<d, "dependency">>] \in Running \/ answer[<<d, "dependency">>] # "pending"
    BY TaskFacts DEF WaitInv, AskOk
  <2>3. ASSUME NEW t \in Task, NEW d \in Domain, NEW s \in Stages,
               <<"done", d, s>> \in asked[t], done[d][s] = "pending"
        PROVE  Orphan(d, s) \/ future[d] = "none" \/ HasRunner(d)
    <3>1. tracked[d] = s => Settled(d)
      BY <2>3 DEF WaitInv, AskOk
    <3> QED BY <2>3, <3>1 DEF Orphan, Settled, Resolved
  <2> QED BY <2>1, <2>2, <2>3 DEF WaitsCovered
<1> QED BY <1>1, WaitsSafety, PTL

\* No two set-ups, nor any chain of them, wait for each other's dependencies.
THEOREM NobodyWaitsInCircles == Spec => []NoCircularWait
<1>1. SetupInv /\ WaitInv => NoCircularWait
  <2> SUFFICES ASSUME SetupInv, WaitInv, NEW d \in Domain, d \in AwaitedBelow(d) PROVE FALSE
    BY DEF NoCircularWait
  <2>1. \A e \in Domain : AwaitedBy(e) \subseteq plan.deps[e]
    <3> SUFFICES ASSUME NEW e \in Domain, NEW x \in Domain, NEW t \in Task, DomainOf(t) = e, Asked(t, x)
                 PROVE  x \in plan.deps[e]
      BY DEF AwaitedBy
    <3> QED BY DEF Asked, WaitInv, AskOk
  <2>2. d \in Below(d)
    <3> SUFFICES ASSUME NEW S \in SUBSET Domain, plan.deps[d] \subseteq S,
                        \A y \in S : plan.deps[y] \subseteq S
                 PROVE  d \in S
      BY DEF Below
    <3>1. AwaitedBy(d) \subseteq S /\ \A y \in S : AwaitedBy(y) \subseteq S
      BY <2>1
    <3> QED BY <3>1 DEF AwaitedBelow
  <2>3. Circular(d)
    BY <2>2 DEF Circular
  <2>4. AwaitedBy(d) = {}
    BY <2>3 DEF AwaitedBy, WaitInv
  <2>5. {} \in SUBSET Domain /\ AwaitedBy(d) \subseteq {} /\ \A y \in {} : AwaitedBy(y) \subseteq {}
    BY <2>4
  <2> QED BY <2>5 DEF AwaitedBelow
<1> QED BY <1>1, WaitsSafety, PTL
=============================================================================
