---------------------------- MODULE SetupComponent ----------------------------
(***************************************************************************)
(* setup.py: async_setup_component for several domains, and the part of    *)
(* bootstrap.py that announces domains and sets them up stage by stage.    *)
(*                                                                         *)
(* Whoever asks for a domain first runs its set-up; everybody else awaits  *)
(* the future in DATA_SETUP.  A set-up awaits the futures or the tasks of  *)
(* its dependencies, and the futures in DATA_SETUP_DONE of its             *)
(* after_dependencies.  A future that a cancelled task awaits, directly or *)
(* in a gather, is cancelled with it, whoever else awaits or sets it.      *)
(*                                                                         *)
(* Abstractions.  A domain that is set up twice at most has one task of    *)
(* each origin: of a stage of the bootstrap, of a dependent, of a caller   *)
(* from elsewhere (a config entry, a discovery).  A set-up suspends where  *)
(* it awaits the loader, so the tasks of a stage, and the tasks for        *)
(* dependencies, start one after the other.  Outcomes of the loader, of    *)
(* the requirements and of the integration are choices.                    *)
(***************************************************************************)
EXTENDS Naturals, Sequences

CONSTANTS
  Domain,
  Called,  \* domains that are asked for from elsewhere
  Plans    \* dependencies, after_dependencies and stages to choose from

Stage == [announced : SUBSET Domain, domains : SUBSET Domain]
Plan == [deps : [Domain -> SUBSET Domain], after : [Domain -> SUBSET Domain], stages : Seq(Stage)]
ASSUME PlanAssumption == Plans \subseteq Plan
ASSUME CalledAssumption == Called \subseteq Domain

VARIABLES
  plan,       \* the manifests, and what the bootstrap makes of them
  mayCancel,  \* a stage may time out
  stage,      \* the stage of the bootstrap
  todo,       \* its domains whose tasks are still to be created
  components, \* hass.config.components
  inSetup,    \* the keys of DATA_SETUP
  future,     \* per domain: its future in DATA_SETUP
  tracked,    \* per domain: the stage that announced its future in DATA_SETUP_DONE, or 0
  done,       \* per domain and stage: that future
  pc,         \* per task: what it awaits
  asked,      \* per task: what it gathers
  thrown,     \* tasks with a cancellation to be raised
  answer,     \* per task: what it returned
  began       \* per domain: how often its own set-up began

constVars   == <<plan, mayCancel>>
bootVars    == <<stage, todo>>
futureVars  == <<inSetup, future, tracked, done>>
taskVars    == <<pc, asked, thrown, answer>>
vars == <<constVars, bootVars, components, futureVars, taskVars, began>>

Task == Domain \X {"stage", "dependency", "call"}
DomainOf(t) == t[1]
Stages == 1..Len(plan.stages)

Future == {"none", "pending", "true", "false", "raised", "cancelled"}
Broken == {"raised", "cancelled"}

\* What a gather awaits: futures of DATA_SETUP, tasks, futures of DATA_SETUP_DONE.
Awaitable == {<<"future", d>> : d \in Domain} \union {<<"task", d>> : d \in Domain}
             \union {<<"done", d, s>> : d \in Domain, s \in Stages}
Outcome(a) == CASE a[1] = "future" -> future[a[2]]
                [] a[1] = "task"   -> answer[<<a[2], "dependency">>]
                [] a[1] = "done"   -> done[a[2]][a[3]]

\* "asking" is no await: the task creates the tasks it will gather.
Await == {"idle", "awaiting", "loading", "asking", "gathering", "requirements", "setup", "flows",
          "entries", "returned"}
Running == Await \ {"idle", "awaiting", "returned"}

TypeOK ==
  /\ plan \in Plans /\ mayCancel \in BOOLEAN
  /\ stage \in 0..Len(plan.stages) /\ todo \subseteq Domain
  /\ components \subseteq Domain /\ inSetup \subseteq Domain
  /\ future \in [Domain -> Future] /\ tracked \in [Domain -> 0..Len(plan.stages)]
  /\ done \in [Domain -> [Stages -> Future]]
  /\ pc \in [Task -> Await] /\ asked \in [Task -> SUBSET Awaitable]
  /\ thrown \subseteq Task /\ answer \in [Task -> Future] /\ began \in [Domain -> Nat]

Init ==
  /\ plan \in Plans /\ mayCancel \in BOOLEAN
  /\ stage = 0 /\ todo = {} /\ components = {} /\ inSetup = {}
  /\ future = [d \in Domain |-> "none"] /\ tracked = [d \in Domain |-> 0]
  /\ done = [d \in Domain |-> [s \in Stages |-> "none"]]
  /\ pc = [t \in Task |-> "idle"] /\ asked = [t \in Task |-> {}]
  /\ thrown = {} /\ answer = [t \in Task |-> "pending"] /\ began = [d \in Domain |-> 0]

-----------------------------------------------------------------------------
(* async_setup_component *)

Goto(t, p) == pc' = [pc EXCEPT ![t] = p]

Return(t, a) ==
  /\ Goto(t, "returned") /\ answer' = [answer EXCEPT ![t] = a]
  /\ thrown' = thrown \ {t} /\ asked' = [asked EXCEPT ![t] = {}]

\* From the call to the first await.
Start(t) ==
  LET d == DomainOf(t) IN
  /\ pc[t] = "idle"
  /\ IF d \in components
     THEN Return(t, "true") /\ UNCHANGED futureVars
     ELSE /\ UNCHANGED <<asked, thrown, answer, tracked, done>>
          /\ IF d \in inSetup
             THEN Goto(t, "awaiting") /\ UNCHANGED <<inSetup, future>>
             ELSE /\ Goto(t, "loading") /\ inSetup' = inSetup \union {d}
                  /\ future' = [future EXCEPT ![d] = "pending"]

\* The future of another call is there, or was cancelled with its waiters.
Awaited(t) ==
  LET d == DomainOf(t) IN
  /\ pc[t] = "awaiting" /\ (future[d] # "pending" \/ t \in thrown)
  /\ Return(t, IF t \in thrown \/ future[d] \in Broken THEN "raised" ELSE future[d])
  /\ UNCHANGED <<constVars, bootVars, components, futureVars, began>>

\* The end of a set-up.  A future that was cancelled can not be set: that
\* raises InvalidStateError, and when it is the one in DATA_SETUP, the one in
\* DATA_SETUP_DONE is taken out and never set.
Resolve(t, result) ==
  LET d == DomainOf(t)
      s == tracked[d]
      lost == future[d] # "pending" \/ (s # 0 /\ done[d][s] # "pending")
  IN
  /\ Return(t, IF lost THEN "raised" ELSE result)
  /\ future' = [future EXCEPT ![d] = IF @ = "pending" THEN result ELSE @]
  /\ tracked' = [tracked EXCEPT ![d] = 0]
  /\ done' = IF lost \/ s = 0 THEN done ELSE [done EXCEPT ![d][s] = result]

Ends(t, result) ==
  Resolve(t, result) /\ UNCHANGED <<constVars, bootVars, components, inSetup, began>>

-----------------------------------------------------------------------------
(* _async_setup_component *)

\* A chain of dependencies from d to x.
Below(d) ==
  {x \in Domain : \A S \in SUBSET Domain :
     plan.deps[d] \subseteq S /\ (\A y \in S : plan.deps[y] \subseteq S) => x \in S}

\* Mutant of Circular: after_dependencies are not looked at.
CircularDeps(d) == \E x \in Below(d) \union {d} : x \in Below(x)

\* Integration.resolve_dependencies: what it surely finds.  Of another domain
\* it may miss an after_dependency, which that domain's own set-up finds.
Circular(d) ==
  \/ \E x \in Below(d) \union {d} : x \in Below(x)
  \/ \E x \in Below(d) : d \in plan.after[x]

\* The integration is not found, disabled or circular; or the requirements, the
\* import or the configuration fail.
Fails(t) ==
  /\ pc[t] \in {"loading", "requirements"} /\ t \notin thrown
  /\ Ends(t, "false")

Loaded(t) ==
  /\ pc[t] = "loading" /\ t \notin thrown /\ ~Circular(DomainOf(t))
  /\ Goto(t, "asking")
  /\ UNCHANGED <<constVars, bootVars, components, futureVars, asked, thrown, answer, began>>

Asked(t, d) == <<"future", d>> \in asked[t] \/ <<"task", d>> \in asked[t]

\* _async_process_dependencies: the future of a dependency, or a task for it.
AskDependency(t, d) ==
  LET u == <<d, "dependency">> IN
  /\ pc[t] = "asking" /\ d \in plan.deps[DomainOf(t)] /\ d \notin components /\ ~Asked(t, d)
  /\ IF d \in inSetup
     THEN /\ asked' = [asked EXCEPT ![t] = @ \union {<<"future", d>>}]
          /\ UNCHANGED <<futureVars, pc>>
     ELSE /\ asked' = [asked EXCEPT ![t] = @ \union {<<"task", d>>}]
          /\ pc[u] = "idle" /\ Goto(u, "loading") /\ inSetup' = inSetup \union {d}
          /\ future' = [future EXCEPT ![d] = "pending"] /\ UNCHANGED <<tracked, done>>
  /\ UNCHANGED <<constVars, bootVars, components, thrown, answer, began>>

\* Mutant of AskAfter: it does not wait for after_dependencies.
AskAfterNever(t) ==
  /\ pc[t] = "asking" /\ \A d \in plan.deps[DomainOf(t)] : d \in components \/ Asked(t, d)
  /\ Goto(t, IF asked[t] = {} THEN "requirements" ELSE "gathering")
  /\ UNCHANGED <<constVars, bootVars, components, futureVars, asked, thrown, answer, began>>

\* ... then the futures of the after_dependencies that are to be loaded.
AskAfter(t) ==
  LET after == {d \in plan.after[DomainOf(t)] :
                  ~Asked(t, d) /\ tracked[d] # 0 /\ d \notin components}
      all == asked[t] \union {<<"done", d, tracked[d]>> : d \in after}
  IN
  /\ pc[t] = "asking" /\ \A d \in plan.deps[DomainOf(t)] : d \in components \/ Asked(t, d)
  /\ asked' = [asked EXCEPT ![t] = all]
  /\ Goto(t, IF all = {} THEN "requirements" ELSE "gathering")
  /\ UNCHANGED <<constVars, bootVars, components, futureVars, thrown, answer, began>>

\* The gather is done, or one of its futures or tasks raised; a cancelled one
\* waits for all it has cancelled.
Gathered(t) ==
  /\ pc[t] = "gathering"
  /\ \/ /\ t \notin thrown /\ \E a \in asked[t] : Outcome(a) \in Broken
        /\ Ends(t, "raised")
     \/ /\ \A a \in asked[t] : Outcome(a) # "pending"
        /\ t \in thrown
        /\ Ends(t, "raised")
     \/ /\ \A a \in asked[t] : Outcome(a) \in {"true", "false"}
        /\ t \notin thrown
        /\ \E a \in asked[t] : a[1] # "done" /\ Outcome(a) = "false"
        /\ Ends(t, "false")
     \/ /\ \A a \in asked[t] : Outcome(a) \in {"true", "false"}
        /\ t \notin thrown
        /\ \A a \in asked[t] : a[1] # "done" => Outcome(a) = "true"
        /\ Goto(t, "requirements") /\ asked' = [asked EXCEPT ![t] = {}]
        /\ UNCHANGED <<constVars, bootVars, components, futureVars, thrown, answer, began>>

\* Mutant of BeginSetup: the component is loaded before its set-up has succeeded.
BeginSetupLoaded(t) ==
  /\ pc[t] = "requirements" /\ t \notin thrown
  /\ Goto(t, "setup") /\ began' = [began EXCEPT ![DomainOf(t)] = @ + 1]
  /\ components' = components \union {DomainOf(t)}
  /\ UNCHANGED <<constVars, bootVars, futureVars, asked, thrown, answer>>

\* The component's own set-up; one that has none goes on at once.
BeginSetup(t) ==
  /\ pc[t] = "requirements" /\ t \notin thrown
  /\ Goto(t, "setup") /\ began' = [began EXCEPT ![DomainOf(t)] = @ + 1]
  /\ UNCHANGED <<constVars, bootVars, components, futureVars, asked, thrown, answer>>

\* Mutant of SetupTrue: DATA_SETUP forgets the domain before it is loaded.
SetupTrueForgets(t) ==
  /\ pc[t] = "setup" /\ Goto(t, "flows") /\ thrown' = thrown \ {t}
  /\ inSetup' = inSetup \ {DomainOf(t)}
  /\ UNCHANGED <<constVars, bootVars, components, future, tracked, done, asked, answer, began>>

\* It returns True, a cancellation swallowed.
SetupTrue(t) ==
  /\ pc[t] = "setup" /\ Goto(t, "flows") /\ thrown' = thrown \ {t}
  /\ UNCHANGED <<constVars, bootVars, components, futureVars, asked, answer, began>>

\* Anything else: False, None, an error, a timeout, or a cancellation, which is
\* caught here.
SetupFails(t) == pc[t] = "setup" /\ Ends(t, "false")

\* The import flows are initialized; the entries of the domain are set up next.
FlowsAwaited(t) ==
  /\ pc[t] = "flows" /\ t \notin thrown
  /\ Goto(t, "entries") /\ components' = components \union {DomainOf(t)}
  /\ UNCHANGED <<constVars, bootVars, futureVars, asked, thrown, answer, began>>

EntriesSetUp(t) ==
  /\ pc[t] = "entries" /\ t \notin thrown
  /\ inSetup' = inSetup \ {DomainOf(t)}
  /\ Resolve(t, "true") /\ UNCHANGED <<constVars, bootVars, components, began>>

\* A cancellation that nothing catches.
Cancelled(t) ==
  /\ t \in thrown /\ pc[t] \in {"loading", "requirements", "flows", "entries"}
  /\ Ends(t, "raised")

-----------------------------------------------------------------------------
(* The bootstrap, and other callers *)

InStage(t) == stage > 0 /\ t[2] = "stage" /\ DomainOf(t) \in plan.stages[stage].domains
StageOver == todo = {} /\ \A t \in Task : InStage(t) => pc[t] \in {"idle", "returned"}

\* async_set_domains_to_be_loaded and async_setup_multi_components.
BeginStage ==
  /\ StageOver /\ stage < Len(plan.stages)
  /\ stage' = stage + 1
  /\ todo' = plan.stages[stage + 1].domains \ components
  /\ tracked' = [d \in Domain |-> IF d \in plan.stages[stage + 1].announced THEN stage + 1 ELSE tracked[d]]
  /\ done' = [d \in Domain |-> IF d \in plan.stages[stage + 1].announced
                               THEN [done[d] EXCEPT ![stage + 1] = "pending"] ELSE done[d]]
  /\ UNCHANGED <<constVars, components, inSetup, future, taskVars, began>>

StartInStage(d) ==
  /\ d \in todo /\ todo' = todo \ {d}
  /\ Start(<<d, "stage">>)
  /\ UNCHANGED <<constVars, stage, components, began>>

Call(d) ==
  /\ d \in Called /\ Start(<<d, "call">>)
  /\ UNCHANGED <<constVars, bootVars, components, began>>

\* The tasks that some task in T gathers, and so on.
Gathers(T) == {d \in Domain : \E t \in T : pc[t] = "gathering" /\ <<"task", d>> \in asked[t]}
WithGathered(T) ==
  LET closed(S) == Gathers(T \union (S \X {"dependency"})) \subseteq S
  IN  T \union {<<d, "dependency">> : d \in {e \in Domain : \A S \in SUBSET Domain : closed(S) => e \in S}}

\* The timeout of a stage cancels the tasks of the stage, and whatever they
\* await.
StageTimesOut ==
  LET active == {t \in Task : pc[t] \notin {"idle", "returned"}}
      cancelled == WithGathered({t \in active : InStage(t)}) \intersect active
      hits(a) == \E t \in cancelled : \/ pc[t] = "gathering" /\ a \in asked[t]
                                      \/ pc[t] = "awaiting" /\ a = <<"future", DomainOf(t)>>
  IN
  /\ mayCancel /\ todo = {} /\ ~StageOver /\ \A t \in Task : pc[t] # "asking"
  /\ thrown' = thrown \union cancelled
  /\ future' = [d \in Domain |-> IF future[d] = "pending" /\ hits(<<"future", d>>)
                                 THEN "cancelled" ELSE future[d]]
  /\ done' = [d \in Domain |-> [s \in Stages |->
               IF done[d][s] = "pending" /\ hits(<<"done", d, s>>) THEN "cancelled" ELSE done[d][s]]]
  /\ UNCHANGED <<constVars, bootVars, components, inSetup, tracked, pc, asked, answer, began>>

Slice(t) ==
  \/ Awaited(t) \/ Fails(t) \/ Loaded(t) \/ AskAfter(t) \/ Gathered(t)
  \/ BeginSetup(t) \/ SetupTrue(t) \/ SetupFails(t) \/ FlowsAwaited(t) \/ EntriesSetUp(t)
  \/ Cancelled(t) \/ \E d \in Domain : AskDependency(t, d)

Boot == BeginStage \/ \E d \in Domain : StartInStage(d)

Next == Boot \/ StageTimesOut \/ (\E t \in Task : Slice(t)) \/ \E d \in Domain : Call(d)

Spec == Init /\ [][Next]_vars

\* The event loop goes on while some task can, the loader and the integration's
\* set-up return (a timeout bounds them).
FairSpec == Spec /\ WF_vars(Boot \/ \E t \in Task : Slice(t))

-----------------------------------------------------------------------------
(* Safety *)

\* However calls, dependents, stages and cancellations overlap, the own set-up
\* of a component begins at most once in the life of the process.
SetUpOnce == \A d \in Domain : began[d] <= 1

\* It begins when all dependencies are set up.  One that its stage runs also
\* waits for the after_dependencies announced with it, until they are set up or
\* have failed.
DependenciesFirst ==
  /\ \A d \in Domain : began[d] > 0 => plan.deps[d] \subseteq components
  /\ \A d \in Domain, s \in Stages :
       stage = s /\ d \in plan.stages[s].domains /\ pc[<<d, "stage">>] \in {"setup", "flows", "entries"} =>
         \A a \in plan.after[d] \intersect plan.stages[s].announced :
           a \in components \/ future[a] \notin {"none", "pending"}

\* The answers of all calls agree, for ever: True says that the domain is set
\* up, and without a cancellation anything else says that it never will be.
AnswersAgree ==
  \A t \in Task : pc[t] = "returned" =>
    /\ answer[t] = "true" => DomainOf(t) \in components
    /\ ~mayCancel /\ answer[t] # "true" => DomainOf(t) \notin components

\* A future of DATA_SETUP_DONE that nobody will set: its domain had failed when
\* it was announced, or was announced again before it was over.
Orphan(d, s) ==
  /\ done[d][s] = "pending"
  /\ tracked[d] # s \/ (future[d] \notin {"none", "pending"} /\ d \notin components)

\* Whatever a call or a gather awaits has a task that will settle it, whoever
\* has been cancelled: but for orphans, and for domains that are announced and
\* that nobody has asked for yet.
HasRunner(d) == \E t \in Task : DomainOf(t) = d /\ pc[t] \in Running
WaitsCovered ==
  /\ \A d \in Domain : future[d] = "pending" => HasRunner(d)
  /\ \A t \in Task : pc[t] = "awaiting" => future[DomainOf(t)] # "none"
  /\ \A t \in Task, d \in Domain :
       /\ <<"future", d>> \in asked[t] => future[d] # "none"
       /\ <<"task", d>> \in asked[t] =>
            pc[<<d, "dependency">>] \in Running \/ answer[<<d, "dependency">>] # "pending"
       /\ \A s \in Stages : <<"done", d, s>> \in asked[t] /\ done[d][s] = "pending" =>
            Orphan(d, s) \/ future[d] = "none" \/ HasRunner(d)

\* Set-ups that await each other as dependencies never do so in a circle,
\* however the dependencies of the plan go round.
AwaitedBy(d) == {e \in Domain : \E t \in Task : DomainOf(t) = d /\ pc[t] = "gathering" /\ Asked(t, e)}
AwaitedBelow(d) ==
  {x \in Domain : \A S \in SUBSET Domain :
     AwaitedBy(d) \subseteq S /\ (\A y \in S : AwaitedBy(y) \subseteq S) => x \in S}
NoCircularWait == \A d \in Domain : d \notin AwaitedBelow(d)

-----------------------------------------------------------------------------
(* Liveness *)

\* Every call returns, although set-ups wait for each other along dependencies
\* and after_dependencies and some of these form a cycle, if nothing is
\* cancelled and no future is orphaned.
SetupsReturn ==
  \A t \in Task :
    ~mayCancel /\ pc[t] # "idle" ~> pc[t] = "returned" \/ \E d \in Domain, s \in Stages : Orphan(d, s)

-----------------------------------------------------------------------------
(* What the documentation says, and the code does not do *)

\* async_set_domains_to_be_loaded: "Keep track of domains which will load but
\* have not yet finished loading": nobody waits for one that has finished.
AwaitsUnfinished ==
  ~mayCancel =>
    \A t \in Task, d \in Domain, s \in Stages :
      pc[t] = "gathering" /\ <<"done", d, s>> \in asked[t] => ~Orphan(d, s)
=============================================================================
