-------------------------- MODULE MCSetupComponent --------------------------
(* Manifests and stages that let set-ups wait for each other in every way.  *)
EXTENDS SetupComponent

CONSTANTS a, b, c

On(x, y) == [d \in Domain |-> IF d = x THEN y ELSE {}]
Nothing == [d \in Domain |-> {}]
OneStage(deps, after) ==
  [deps |-> deps, after |-> after, stages |-> <<[announced |-> Domain, domains |-> Domain]>>]

\* a and b after each other's chain, a domain with two ways to another, cycles
\* of dependencies and of a dependency with an after_dependency, two stages.
MCPlans == {
  OneStage(On(a, {b}), On(b, {c})),
  OneStage(On(a, {b, c}), Nothing),
  OneStage([Nothing EXCEPT ![a] = {b, c}, ![b] = {c}], Nothing),
  OneStage([Nothing EXCEPT ![a] = {b}, ![b] = {a}], On(c, {a})),
  OneStage([Nothing EXCEPT ![a] = {b}, ![c] = {b}], On(b, {a})),
  [deps |-> On(c, {a}), after |-> On(b, {a}),
   stages |-> <<[announced |-> {a}, domains |-> {a}], [announced |-> {b, c}, domains |-> {b, c}]>>],
  [deps |-> On(a, {b}), after |-> On(c, {b}),
   stages |-> <<[announced |-> {a, b}, domains |-> {a}], [announced |-> {b, c}, domains |-> {b, c}]>>]}
=============================================================================
