------------------------------ MODULE ModelRouting ------------------------------
(***************************************************************************)
(* route of agentos/models/router.py: the model one run of an agent gets.  *)
(* A decision: what it depends on is chosen in the initial state.          *)
(***************************************************************************)
EXTENDS Integers, FiniteSets, ModelRegistry

CONSTANTS
  KeySets,     \* sets of providers with a key
  Scores,      \* complexity scores of a task
  MaxTiers,    \* tiers policies bound their agents by
  Liked,       \* the models a policy prefers, "none" of them
  Pins         \* what callers force: "none", a model, or one that is unknown

ASSUME RoutingAssumption == Scores \subseteq Nat /\ MaxTiers \subseteq 1 .. 3

VARIABLES routeFor, routed

routingVars == <<routeFor, routed>>

\* The agent's policy and tolerance, the task's complexity and the number of
\* its risky words, what the agent's record suggests, and what the budget
\* says about the estimate.
RouteQuestion ==
  [base : 1 .. 3, max : MaxTiers, score : Scores, risk : 0 .. 2,
   tolerance : {"minimal", "low", "high"}, bump : -1 .. 1, keys : KeySets,
   liked : Liked, pin : Pins,
   budget : {"within", "downgrade", "reject"}]

Lower(a, b) == IF a < b THEN a ELSE b

Adjust(tolerance) == CASE tolerance = "minimal" -> -1 [] tolerance = "high" -> 1 [] OTHER -> 0

\* Complexity raises the tier of all but executives, up to the bound.
ComplexityTier(q) ==
  Lower(IF q.score >= 6 THEN Lower(q.base + 1, 3) ELSE q.base, q.max)

\* Risky words raise it for agents of minimal tolerance, and several of them
\* for agents of high tolerance.
RiskCounts(q) ==
  \/ q.risk >= 1 /\ Adjust(q.tolerance) < 0
  \/ q.risk >= 2 /\ Adjust(q.tolerance) > 0

RiskTier(q) ==
  LET tier == ComplexityTier(q)
  IN  IF RiskCounts(q) /\ q.score + q.risk + Adjust(q.tolerance) >= 5 /\ tier < Lower(q.max, 3)
      THEN tier + 1 ELSE tier

\* A weak record raises it, a strong one lowers it.
TierFor(q) ==
  LET tier == RiskTier(q)
  IN  CASE q.bump > 0 /\ tier < q.max -> tier + 1
        [] q.bump < 0 -> tier - 1
        [] OTHER -> tier

\* The model the policy prefers, if it can be had; else the cheapest that has a
\* provider, of the tier or of those to fall back on. (No circuit is open here,
\* see ModelFailover.)
HasProvider(q, m) == ModelDefs[m].provider \in Configured(q.keys)

Prefers(q) == q.liked \in Models /\ HasProvider(q, q.liked)

Choice(q) ==
  LET models == Cheapest(TierFor(q)) \o Cheapest(2) \o Cheapest(1)
      first  == CHOOSE i \in DOMAIN models :
                  HasProvider(q, models[i]) /\ \A j \in 1 .. i - 1 : ~HasProvider(q, models[j])
  IN  IF Prefers(q) THEN q.liked ELSE models[first]

\* A downgrade takes the cheapest model of the tier below, whether it can be
\* had or not; where there is no tier below, the budget rejects. What costs
\* nothing is approved unseen.
Budgeted(q) ==
  LET model == Choice(q) IN
  IF q.budget = "within" \/ ModelDefs[model].price = 0 THEN <<model>>
  ELSE IF q.budget = "downgrade" /\ TierFor(q) > 0 THEN <<Cheapest(TierFor(q) - 1)[1]>>
  ELSE <<"rejected">>

\* What a caller forces is taken without a look at tiers, keys or the budget.
Routed(q) ==
  IF q.pin = "none" THEN Budgeted(q) ELSE IF q.pin \in Models THEN <<q.pin>> ELSE <<"rejected">>

RouteOpen == <<>>

RoutingInit == routeFor \in RouteQuestion /\ routed = RouteOpen

RoutingNext ==
  /\ routed = RouteOpen
  /\ routed' = Routed(routeFor)
  /\ UNCHANGED routeFor

-----------------------------------------------------------------------------
(* Properties *)

\* Complexity, risk and record together never take a tier above the bound of
\* the policy, nor more than one below it where the policy starts; and the
\* model of an approved run is of that tier unless the tier has no model, the
\* policy prefers one or the caller forces one.
RouteInBounds ==
  routed # RouteOpen /\ routeFor.base <= routeFor.max =>
    /\ TierFor(routeFor) \in routeFor.base - 1 .. routeFor.max
    /\ routed[1] # "rejected" /\ routeFor.budget = "within" /\ routeFor.pin = "none" =>
         \/ Prefers(routeFor) /\ routed[1] = routeFor.liked
         \/ ModelDefs[routed[1]].tier = TierFor(routeFor)
         \/ \A m \in Models : ModelDefs[m].tier = TierFor(routeFor) => ~HasProvider(routeFor, m)

=============================================================================
