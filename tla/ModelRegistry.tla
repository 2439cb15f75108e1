----------------------------- MODULE ModelRegistry -----------------------------
(***************************************************************************)
(* agentos/registries/model_registry.py: the models the system starts with *)
(* and how they are listed. Context windows and capabilities, which nobody *)
(* decides by, are left out.                                               *)
(***************************************************************************)
EXTENDS Naturals, Sequences, TLC

\* Tiers t0 to t3; the price of a million tokens in and one out, in cents.
ModelDef(provider, tier, price, fallbacks) ==
  [provider |-> provider, tier |-> tier, price |-> price, fallbacks |-> fallbacks]

ModelDefs ==
     "claude-sonnet" :> ModelDef("anthropic", 3, 1800, <<"deepseek-pro", "glm-pro">>)
  @@ "deepseek-pro" :> ModelDef("deepseek", 2, 137, <<"glm-pro", "claude-sonnet">>)
  @@ "glm-pro" :> ModelDef("glm", 2, 250, <<"deepseek-pro">>)
  @@ "deepseek-flash" :> ModelDef("deepseek", 1, 35, <<"glm-flash", "local">>)
  @@ "glm-flash" :> ModelDef("glm", 1, 40, <<"deepseek-flash">>)
  @@ "local" :> ModelDef("openai_compat", 1, 0, <<"deepseek-flash">>)
  @@ "deterministic" :> ModelDef("echo", 0, 0, <<>>)
  @@ "echo" :> ModelDef("echo", 2, 0, <<>>)

Models == DOMAIN ModelDefs

Providers == {ModelDefs[m].provider : m \in Models}

\* What settings without any key give, and what a key adds.
Configured(keys) == {"echo"} \cup keys

\* by_tier lists by id.
ByTier(tier) ==
  SelectSeq(<<"claude-sonnet", "deepseek-flash", "deepseek-pro", "deterministic", "echo",
              "glm-flash", "glm-pro", "local">>, LAMBDA m : ModelDefs[m].tier = tier)

\* pick_for_provider takes the cheapest first.
Cheapest(tier) ==
  SortSeq(ByTier(tier), LAMBDA a, b : ModelDefs[a].price < ModelDefs[b].price)

\* Every model is listed under its tier and under no other, and the model of
\* a tier that needs no key is where a route falls back to.
ASSUME RegistryAssumption ==
  /\ \A tier \in 0 .. 3 :
       /\ Cheapest(tier) \in Seq(Models)
       /\ {Cheapest(tier)[i] : i \in DOMAIN Cheapest(tier)} = {m \in Models : ModelDefs[m].tier = tier}
  /\ "echo" \in Models /\ ModelDefs["echo"].provider = "echo" /\ ModelDefs["echo"].tier = 2
  /\ "rejected" \notin Models
=============================================================================
