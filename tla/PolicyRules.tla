------------------------------ MODULE PolicyRules ------------------------------
(***************************************************************************)
(* evaluate of agentos/security/policy.py and the first steps of execute   *)
(* in tools/executor.py: what a list of hard policies, an agent's          *)
(* permission and a tool's risk make of one call. A decision.              *)
(***************************************************************************)
EXTENDS Naturals, Sequences

CONSTANT MaxPolicies   \* bound on the length of the list of policies

ASSUME PolicyAssumption == MaxPolicies \in Nat

VARIABLES policyFor, vetted

policyVars == <<policyFor, vetted>>

\* A policy's criteria name nothing, what the call has, or something else.
\* (That a criterion names nothing is the same as that it names the call's.)
Criteria == {"tools", "agents", "roles", "environments", "arg_pattern"}

\* At most one criterion names something else; a policy may be disabled.
Policy ==
  [kind : {"deny_tool", "restrict_scope", "require_approval"},
   other : {"nothing"} \cup Criteria, enabled : BOOLEAN]

PolicyQuestion ==
  [policies : UNION {[1 .. n -> Policy] : n \in 0 .. MaxPolicies}, emergency : BOOLEAN,
   permission : {"allow", "deny"}, risk : {"low", "high"}]

Matches(policy) == policy.enabled /\ policy.other \notin Criteria

\* Mutant: the first policy that matches decides.
EvaluateFirst(q) ==
  LET hits == SelectSeq(q.policies, Matches)
  IN  CASE q.emergency -> "emergency"
        [] ~q.emergency /\ hits = <<>> -> "allow"
        [] OTHER -> hits[1].kind

\* The stop comes first, then a denial, a scope, an approval.
Evaluate(q) ==
  LET kinds == {q.policies[i].kind : i \in {j \in DOMAIN q.policies : Matches(q.policies[j])}}
  IN  CASE q.emergency -> "emergency"
        [] ~q.emergency /\ "deny_tool" \in kinds -> "deny_tool"
        [] ~q.emergency /\ kinds \cap {"deny_tool", "restrict_scope"} = {"restrict_scope"} -> "restrict_scope"
        [] ~q.emergency /\ kinds = {"require_approval"} -> "require_approval"
        [] OTHER -> "allow"

\* A scope replaces the agent's own permission. A call of a tool of high risk,
\* or one a policy wants approved, goes to a human.
Vetted(q) ==
  LET decision == Evaluate(q)
  IN  IF \/ decision \in {"emergency", "deny_tool"}
         \/ decision # "restrict_scope" /\ q.permission = "deny"
      THEN "refused"
      ELSE IF decision = "require_approval" \/ q.risk = "high" THEN "asks"
      ELSE IF decision = "restrict_scope" THEN "runs in scope" ELSE "runs"

PolicyInit == policyFor \in PolicyQuestion /\ vetted = "open"

PolicyNext ==
  /\ vetted = "open"
  /\ vetted' = Vetted(policyFor)
  /\ UNCHANGED policyFor

-----------------------------------------------------------------------------
(* Properties *)

Backwards(s) == [i \in DOMAIN s |-> s[Len(s) + 1 - i]]

\* What becomes of a call depends on which policies match it and never on
\* where they stand in the list, defaults first and additions after them; and
\* a denial that matches holds against everything else.
OrderIsImmaterial ==
  vetted # "open" =>
    /\ Vetted([policyFor EXCEPT !.policies = Backwards(@)]) = vetted
    /\ \A i \in DOMAIN policyFor.policies :
         Matches(policyFor.policies[i]) /\ policyFor.policies[i].kind = "deny_tool" => vetted = "refused"
=============================================================================
