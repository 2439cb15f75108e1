----------------------------- MODULE ModelFailover -----------------------------
(***************************************************************************)
(* Where a model call goes when the model fails: _call_with_failover of    *)
(* agentos/agents/runtime.py, failover and CircuitBreaker of               *)
(* models/router.py. All calls of a process share the circuits.            *)
(***************************************************************************)
EXTENDS FiniteSets, ModelRegistry, SequencesExt

CONSTANTS
  ProviderSets,     \* sets of providers with a key
  ModelCalls,       \* calls under way at the same time
  FailLimit,        \* failures in a row that open a circuit; 3 by default
  MaxModelFailures   \* bound on the failures of a behaviour

ASSUME FailoverAssumption == FailLimit \in Nat \ {0} /\ MaxModelFailures \in Nat

VARIABLES
  withKey,          \* the providers with a key
  circuits,         \* per model, failures in a row and whether the cooldown is over
  modelCall,        \* per call, how far it is and the models it used, in order
  failedProviders,  \* history: the providers whose models failed
  modelFailures     \* history: how many failures there were

failoverVars == <<withKey, circuits, modelCall, failedProviders, modelFailures>>

Closed == [failures |-> 0, cooled |-> FALSE]

FailoverTypeOK ==
  /\ withKey \in ProviderSets
  /\ circuits \in [Models -> [failures : 0 .. FailLimit, cooled : BOOLEAN]]
  /\ \A c \in ModelCalls :
       /\ modelCall[c].at \in {"idle", "asking", "answered", "error"}
       /\ modelCall[c].used \in Seq(Models) /\ Len(modelCall[c].used) <= 3
  /\ failedProviders \subseteq Providers
  /\ modelFailures \in 0 .. MaxModelFailures

FailoverInit ==
  /\ withKey \in ProviderSets
  /\ circuits = [m \in Models |-> Closed]
  /\ modelCall = [c \in ModelCalls |-> [at |-> "idle", used |-> <<>>]]
  /\ failedProviders = {} /\ modelFailures = 0

-----------------------------------------------------------------------------
(* The circuits. One that is open closes when somebody looks at it after   *)
(* its cooldown; until then a failure counts on.                           *)

IsOpen(circuit) == circuit.failures = FailLimit /\ ~circuit.cooled

AfterModelFailure(circuit) ==
  [failures |-> IF circuit.failures < FailLimit THEN circuit.failures + 1 ELSE FailLimit,
   cooled |-> FALSE]

LookedAt(circuit) == IF circuit.cooled THEN Closed ELSE circuit

CanServe(m) == ModelDefs[m].provider \in Configured(withKey)

\* _available, of a circuit as somebody looks at it.
Available(states, m) == ~IsOpen(states[m]) /\ CanServe(m)

\* The fallbacks of the model, then the models of tier 2 and of tier 1.
FailoverOrder(m) ==
  ModelDefs[m].fallbacks
    \o SelectSeq(ByTier(2) \o ByTier(1),
                 LAMBDA n : n # m /\ ~Contains(ModelDefs[m].fallbacks, n))

\* What stands before the echo, which needs no key, and shares the provider.
Siblings(m) ==
  LET order == FailoverOrder(m)
  IN  {n \in Models : /\ ModelDefs[n].provider = ModelDefs[m].provider
                      /\ \E i \in DOMAIN order : order[i] = n /\ \A j \in 1 .. i : order[j] # "echo"}

\* Every order comes to the echo, and past two models of one provider before
\* it comes to another's.
ASSUME OrderAssumption ==
  \A m \in Models : ModelDefs[m].provider # "echo" =>
    /\ FailoverOrder(m) \in Seq(Models)
    /\ \E i \in DOMAIN FailoverOrder(m) : FailoverOrder(m)[i] = "echo"
    /\ \A n \in Siblings(m) : n # m /\ Siblings(n) = {}

\* failover: the failure counts for the circuit, then the first model in
\* order that is available is taken, if there is one (its place, or 0).
FirstAvailable(states, order) == SelectInSeq(order, LAMBDA n : Available(states, n))

\* Those up to the one that is taken were looked at.
LookedUpTo(states, order, first) ==
  [m \in Models |-> IF \E i \in DOMAIN order : order[i] = m /\ (first = 0 \/ i <= first)
                    THEN LookedAt(states[m]) ELSE states[m]]

Using(c) == Last(modelCall[c].used)

-----------------------------------------------------------------------------
\* route's choice: a model that is available, or the one a budget goes down
\* to, which may have no provider (see ModelRouting).
StartModelCall(c) ==
  /\ modelCall[c].at = "idle"
  /\ \E m \in Models :
       /\ Available(circuits, m) \/ \E t \in 0 .. 2 : m = Cheapest(t)[1]
       /\ modelCall' = [modelCall EXCEPT ![c] = [at |-> "asking", used |-> <<m>>]]
  /\ UNCHANGED <<withKey, circuits, failedProviders, modelFailures>>

ModelAnswers(c) ==
  /\ modelCall[c].at = "asking" /\ CanServe(Using(c))
  /\ modelCall' = [modelCall EXCEPT ![c].at = "answered"]
  /\ circuits' = [circuits EXCEPT ![Using(c)] = Closed]
  /\ UNCHANGED <<withKey, failedProviders, modelFailures>>

\* Mutant: two models are asked at most.
GoOnOnce(call, order, first) ==
  IF first = 0 \/ Len(call.used) = 2 THEN [call EXCEPT !.at = "error"]
  ELSE IF Contains(call.used, order[first]) THEN [call EXCEPT !.at = "error"]
  ELSE [call EXCEPT !.used = Append(call.used, order[first])]

\* The next model to ask, unless it was asked before or three were: then the
\* error is the call's result.
GoOnCall(call, order, first) ==
  IF first = 0 \/ Len(call.used) = 3 THEN [call EXCEPT !.at = "error"]
  ELSE IF Contains(call.used, order[first]) THEN [call EXCEPT !.at = "error"]
  ELSE [call EXCEPT !.used = Append(call.used, order[first])]

FailOver(c) ==
  LET m      == Using(c)
      failed == [circuits EXCEPT ![m] = AfterModelFailure(@)]
      order  == FailoverOrder(m)
      first  == FirstAvailable(failed, order)
  IN  /\ circuits' = LookedUpTo(failed, order, first)
      /\ modelCall' = [modelCall EXCEPT ![c] = GoOnCall(@, order, first)]

\* The echo is offline and fails only where a test makes it.
ModelFails(c) ==
  /\ modelCall[c].at = "asking" /\ CanServe(Using(c)) /\ ModelDefs[Using(c)].provider # "echo"
  /\ modelFailures < MaxModelFailures
  /\ FailOver(c)
  /\ failedProviders' = failedProviders \cup {ModelDefs[Using(c)].provider}
  /\ modelFailures' = modelFailures + 1
  /\ UNCHANGED withKey

NoProvider(c) ==
  /\ modelCall[c].at = "asking" /\ ~CanServe(Using(c))
  /\ FailOver(c)
  /\ UNCHANGED <<withKey, failedProviders, modelFailures>>

NextModelCall(c) ==
  /\ modelCall[c].at \in {"answered", "error"}
  /\ modelFailures < MaxModelFailures
  /\ modelCall' = [modelCall EXCEPT ![c] = [at |-> "idle", used |-> <<>>]]
  /\ UNCHANGED <<withKey, circuits, failedProviders, modelFailures>>

CircuitCools(m) ==
  /\ IsOpen(circuits[m])
  /\ circuits' = [circuits EXCEPT ![m].cooled = TRUE]
  /\ UNCHANGED <<withKey, modelCall, failedProviders, modelFailures>>

FailoverNext ==
  \/ \E c \in ModelCalls :
       \/ StartModelCall(c) \/ ModelAnswers(c) \/ ModelFails(c) \/ NoProvider(c)
       \/ NextModelCall(c)
  \/ \E m \in Models : CircuitCools(m)

-----------------------------------------------------------------------------
(* Properties *)

\* "one flaky provider cannot stall the whole organization": while all
\* failures are those of one provider, a call that went to a model with a
\* provider gets an answer, however the calls share the circuits.
OneFlakyStallsNobody ==
  \A c \in ModelCalls :
    modelCall[c].at = "error" /\ CanServe(modelCall[c].used[1]) => Cardinality(failedProviders) > 1

\* A call only surfaces an error "when nothing is available": whatever it did
\* not ask has no provider or an open circuit. The code gives up as soon as
\* the next fallback is one it has asked.
FailoverExhausts ==
  \A c \in ModelCalls : modelCall[c].at = "error" =>
    \A m \in Models \ ToSet(modelCall[c].used) :
      m \in ToSet(FailoverOrder(Using(c))) => ~Available(circuits, m)
=============================================================================
