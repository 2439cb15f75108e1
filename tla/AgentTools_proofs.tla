---------------------------- MODULE AgentTools_proofs ----------------------------
(***************************************************************************)
(* Proofs about ToolCall and AgentLoop, and about the two side by side, as *)
(* MCAgentTools runs them. Of tool calls, for any callers, tools,          *)
(* thresholds and retries: types, approvals, circuits and the emergency    *)
(* stop. Of the loop, for any calls and any bounds on rounds, reminders    *)
(* and repairs: types, answers, calls, the guard and verification. Of     *)
(* both that no step goes in a circle. That calls and runs end is liveness *)
(* then, and only model-checked.                                           *)
(***************************************************************************)
EXTENDS MCAgentTools, FiniteSetTheorems, TLAPS

-----------------------------------------------------------------------------
(* Tool calls                                                              *)

\* Until it opens a circuit counts the streak; it is half-open only once cooled.
CircuitsInv ==
  \A t \in Tools :
    /\ circuits[t].until = "never" => circuits[t].failures = streak[t] /\ streak[t] < Threshold
    /\ circuits[t].until # "never" => streak[t] >= Threshold
    /\ circuits[t].half => circuits[t].until = "cooled"

\* Nobody has seen an opening of the circuit that has not happened.
ShieldInv ==
  /\ CoolingShields
  /\ \A c \in Callers : callPc[c] \in Through => seen[c] <= opened[tool[c]]

\* Handlers started under the stop are among the tries of the caller's call.
TriesInv ==
  \A c \in Callers :
    /\ stopped => late[c] <= attempt[c]
    /\ attempt[c] <= Tries(tool[c])
    /\ callPc[c] = "admitted" => attempt[c] = 0
    /\ callPc[c] = "vetted" => attempt[c] = 0
    /\ callPc[c] = "backoff" => attempt[c] < Tries(tool[c])

-----------------------------------------------------------------------------

LEMMA AskedType ==
  ASSUME CallTypeOK, NEW t \in Tools
  PROVE  /\ Asked(t) \in [Tools -> Circuit]
         /\ \A s \in Tools : /\ Asked(t)[s].failures = circuits[s].failures
                             /\ Asked(t)[s].until = circuits[s].until
                             /\ s # t => Asked(t)[s] = circuits[s]
         /\ Asked(t)[t].half <=> CircuitState(t) = "half_open"
<1>1. circuits \in [Tools -> Circuit]
  BY DEF CallTypeOK
<1>2. \A s \in Tools : circuits[s] \in Circuit
  BY <1>1
<1>3. Asked(t) = [circuits EXCEPT ![t] = [circuits[t] EXCEPT !.half = CircuitState(t) = "half_open"]]
  BY DEF Asked
<1>4. (CircuitState(t) = "half_open") \in BOOLEAN
  OBVIOUS
<1>5. PICK b \in BOOLEAN : b <=> CircuitState(t) = "half_open"
  BY <1>4
<1>6. Asked(t) = [circuits EXCEPT ![t] = [circuits[t] EXCEPT !.half = b]]
  BY <1>3, <1>4, <1>5
<1>. QED
  BY <1>1, <1>2, <1>5, <1>6 DEF Circuit

LEMMA AfterFailureType ==
  ASSUME CallTypeOK, NEW t \in Tools
  PROVE  /\ AfterFailure(t) \in Circuit
         /\ Trips(t) => AfterFailure(t) = [failures |-> 0, until |-> "cooling", half |-> FALSE]
         /\ ~Trips(t) => /\ AfterFailure(t).failures = circuits[t].failures + 1
                         /\ AfterFailure(t).until = circuits[t].until
                         /\ AfterFailure(t).half = FALSE
<1>1. circuits[t] \in Circuit
  BY DEF CallTypeOK
<1>2. CASE Trips(t)
  <2>1. AfterFailure(t) = [failures |-> 0, until |-> "cooling", half |-> FALSE]
    BY <1>2 DEF AfterFailure
  <2>. QED
    BY <1>2, <2>1 DEF Circuit
<1>3. CASE ~Trips(t)
  <2>1. AfterFailure(t) = [circuits[t] EXCEPT !.failures = @ + 1, !.half = FALSE]
    BY <1>3 DEF AfterFailure
  <2>2. circuits[t].failures + 1 \in Nat
    BY <1>1 DEF Circuit
  <2>3. PICK n \in Nat : n = circuits[t].failures + 1
    BY <2>2
  <2>4. AfterFailure(t) = [circuits[t] EXCEPT !.failures = n, !.half = FALSE]
    BY <2>1, <2>3
  <2>5. AfterFailure(t) = [failures |-> n, until |-> circuits[t].until, half |-> FALSE]
    BY <1>1, <2>4 DEF Circuit
  <2>6. circuits[t].until \in {"never", "cooling", "cooled"}
    BY <1>1 DEF Circuit
  <2>. QED
    BY <1>3, <2>3, <2>5, <2>6 DEF Circuit
<1>. QED
  BY <1>2, <1>3

LEMMA HealthyType == Healthy \in Circuit
BY DEF Healthy, Circuit

LEMMA CallTypeInit == CallInit => CallTypeOK /\ TriesInv
<1> SUFFICES ASSUME CallInit PROVE CallTypeOK /\ TriesInv
  OBVIOUS
<1>1. 0 \in 0 .. Retries + 1 /\ "idle" \in {"idle", "vetted", "answered"} \cup Through
  BY ToolCallAssumption
<1>2. CallTypeOK
  BY ToolCallAssumption, HealthyType, <1>1 DEF CallInit, CallTypeOK
<1>3. \A c \in Callers : tool[c] = NoTool /\ attempt[c] = 0 /\ callPc[c] = "idle" /\ late[c] = 0
  BY DEF CallInit
<1>5. ASSUME NEW c \in Callers PROVE late[c] <= attempt[c] /\ attempt[c] <= Tries(tool[c])
  <2>1. Tries(tool[c]) \in Nat
    BY ToolCallAssumption DEF Tries
  <2>. QED
    BY <1>3, <2>1
<1>6. TriesInv
  BY <1>3, <1>5 DEF TriesInv
<1>. QED
  BY <1>2, <1>6

LEMMA CallTypeStep == CallTypeOK /\ TriesInv /\ [CallNext]_toolVars => CallTypeOK' 
<1> SUFFICES ASSUME CallTypeOK, TriesInv, [CallNext]_toolVars PROVE CallTypeOK'
  OBVIOUS
<1>. USE ToolCallAssumption DEF CallTypeOK, Goto, gateVars, callerVars
<1>1. ASSUME NEW c \in Callers, NEW t \in Tools, Vet(c, t) PROVE CallTypeOK'
  BY <1>1 DEF Vet
<1>2. ASSUME NEW c \in Callers, AskHuman(c) PROVE CallTypeOK'
  <2>1. tool[c] \in Tools
    BY <1>2 DEF AskHuman
  <2>2. askedFor' \in [Callers \X Tools -> Nat]
    BY <1>2, <2>1 DEF AskHuman
  <2>. QED
    BY <1>2, <2>2 DEF AskHuman
<1>3. ASSUME NEW c \in Callers, FailFast(c) PROVE CallTypeOK'
  BY <1>3 DEF FailFast
<1>4. ASSUME NEW c \in Callers, Admit(c) PROVE CallTypeOK'
  <2>1. tool[c] \in Tools
    BY <1>4 DEF Admit
  <2>2. Asked(tool[c]) \in [Tools -> Circuit]
    BY <2>1, AskedType
  <2>. QED
    BY <1>4, <2>1, <2>2 DEF Admit, Through
<1>5. ASSUME NEW c \in Callers, GiveUp(c) PROVE CallTypeOK'
  BY <1>5 DEF GiveUp
<1>6. ASSUME NEW c \in Callers, Invoke(c) PROVE CallTypeOK'
  <2>1. attempt[c] <= Retries
    BY <1>6 DEF Invoke, TriesInv, Tries
  <2>. QED
    BY <1>6, <2>1 DEF Invoke, Through
<1>7. ASSUME NEW c \in Callers, BackOff(c) PROVE CallTypeOK'
  BY <1>7 DEF BackOff, Through
<1>8. ASSUME NEW c \in Callers, Succeed(c) PROVE CallTypeOK'
  BY <1>8, HealthyType DEF Succeed
<1>9. ASSUME NEW c \in Callers, Fail(c) PROVE CallTypeOK'
  <2>1. tool[c] \in Tools
    BY <1>9 DEF Fail
  <2>2. AfterFailure(tool[c]) \in Circuit
    BY <2>1, AfterFailureType
  <2>3. opened' \in [Tools -> Nat] /\ streak' \in [Tools -> Nat] /\ circuits' \in [Tools -> Circuit]
    BY <1>9, <2>1, <2>2 DEF Fail
  <2>. QED
    BY <1>9, <2>3 DEF Fail
<1>10. ASSUME NEW c \in Callers, AnswerCall(c) PROVE CallTypeOK'
  BY <1>10 DEF AnswerCall
<1>11. ASSUME ReportHealth PROVE CallTypeOK'
  <2>1. \A t \in Tools : Asked(t)[t] \in Circuit
    BY AskedType
  <2>. QED
    BY <1>11, <2>1 DEF ReportHealth
<1>12. ASSUME NEW t \in Tools, CoolDown(t) PROVE CallTypeOK'
  BY <1>12 DEF CoolDown, Circuit
<1>13. CASE Engage
  BY <1>13 DEF Engage
<1>14. CASE Disengage
  BY <1>14 DEF Disengage
<1>15. ASSUME NEW c \in Callers, NEW t \in Gated, Decide(c, t) \/ SaveApproval(c, t) PROVE CallTypeOK'
  <2>1. t \in Tools
    OBVIOUS
  <2>2. CASE Decide(c, t)
    <3>1. askedFor[<<c, t>>] \in Nat /\ askedFor[<<c, t>>] > 0
      BY <2>1, <2>2 DEF Decide
    <3>2. askedFor' \in [Callers \X Tools -> Nat]
      BY <2>1, <2>2, <3>1 DEF Decide
    <3>. QED
      BY <2>2, <3>2 DEF Decide
  <2>3. CASE SaveApproval(c, t)
    BY <2>1, <2>3 DEF SaveApproval
  <2>. QED
    BY <1>15, <2>2, <2>3
<1>16. CASE UNCHANGED toolVars
  BY <1>16 DEF toolVars
<1>. QED
  BY <1>1, <1>2, <1>3, <1>4, <1>5, <1>6, <1>7, <1>8, <1>9, <1>10, <1>11, <1>12,
     <1>13, <1>14, <1>15, <1>16 DEF CallNext, CallStep

LEMMA TriesStep == CallTypeOK /\ TriesInv /\ [CallNext]_toolVars => TriesInv'
<1> SUFFICES ASSUME CallTypeOK, TriesInv, [CallNext]_toolVars PROVE TriesInv'
  OBVIOUS
<1>a. \A t : Tries(t) \in Nat /\ Tries(t) >= 1
  BY ToolCallAssumption DEF Tries
<1>b. /\ attempt \in [Callers -> Nat] /\ late \in [Callers -> Nat] /\ stopped \in BOOLEAN
      /\ callPc \in [Callers -> {"idle", "vetted", "answered"} \cup Through]
      /\ tool \in [Callers -> Tools \cup {NoTool}]
  BY ToolCallAssumption DEF CallTypeOK
<1>. USE <1>a, <1>b DEF TriesInv, Goto, gateVars, callerVars
<1>1. ASSUME NEW c \in Callers, NEW t \in Tools, Vet(c, t) PROVE TriesInv'
  BY <1>1 DEF Vet
<1>2. ASSUME NEW c \in Callers, AskHuman(c) \/ FailFast(c) \/ GiveUp(c) \/ AnswerCall(c) PROVE TriesInv'
  <2>1. /\ stopped' = stopped /\ late' = late /\ attempt' = attempt /\ tool' = tool
        /\ callPc' = [callPc EXCEPT ![c] = "idle"]
    BY <1>2 DEF AskHuman, FailFast, GiveUp, AnswerCall
  <2>. QED
    BY <2>1
<1>3. ASSUME NEW c \in Callers, Admit(c) PROVE TriesInv'
  BY <1>3 DEF Admit
<1>4. ASSUME NEW c \in Callers, Invoke(c) PROVE TriesInv'
  BY <1>4 DEF Invoke
<1>5. ASSUME NEW c \in Callers, BackOff(c) PROVE TriesInv'
  <2>1. attempt[c] < Tries(tool[c])
    BY ToolCallAssumption, <1>5 DEF BackOff, Tries
  <2>. QED
    BY <1>5, <2>1 DEF BackOff
<1>6. ASSUME NEW c \in Callers, Succeed(c) \/ Fail(c) PROVE TriesInv'
  <2>1. /\ stopped' = stopped /\ late' = late /\ attempt' = attempt /\ tool' = tool
        /\ callPc' = [callPc EXCEPT ![c] = "answered"]
    BY <1>6 DEF Succeed, Fail
  <2>. QED
    BY <2>1
<1>7. CASE Engage
  BY <1>7 DEF Engage
<1>8. CASE Disengage
  BY <1>8 DEF Disengage
<1>9. ASSUME UNCHANGED <<stopped, late, callerVars>> PROVE TriesInv'
  BY <1>9
<1>10. ASSUME NEW c \in Callers, NEW t \in Tools,
              CoolDown(t) \/ ReportHealth \/ Decide(c, t) \/ SaveApproval(c, t) \/ UNCHANGED toolVars
       PROVE  UNCHANGED <<stopped, late, callerVars>>
  BY <1>10 DEF CoolDown, ReportHealth, Decide, SaveApproval, toolVars
<1>11. CASE ReportHealth \/ UNCHANGED toolVars
  <2>1. UNCHANGED <<stopped, late, callerVars>>
    BY <1>11 DEF ReportHealth, toolVars
  <2>. QED
    BY <1>9, <2>1
<1>. QED
  BY ToolCallAssumption, <1>1, <1>2, <1>3, <1>4, <1>5, <1>6, <1>7, <1>8, <1>9, <1>10, <1>11
  DEF CallNext, CallStep

LEMMA CircuitsStep == CallTypeOK /\ CircuitsInv /\ [CallNext]_toolVars => CircuitsInv'
<1> SUFFICES ASSUME CallTypeOK, CircuitsInv, [CallNext]_toolVars PROVE CircuitsInv'
  OBVIOUS
<1>a. /\ circuits \in [Tools -> Circuit] /\ streak \in [Tools -> Nat]
      /\ \A c \in Callers : callPc[c] # "idle" => tool[c] \in Tools
      /\ Threshold \in Nat /\ Threshold > 0
  BY ToolCallAssumption DEF CallTypeOK
\* Whether a circuit is half-open may be asked for at any time.
<1>b. ASSUME NEW t \in Tools, circuits' = Asked(t), UNCHANGED streak PROVE CircuitsInv'
  <2>1. circuits[t].half \/ circuits[t].until = "cooled" <=> CircuitState(t) = "half_open"
    BY <1>a DEF CircuitState, Circuit, CircuitsInv
  <2>. QED
    BY <1>b, <2>1, AskedType DEF CircuitsInv
<1>1. ASSUME NEW c \in Callers, Admit(c) PROVE CircuitsInv'
  <2>1. tool[c] \in Tools
    BY <1>a, <1>1 DEF Admit
  <2>. QED
    BY <1>1, <1>b, <2>1 DEF Admit
<1>2. ASSUME NEW c \in Callers, Succeed(c) PROVE CircuitsInv'
  <2>1. tool[c] \in Tools
    BY <1>a, <1>2 DEF Succeed
  <2>2. /\ circuits' = [circuits EXCEPT ![tool[c]] = Healthy]
        /\ streak' = [streak EXCEPT ![tool[c]] = 0]
    BY <1>2 DEF Succeed
  <2>. QED
    BY <1>a, <2>1, <2>2 DEF CircuitsInv, Healthy
<1>3. ASSUME NEW c \in Callers, Fail(c) PROVE CircuitsInv'
  <2>1. tool[c] \in Tools
    BY <1>a, <1>3 DEF Fail
  <2>2. PICK t \in Tools : t = tool[c]
    BY <2>1
  <2>3. /\ circuits' = [circuits EXCEPT ![t] = AfterFailure(t)]
        /\ streak' = [streak EXCEPT ![t] = @ + 1]
    BY <1>3, <2>2 DEF Fail
  <2>4. /\ circuits'[t] = AfterFailure(t) /\ streak'[t] = streak[t] + 1
        /\ \A s \in Tools \ {t} : circuits'[s] = circuits[s] /\ streak'[s] = streak[s]
    BY <1>a, <2>3
  <2>5. /\ circuits'[t].until = "never" => circuits'[t].failures = streak'[t] /\ streak'[t] < Threshold
        /\ circuits'[t].until # "never" => streak'[t] >= Threshold
        /\ circuits'[t].half => circuits'[t].until = "cooled"
    <3>1. CASE Trips(t)
      <4>1. circuits'[t] = [failures |-> 0, until |-> "cooling", half |-> FALSE]
        BY <2>4, <3>1, AfterFailureType
      <4>2. streak[t] + 1 >= Threshold
        BY <1>a, <3>1 DEF Trips, CircuitsInv, Circuit
      <4>. QED
        BY <2>4, <4>1, <4>2
    <3>2. CASE ~Trips(t)
      <4>1. /\ circuits'[t].until = circuits[t].until /\ ~circuits'[t].half
            /\ circuits'[t].failures = circuits[t].failures + 1
        BY <2>4, <3>2, AfterFailureType
      <4>2. circuits[t].failures + 1 < Threshold
        BY <1>a, <3>2 DEF Trips, Circuit
      <4>. QED
        BY <1>a, <2>4, <4>1, <4>2 DEF CircuitsInv
    <3>. QED
      BY <3>1, <3>2
  <2>. QED
    BY <2>4, <2>5 DEF CircuitsInv
<1>4. CASE ReportHealth
  <2>1. ASSUME NEW t \in Tools
        PROVE  /\ circuits'[t].failures = circuits[t].failures
               /\ circuits'[t].until = circuits[t].until
               /\ circuits'[t].half => circuits[t].until = "cooled"
    <3>1. circuits'[t] = Asked(t)[t]
      BY <1>4 DEF ReportHealth
    <3>2. CircuitState(t) = "half_open" => circuits[t].until = "cooled"
      BY <1>a DEF CircuitState, Circuit, CircuitsInv
    <3>. QED
      BY <3>1, <3>2, AskedType
  <2>2. streak' = streak
    BY <1>4 DEF ReportHealth
  <2>. QED
    BY <2>1, <2>2 DEF CircuitsInv
<1>5. ASSUME NEW t \in Tools, CoolDown(t) PROVE CircuitsInv'
  BY <1>a, <1>5 DEF CoolDown, CircuitsInv, Circuit
<1>6. ASSUME UNCHANGED <<circuits, streak>> PROVE CircuitsInv'
  BY <1>6 DEF CircuitsInv
<1>7. ASSUME NEW c \in Callers, NEW t \in Tools,
             Vet(c, t) \/ AskHuman(c) \/ FailFast(c) \/ GiveUp(c) \/ Invoke(c) \/ BackOff(c)
               \/ AnswerCall(c) \/ Decide(c, t) \/ SaveApproval(c, t)
      PROVE  UNCHANGED <<circuits, streak>>
  BY <1>7 DEF Vet, AskHuman, FailFast, GiveUp, Invoke, BackOff, AnswerCall, Decide, SaveApproval
<1>8. ASSUME NEW c \in Callers,
             AskHuman(c) \/ FailFast(c) \/ GiveUp(c) \/ Invoke(c) \/ BackOff(c) \/ AnswerCall(c)
      PROVE  UNCHANGED <<circuits, streak>>
  BY <1>8 DEF AskHuman, FailFast, GiveUp, Invoke, BackOff, AnswerCall
<1>9. Engage \/ Disengage \/ UNCHANGED toolVars => UNCHANGED <<circuits, streak>>
  BY DEF Engage, Disengage, toolVars
<1>. QED
  BY ToolCallAssumption, <1>1, <1>2, <1>3, <1>4, <1>5, <1>6, <1>7, <1>8, <1>9 DEF CallNext, CallStep

LEMMA ShieldStep ==
  CallTypeOK /\ CircuitsInv /\ ShieldInv /\ [CallNext]_toolVars => ShieldInv'
<1> SUFFICES ASSUME CallTypeOK, CircuitsInv, ShieldInv, [CallNext]_toolVars PROVE ShieldInv'
  OBVIOUS
<1>a. /\ circuits \in [Tools -> Circuit] /\ opened \in [Tools -> Nat] /\ seen \in [Callers -> Nat]
      /\ tool \in [Callers -> Tools \cup {NoTool}]
      /\ callPc \in [Callers -> {"idle", "vetted", "answered"} \cup Through]
      /\ \A c \in Callers : callPc[c] # "idle" => tool[c] \in Tools
      /\ \A c \in Callers : callPc[c] \in Through => callPc[c] # "idle"
  BY DEF CallTypeOK, Through
<1>b. /\ "idle" \notin Through /\ "vetted" \notin Through /\ "answered" \notin Through
      /\ "admitted" \in Through /\ "running" \in Through /\ "backoff" \in Through
  BY DEF Through
\* Circuits that do not start to cool, and callers let through before.
<1>c. ASSUME UNCHANGED <<opened, seen>>,
             \A c \in Callers : callPc'[c] \in Through => callPc[c] \in Through /\ tool'[c] = tool[c],
             \A t \in Tools : circuits'[t].until = "cooling" => circuits[t].until = "cooling"
      PROVE  ShieldInv'
  BY <1>a, <1>c DEF ShieldInv, CoolingShields
<1>1. ASSUME NEW c \in Callers, NEW t \in Tools, Vet(c, t) PROVE ShieldInv'
  BY <1>a, <1>b, <1>c, <1>1 DEF Vet, Goto, gateVars
<1>2. ASSUME NEW c \in Callers, AskHuman(c) \/ FailFast(c) \/ GiveUp(c) \/ AnswerCall(c) PROVE ShieldInv'
  <2>1. UNCHANGED <<opened, seen, tool, circuits>> /\ callPc' = [callPc EXCEPT ![c] = "idle"]
    BY <1>2 DEF AskHuman, FailFast, GiveUp, AnswerCall, Goto
  <2>. QED
    BY <1>a, <1>b, <1>c, <2>1
<1>3. ASSUME NEW c \in Callers, Admit(c) PROVE ShieldInv'
  <2>1. /\ tool[c] \in Tools /\ tool' = tool /\ opened' = opened
        /\ seen' = [seen EXCEPT ![c] = opened[tool[c]]] /\ callPc' = [callPc EXCEPT ![c] = "admitted"]
        /\ circuits' = Asked(tool[c]) /\ CircuitState(tool[c]) # "open"
    BY <1>a, <1>3 DEF Admit, Goto
  <2>2. \A t \in Tools : circuits'[t].until = circuits[t].until
    BY <2>1, AskedType
  <2>3. circuits[tool[c]].until # "cooling"
    BY <2>1 DEF CircuitState, CircuitsInv
  <2>4. ASSUME NEW d \in Callers, callPc'[d] \in Through
        PROVE  /\ circuits'[tool'[d]].until = "cooling" => seen'[d] < opened'[tool'[d]]
               /\ seen'[d] <= opened'[tool'[d]]
    <3>1. CASE d = c
      BY <1>a, <2>1, <2>2, <2>3, <3>1
    <3>2. CASE d # c
      BY <1>a, <2>1, <2>2, <2>4, <3>2 DEF ShieldInv, CoolingShields
    <3>. QED
      BY <3>1, <3>2
  <2>. QED
    BY <2>4 DEF ShieldInv, CoolingShields
<1>4. ASSUME NEW c \in Callers, Invoke(c) \/ BackOff(c) PROVE ShieldInv'
  <2>1. /\ UNCHANGED <<opened, seen, tool, circuits>> /\ callPc[c] \in Through
        /\ (callPc' = [callPc EXCEPT ![c] = "running"] \/ callPc' = [callPc EXCEPT ![c] = "backoff"])
    BY <1>4 DEF Invoke, BackOff, Goto, Through, gateVars
  <2>. QED
    BY <1>a, <1>c, <2>1
<1>5. ASSUME NEW c \in Callers, Succeed(c) PROVE ShieldInv'
  <2>1. /\ UNCHANGED <<opened, seen, tool>> /\ callPc' = [callPc EXCEPT ![c] = "answered"]
        /\ tool[c] \in Tools /\ circuits' = [circuits EXCEPT ![tool[c]] = Healthy]
    BY <1>a, <1>5 DEF Succeed, Goto
  <2>2. Healthy.until # "cooling"
    BY DEF Healthy
  <2>. QED
    BY <1>a, <1>b, <1>c, <2>1, <2>2
<1>6. ASSUME NEW c \in Callers, Fail(c) PROVE ShieldInv'
  <2>1. PICK t \in Tools : t = tool[c]
    BY <1>a, <1>6 DEF Fail
  <2>2. /\ UNCHANGED <<seen, tool>> /\ callPc' = [callPc EXCEPT ![c] = "answered"]
        /\ circuits' = [circuits EXCEPT ![t] = AfterFailure(t)]
    BY <1>6, <2>1 DEF Fail, Goto
  <2>3. CASE Trips(t)
    <3>1. opened' = [opened EXCEPT ![t] = @ + 1]
      BY <1>6, <2>1, <2>3 DEF Fail
    <3>2. \A d \in Callers : callPc'[d] \in Through =>
            callPc[d] \in Through /\ tool'[d] = tool[d] /\ tool[d] \in Tools /\ seen'[d] = seen[d]
      BY <1>a, <1>b, <2>2
    <3>3. \A s \in Tools : s # t => circuits'[s] = circuits[s] /\ opened'[s] = opened[s]
      BY <1>a, <2>2, <3>1
    <3>4. opened'[t] = opened[t] + 1
      BY <1>a, <3>1
    <3>. QED
      BY <1>a, <3>2, <3>3, <3>4 DEF ShieldInv, CoolingShields
  <2>4. CASE ~Trips(t)
    <3>1. opened' = opened
      BY <1>a, <1>6, <2>1, <2>4 DEF Fail
    <3>2. \A s \in Tools : circuits'[s].until = circuits[s].until
      BY <1>a, <2>2, <2>4, AfterFailureType
    <3>. QED
      BY <1>a, <1>b, <1>c, <2>2, <3>1, <3>2
  <2>. QED
    BY <2>3, <2>4
<1>7. CASE ReportHealth
  <2>1. \A t \in Tools : circuits'[t].until = circuits[t].until
    BY <1>7, AskedType DEF ReportHealth
  <2>. QED
    BY <1>7, <1>c, <2>1 DEF ReportHealth, callerVars
<1>8. ASSUME NEW t \in Tools, CoolDown(t) PROVE ShieldInv'
  <2>1. \A s \in Tools : circuits'[s].until = "cooling" => circuits[s].until = "cooling"
    BY <1>a, <1>8 DEF CoolDown, Circuit
  <2>. QED
    BY <1>8, <1>c, <2>1 DEF CoolDown, callerVars
<1>9. ASSUME NEW c \in Callers, NEW t \in Tools, Decide(c, t) \/ SaveApproval(c, t) PROVE ShieldInv'
  BY <1>9, <1>c DEF Decide, SaveApproval, callerVars
<1>10. CASE Engage \/ Disengage \/ UNCHANGED toolVars
  BY <1>10, <1>c DEF Engage, Disengage, toolVars, callerVars
<1>. QED
  BY ToolCallAssumption, <1>1, <1>2, <1>3, <1>4, <1>5, <1>6, <1>7, <1>8, <1>9, <1>10 DEF CallNext, CallStep

LEMMA ApprovalStep == CallTypeOK /\ ApprovalHolds /\ [CallNext]_toolVars => ApprovalHolds'
<1> SUFFICES ASSUME CallTypeOK, ApprovalHolds, [CallNext]_toolVars PROVE ApprovalHolds'
  OBVIOUS
<1>a. /\ tool \in [Callers -> Tools \cup {NoTool}]
      /\ callPc \in [Callers -> {"idle", "vetted", "answered"} \cup Through]
  BY DEF CallTypeOK
<1>b. "idle" \notin Through /\ "vetted" \notin Through /\ "answered" \notin Through
  BY DEF Through
\* An entry is never taken back, so only those newly let through matter.
<1>c. ASSUME vouched \subseteq vouched',
             \A c \in Callers : callPc'[c] \in Through => callPc[c] \in Through /\ tool'[c] = tool[c]
      PROVE  ApprovalHolds'
  BY <1>c DEF ApprovalHolds
<1>1. ASSUME NEW c \in Callers, NEW t \in Tools, Vet(c, t) PROVE ApprovalHolds'
  BY <1>a, <1>b, <1>c, <1>1 DEF Vet, Goto, gateVars
<1>2. ASSUME NEW c \in Callers, AskHuman(c) \/ FailFast(c) \/ GiveUp(c) \/ AnswerCall(c) PROVE ApprovalHolds'
  <2>1. UNCHANGED <<tool, vouched>> /\ callPc' = [callPc EXCEPT ![c] = "idle"]
    BY <1>2 DEF AskHuman, FailFast, GiveUp, AnswerCall, Goto, gateVars
  <2>. QED
    BY <1>a, <1>b, <1>c, <2>1
<1>3. ASSUME NEW c \in Callers, Admit(c) PROVE ApprovalHolds'
  <2>1. UNCHANGED <<tool, vouched>> /\ callPc' = [callPc EXCEPT ![c] = "admitted"] /\ Cleared(c)
    BY <1>3 DEF Admit, Goto, gateVars
  <2>2. tool[c] \in Gated => <<c, tool[c]>> \in vouched \cup Preapproved
    BY <2>1 DEF Cleared, Granted
  <2>. QED
    BY <1>a, <2>1, <2>2 DEF ApprovalHolds
<1>4. ASSUME NEW c \in Callers, Invoke(c) \/ BackOff(c) PROVE ApprovalHolds'
  <2>1. /\ UNCHANGED <<tool, vouched>> /\ callPc[c] \in Through
        /\ (callPc' = [callPc EXCEPT ![c] = "running"] \/ callPc' = [callPc EXCEPT ![c] = "backoff"])
    BY <1>4 DEF Invoke, BackOff, Goto, Through, gateVars
  <2>. QED
    BY <1>a, <1>c, <2>1
<1>5. ASSUME NEW c \in Callers, Succeed(c) \/ Fail(c) PROVE ApprovalHolds'
  <2>1. UNCHANGED <<tool, vouched>> /\ callPc' = [callPc EXCEPT ![c] = "answered"]
    BY <1>5 DEF Succeed, Fail, Goto, gateVars
  <2>. QED
    BY <1>a, <1>b, <1>c, <2>1
<1>6. ASSUME NEW c \in Callers, NEW t \in Tools, CoolDown(t) \/ Decide(c, t) \/ SaveApproval(c, t)
      PROVE  ApprovalHolds'
  BY <1>6, <1>c DEF CoolDown, Decide, SaveApproval, callerVars, gateVars
<1>7. CASE ReportHealth \/ Engage \/ Disengage \/ UNCHANGED toolVars
  BY <1>7, <1>c DEF ReportHealth, Engage, Disengage, toolVars, callerVars, gateVars
<1>8. ASSUME NEW t \in Tools, CoolDown(t) PROVE ApprovalHolds'
  BY <1>8, <1>c DEF CoolDown, callerVars, gateVars
<1>. QED
  BY ToolCallAssumption, <1>1, <1>2, <1>3, <1>4, <1>5, <1>6, <1>7, <1>8 DEF CallNext, CallStep

-----------------------------------------------------------------------------

LEMMA CallInvInit == CallInit => CircuitsInv /\ ShieldInv /\ ApprovalHolds
<1> SUFFICES ASSUME CallInit PROVE CircuitsInv /\ ShieldInv /\ ApprovalHolds
  OBVIOUS
<1>1. CircuitsInv
  BY ToolCallAssumption DEF CallInit, CircuitsInv, Healthy
<1>2. \A c \in Callers : callPc[c] \notin Through
  BY DEF CallInit, Through
<1>. QED
  BY <1>1, <1>2 DEF ShieldInv, CoolingShields, ApprovalHolds

LEMMA CallInvariant ==
  CallSpec => [](CallTypeOK /\ TriesInv /\ CircuitsInv /\ ShieldInv /\ ApprovalHolds)
BY CallTypeInit, CallInvInit, CallTypeStep, TriesStep, CircuitsStep, ShieldStep, ApprovalStep,
   PTL DEF CallSpec

\* The executor's state has its type: no call tries a handler more often
\* than settings allow, whatever the retries of concurrent calls.
THEOREM CallTypeCorrect == CallSpec => []CallTypeOK
BY CallInvariant, PTL

\* A gated tool's handler runs only where an approval was given at the start or
\* came to the task's memory.
THEOREM ApprovalsHold == CallSpec => []ApprovalHolds
BY CallInvariant, PTL

\* Under the emergency stop nobody starts more handlers than the tries of
\* the one call whose policy was read before.
THEOREM StopIsBounded == CallSpec => []StopLetsOnlyVettedCallsOn
<1>1. CallTypeOK /\ TriesInv => StopLetsOnlyVettedCallsOn
  <2> SUFFICES ASSUME CallTypeOK, TriesInv, stopped, NEW c \in Callers PROVE late[c] <= Tries(tool[c])
    BY DEF StopLetsOnlyVettedCallsOn
  <2>1. late[c] <= attempt[c] /\ attempt[c] <= Tries(tool[c])
    BY DEF TriesInv
  <2>2. late[c] \in Nat /\ attempt[c] \in Nat /\ Tries(tool[c]) \in Nat
    BY ToolCallAssumption DEF CallTypeOK, Tries
  <2>. QED
    BY <2>1, <2>2
<1>. QED
  BY CallInvariant, <1>1, PTL

\* A circuit is open exactly after Threshold failures in a row.
THEOREM CircuitsCount == CallSpec => []CircuitTellsStreak
<1>1. CallTypeOK /\ CircuitsInv => CircuitTellsStreak
  BY ToolCallAssumption DEF CallTypeOK, CircuitsInv, CircuitTellsStreak
<1>. QED
  BY CallInvariant, <1>1, PTL

\* Nobody is let through to a handler while its circuit cools.
THEOREM OpenCircuitsShield == CallSpec => []CoolingShields
<1>1. ShieldInv => CoolingShields
  BY DEF ShieldInv
<1>. QED
  BY CallInvariant, <1>1, PTL

\* Both gates of a call hold: for the gated tools an approval, given at the start
\* or found in the task's memory, which no decision of a request gives; and an
\* emergency stop that only lets calls on that were vetted before it.
THEOREM GatesHoldTogether == CallSpec => []GatesAreKept
<1>1. ApprovalHolds /\ StopLetsOnlyVettedCallsOn => GatesAreKept
  BY DEF GatesAreKept
<1>. QED
  BY ApprovalsHold, StopIsBounded, <1>1, PTL

\* A circuit says what the latest calls were, and does what it says.
THEOREM CircuitsAreSound == CallSpec => []CircuitIsSound
<1>1. CircuitTellsStreak /\ CoolingShields => CircuitIsSound
  BY DEF CircuitIsSound
<1>. QED
  BY CircuitsCount, OpenCircuitsShield, <1>1, PTL

-----------------------------------------------------------------------------
(* The loop                                                                *)

Stretch == {"answered", "tools", "ask"}
Leaving == {"guard", "verify", "over", "ended"}

\* Answers of one stretch of rounds.
PerStretch == MaxRounds + 1

\* An error leads out of the loop, and only the end is verified.
OutcomeInv ==
  /\ error # "none" => pc \in Leaving
  /\ verified => pc \in {"over", "ended"}
  /\ VerifiedIsClean

\* Before the first repair: nothing passes the guard that is not the work.
GuardInv ==
  pc \in {"verify", "over", "ended"} /\ repairs = 0 /\ error = "none" /\ raised = "nothing" => content = "work"

\* What has been executed is remembered, except what is yet to be executed.
Made(s) == s \in executed /\ ~(pc = "tools" /\ s \in todo)

ExecutedInv ==
  /\ pc = "tools" => todo \subseteq executed
  /\ raised = "NameError" => pc \in {"over", "ended"}
  /\ \A s \in Sigs :
       runs[s] <= (IF Made(s) THEN 1 ELSE 0) + (IF raised = "NameError" THEN 1 ELSE 0)

\* How many answers a run can have at each of its places.
AnswersInv ==
  /\ pc = "begin" => asked = 0 /\ round = 0 /\ repairs = 0
  /\ pc \in Stretch => round < MaxRounds
  /\ pc \in Stretch /\ repairs = 0 => asked <= round + 1
  /\ pc \in Stretch => asked <= repairs * PerStretch + round + 2
  /\ pc \in {"guard", "turn"} => asked <= PerStretch /\ repairs = 0
  /\ pc = "verify" => asked <= repairs * PerStretch + PerStretch + 1
  /\ pc = "repair" => repairs > 0 /\ asked <= repairs * PerStretch + 1
  /\ AnswersBounded

-----------------------------------------------------------------------------

LEMMA NoAnswerIsAnswer == NoAnswer \in Answers
BY DEF NoAnswer, Answers, Answer, Texts

LEMMA AnswersAreAnswers ==
  \A a \in Answers : a.error \in BOOLEAN /\ a.calls \subseteq Sigs /\ a.text \in Texts
BY DEF Answers, Answer

LEMMA OutcomeType ==
  ASSUME LoopTypeOK, NEW ok \in BOOLEAN, Outcome(ok)
  PROVE  /\ claims' \in BOOLEAN /\ failed' \in BOOLEAN
         /\ content' = content /\ verified' = verified
<1>1. CASE ok
  BY <1>1 DEF LoopTypeOK, Outcome
<1>2. CASE ~ok
  BY <1>2 DEF LoopTypeOK, Outcome
<1>. QED
  BY <1>1, <1>2

\* What the two ways to execute a call in a round have in common.
LEMMA ToolStep ==
  ASSUME LoopTypeOK, NEW s \in Sigs, ExecuteTool(s) \/ AwaitHuman(s)
  PROVE  /\ pc = "tools" /\ s \in todo /\ Execute(s)
         /\ claims' \in BOOLEAN /\ failed' \in BOOLEAN
         /\ UNCHANGED <<content, verified, answer, stretchVars, costVars, told, raised>>
         /\ \/ pc' = pc /\ error' = error
            \/ Return /\ error' = "approval"
<1>1. CASE ExecuteTool(s)
  BY <1>1, OutcomeType DEF ExecuteTool
<1>2. CASE AwaitHuman(s)
  BY <1>2, OutcomeType DEF AwaitHuman
<1>. QED
  BY <1>1, <1>2

LEMMA LoopTypeInit == LoopInit => LoopTypeOK
<1> SUFFICES ASSUME LoopInit PROVE LoopTypeOK
  OBVIOUS
<1>1. answer \in Answers
  BY NoAnswerIsAnswer DEF LoopInit
<1>2. runs \in [Sigs -> Nat] /\ asked \in Nat /\ tracked \in Nat
  BY DEF LoopInit
<1>3. round \in 0 .. MaxRounds /\ nudges \in 0 .. MaxNudges /\ repairs \in 0 .. MaxRepairs
  BY LoopAssumption DEF LoopInit
<1>. QED
  BY <1>1, <1>2, <1>3 DEF LoopInit, LoopTypeOK, Texts, Errors

LEMMA LoopTypeStep == LoopTypeOK /\ OutcomeInv /\ AnswersInv /\ [LoopNext]_vars => LoopTypeOK'
<1> SUFFICES ASSUME LoopTypeOK, OutcomeInv, AnswersInv, [LoopNext]_vars PROVE LoopTypeOK'
  OBVIOUS
<1>. USE LoopAssumption, AnswersAreAnswers
     DEF LoopTypeOK, stretchVars, callVars, resultVars, costVars, Errors
<1>1. CASE Reject
  BY <1>1 DEF Reject, Fails
<1>2. CASE Begin
  BY <1>2 DEF Begin, Receive
<1>3. CASE AnswerIsError
  BY <1>3 DEF AnswerIsError, Fails, Return
<1>4. CASE TakeCalls
  BY <1>4 DEF TakeCalls, Fresh
<1>5. CASE Nudge
  BY <1>5 DEF Nudge
<1>6. CASE TakeText
  BY <1>6 DEF TakeText, Return
<1>7. CASE ToolsDone
  BY <1>7 DEF ToolsDone
<1>8. CASE AskRaises
  BY <1>8 DEF AskRaises, Fails, Return
<1>9. CASE Guard
  BY <1>9 DEF Guard
<1>10. CASE TurnRaises
  BY <1>10 DEF TurnRaises, FinishWith, Texts
<1>11. ASSUME NEW a \in Answers, NEW s \in Sigs, TurnCalls(a, s) PROVE LoopTypeOK'
  BY <1>11 DEF TurnCalls, Receive
<1>12. CASE SkipVerify
  BY <1>12 DEF SkipVerify
<1>13. CASE RepairRaises
  BY <1>13 DEF RepairRaises, Fails
<1>14. CASE PostRun
  BY <1>14 DEF PostRun
<1>15. ASSUME NEW s \in Sigs, ExecuteTool(s) \/ AwaitHuman(s) PROVE LoopTypeOK'
  <2>1. runs' \in [Sigs -> Nat] /\ todo' \subseteq Sigs /\ UNCHANGED executed
    BY <1>15, ToolStep DEF Execute
  <2>. QED
    BY <1>15, <2>1, ToolStep DEF Return
<1>16. ASSUME NEW a \in Answers, NextRound(a) PROVE LoopTypeOK'
  BY <1>16 DEF NextRound, Receive
<1>17. ASSUME NEW a \in Answers, OutOfRounds(a) PROVE LoopTypeOK'
  BY <1>17 DEF OutOfRounds, Receive, Fails, Return
<1>19. ASSUME NEW a \in Answers, TurnText(a) PROVE LoopTypeOK'
  BY <1>19 DEF TurnText, Receive, FinishWith
<1>20. ASSUME NEW a \in Answers, Repair(a) PROVE LoopTypeOK'
  BY <1>20 DEF Repair, Receive
<1>21. ASSUME NEW present \in BOOLEAN, Verify(present) PROVE LoopTypeOK'
  BY <1>21 DEF Verify, Passes
<1>22. CASE Raise
  BY <1>22 DEF Raise
<1>23. CASE Ended \/ UNCHANGED vars
  BY <1>23 DEF Ended, vars
<1>. QED
  BY <1>1, <1>2, <1>3, <1>4, <1>5, <1>6, <1>7, <1>8, <1>9, <1>10, <1>11, <1>12, <1>13, <1>14,
     <1>15, <1>16, <1>17, <1>19, <1>20, <1>21, <1>22, <1>23 DEF LoopNext, Step

LEMMA OutcomeStep == LoopTypeOK /\ OutcomeInv /\ [LoopNext]_vars => OutcomeInv'
<1> SUFFICES ASSUME LoopTypeOK, OutcomeInv, [LoopNext]_vars PROVE OutcomeInv'
  OBVIOUS
<1>. USE DEF LoopTypeOK, OutcomeInv, VerifiedIsClean, Leaving, callVars, resultVars
<1>1. CASE Reject \/ AnswerIsError \/ AskRaises \/ RepairRaises
  BY <1>1 DEF Reject, AnswerIsError, AskRaises, RepairRaises, Fails, Return
<1>2. CASE Begin \/ TakeCalls \/ Nudge \/ TakeText \/ ToolsDone \/ Guard
  BY <1>2 DEF Begin, TakeCalls, Nudge, TakeText, ToolsDone, Guard, Return
<1>3. CASE TurnRaises
  BY <1>3 DEF TurnRaises, FinishWith
<1>4. CASE SkipVerify \/ PostRun \/ Raise
  BY <1>4 DEF SkipVerify, PostRun, Raise
<1>5. ASSUME NEW s \in Sigs, ExecuteTool(s) \/ AwaitHuman(s) PROVE OutcomeInv'
  BY <1>5, ToolStep DEF Return
<1>6. ASSUME NEW a \in Answers, NextRound(a) \/ Repair(a) PROVE OutcomeInv'
  BY <1>6 DEF NextRound, Repair
<1>7. ASSUME NEW a \in Answers, OutOfRounds(a) PROVE OutcomeInv'
  BY <1>7 DEF OutOfRounds, Fails, Return
<1>8. ASSUME NEW a \in Answers, TurnText(a) PROVE OutcomeInv'
  BY <1>8 DEF TurnText, FinishWith
<1>9. ASSUME NEW present \in BOOLEAN, Verify(present) PROVE OutcomeInv'
  BY <1>9 DEF Verify, Passes
<1>11. ASSUME NEW a \in Answers, NEW s \in Sigs, TurnCalls(a, s) PROVE OutcomeInv'
  BY <1>11 DEF TurnCalls
<1>10. CASE Ended \/ UNCHANGED vars
  BY <1>10 DEF Ended, vars
<1>. QED
  BY <1>1, <1>2, <1>3, <1>4, <1>5, <1>6, <1>7, <1>8, <1>9, <1>10, <1>11 DEF LoopNext, Step

LEMMA GuardStep == LoopTypeOK /\ OutcomeInv /\ GuardInv /\ [LoopNext]_vars => GuardInv'
<1> SUFFICES ASSUME LoopTypeOK, OutcomeInv, GuardInv, [LoopNext]_vars PROVE GuardInv'
  OBVIOUS
<1>. USE DEF LoopTypeOK, OutcomeInv, GuardInv, Leaving, stretchVars, callVars, resultVars
<1>1. CASE Reject \/ AnswerIsError \/ AskRaises \/ RepairRaises
  BY <1>1 DEF Reject, AnswerIsError, AskRaises, RepairRaises, Fails, Return
<1>2. CASE Begin \/ TakeCalls \/ Nudge \/ TakeText \/ ToolsDone \/ Guard
  BY <1>2 DEF Begin, TakeCalls, Nudge, TakeText, ToolsDone, Guard, Return, Enough
<1>3. CASE TurnRaises
  BY <1>3 DEF TurnRaises, FinishWith
<1>4. CASE SkipVerify \/ PostRun \/ Raise
  BY <1>4 DEF SkipVerify, PostRun, Raise
<1>5. ASSUME NEW s \in Sigs, ExecuteTool(s) \/ AwaitHuman(s) PROVE GuardInv'
  BY <1>5, ToolStep DEF Return
<1>6. ASSUME NEW a \in Answers, NextRound(a) \/ Repair(a) PROVE GuardInv'
  BY <1>6 DEF NextRound, Repair
<1>7. ASSUME NEW a \in Answers, OutOfRounds(a) PROVE GuardInv'
  BY <1>7 DEF OutOfRounds, Fails, Return
<1>8. ASSUME NEW a \in Answers, TurnText(a) PROVE GuardInv'
  BY <1>8 DEF TurnText, FinishWith
<1>9. ASSUME NEW present \in BOOLEAN, Verify(present) PROVE GuardInv'
  BY LoopAssumption, <1>9 DEF Verify, Passes
<1>11. ASSUME NEW a \in Answers, NEW s \in Sigs, TurnCalls(a, s) PROVE GuardInv'
  BY <1>11 DEF TurnCalls
<1>10. CASE Ended \/ UNCHANGED vars
  BY <1>10 DEF Ended, vars
<1>. QED
  BY <1>1, <1>2, <1>3, <1>4, <1>5, <1>6, <1>7, <1>8, <1>9, <1>10, <1>11 DEF LoopNext, Step

LEMMA ExecutedStep == LoopTypeOK /\ ExecutedInv /\ [LoopNext]_vars => ExecutedInv'
<1> SUFFICES ASSUME LoopTypeOK, ExecutedInv, [LoopNext]_vars PROVE ExecutedInv'
  OBVIOUS
<1>. USE DEF ExecutedInv, Made
<1>a. /\ runs \in [Sigs -> Nat] /\ todo \subseteq Sigs
      /\ \A s \in Sigs : runs[s] \in Nat
  BY DEF LoopTypeOK
\* Nothing is executed, and nobody begins with the calls of an answer.
<1>b. ASSUME UNCHANGED callVars, pc' # "tools",
             raised' = "NameError" => raised = "NameError",
             raised = "NameError" => pc' \in {"over", "ended"} /\ raised' = raised
      PROVE  ExecutedInv'
  BY <1>a, <1>b DEF callVars
<1>1. CASE Reject \/ Begin \/ AnswerIsError \/ Nudge \/ TakeText \/ ToolsDone \/ AskRaises \/ Guard
  <2>1. UNCHANGED callVars /\ UNCHANGED raised /\ pc \notin {"over", "ended"} /\ pc' # "tools"
    BY <1>1 DEF Reject, Begin, AnswerIsError, Nudge, TakeText, ToolsDone, AskRaises, Guard, Return
  <2>. QED
    BY <1>b, <2>1
<1>2. CASE TurnRaises \/ SkipVerify \/ RepairRaises \/ Raise
  <2>1. /\ UNCHANGED callVars /\ raised' \in {raised, "outage"}
        /\ pc \notin {"over", "ended"} /\ pc' # "tools"
    BY <1>2 DEF TurnRaises, SkipVerify, RepairRaises, Raise, FinishWith
  <2>. QED
    BY <1>b, <2>1
<1>3. CASE PostRun
  <2>1. UNCHANGED callVars /\ UNCHANGED raised /\ pc' = "ended"
    BY <1>3 DEF PostRun
  <2>. QED
    BY <1>b, <2>1
<1>4. CASE TakeCalls
  <2>1. /\ pc = "answered" /\ pc' = "tools" /\ todo' = Fresh /\ executed' = executed \cup Fresh
        /\ UNCHANGED <<raised, runs>>
    BY <1>4 DEF TakeCalls
  <2>2. ASSUME NEW s \in Sigs PROVE Made(s) => Made(s)'
    BY <2>1 DEF Fresh
  <2>. QED
    BY <1>a, <2>1, <2>2
<1>5. ASSUME NEW s \in Sigs, ExecuteTool(s) \/ AwaitHuman(s) PROVE ExecutedInv'
  <2>1. /\ pc = "tools" /\ s \in todo /\ todo' = todo \ {s}
        /\ runs' = [runs EXCEPT ![s] = @ + 1]
        /\ UNCHANGED <<executed, raised>>
        /\ raised # "NameError"
        /\ pc' \in {"tools", "guard", "verify"}
    BY <1>5, ToolStep DEF Execute, Return
  <2>2. ASSUME NEW r \in Sigs PROVE runs'[r] <= IF Made(r)' THEN 1 ELSE 0
    <3>1. Made(r) => Made(r)'
      BY <2>1
    <3>2. CASE r = s
      BY <1>a, <2>1, <3>2
    <3>3. CASE r # s
      BY <1>a, <2>1, <3>1, <3>3
    <3>. QED
      BY <3>2, <3>3
  <2>. QED
    BY <1>a, <2>1, <2>2
<1>6. ASSUME NEW a \in Answers, NEW s \in Sigs, TurnCalls(a, s) PROVE ExecutedInv'
  <2>1. /\ pc = "turn" /\ pc' = "over" /\ raised' = "NameError" /\ raised # "NameError"
        /\ runs' = [runs EXCEPT ![s] = @ + 1]
        /\ UNCHANGED <<todo, executed>>
    BY <1>6 DEF TurnCalls
  <2>2. ASSUME NEW r \in Sigs PROVE runs'[r] <= (IF Made(r)' THEN 1 ELSE 0) + 1
    <3>1. runs'[r] <= runs[r] + 1
      BY <1>a, <2>1
    <3>2. runs[r] <= IF Made(r)' THEN 1 ELSE 0
      BY <1>a, <2>1
    <3>3. runs'[r] \in Nat
      BY <1>a, <2>1
    <3>. QED
      BY <1>a, <3>1, <3>2, <3>3
  <2>. QED
    BY <2>1, <2>2
<1>7. ASSUME NEW a \in Answers, NextRound(a) \/ OutOfRounds(a) \/ TurnText(a) \/ Repair(a) PROVE ExecutedInv'
  <2>1. UNCHANGED callVars /\ UNCHANGED raised /\ pc \notin {"over", "ended"} /\ pc' # "tools"
    BY <1>7 DEF NextRound, OutOfRounds, TurnText, Repair, FinishWith, Return
  <2>. QED
    BY <1>b, <2>1
<1>8. ASSUME NEW present \in BOOLEAN, Verify(present) PROVE ExecutedInv'
  <2>1. UNCHANGED callVars /\ UNCHANGED raised /\ pc \notin {"over", "ended"} /\ pc' # "tools"
    BY <1>8 DEF Verify
  <2>. QED
    BY <1>b, <2>1
<1>9. CASE Ended \/ UNCHANGED vars
  BY <1>9 DEF Ended, vars, callVars
<1>. QED
  BY <1>1, <1>2, <1>3, <1>4, <1>5, <1>6, <1>7, <1>8, <1>9 DEF LoopNext, Step

-----------------------------------------------------------------------------

LEMMA StretchesAdd ==
  \A r \in 0 .. MaxRepairs :
    /\ r * PerStretch \in Nat
    /\ (r + 1) * PerStretch = r * PerStretch + PerStretch
    /\ r * PerStretch <= MaxRepairs * PerStretch
<1>1. PerStretch \in Nat
  BY LoopAssumption DEF PerStretch
<1>2. ASSUME NEW r \in Nat, NEW d \in Nat, NEW k \in Nat
      PROVE  /\ r * k \in Nat
             /\ (r + 1) * k = r * k + k
             /\ r * k <= (r + d) * k
  <2>1. r * k \in Nat /\ d * k \in Nat /\ (r + d) * k = r * k + d * k /\ (r + 1) * k = r * k + k
    OBVIOUS
  <2>. QED
    BY <2>1
<1>3. ASSUME NEW r \in 0 .. MaxRepairs PROVE MaxRepairs - r \in Nat /\ r + (MaxRepairs - r) = MaxRepairs
  BY LoopAssumption
<1>4. ASSUME NEW r \in 0 .. MaxRepairs PROVE r * PerStretch <= MaxRepairs * PerStretch
  <2>1. r * PerStretch <= (r + (MaxRepairs - r)) * PerStretch
    BY <1>1, <1>2, <1>3
  <2>. QED
    BY <1>3, <2>1
<1>. QED
  BY <1>1, <1>2, <1>4

LEMMA AnswersStep == LoopTypeOK /\ AnswersInv /\ [LoopNext]_vars => AnswersInv'
<1> SUFFICES ASSUME LoopTypeOK, AnswersInv, [LoopNext]_vars PROVE AnswersInv'
  OBVIOUS
<1> DEFINE All == (MaxRepairs + 1) * PerStretch + 1
           Before(r) == r * PerStretch
<1>a. /\ MaxRounds \in Nat /\ MaxRounds > 0 /\ MaxRepairs \in Nat
      /\ PerStretch = MaxRounds + 1
      /\ round \in Nat /\ round <= MaxRounds
      /\ repairs \in 0 .. MaxRepairs /\ repairs \in Nat /\ repairs <= MaxRepairs /\ asked \in Nat
  BY LoopAssumption DEF LoopTypeOK, PerStretch
<1>b. /\ Before(repairs) \in Nat /\ Before(repairs) <= Before(MaxRepairs) /\ Before(MaxRepairs) \in Nat
      /\ Before(repairs + 1) = Before(repairs) + PerStretch
      /\ Before(0) = 0
      /\ All = Before(MaxRepairs) + PerStretch + 1
  <2>1. MaxRepairs \in 0 .. MaxRepairs /\ 0 \in 0 .. MaxRepairs
    BY <1>a
  <2>2. 0 * PerStretch = 0
    BY <1>a
  <2>. QED
    BY <1>a, <2>1, <2>2, StretchesAdd
<1>c. AnswersBounded <=> asked <= All
  BY DEF AnswersBounded, PerStretch
<1>d. AnswersBounded' <=> asked' <= All
  BY DEF AnswersBounded, PerStretch
<1>e. AnswersInv' <=>
        /\ pc' = "begin" => asked' = 0 /\ round' = 0 /\ repairs' = 0
        /\ pc' \in Stretch => round' < MaxRounds
        /\ pc' \in Stretch /\ repairs' = 0 => asked' <= round' + 1
        /\ pc' \in Stretch => asked' <= Before(repairs') + round' + 2
        /\ pc' \in {"guard", "turn"} => asked' <= PerStretch /\ repairs' = 0
        /\ pc' = "verify" => asked' <= Before(repairs') + PerStretch + 1
        /\ pc' = "repair" => repairs' > 0 /\ asked' <= Before(repairs') + 1
        /\ asked' <= All
  BY <1>d DEF AnswersInv, PerStretch
<1>f. /\ pc = "begin" => asked = 0 /\ round = 0 /\ repairs = 0
      /\ pc \in Stretch => round < MaxRounds
      /\ pc \in Stretch /\ repairs = 0 => asked <= round + 1
      /\ pc \in Stretch => asked <= Before(repairs) + round + 2
      /\ pc \in {"guard", "turn"} => asked <= PerStretch /\ repairs = 0
      /\ pc = "verify" => asked <= Before(repairs) + PerStretch + 1
      /\ pc = "repair" => repairs > 0 /\ asked <= Before(repairs) + 1
      /\ asked <= All
  BY <1>c DEF AnswersInv
<1>. HIDE DEF All, Before
<1>. USE <1>a, <1>b, <1>e, <1>f DEF Stretch, stretchVars, costVars
\* A stretch that ends has had no more than its share.
<1>g. ASSUME pc \in Stretch, Return, UNCHANGED <<round, repairs, asked>> PROVE AnswersInv'
  BY <1>g DEF Return
<1>1. CASE Reject \/ TakeCalls \/ Nudge \/ ToolsDone
  BY <1>1 DEF Reject, TakeCalls, Nudge, ToolsDone
<1>2. CASE Begin
  BY <1>2 DEF Begin, Receive
<1>3. CASE AnswerIsError \/ TakeText \/ AskRaises
  BY <1>3, <1>g DEF AnswerIsError, TakeText, AskRaises
<1>4. CASE Guard
  BY <1>4 DEF Guard
<1>5. CASE TurnRaises
  BY <1>5 DEF TurnRaises, FinishWith
<1>6. ASSUME NEW a \in Answers, NEW s \in Sigs, TurnCalls(a, s) PROVE AnswersInv'
  BY <1>6 DEF TurnCalls, Receive
<1>7. CASE SkipVerify \/ RepairRaises \/ PostRun \/ Raise
  BY <1>7 DEF SkipVerify, RepairRaises, PostRun, Raise
<1>8. ASSUME NEW s \in Sigs, ExecuteTool(s) \/ AwaitHuman(s) PROVE AnswersInv'
  <2>1. /\ UNCHANGED <<stretchVars, costVars>>
        /\ pc' = pc \/ (pc = "tools" /\ Return)
    BY <1>8, ToolStep
  <2>2. CASE pc' = pc
    BY <2>1, <2>2
  <2>3. CASE pc = "tools" /\ Return
    BY <1>g, <2>1, <2>3
  <2>. QED
    BY <2>1, <2>2, <2>3
<1>9. ASSUME NEW a \in Answers, NextRound(a) PROVE AnswersInv'
  BY <1>9 DEF NextRound, Receive
<1>10. ASSUME NEW a \in Answers, OutOfRounds(a) PROVE AnswersInv'
  BY <1>10 DEF OutOfRounds, Receive, Return
<1>12. ASSUME NEW a \in Answers, TurnText(a) PROVE AnswersInv'
  BY <1>12 DEF TurnText, Receive, FinishWith
<1>13. ASSUME NEW a \in Answers, Repair(a) PROVE AnswersInv'
  BY <1>13 DEF Repair, Receive
<1>14. ASSUME NEW present \in BOOLEAN, Verify(present) PROVE AnswersInv'
  BY <1>14 DEF Verify
<1>15. CASE Ended \/ UNCHANGED vars
  BY <1>15 DEF Ended, vars
<1>. QED
  BY <1>1, <1>2, <1>3, <1>4, <1>5, <1>6, <1>7, <1>8, <1>9, <1>10, <1>12, <1>13, <1>14, <1>15
  DEF LoopNext, Step

-----------------------------------------------------------------------------

LoopInv == LoopTypeOK /\ OutcomeInv /\ GuardInv /\ ExecutedInv /\ AnswersInv

LEMMA LoopInvInit == LoopInit => LoopInv
<1> SUFFICES ASSUME LoopInit PROVE LoopInv
  OBVIOUS
<1>1. OutcomeInv /\ GuardInv
  BY DEF LoopInit, OutcomeInv, GuardInv, VerifiedIsClean
<1>2. ExecutedInv
  BY DEF LoopInit, ExecutedInv, Made
<1>3. 0 <= (MaxRepairs + 1) * (MaxRounds + 1) + 1
  <2>1. ASSUME NEW m \in Nat, NEW n \in Nat PROVE m * n \in Nat
    OBVIOUS
  <2>2. (MaxRepairs + 1) * (MaxRounds + 1) \in Nat
    BY LoopAssumption, <2>1
  <2>. QED
    BY LoopAssumption, <2>2
<1>4. AnswersInv
  BY <1>3 DEF LoopInit, AnswersInv, AnswersBounded, Stretch
<1>. QED
  BY <1>1, <1>2, <1>4, LoopTypeInit DEF LoopInv

LEMMA LoopInvariant == LoopSpec => []LoopInv
BY LoopInvInit, LoopTypeStep, OutcomeStep, GuardStep, ExecutedStep, AnswersStep, PTL DEF LoopSpec, LoopInv

\* The loop's state has its type: no counter passes its bound.
THEOREM LoopTypeCorrect == LoopSpec => []LoopTypeOK
BY LoopInvariant, PTL DEF LoopInv

\* A run pays for a bounded number of answers, whatever the model does.
THEOREM RunsAreBounded == LoopSpec => []AnswersBounded
<1>1. LoopInv => AnswersBounded
  BY DEF LoopInv, AnswersInv
<1>. QED
  BY LoopInvariant, <1>1, PTL

\* A tool call is made once by the rounds and once more at most where the guard ends the run.
THEOREM CallsAreMadeOnce == LoopSpec => []ExecutedOnce
<1>1. LoopInv => ExecutedOnce
  <2> SUFFICES ASSUME LoopInv, NEW s \in Sigs PROVE runs[s] <= IF raised = "NameError" THEN 2 ELSE 1
    BY DEF ExecutedOnce
  <2>1. runs[s] \in Nat /\ runs[s] <= (IF Made(s) THEN 1 ELSE 0) + (IF raised = "NameError" THEN 1 ELSE 0)
    BY DEF LoopInv, LoopTypeOK, ExecutedInv
  <2>. QED
    BY <2>1
<1>. QED
  BY LoopInvariant, <1>1, PTL

\* What is verified had neither an error nor a failed tool call.
THEOREM VerifiedRunsAreClean == LoopSpec => []VerifiedIsClean
<1>1. LoopInv => VerifiedIsClean
  BY DEF LoopInv, OutcomeInv
<1>. QED
  BY LoopInvariant, <1>1, PTL

\* Without a repair only the work passes.
THEOREM StubsDoNotPass == LoopSpec => []NoStubPasses
<1>1. LoopInv => NoStubPasses
  BY DEF LoopInv, GuardInv, NoStubPasses
<1>. QED
  BY LoopInvariant, <1>1, PTL

\* A run that waits for a human makes no further call.
THEOREM WaitingRunsStop == LoopSpec => WaitingStops
<1>1. LoopInv /\ [LoopNext]_vars => [error = "approval" => runs' = runs]_vars
  <2> SUFFICES ASSUME LoopInv, [LoopNext]_vars, error = "approval" PROVE runs' = runs
    OBVIOUS
  <2>1. pc \in Leaving
    BY DEF LoopInv, OutcomeInv
  <2>2. ASSUME NEW s \in Sigs, ExecuteTool(s) \/ AwaitHuman(s) PROVE FALSE
    BY <2>1, <2>2 DEF Leaving, ExecuteTool, AwaitHuman
  <2>3. ASSUME NEW a \in Answers,
               NextRound(a) \/ OutOfRounds(a) \/ TurnText(a) \/ Repair(a)
        PROVE  runs' = runs
    BY <2>3 DEF NextRound, OutOfRounds, TurnText, Repair, callVars
  <2>8. ASSUME NEW a \in Answers, NEW s \in Sigs, TurnCalls(a, s) PROVE FALSE
    BY <2>1, <2>8 DEF Leaving, TurnCalls
  <2>4. ASSUME NEW present \in BOOLEAN, Verify(present) PROVE runs' = runs
    BY <2>4 DEF Verify, callVars
  <2>5. CASE Reject \/ Begin \/ AnswerIsError \/ TakeCalls \/ Nudge \/ TakeText \/ ToolsDone \/ AskRaises
    BY <2>5 DEF Reject, Begin, AnswerIsError, TakeCalls, Nudge, TakeText, ToolsDone, AskRaises, callVars
  <2>6. CASE Guard \/ TurnRaises \/ SkipVerify \/ RepairRaises \/ PostRun \/ Raise
    BY <2>6 DEF Guard, TurnRaises, SkipVerify, RepairRaises, PostRun, Raise, callVars
  <2>7. CASE Ended \/ UNCHANGED vars
    BY <2>7 DEF Ended, vars, callVars
  <2>. QED
    BY <2>2, <2>3, <2>4, <2>5, <2>6, <2>7, <2>8 DEF LoopNext, Step
<1>. QED
  BY LoopInvariant, <1>1, PTL DEF LoopSpec, WaitingStops

\* A run's accounts agree: the answers it paid for, the calls it made, the
\* verification it claims and the work it passes.
THEOREM RunsAddUp == LoopSpec => []RunAddsUp
<1>1. ExecutedOnce /\ AnswersBounded /\ VerifiedIsClean /\ NoStubPasses => RunAddsUp
  BY DEF RunAddsUp
<1>. QED
  BY CallsAreMadeOnce, RunsAreBounded, VerifiedRunsAreClean, StubsDoNotPass, <1>1, PTL

-----------------------------------------------------------------------------
(* Progress without fairness                                               *)

\* Where two sextuples first differ decides which is below.
LEMMA SixBelow ==
  ASSUME NEW a1, NEW a2, NEW a3, NEW a4, NEW a5, NEW a6,
         NEW b1, NEW b2, NEW b3, NEW b4, NEW b5, NEW b6,
         \/ a1 \in Nat /\ a1 < b1
         \/ a1 = b1 /\ a2 \in Nat /\ a2 < b2
         \/ a1 = b1 /\ a2 = b2 /\ a3 \in Nat /\ a3 < b3
         \/ a1 = b1 /\ a2 = b2 /\ a3 = b3 /\ a4 \in Nat /\ a4 < b4
         \/ a1 = b1 /\ a2 = b2 /\ a3 = b3 /\ a4 = b4 /\ a5 \in Nat /\ a5 < b5
         \/ a1 = b1 /\ a2 = b2 /\ a3 = b3 /\ a4 = b4 /\ a5 = b5 /\ a6 \in Nat /\ a6 < b6
  PROVE  Below(<<a1, a2, a3, a4, a5, a6>>, <<b1, b2, b3, b4, b5, b6>>)
<1> DEFINE a == <<a1, a2, a3, a4, a5, a6>>
           b == <<b1, b2, b3, b4, b5, b6>>
<1>1. /\ DOMAIN b = 1 .. 6
      /\ a[1] = a1 /\ a[2] = a2 /\ a[3] = a3 /\ a[4] = a4 /\ a[5] = a5 /\ a[6] = a6
      /\ b[1] = b1 /\ b[2] = b2 /\ b[3] = b3 /\ b[4] = b4 /\ b[5] = b5 /\ b[6] = b6
  OBVIOUS
<1> HIDE DEF a, b
<1>2. \/ a[1] \in Nat /\ a[1] < b[1]
      \/ a[1] = b[1] /\ a[2] \in Nat /\ a[2] < b[2]
      \/ a[1] = b[1] /\ a[2] = b[2] /\ a[3] \in Nat /\ a[3] < b[3]
      \/ a[1] = b[1] /\ a[2] = b[2] /\ a[3] = b[3] /\ a[4] \in Nat /\ a[4] < b[4]
      \/ a[1] = b[1] /\ a[2] = b[2] /\ a[3] = b[3] /\ a[4] = b[4] /\ a[5] \in Nat /\ a[5] < b[5]
      \/ /\ a[1] = b[1] /\ a[2] = b[2] /\ a[3] = b[3] /\ a[4] = b[4] /\ a[5] = b[5]
         /\ a[6] \in Nat /\ a[6] < b[6]
  BY <1>1
<1>3. PICK i \in 1 .. 6 : a[i] \in Nat /\ a[i] < b[i] /\ \A j \in 1 .. i - 1 : a[j] = b[j]
  BY <1>2
<1>4. Below(a, b)
  BY <1>1, <1>3 DEF Below
<1>. QED
  BY <1>4 DEF a, b

\* What is ahead of a run, entry by entry.
Phase == CASE pc = "ended" -> 0 [] pc = "over" -> 1 [] OTHER -> 2
Place ==
  CASE pc \in {"begin", "repair"} -> 4 [] pc \in {"answered", "tools", "ask"} -> 3
    [] pc = "guard" -> 2 [] pc = "turn" -> 1 [] OTHER -> 0
Turn == CASE pc = "answered" -> 2 [] pc = "tools" -> 1 [] OTHER -> 0

\* A step that leaves the run's loop or report behind, or a place of its
\* stretch, or a round, or a place of the round.
LEMMA LowerIsBelow ==
  ASSUME LoopTypeOK,
         LET repairsLeft == MaxRepairs - repairs
             roundsLeft == MaxRounds - round
         IN \/ Phase' < Phase
            \/ Phase' = Phase /\ repairsLeft' \in Nat /\ repairsLeft' < repairsLeft
            \/ Phase' = Phase /\ repairs' = repairs /\ Place' < Place
            \/ /\ Phase' = Phase /\ repairs' = repairs /\ Place' = Place
               /\ roundsLeft' \in Nat /\ roundsLeft' < roundsLeft
            \/ /\ Phase' = Phase /\ repairs' = repairs /\ Place' = Place /\ round' = round
               /\ Turn' < Turn
            \/ /\ Phase' = Phase /\ repairs' = repairs /\ Place' = Place /\ round' = round
               /\ Turn' = Turn
               /\ Cardinality(todo)' \in Nat /\ Cardinality(todo)' < Cardinality(todo)
  PROVE  Below(Ahead', Ahead)
<1>1. Phase' \in Nat /\ Place' \in Nat /\ Turn' \in Nat
  BY DEF Phase, Place, Turn
<1>2. /\ Ahead = <<Phase, MaxRepairs - repairs, Place, MaxRounds - round, Turn, Cardinality(todo)>>
      /\ Ahead' = <<Phase', MaxRepairs - repairs', Place', MaxRounds - round', Turn', Cardinality(todo)'>>
  BY DEF Ahead, Phase, Place, Turn
<1> HIDE DEF Phase, Place, Turn
<1>. QED
  BY <1>1, <1>2, SixBelow

LEMMA RunStep ==
  ASSUME LoopTypeOK, IsFiniteSet(Sigs), LoopNext, ~Ended
  PROVE  Below(Ahead', Ahead)
<1> USE LoopAssumption
<1> USE DEF Phase, Place, Turn
<1>1. CASE Reject \/ Guard \/ TurnRaises \/ SkipVerify \/ RepairRaises \/ PostRun \/ Raise
  BY <1>1, LowerIsBelow
     DEF Reject, Guard, TurnRaises, FinishWith, SkipVerify, RepairRaises, PostRun, Raise,
         LoopTypeOK, stretchVars
<1>2. CASE Begin
  BY <1>2, LowerIsBelow DEF Begin, LoopTypeOK, stretchVars
<1>3. CASE AnswerIsError \/ TakeText \/ AskRaises
  BY <1>3, LowerIsBelow DEF AnswerIsError, TakeText, AskRaises, Return, stretchVars
<1>4. CASE TakeCalls \/ Nudge \/ ToolsDone
  BY <1>4, LowerIsBelow DEF TakeCalls, Nudge, ToolsDone, stretchVars
<1>5. ASSUME NEW s \in Sigs, ExecuteTool(s) PROVE Below(Ahead', Ahead)
  <2>1. IsFiniteSet(todo)
    BY FS_Subset DEF LoopTypeOK
  <2>2. Cardinality(todo)' = Cardinality(todo) - 1 /\ Cardinality(todo) \in Nat
        /\ Cardinality(todo)' \in Nat
    BY <1>5, <2>1, FS_RemoveElement, FS_CardinalityType DEF ExecuteTool, Execute
  <2>. QED
    BY <1>5, <2>2, LowerIsBelow DEF ExecuteTool, stretchVars
<1>6. ASSUME NEW s \in Sigs, AwaitHuman(s) PROVE Below(Ahead', Ahead)
  BY <1>6, LowerIsBelow DEF AwaitHuman, Return, stretchVars
<1>7. ASSUME NEW a \in Answers, NextRound(a) PROVE Below(Ahead', Ahead)
  BY <1>7, LowerIsBelow DEF NextRound, LoopTypeOK
<1>8. ASSUME NEW a \in Answers, OutOfRounds(a) \/ TurnText(a) \/ Repair(a)
      PROVE  Below(Ahead', Ahead)
  BY <1>8, LowerIsBelow DEF OutOfRounds, Return, TurnText, FinishWith, Repair, stretchVars
<1>9. ASSUME NEW a \in Answers, NEW s \in Sigs, TurnCalls(a, s) PROVE Below(Ahead', Ahead)
  BY <1>9, LowerIsBelow DEF TurnCalls
<1>10. ASSUME NEW present \in BOOLEAN, Verify(present) PROVE Below(Ahead', Ahead)
  BY <1>10, LowerIsBelow DEF Verify, LoopTypeOK
<1>. QED
  BY <1>1, <1>2, <1>3, <1>4, <1>5, <1>6, <1>7, <1>8, <1>9, <1>10 DEF LoopNext, Step

\* Whatever a model answers, each step of a run brings its end nearer: what
\* is ahead falls in a well-founded order, so that no fairness is needed to
\* see that a run is finite. An answer has finitely many calls.
THEOREM RunsGetOn == ASSUME IsFiniteSet(Sigs) PROVE LoopSpec => RunGetsOn
<1>1. LoopTypeOK /\ [LoopNext]_vars => [Below(Ahead', Ahead)]_vars
  BY RunStep DEF Ended
<1>. QED
  BY <1>1, LoopTypeCorrect, PTL DEF LoopSpec, RunGetsOn

\* A call is nearer to its answer after each of its own steps, and as near
\* after all others: for any callers, retries, circuits, decisions and stops.
THEOREM CallsOnlyGetOn == CallSpec => CallsGetOn
<1> DEFINE GetsOn(c) == callPc[c] # "idle" =>
             \/ UNCHANGED <<callPc[c], attempt[c]>>
             \/ TriesAhead(c)' = TriesAhead(c) /\ PlacesAhead(c)' < PlacesAhead(c)
             \/ TriesAhead(c)' \in Nat /\ TriesAhead(c)' < TriesAhead(c)
<1>1. ASSUME CallTypeOK, TriesInv, CallNext, NEW c \in Callers PROVE GetsOn(c)
  <2> USE ToolCallAssumption
  <2>0. /\ callPc \in [Callers -> {"idle", "vetted", "answered"} \cup Through]
        /\ attempt \in [Callers -> 0 .. Retries + 1] /\ Retries \in Nat
    BY <1>1 DEF CallTypeOK
  <2>1. ASSUME NEW d \in Callers, CallStep(d) PROVE GetsOn(c)
    <3>1. CASE c # d
      BY <2>0, <2>1, <3>1 DEF CallStep, AskHuman, FailFast, Admit, GiveUp, Invoke, BackOff,
                              Succeed, Fail, AnswerCall, Goto
    <3>2. CASE c = d /\ ~Invoke(d)
      BY <2>0, <2>1, <3>2 DEF CallStep, AskHuman, FailFast, Admit, GiveUp, BackOff,
                              Succeed, Fail, AnswerCall, Goto, TriesAhead, PlacesAhead
    <3>3. CASE c = d /\ Invoke(d)
      <4>1. attempt[c] < Tries(tool[c])
        BY <1>1, <3>3 DEF TriesInv, Invoke, Tries
      <4>2. attempt'[c] = attempt[c] + 1 /\ attempt[c] \in Nat /\ attempt[c] < Retries + 1
        BY <2>0, <3>3, <4>1 DEF Invoke, Tries
      <4>. QED
        BY <2>0, <4>2 DEF TriesAhead
    <3>. QED
      BY <3>1, <3>2, <3>3
  <2>2. ASSUME NEW d \in Callers, NEW t \in Tools, Vet(d, t) PROVE GetsOn(c)
    BY <2>0, <2>2 DEF Vet, Goto
  <2>3. ASSUME NEW t \in Tools, CoolDown(t) PROVE GetsOn(c)
    BY <2>3 DEF CoolDown, callerVars
  <2>4. CASE ReportHealth \/ Engage \/ Disengage
    BY <2>4 DEF ReportHealth, Engage, Disengage, callerVars
  <2>5. ASSUME NEW d \in Callers, NEW t \in Gated, Decide(d, t) \/ SaveApproval(d, t)
        PROVE  GetsOn(c)
    <3>1. UNCHANGED callerVars
      BY <2>5 DEF Decide, SaveApproval
    <3>. QED
      BY <3>1 DEF callerVars
  <2>. QED
    BY <1>1, <2>1, <2>2, <2>3, <2>4, <2>5 DEF CallNext
<1>2. CallTypeOK /\ TriesInv /\ [CallNext]_toolVars => [\A c \in Callers : GetsOn(c)]_toolVars
  BY <1>1
<1>. QED
  BY <1>2, CallInvariant, PTL DEF CallSpec, CallsGetOn

-----------------------------------------------------------------------------
(* The two side by side                                                    *)

\* What MCAgentTools explores is a run of an agent and calls of tools.
THEOREM AgentToolsRunTheirParts == AgentToolsSpec => LoopSpec /\ CallSpec
<1>1. AgentToolsInit => LoopInit /\ CallInit
  BY DEF AgentToolsInit
<1>2. [RunMoves \/ CallsMove]_<<part, vars, toolVars>> => [LoopNext]_vars /\ [CallNext]_toolVars
  BY DEF RunMoves, CallsMove
<1>. QED
  BY <1>1, <1>2, PTL DEF AgentToolsSpec, LoopSpec, CallSpec

\* Runs and calls keep what they promise, side by side as by themselves.
THEOREM AgentToolsStaySound ==
  AgentToolsSpec => [](GatesAreKept /\ CircuitIsSound /\ RunAddsUp)
BY AgentToolsRunTheirParts, GatesHoldTogether, CircuitsAreSound, RunsAddUp, PTL

\* Neither a run nor a call goes in circles.
THEOREM NothingGoesBack ==
  ASSUME IsFiniteSet(Sigs) PROVE AgentToolsSpec => NothingGoesInCircles
BY AgentToolsRunTheirParts, RunsGetOn, CallsOnlyGetOn, PTL DEF NothingGoesInCircles
==================================================================================
