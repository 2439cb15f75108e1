------------------------------- MODULE ToolCall -------------------------------
(***************************************************************************)
(* agentos/tools/executor.py: the one path every tool call of an agent     *)
(* takes, with the emergency stop of agentos/security/policy.py and the    *)
(* tool requests of agentos/security/approvals.py.                         *)
(*                                                                         *)
(* A caller is an agent's run of one task; it makes one call at a time,    *)
(* and many callers share the executor of a process. A call is refused     *)
(* without an effect when its tool is unknown or disabled, or a policy or  *)
(* the agent's permissions deny it: those never change while it runs, and  *)
(* Tools are the tools they let through. Gated are those whose risk or a   *)
(* require_approval policy asks for an approval. The approval it looks for *)
(* is an entry in the task's memory, which agents may write; a human's     *)
(* decision of a request writes none.                                      *)
(*                                                                         *)
(* What becomes of a write afterwards is RollbackLedger's subject.         *)
(***************************************************************************)
EXTENDS Naturals

CONSTANTS
  Callers,
  Tools,
  Gated,        \* tools that need an approval
  Preapproved,  \* pairs <<c, t>>: t is in the approved_tools c was started with
  Unretried,    \* tools that are never tried a second time
  Threshold,    \* _CIRCUIT_FAIL_THRESHOLD
  Retries,      \* settings.tool_retry_transient
  NoTool,
  MaxCalls,     \* bound on the calls of a behaviour
  MaxStops      \* bound on how often the emergency stop is engaged

ASSUME ToolCallAssumption ==
  /\ Gated \subseteq Tools
  /\ Preapproved \subseteq Callers \X Tools
  /\ Unretried \subseteq Tools
  /\ Threshold \in Nat \ {0}
  /\ Retries \in Nat
  /\ NoTool \notin Tools
  /\ MaxCalls \in Nat /\ MaxStops \in Nat

VARIABLES
  stopped,       \* the emergency flag, a document every process reads
  askedFor,      \* per caller and tool, the requests that wait for a decision
  vouched,       \* entries of kind approval that came to the memory of a caller's task
  circuits,      \* per tool, the circuit of this process
  callPc,        \* per caller, where its call is
  tool,          \* per caller, the tool of its latest call
  attempt,       \* per caller, how often that call has invoked the handler
  calls, stops,  \* counted for the bounds
  late,          \* history: handlers each caller has started under the present stop
  streak,        \* history: per tool, failed calls since the last that succeeded
  opened,        \* history: per tool, how often its circuit has opened
  seen           \* history: per caller, opened of its tool when it was let through

gateVars == <<stopped, askedFor, vouched, stops>>
callerVars == <<callPc, tool, attempt, calls>>
toolVars == <<gateVars, circuits, callerVars, late, streak, opened, seen>>

\* No entry, or one that only counts, is a circuit that never opened;
\* open_until is in the future while "cooling", and past once "cooled".
Healthy == [failures |-> 0, until |-> "never", half |-> FALSE]

Circuit == [failures : Nat, until : {"never", "cooling", "cooled"}, half : BOOLEAN]

\* Let through to the handler and not yet answered by it.
Through == {"admitted", "running", "backoff"}

CallTypeOK ==
  /\ stopped \in BOOLEAN
  /\ askedFor \in [Callers \X Tools -> Nat]
  /\ vouched \subseteq Callers \X Tools
  /\ circuits \in [Tools -> Circuit]
  /\ callPc \in [Callers -> {"idle", "vetted", "answered"} \cup Through]
  /\ tool \in [Callers -> Tools \cup {NoTool}]
  /\ attempt \in [Callers -> 0 .. Retries + 1]
  /\ calls \in Nat /\ stops \in Nat
  /\ late \in [Callers -> Nat]
  /\ streak \in [Tools -> Nat]
  /\ opened \in [Tools -> Nat]
  /\ seen \in [Callers -> Nat]
  /\ \A c \in Callers : callPc[c] # "idle" => tool[c] \in Tools

CallInit ==
  /\ stopped = FALSE
  /\ askedFor = [ct \in Callers \X Tools |-> 0]
  /\ vouched = {}
  /\ circuits = [t \in Tools |-> Healthy]
  /\ callPc = [c \in Callers |-> "idle"]
  /\ tool = [c \in Callers |-> NoTool]
  /\ attempt = [c \in Callers |-> 0]
  /\ calls = 0 /\ stops = 0
  /\ late = [c \in Callers |-> 0]
  /\ streak = [t \in Tools |-> 0]
  /\ opened = [t \in Tools |-> 0]
  /\ seen = [c \in Callers |-> 0]

Goto(c, place) == callPc' = [callPc EXCEPT ![c] = place]

-----------------------------------------------------------------------------
(* A call on its way to the handler *)

\* execute: the tool is found, and evaluate reads that no stop is engaged.
Vet(c, t) ==
  /\ callPc[c] = "idle"
  /\ ~stopped
  /\ calls < MaxCalls
  /\ calls' = calls + 1
  /\ tool' = [tool EXCEPT ![c] = t]
  /\ attempt' = [attempt EXCEPT ![c] = 0]
  /\ Goto(c, "vetted")
  /\ UNCHANGED <<gateVars, circuits, late, streak, opened, seen>>

\* Mutant: what is not waiting for a decision counts as approved.
GrantedUnlessWaiting(c, t) == <<c, t>> \in Preapproved \/ askedFor[<<c, t>>] = 0

\* _tool_approved: a request that waits hides the entry that is in memory.
Granted(c, t) ==
  \/ <<c, t>> \in Preapproved
  \/ askedFor[<<c, t>>] = 0 /\ <<c, t>> \in vouched

Cleared(c) == tool[c] \in Gated => Granted(c, tool[c])

\* Without it the call ends with a request, another one if one waits; and with
\* it as well, once the entry is archived or five others rank higher (recall).
AskHuman(c) ==
  /\ callPc[c] = "vetted"
  /\ tool[c] \in Gated /\ <<c, tool[c]>> \notin Preapproved
  /\ askedFor' = [askedFor EXCEPT ![<<c, tool[c]>>] = @ + 1]
  /\ Goto(c, "idle")
  /\ UNCHANGED <<stopped, vouched, stops, circuits, tool, attempt, calls,
                 late, streak, opened, seen>>

\* _circuit_state; to ask for it makes a circuit that has cooled half-open.
CircuitState(t) ==
  IF circuits[t].half THEN "half_open"
  ELSE CASE circuits[t].until = "never" -> "closed"
         [] circuits[t].until = "cooling" -> "open"
         [] circuits[t].until = "cooled" -> "half_open"

Asked(t) == [circuits EXCEPT ![t].half = CircuitState(t) = "half_open"]

FailFast(c) ==
  /\ callPc[c] = "vetted"
  /\ Cleared(c)
  /\ CircuitState(tool[c]) = "open"
  /\ Goto(c, "idle")
  /\ UNCHANGED <<gateVars, circuits, tool, attempt, calls, late, streak, opened, seen>>

Admit(c) ==
  /\ callPc[c] = "vetted"
  /\ Cleared(c)
  /\ CircuitState(tool[c]) # "open"
  /\ circuits' = Asked(tool[c])
  /\ seen' = [seen EXCEPT ![c] = opened[tool[c]]]
  /\ Goto(c, "admitted")
  /\ UNCHANGED <<gateVars, tool, attempt, calls, late, streak, opened>>

\* No handler, arguments missing, or a hook of a skill that fails. The
\* circuit stays half-open if this call made it so.
GiveUp(c) ==
  /\ callPc[c] = "admitted"
  /\ Goto(c, "idle")
  /\ UNCHANGED <<gateVars, circuits, tool, attempt, calls, late, streak, opened, seen>>

-----------------------------------------------------------------------------
(* The handler and its retries *)

\* Mutant: the loop of _call_with_retries forgets to count.
InvokeUncounted(c) ==
  /\ callPc[c] \in {"admitted", "backoff"}
  /\ late' = [late EXCEPT ![c] = IF stopped THEN @ + 1 ELSE @]
  /\ Goto(c, "running")
  /\ UNCHANGED <<gateVars, circuits, tool, attempt, calls, streak, opened, seen>>

\* _call_once, after the hooks and the span, or after the pause of a retry.
Invoke(c) ==
  /\ callPc[c] \in {"admitted", "backoff"}
  /\ attempt' = [attempt EXCEPT ![c] = @ + 1]
  /\ late' = [late EXCEPT ![c] = IF stopped THEN @ + 1 ELSE @]
  /\ Goto(c, "running")
  /\ UNCHANGED <<gateVars, circuits, tool, calls, streak, opened, seen>>

\* A transient error with retries left.
BackOff(c) ==
  /\ callPc[c] = "running"
  /\ attempt[c] <= Retries
  /\ tool[c] \notin Unretried
  /\ Goto(c, "backoff")
  /\ UNCHANGED <<gateVars, circuits, tool, attempt, calls, late, streak, opened, seen>>

\* Mutant: a success clears the opening and leaves the count.
SucceedKeepsCount(c) ==
  /\ callPc[c] = "running"
  /\ circuits' = [circuits EXCEPT ![tool[c]].until = "never", ![tool[c]].half = FALSE]
  /\ streak' = [streak EXCEPT ![tool[c]] = 0]
  /\ Goto(c, "answered")
  /\ UNCHANGED <<gateVars, tool, attempt, calls, late, opened, seen>>

\* _record_success forgets the circuit.
Succeed(c) ==
  /\ callPc[c] = "running"
  /\ circuits' = [circuits EXCEPT ![tool[c]] = Healthy]
  /\ streak' = [streak EXCEPT ![tool[c]] = 0]
  /\ Goto(c, "answered")
  /\ UNCHANGED <<gateVars, tool, attempt, calls, late, opened, seen>>

\* _record_failure.
Trips(t) == circuits[t].half \/ circuits[t].failures + 1 >= Threshold

AfterFailure(t) ==
  IF Trips(t) THEN [failures |-> 0, until |-> "cooling", half |-> FALSE]
  ELSE [circuits[t] EXCEPT !.failures = @ + 1, !.half = FALSE]

\* Another error, a transient one with no retry left, or a timeout with none.
Fail(c) ==
  /\ callPc[c] = "running"
  /\ circuits' = [circuits EXCEPT ![tool[c]] = AfterFailure(tool[c])]
  /\ opened' = [opened EXCEPT ![tool[c]] = IF Trips(tool[c]) THEN @ + 1 ELSE @]
  /\ streak' = [streak EXCEPT ![tool[c]] = @ + 1]
  /\ Goto(c, "answered")
  /\ UNCHANGED <<gateVars, tool, attempt, calls, late, seen>>

\* Span, hooks, validators, ledger, audit: the answer goes to the agent.
AnswerCall(c) ==
  /\ callPc[c] = "answered"
  /\ Goto(c, "idle")
  /\ UNCHANGED <<gateVars, circuits, tool, attempt, calls, late, streak, opened, seen>>

-----------------------------------------------------------------------------
(* Others *)

\* system.health reports the circuits, and thereby asks for each state.
ReportHealth ==
  /\ circuits' = [t \in Tools |-> Asked(t)[t]]
  /\ UNCHANGED <<gateVars, callerVars, late, streak, opened, seen>>

CoolDown(t) ==
  /\ circuits[t].until = "cooling"
  /\ circuits' = [circuits EXCEPT ![t].until = "cooled"]
  /\ UNCHANGED <<gateVars, callerVars, late, streak, opened, seen>>

\* PolicyEngine.engage and disengage, over API, CLI or Mattermost.
Engage ==
  /\ ~stopped /\ stops < MaxStops
  /\ stopped' = TRUE
  /\ stops' = stops + 1
  /\ late' = [c \in Callers |-> 0]
  /\ UNCHANGED <<askedFor, vouched, circuits, callerVars, streak, opened, seen>>

Disengage ==
  /\ stopped
  /\ stopped' = FALSE
  /\ UNCHANGED <<askedFor, vouched, stops, circuits, callerVars, late, streak, opened, seen>>

\* A request is decided, either way: the document is all that changes.
Decide(c, t) ==
  /\ askedFor[<<c, t>>] > 0
  /\ askedFor' = [askedFor EXCEPT ![<<c, t>>] = @ - 1]
  /\ UNCHANGED <<stopped, vouched, stops, circuits, callerVars, late, streak, opened, seen>>

\* memory.save of an entry of kind "approval" in the task's memory, by the agent
\* the task is assigned to or by its supervisor (can_write), in whatever run.
SaveApproval(c, t) ==
  /\ vouched' = vouched \cup {<<c, t>>}
  /\ UNCHANGED <<stopped, askedFor, stops, circuits, callerVars, late, streak, opened, seen>>

-----------------------------------------------------------------------------

\* The steps of a call that has begun.
CallStep(c) ==
  \/ AskHuman(c) \/ FailFast(c) \/ Admit(c) \/ GiveUp(c)
  \/ Invoke(c) \/ BackOff(c) \/ Succeed(c) \/ Fail(c) \/ AnswerCall(c)

CallNext ==
  \/ \E c \in Callers : CallStep(c) \/ \E t \in Tools : Vet(c, t)
  \/ \E t \in Tools : CoolDown(t)
  \/ ReportHealth
  \/ Engage
  \/ Disengage
  \/ \E c \in Callers, t \in Gated : Decide(c, t) \/ SaveApproval(c, t)

CallSpec == CallInit /\ [][CallNext]_toolVars

\* Each call is a coroutine of the process, and every handler has a timeout.
LiveCallSpec == CallSpec /\ \A c \in Callers : WF_toolVars(CallStep(c))

-----------------------------------------------------------------------------
(* Properties *)

\* A handler of a gated tool runs only for a caller it was approved for at the
\* start, or whose task's memory got an approval entry, whatever requests were
\* made and decided before: that a request is decided, or gone, lets no call
\* through. Who wrote the entry the executor does not ask (_tool_approved).
ApprovalHolds ==
  \A c \in Callers :
    callPc[c] \in Through /\ tool[c] \in Gated => <<c, tool[c]>> \in vouched \cup Preapproved

\* Most a caller may start of t's handler in one call.
Tries(t) == IF t \in Unretried THEN 1 ELSE Retries + 1

\* After the emergency stop is engaged only a call whose policy was read
\* before still starts handlers, and no more than the tries of that call:
\* the stop is looked at once per call (PolicyEngine.evaluate).
StopLetsOnlyVettedCallsOn ==
  stopped => \A c \in Callers : late[c] > 0 => late[c] <= Tries(tool[c])

\* A circuit has opened exactly when the last Threshold calls, or more, that
\* reached the handler all failed, in whatever order the answers of
\* concurrent calls came (_record_failure, _record_success).
CircuitTellsStreak ==
  \A t \in Tools : circuits[t].until # "never" <=> streak[t] >= Threshold

\* While a circuit is open and cooling, the only calls on their way to its
\* handler are those let through before it last opened (_circuit_state).
CoolingShields ==
  \A c \in Callers :
    callPc[c] \in Through /\ circuits[tool[c]].until = "cooling" => seen[c] < opened[tool[c]]

\* What a call still has ahead of it: tries of its handler, and places up to
\* the next one.
TriesAhead(c) == Retries + 1 - attempt[c]
PlacesAhead(c) ==
  CASE callPc[c] = "idle" -> 0 [] callPc[c] \in {"answered", "backoff"} -> 1
    [] callPc[c] = "running" -> 2 [] callPc[c] = "admitted" -> 3 [] callPc[c] = "vetted" -> 4

\* A call under way is where it was, or nearer to its answer: none of its own
\* steps goes in a circle, and nothing that other callers, humans, circuits
\* or the emergency stop do sets it back (execute, _call_with_retries).
CallsGetOn ==
  [][\A c \in Callers : callPc[c] # "idle" =>
       \/ UNCHANGED <<callPc[c], attempt[c]>>
       \/ TriesAhead(c)' = TriesAhead(c) /\ PlacesAhead(c)' < PlacesAhead(c)
       \/ TriesAhead(c)' \in Nat /\ TriesAhead(c)' < TriesAhead(c)]_toolVars

\* Every call is answered, refused or ended by a request: retries, open
\* circuits and requests that nobody decides never hold an agent for ever.
CallsEnd == \A c \in Callers : callPc[c] # "idle" ~> callPc[c] = "idle"

\* The two gates that a call passes before its handler, and that it may have
\* passed long before.
GatesAreKept == ApprovalHolds /\ StopLetsOnlyVettedCallsOn

\* What a circuit says, and what it does.
CircuitIsSound == CircuitTellsStreak /\ CoolingShields
=============================================================================
