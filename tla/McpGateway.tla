------------------------------- MODULE McpGateway -------------------------------
(***************************************************************************)
(* agentos/registries/mcp_registry.py, one server of the registry: calls,  *)
(* discoveries and health checks that wait for the server while others     *)
(* come and go and the server is registered anew. Who may call what is in  *)
(* McpAccess; latencies, hashes and the injection scan are left out.       *)
(***************************************************************************)
EXTENDS Naturals, FiniteSets

CONSTANTS
  McpOps,      \* operations under way at the same time
  OpenAfter,   \* failures in a row that open the circuit: _CIRCUIT_OPEN_AFTER
  MaxMcpOps,   \* bound on the operations of a behaviour
  MaxVersion   \* bound on the times the server is registered

ASSUME McpAssumption == {OpenAfter, MaxVersion} \subseteq Nat \ {0} /\ MaxMcpOps \in Nat

VARIABLES
  mcpServer,   \* the stored document: its version, and whether it is enabled
  mcpClient,   \* the version the cached client was made for; 0 for none
  mcpTools,    \* the version the cached tools were listed by; 0 for none, and
               \* EmptyList after a list that failed
  mcpCircuit,  \* failures in a row, when the circuit opened, and cached health
  mcpOp,       \* per operation, its kind, how far it is and what it has read
  mcpStarted,  \* history: how many operations were started
  mcpStreak,   \* history: failed requests since the last that succeeded
  mcpRace      \* history: a registration met an operation under way

mcpVars == <<mcpServer, mcpClient, mcpTools, mcpCircuit, mcpOp, mcpStarted, mcpStreak, mcpRace>>

\* _circuit_opened_at is absent, within the last minute or before that.
OpenedAt == {"never", "lately", "before"}
McpKinds == {"call", "discover", "connect", "probe", "health", "edit"}
IdleOp == [at |-> "idle", kind |-> "call", version |-> 0, enabled |-> TRUE]

EmptyList == MaxVersion + 1

McpTypeOK ==
  /\ mcpServer \in [version : 1 .. MaxVersion, enabled : BOOLEAN]
  /\ mcpClient \in 0 .. MaxVersion /\ mcpTools \in 0 .. EmptyList
  /\ mcpCircuit \in [failures : 0 .. OpenAfter, opened : OpenedAt, health : {"none", "ok", "error"}]
  /\ mcpOp \in [McpOps -> [at : {"idle", "read", "waiting"}, kind : McpKinds,
                           version : 0 .. MaxVersion, enabled : BOOLEAN]]

McpInit ==
  /\ mcpServer = [version |-> 1, enabled |-> TRUE]
  /\ mcpClient = 0 /\ mcpTools = 0
  /\ mcpCircuit = [failures |-> 0, opened |-> "never", health |-> "none"]
  /\ mcpOp = [o \in McpOps |-> IdleOp]
  /\ mcpStarted = 0 /\ mcpStreak = 0 /\ mcpRace = FALSE

-----------------------------------------------------------------------------
CircuitOf(c) ==
  CASE c.failures >= OpenAfter /\ c.opened # "lately" -> "half-open"
    [] c.failures >= OpenAfter /\ c.opened = "lately" -> "open"
    [] c.failures \in 1 .. OpenAfter - 1 -> "degraded"
    [] OTHER -> "closed"

\* Mutant: the count is not kept.
TripAtOnce(c) == [c EXCEPT !.failures = OpenAfter, !.opened = "lately"]

\* A failure counts; the time is kept of the one that opened the circuit.
AfterMcpFailure(c) ==
  LET n == IF c.failures < OpenAfter THEN c.failures + 1 ELSE OpenAfter
  IN  [c EXCEPT !.failures = n,
                !.opened = IF n >= OpenAfter /\ @ = "never" THEN "lately" ELSE @]

Recovered(c) == [c EXCEPT !.failures = 0, !.opened = "never", !.health = "ok"]

-----------------------------------------------------------------------------
\* Every operation reads the document first.
ReadServer(o) ==
  /\ mcpOp[o].at = "idle" /\ mcpStarted < MaxMcpOps
  /\ \E kind \in {"call", "discover", "health", "edit"} :
       /\ kind = "discover" => mcpTools = 0
       /\ mcpOp' = [mcpOp EXCEPT ![o] = [at |-> "read", kind |-> kind, version |-> mcpServer.version,
                                         enabled |-> mcpServer.enabled]]
  /\ mcpStarted' = mcpStarted + 1
  /\ UNCHANGED <<mcpServer, mcpClient, mcpTools, mcpCircuit, mcpStreak, mcpRace>>

\* health_check answers from what is known, or goes on as a probe or a
\* connection, which read the document once more.
HealthKnown == CircuitOf(mcpCircuit) = "open" \/ (CircuitOf(mcpCircuit) # "half-open" /\ mcpCircuit.health = "ok")

CheckHealth(o) ==
  /\ mcpOp[o].at = "read" /\ mcpOp[o].kind = "health"
  /\ mcpOp' = [mcpOp EXCEPT ![o] =
       IF ~@.enabled \/ HealthKnown THEN IdleOp
       ELSE [@ EXCEPT !.kind = IF CircuitOf(mcpCircuit) = "half-open" THEN "probe" ELSE "connect",
                      !.version = mcpServer.version]]
  /\ UNCHANGED <<mcpServer, mcpClient, mcpTools, mcpCircuit, mcpStarted, mcpStreak, mcpRace>>

\* What is refused: calls of a disabled server, and calls and discoveries
\* while the circuit is open. Half-open, all go on.
Refused(op) ==
  \/ op.kind = "call" /\ ~op.enabled
  \/ op.kind \in {"call", "discover"} /\ CircuitOf(mcpCircuit) = "open"

RefuseOp(o) ==
  /\ mcpOp[o].at = "read" /\ Refused(mcpOp[o])
  /\ mcpOp' = [mcpOp EXCEPT ![o] = IdleOp]
  /\ UNCHANGED <<mcpServer, mcpClient, mcpTools, mcpCircuit, mcpStarted, mcpStreak, mcpRace>>

\* client_for: the cached client, or a new one for the document that was read.
ClientFor(op) == IF mcpClient = 0 THEN op.version ELSE mcpClient

SendRequest(o) ==
  /\ mcpOp[o].at = "read" /\ mcpOp[o].kind \notin {"health", "edit"} /\ ~Refused(mcpOp[o])
  /\ mcpClient' = ClientFor(mcpOp[o])
  /\ mcpOp' = [mcpOp EXCEPT ![o].at = "waiting", ![o].version = ClientFor(mcpOp[o])]
  /\ UNCHANGED <<mcpServer, mcpTools, mcpCircuit, mcpStarted, mcpStreak, mcpRace>>

AnswerOp(o) == mcpOp[o].at = "waiting" /\ mcpOp' = [mcpOp EXCEPT ![o] = IdleOp]

\* A list of tools clears the failures but not the time the circuit opened.
RequestSucceeds(o) ==
  /\ AnswerOp(o)
  /\ IF mcpOp[o].kind = "discover"
     THEN /\ mcpCircuit' = [mcpCircuit EXCEPT !.failures = 0]
          /\ mcpTools' = mcpOp[o].version
     ELSE /\ mcpCircuit' = Recovered(mcpCircuit)
          /\ UNCHANGED mcpTools
  /\ mcpStreak' = 0
  /\ UNCHANGED <<mcpServer, mcpClient, mcpStarted, mcpRace>>

AfterFailedRequest(kind, c) ==
  CASE kind = "probe" -> [c EXCEPT !.opened = "lately"]
    [] kind = "discover" -> AfterMcpFailure(c)
    [] OTHER -> [AfterMcpFailure(c) EXCEPT !.health = "error"]

\* A list that fails is kept as an empty one, and not asked for again.
RequestFails(o) ==
  /\ AnswerOp(o)
  /\ mcpCircuit' = AfterFailedRequest(mcpOp[o].kind, mcpCircuit)
  /\ mcpStreak' = IF mcpStreak < OpenAfter THEN mcpStreak + 1 ELSE mcpStreak
  /\ mcpTools' = IF mcpOp[o].kind = "discover" THEN EmptyList ELSE mcpTools
  /\ UNCHANGED <<mcpServer, mcpClient, mcpStarted, mcpRace>>

\* register saves the document, then forgets client and tools.
Register ==
  /\ mcpServer.version < MaxVersion
  /\ \E enabled \in BOOLEAN : mcpServer' = [version |-> mcpServer.version + 1, enabled |-> enabled]
  /\ mcpClient' = 0 /\ mcpTools' = 0
  /\ mcpRace' = (mcpRace \/ \E o \in McpOps : mcpOp[o].at # "idle")
  /\ UNCHANGED <<mcpCircuit, mcpOp, mcpStarted, mcpStreak>>

\* set_enabled saves the document it read: a registration in between is lost.
SaveEnabled(o) ==
  /\ mcpOp[o].at = "read" /\ mcpOp[o].kind = "edit"
  /\ \E enabled \in BOOLEAN :
       /\ mcpServer' = [version |-> mcpOp[o].version, enabled |-> enabled]
       /\ mcpClient' = IF enabled THEN mcpClient ELSE 0
       /\ mcpTools' = IF enabled THEN mcpTools ELSE 0
  /\ mcpOp' = [mcpOp EXCEPT ![o] = IdleOp]
  /\ UNCHANGED <<mcpCircuit, mcpStarted, mcpStreak, mcpRace>>

\* The failures and the time the circuit opened are kept.
Disconnect ==
  /\ mcpClient' = 0 /\ mcpTools' = 0
  /\ mcpCircuit' = [mcpCircuit EXCEPT !.health = "none"]
  /\ UNCHANGED <<mcpServer, mcpOp, mcpStarted, mcpStreak, mcpRace>>

SetCredentials ==
  /\ mcpClient # 0
  /\ mcpClient' = 0
  /\ UNCHANGED <<mcpServer, mcpTools, mcpCircuit, mcpOp, mcpStarted, mcpStreak, mcpRace>>

\* A minute passes since the circuit opened.
CoolMcp ==
  /\ mcpCircuit.opened = "lately"
  /\ mcpCircuit' = [mcpCircuit EXCEPT !.opened = "before"]
  /\ UNCHANGED <<mcpServer, mcpClient, mcpTools, mcpOp, mcpStarted, mcpStreak, mcpRace>>

McpNext ==
  \/ \E o \in McpOps :
       \/ ReadServer(o) \/ CheckHealth(o) \/ RefuseOp(o) \/ SendRequest(o)
       \/ RequestSucceeds(o) \/ RequestFails(o) \/ SaveEnabled(o)
  \/ Register \/ Disconnect \/ SetCredentials \/ CoolMcp

-----------------------------------------------------------------------------
(* Properties *)

\* The server is shut out only after as many failures in a row as it takes,
\* however operations overlap; and client and tools are those of the document
\* that is registered, unless a registration met an operation under way.
GatewayIsTrue ==
  /\ CircuitOf(mcpCircuit) \in {"open", "half-open"} => mcpStreak >= OpenAfter
  /\ ~mcpRace => {mcpClient, mcpTools} \subseteq {0, EmptyList, mcpServer.version}
=============================================================================
