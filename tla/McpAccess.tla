------------------------------- MODULE McpAccess -------------------------------
(***************************************************************************)
(* Who is offered a tool of an MCP server and who may call it: select_tools *)
(* and _authorized of agentos/registries/mcp_registry.py, two ladders of   *)
(* checks that nothing keeps in step, as the tools mcp.select and mcp.call *)
(* climb them. A decision about one agent and tool.                        *)
(***************************************************************************)
EXTENDS TLC

VARIABLES accessFor, access

accessVars == <<accessFor, access>>

\* The server's document as it concerns the agent and the tool, and the
\* agent's permissions by key, from the narrowest to the widest.
AccessQuestion ==
  [trust : {"trusted", "untrusted", "blocked"},
   override : {"none", "trusted", "untrusted", "blocked"},
   default : {"allow", "deny"}, listed : BOOLEAN,
   allowedAgents : {"all", "this", "others"}, tools : {"all", "this", "others"},
   perTool : {"absent", "allow", "deny"}, perServer : {"absent", "allow", "deny"},
   wide : {"absent", "allow"}]

ToolTrust(q) == IF q.override = "none" THEN q.trust ELSE q.override

\* What is not authorized explicitly of an untrusted server.
Unvouched(q) == ToolTrust(q) = "untrusted" /\ q.default # "deny"

\* What the agent's permissions say; a caller that hands none over is let through.
AgentToolPermitted(q, given) ==
  CASE ~given -> TRUE
    [] given /\ q.perTool # "absent" -> q.perTool = "allow"
    [] given /\ q.perTool = "absent" /\ q.perServer # "absent" -> q.perServer = "allow"
    [] OTHER -> q.wide = "allow"

TrustGate(q) == ToolTrust(q) # "blocked" /\ (Unvouched(q) => q.listed)

Authorized(q) ==
  /\ TrustGate(q)
  /\ q.allowedAgents # "others"
  /\ q.default = "deny" => q.listed
  /\ q.tools # "others"
  /\ AgentToolPermitted(q, TRUE)

\* _agent_permitted: the server's own policy.
ServerPermits(q) ==
  /\ q.allowedAgents # "others"
  /\ q.tools # "others"
  /\ q.default = "deny" => q.listed

\* Mutant: the tool's own trust is not looked at.
CandidateOfServer(q, allowUntrusted, given) ==
  /\ q.trust # "blocked"
  /\ Unvouched(q) => allowUntrusted
  /\ ServerPermits(q)
  /\ AgentToolPermitted(q, given)

\* The ladder of select_tools.
Candidate(q, allowUntrusted, given) ==
  /\ q.trust # "blocked"
  /\ ToolTrust(q) # "blocked" /\ (Unvouched(q) => allowUntrusted)
  /\ ServerPermits(q)
  /\ AgentToolPermitted(q, given)

\* mcp.select, its only caller, leaves both arguments at their defaults.
Offered(q) == Candidate(q, FALSE, FALSE)

NoAccess == [answered |-> FALSE]

AccessInit == accessFor \in AccessQuestion /\ access = NoAccess

AccessNext ==
  /\ access = NoAccess
  /\ access' = [offered |-> Offered(accessFor), callable |-> Authorized(accessFor)]
  /\ UNCHANGED accessFor

-----------------------------------------------------------------------------
(* Properties *)

\* What mcp.select offers, mcp.call refuses for the agent's own permission only:
\* trust, override, server policy, allow list and exposed tools, which each
\* ladder spells out for itself, let the same tools through.
RefusedForPermissionOnly ==
  access # NoAccess /\ access.offered /\ ~access.callable => ~AgentToolPermitted(accessFor, TRUE)

\* docs/MCP.md and the docstring of mcp.select: an agent is offered only the
\* tools it may actually use. Nobody hands the agent's permissions over.
OffersAreCallable == access # NoAccess /\ access.offered => access.callable

=============================================================================
