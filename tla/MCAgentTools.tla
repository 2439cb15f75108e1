---------------------------- MODULE MCAgentTools ----------------------------
(***************************************************************************)
(* The run of an agent, and the tool calls of agents that run side by      *)
(* side. What the one decides about the other (a call is made, fails or    *)
(* succeeds) each of the two modules leaves open, so they are explored one *)
(* at a time: a behaviour picks the one that moves.                        *)
(***************************************************************************)
EXTENDS AgentLoop, ToolCall

CONSTANTS agent1, agent2

VARIABLE part

\* One agent was started with the deployment approved.
Started == {<<agent1, "deploy">>}

AgentToolsInit == part \in {"run", "calls"} /\ LoopInit /\ CallInit

RunMoves == part = "run" /\ LoopNext /\ UNCHANGED <<part, toolVars>>
CallsMove == part = "calls" /\ CallNext /\ UNCHANGED <<part, vars>>

\* The fairness of LiveLoopSpec and LiveCallSpec.
AgentToolsSpec ==
  /\ AgentToolsInit /\ [][RunMoves \/ CallsMove]_<<part, vars, toolVars>>
  /\ WF_vars(part = "run" /\ Step)
  /\ \A c \in Callers : WF_toolVars(part = "calls" /\ CallStep(c))

\* Every run of an agent comes to its end and every tool call to its answer,
\* whatever the model says, how often calls are retried, and whatever happens
\* to approvals, circuits and the emergency stop meanwhile.
RunsAndCallsEnd == (part = "run" ~> pc = "ended") /\ CallsEnd

\* Runs and tool calls only ever come nearer to their end.
NothingGoesInCircles == RunGetsOn /\ CallsGetOn
=============================================================================
