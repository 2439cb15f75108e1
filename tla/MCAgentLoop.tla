----------------------------- MODULE MCAgentLoop -----------------------------
(* Two different tool calls. Reminders, repairs and turns are as many as the *)
(* code allows; of its twelve rounds three are left, enough for rounds that  *)
(* make calls, that are reminded, and that run out.                          *)
EXTENDS AgentLoop
=============================================================================
