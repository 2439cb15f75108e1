----------------------------- MODULE MCServices -----------------------------
(***************************************************************************)
(* The services a run of an agent uses, and the decisions taken for it.    *)
(* They share no state, so a behaviour picks one of them: that one moves,  *)
(* the others stay where they began.                                       *)
(*                                                                         *)
(* A decision is a function of a question. Its part begins with any of the *)
(* questions; in the other parts it waits with none.                       *)
(***************************************************************************)
EXTENDS RollbackLedger, Inbox, FactMemory, Worktrees, StageWork, Spawning, ModelFailover,
        Spending, McpGateway, Checkpoints, Authority, Planner, ModelRouting, McpAccess,
        PolicyRules, FilePatch, Performance, Listener, Documents

CONSTANTS
  Parts,          \* the parts a run explores
  s1, s2, s3, w1, w2

ASSUME PartsAssumption ==
  Parts \subseteq {"ledger", "inbox", "memory", "worktrees", "stage", "spawning", "failover", "spending",
                   "mcp", "checkpoints", "authority", "plan", "routing", "access", "policy", "patch",
                   "performance", "listener", "documents"}

VARIABLE part

-----------------------------------------------------------------------------
(* The instance *)

\* Two runs for a project, one for none.
TheScopes == s1 :> <<"global", "pa">> @@ s2 :> <<"global", "pa">> @@ s3 :> <<"global">>

TheLimits == "global" :> 2 @@ "pa" :> 1

TheChannels == <<"executive">>

\* One row refers through another, one cannot be copied.
TheCollections == <<"approvals", "budgets", "projects", "schedules", "tasks">>
TheReferences == <<{3, 5}, {}, {}, {3}, {3}>>

\* Two workspaces with work on the same lines.
Clash == {<<w1, w2>>, <<w2, w1>>}

ThePlan == <<"research", "implement-frontend", "testing">>

\* The stages a goal's own marker names: in order, out of it, not there, twice.
TheMarkers == {<<"research", "design">>, <<"report", "design">>, <<"magic">>,
               <<"design", "understanding", "design">>}

-----------------------------------------------------------------------------
(* One part at a time *)

ServicesInit ==
  /\ part \in Parts
  /\ LedgerInit /\ InboxInit /\ MemInit /\ WorktreeInit /\ StageInit /\ SpendingInit /\ McpInit
  /\ CheckpointInit /\ PerfInit /\ ListenerInit
  /\ DocumentsInit /\ (part # "documents" => tables = "none" /\ legacy = {})
  /\ SpawnInit /\ (part # "spawning" => \A c \in Spawns : spawn[c].job = CHOOSE j \in Jobs : TRUE)
  /\ FailoverInit /\ (part # "failover" => withKey = CHOOSE keys \in ProviderSets : TRUE)
  /\ IF part = "authority" THEN AuthorityInit ELSE question = [ask |-> "nothing"] /\ verdict = Open
  /\ PlanInit /\ (part # "plan" => goal.topics = {} /\ goal.marker = <<>> /\ ~goal.full)
  /\ IF part = "routing" THEN RoutingInit ELSE routeFor = "nothing" /\ routed = RouteOpen
  /\ IF part = "access" THEN AccessInit ELSE accessFor = "nothing" /\ access = NoAccess
  /\ IF part = "policy" THEN PolicyInit ELSE policyFor = "nothing" /\ vetted = "open"
  /\ IF part = "patch" THEN PatchInit ELSE patchFor = "nothing" /\ patched = <<"open">>

OthersWait ==
  /\ UNCHANGED part
  /\ part # "ledger" => UNCHANGED vars
  /\ part # "inbox" => UNCHANGED inboxVars
  /\ part # "memory" => UNCHANGED memVars
  /\ part # "worktrees" => UNCHANGED worktreeVars
  /\ part # "stage" => UNCHANGED stageVars
  /\ part # "spawning" => UNCHANGED spawnVars
  /\ part # "failover" => UNCHANGED failoverVars
  /\ part # "spending" => UNCHANGED spendingVars
  /\ part # "mcp" => UNCHANGED mcpVars
  /\ part # "checkpoints" => UNCHANGED checkpointVars
  /\ part # "authority" => UNCHANGED authorityVars
  /\ part # "plan" => UNCHANGED planVars
  /\ part # "routing" => UNCHANGED routingVars
  /\ part # "access" => UNCHANGED accessVars
  /\ part # "policy" => UNCHANGED policyVars
  /\ part # "patch" => UNCHANGED patchVars
  /\ part # "performance" => UNCHANGED perfVars
  /\ part # "listener" => UNCHANGED listenerVars
  /\ part # "documents" => UNCHANGED documentVars

LedgerMoves == part = "ledger" /\ LedgerNext /\ OthersWait
InboxMoves == part = "inbox" /\ InboxNext /\ OthersWait
MemoryMoves == part = "memory" /\ MemNext /\ OthersWait
WorktreesMove == part = "worktrees" /\ WorktreeNext /\ OthersWait
StageMoves == part = "stage" /\ StageNext /\ OthersWait
SpawningMoves == part = "spawning" /\ SpawnNext /\ OthersWait
FailoverMoves == part = "failover" /\ FailoverNext /\ OthersWait
SpendingMoves == part = "spending" /\ SpendingNext /\ OthersWait
McpMoves == part = "mcp" /\ McpNext /\ OthersWait
CheckpointsMove == part = "checkpoints" /\ CheckpointNext /\ OthersWait
AuthorityDecides == part = "authority" /\ AuthorityNext /\ OthersWait
PlanMoves == part = "plan" /\ PlanNext /\ OthersWait
RoutingDecides == part = "routing" /\ RoutingNext /\ OthersWait
AccessDecides == part = "access" /\ AccessNext /\ OthersWait
PolicyDecides == part = "policy" /\ PolicyNext /\ OthersWait
PatchApplies == part = "patch" /\ PatchNext /\ OthersWait
PerformanceMoves == part = "performance" /\ PerfNext /\ OthersWait
ListenerMoves == part = "listener" /\ ListenerNext /\ OthersWait
DocumentsMove == part = "documents" /\ DocumentsNext /\ OthersWait

ServicesNext ==
  \/ LedgerMoves \/ InboxMoves \/ MemoryMoves \/ WorktreesMove \/ StageMoves \/ SpawningMoves
  \/ FailoverMoves \/ SpendingMoves \/ McpMoves \/ CheckpointsMove \/ AuthorityDecides
  \/ PlanMoves \/ RoutingDecides \/ AccessDecides \/ PolicyDecides \/ PatchApplies
  \/ PerformanceMoves \/ ListenerMoves \/ DocumentsMove

serviceVars ==
  <<part, vars, inboxVars, memVars, worktreeVars, stageVars, spawnVars, failoverVars, spendingVars,
    mcpVars, checkpointVars, authorityVars, planVars, routingVars, accessVars, policyVars, patchVars,
    perfVars, listenerVars, documentVars>>

ServicesSpec == ServicesInit /\ [][ServicesNext]_serviceVars

-----------------------------------------------------------------------------
\* Every part keeps its state in the shape its module gives; the counter of
\* running sub-agents, which is only ever added to and taken from, never
\* falls below zero.
ServicesTypeOK ==
  /\ LedgerTypeOK /\ InboxTypeOK /\ MemTypeOK /\ WorktreeTypeOK /\ StageTypeOK /\ SpawnTypeOK
  /\ FailoverTypeOK /\ SpendingTypeOK /\ McpTypeOK /\ CheckpointTypeOK
  /\ PerfTypeOK /\ ListenerTypeOK /\ DocumentsTypeOK

\* A model is taken on what was reported of an agent, and within the bounds
\* that were asked for: of what the record suggests and what routing makes of it.
RoutedOnMerit == RecordIsFair /\ RouteInBounds

\* The same tools pass the server's side of an offer and of a call, and no
\* order of the policies changes what they decide.
PermissionsAgree == RefusedForPermissionOnly /\ OrderIsImmaterial

\* What was saved is found again after a crash: the point a run resumes at,
\* and the rows a start copies from the old store.
RecordsSurvive == ResumesWhereItStopped /\ DocumentsAreKept
=============================================================================
