# agent_os2 in TLA+

A TLA+ model of Agent OS (`src/agentos`): a service that runs an organization
of AI agents. Projects are worked on in workflow runs, stage by stage, or as
single tasks taken from a queue; schedules start missions; humans approve,
retry and edit over an HTTP API, a CLI and Mattermost. The deployment is a
docker-compose file with an `app` and a `worker` container, both of which run
the engine against one Postgres and one Redis; offline everything runs in one
process with in-memory stand-ins.

Two facts about the code shape every module:

* **Documents are loaded and saved whole.** There are no transactions and no
  versions. Whoever saves a document writes back everything it read earlier.
* **Control changes hands at awaits**, and between containers at any time.
  Each action of a module is a stretch of code between two awaits that matter.

## 1. Inventory

| Component | State it keeps | Operations | Talks to | Hard behaviour | What makes it correct |
|---|---|---|---|---|---|
| Distributed lock (`db/locks.py`) | key → owner string, expiry | acquire, release, is_locked | worker loop, scheduler | expiry under a live holder, late release, crash | one unexpired grant per key; no key locked for ever |
| Worker loop (`orchestration/engine.py` `worker_loop`) | queue, task status, lock | dequeue, guard, lock, run, record, release | lock, queue, tasks, runtime | two workers, crash after dequeue, retries | no task run twice at once; every run leaves an outcome |
| Workflow runs (`engine.py`, `graph.py`) | `_active_runs`, graph state, checkpoints | start, step, retry, gate, pause, approve, resume | approvals, projects, tasks, executive's model | approve during an invocation, restart, exceptions | gates hold; stages done once; the run settles |
| Approvals (`security/approvals.py`) | request documents | request, decide | runs, humans | two deciders | decided once; a decision takes effect |
| Scheduler (`orchestration/scheduler.py`) | schedule documents, lock | claim_due, fire, edit, delete, run now | lock, engine | two workers, stale save at mission end, crash | each occurrence once; limits hold; what is due is claimed |
| Tasks and deadlines (`tasks/service.py`, `enforce_deadlines`) | task documents | create, set_status, unblock, delegate, record_artifact, escalate | worker, runs, messages | listing then writing, dependencies finishing side by side | running tasks left alone; dependents unblocked |
| Stage execution (`execute_stage_work`) | task, workspace, artifacts | one attempt at a stage | runtime, workspaces, evaluation | one step of several failing | a failed stage is never reported completed |
| Spawning (`spawn_subagent`) | `_parallel_count`, `_active_task_hashes` | spawn, retry stronger, escalate | runtime, tasks, messages | limits checked before an await | limits hold |
| Delegation, memory scopes (`delegation.py`, `scoping.py`) | – (the chart) | select, can_read, can_write | tools | scores that outweigh a condition | nobody is handed what they may not do; memory stays in line |
| Planner (`planning.py`, `_director_filter`) | – | plan_stages, filter | executive, directors | markers, directors who drop stages | a plan is framed, no stage twice |
| Agent runtime (`agents/runtime.py`) | transcript, `AgentRunResult`, executed calls | model/tool rounds, minimum-work guard, verify, repair, report | router, tools, budgets, inbox | rounds within repairs, calls repeated over stretches, exceptions out of the loop | the run ends at a bounded cost; no call twice; only work is reported as done |
| Tool executor, policy (`tools/executor.py`, `security/policy.py`) | circuits, tool requests, emergency flag | execute, engage, disengage, decide | policy, registries, ledger, audit | stop or circuit read before an await and used after it, concurrent probes, retries | no gated call without an approval entry; circuits count failures; calls end |
| Rollback ledger (`security/rollback.py`) | entries, files of the workspace | record, rollback, rollback_task | executor, API | recording long after the write, rollbacks side by side, compensations that fail | what a tool left can be undone, once, newest first |
| Budgets (`budgets/`) | a document per scope: spent today, this month | check, record | runtime, router | lost updates, a day's end between check and record | never more shown than spent; nobody near a limit unwarned |
| Model router, circuits (`models/router.py`) | failures per model | route, failover | runtime, budgets, performance | circuits shared by calls under way | tiers stay in bounds; one provider's failures stop nobody |
| Workspaces (`workspaces/`) | worktrees, one shared repository | isolate, integrate, discard | git | integrations side by side | work is merged once or kept |
| Memory (`memory/`) | versioned entries, links | save, save_fact, recall, consolidate, archive | agents | archive and save are two saves; several at once | what is known stays known, one version of it |
| Messaging (`messaging/inbox.py`) | message documents | send, deliver, answer, resolve | worker, agents | both deliver and answer save what they read | nothing becomes unread again; verdicts are told |
| Performance (`performance.py`) | counters per agent and window | record, influence | runtime, router | read, empty, save by several at the change of a date | no more is counted than was reported |
| Mattermost listener (`integrations/mattermost/`) | time noted per channel | poll, handle, decide | engine, approvals | posts and exceptions in the middle of a poll | no human's post is passed over |
| MCP registry (`registries/mcp_registry.py`) | server document, cached client and tools, circuit | register, connect, discover, call, probe, health | external servers | a registration while calls are under way | shut out only after failures; caches of the document that is registered |
| Checkpoints (`checkpoints.py`) | checkpoints, pointer | aput, aget_tuple | runs | crash between two saves | a run resumes where it stopped |
| Database (`db/relational.py`) | tables with references, the old store | init, migrate, put, delete | all | two containers starting at once, one dying in a transaction | every row that can be copied is; nothing written is taken back |
| Events, traces, evaluation, browser, prompts, skills | records, text | append, route, score | all | mostly I/O | – |

`PROJECT.json` lists every component with its files, and under `hazards` the
places in the code where something could go wrong that a test would hardly
reach, each with the properties about it.

## 2. Modules

| Module | Models | Builds on |
|---|---|---|
| `Lease` | what a lock service promises (abstract) | – |
| `LockManager` | `db/locks.py`, both backends | – ; implements `Lease` |
| `WorkerLoop` | `worker_loop` and the ways into the queue | EXTENDS `LockManager` |
| `RunLifecycle` | what a workflow run promises (abstract) | – |
| `WorkflowRun` | graph steps, gate, approvals, engine bookkeeping | implements `RunLifecycle` |
| `Scheduler` | claims, missions, edits | – |
| `TaskBoard` | task documents, unblocking, deadlines | – |
| `ToolCall` | one tool call from the policy check to the answer, emergency stop, circuits | – |
| `RollbackLedger` | rollback entries, workspace files, compensations | – |
| `AgentLoop` | one agent's run of one task | – |
| `StageWork` | one stage's attempts inside `execute_stage_work` | – ; `WorkflowRun` takes it as one step |
| `Spawning` | `spawn_subagent` and the child's outcomes | – |
| `Inbox` | messages, delivery marks, answers, prompts | – |
| `FactMemory` | versions of what one owner knows on one topic | – |
| `Worktrees` | workspaces and merges in one repository | – |
| `Spending` | budgets by scope and day | – |
| `ModelRegistry` | the models, their prices and providers | – |
| `ModelRouting` | `route` (a decision) | EXTENDS `ModelRegistry` |
| `ModelFailover` | circuits and failover of concurrent model calls | EXTENDS `ModelRegistry` |
| `Performance` | counters per window, and `influence` | – |
| `McpGateway` | one MCP server: caches, circuit, operations under way | – |
| `McpAccess` | what `mcp.select` offers of a server, what `mcp.call` lets through (a decision) | – |
| `PolicyRules` | `evaluate` and the executor's first steps (a decision) | – |
| `FilePatch` | `file.patch` beside the meaning of a unified diff (a decision) | – |
| `OrgChart` | the agents of `hierarchy.py` and `identities.py` | – |
| `Authority` | delegation and memory scopes (decisions) | EXTENDS `OrgChart` |
| `Picking` | filtering a list, as a recursive function | – |
| `Planner` | stages of a goal, directors, the plan | uses `Picking` |
| `Checkpoints` | a run's checkpoints and their pointer | – |
| `Documents` | start, migration, put and delete of the relational store | – |
| `Listener` | polls of Mattermost channels and what posts decide | – |
| `WorkerLoop_proofs` | theorems about `LockManager` and `WorkerLoop` | EXTENDS `WorkerLoop` |
| `WorkflowRun_proofs` | theorems about `WorkflowRun` and its refinement | EXTENDS `WorkflowRun` |
| `Coordination_proofs` | theorems about `TaskBoard`, `Scheduler` and the composite | EXTENDS `MCCoordination` |
| `AgentTools_proofs` | theorems about `ToolCall`, `AgentLoop` and the composite | EXTENDS `MCAgentTools` |
| `Records_proofs` | ledger, inbox, memory, budgets, checkpoints, tables | EXTENDS their modules |
| `Work_proofs` | stages, sub-agents, workspaces, MCP server, performance, listener | EXTENDS their modules |
| `Services_proofs` | failover and the decisions, and the composite | EXTENDS `MCServices`, `Records_proofs`, `Work_proofs` |
| `MCWorkerLoop`, `MCWorkflowRun`, `MCScheduler`, `MCAgentLoop` | values of constants for TLC | EXTEND their module |
| `MCCoordination`, `MCAgentTools`, `MCServices` | several components explored by one run | EXTEND their modules |

An operator commented "Mutant" is a plausible bug in the definition that
follows it. No specification uses one; put in the definition's place it makes a
property fail, which shows that the property depends on that code.

**Composites.** In `MCCoordination`, `MCAgentTools` and `MCServices` the parts share no
state. The variable `part` is chosen in the initial state; that part moves by its own Next and
the others stay where they began, so that the run explores each of them completely and none of
their products. Fairness is stated for a part's steps while it is the part that moves. The components
that do interact are composed for real: `WorkerLoop` over `LockManager`, `ModelRouting` with the budget's
and the record's answers as inputs, `StageWork` as the inside of a step of `WorkflowRun`.

**Decisions.** A function of the code that only computes (`route`, `select`, `evaluate`, a permission check, a patch)
is a module with a question and an answer: every question of the instance is an initial state, the only
step answers it as the code does, and the property compares the answer with what was asked.

### LockManager and Lease

`heldBy[k]` and `left[k]` are the stored entry (owner string, time left);
`critical[p]` and `grant[p][k]` are what the caller `p` believes. Time counts
down, so no clock needs a bound. `Acquire` is `SET NX PX` or the in-process
check, `Release` the compare-and-delete, `IsLocked` the in-process map's removal
of an expired entry, `Tick` the passage of time (Redis removes, the map keeps
expired entries), `Crash` a container's death with Redis, `CrashAll` the death
of the only process without. `redis` says which backend there is and never
changes. Processes and owner STRINGS are different things, because
`worker:<pid>` is not unique over containers: `DistinctOwners` says when they are.

### WorkerLoop

`pc[w]` follows `worker_loop`: idle → `check` (status guard) → `lock` → `start`
→ `run` → `verify` → `usage` (`RecordUsage`: the outcome is saved, what follows it may still raise) → `release`, or
`fail` → `release` from the except clause.
Humans enqueue through the API whatever the status is, or retry: the retry
reads the status, writes it back ("touch") and enqueues, in two steps. What a
worker dequeued lives in its memory only, and dies with it. `Timely` restricts
`PassTime` so that a run is over before its lock expires. `asked` is history: how often a task was enqueued,
less how often it was run.

### WorkflowRun and RunLifecycle

Every invocation of the graph works on its caller's `run[c]`; the engine's
record `entry` (`_active_runs[run_id]["state"]`) changes when an invocation
begins for the first time and when one ends. `BeginStage` and the actions after
it are the `step` function; what a stage does is one action with an outcome
(output, empty, failed). `Approve` … `NoPausedRun` are `engine.approve` cut at its
awaits, in the engine's process (`Humans`) or in the CLI's (`Cli`), which has no
active runs. `StepRaises` is an exception out of the invocation, `Restart` the
loss of `_active_runs`. `Patient` says that an approve call begins only while no other
call is in flight.

`RunLifecycle` is what the people around a run rely on: it runs, waits for a
decision, goes on only if approved, fails if rejected, ends once.
`KeepsLifecycle` is the refinement; the mapping takes the invocation's state where one is
in flight, and a decision that the graph has not yet applied as not yet made.

### Scheduler

`BeginTick` … `EndClaims` are `claim_due`: list, then per schedule lock, read again,
save. `Launch` … `MissionEnds` are `fire` with `fire_schedule`; `Record` writes the claimed
copy back whole. Humans edit in two steps, delete, or launch by hand in a
process of their choice. `taken` (claimed occurrences) and `launched` are history.
`Timely` says that claims and missions end before the schedule's next occurrence.

### TaskBoard

`board[t]` is the status of each task document; `boardPc`, `task`, `boardDoc`, `toLook` are where each
process is and what it has read. Three ways to write an outcome: a worker's own
save (`SaveOutcome`), a stage's `set_status` with unblocking (`SetOutcome`,
`ListDependents`, `Unblock`), the approval of a stage (`ApproveStage`). `ListOverdue` …
`EndListing` are `enforce_deadlines`. `store` says whether awaits suspend: with the
in-memory store they do not, so a service call is one piece (`Turn`).
`owed` (history) are blocked tasks whose last dependency has completed.
The lock that keeps two workers off a task is `WorkerLoop`'s subject; here a
runner takes a task nobody else has. A listing's `limit` of 1000 is not modelled.

### ToolCall

`callPc[c]` follows one `execute` of the caller `c`: idle → `vetted` (tool known,
policy evaluated, emergency flag read) → `admitted` (approval entry found,
circuit asked) → `running` ⇄ `backoff` → `answered` → idle. `AskHuman`, `FailFast`
and `GiveUp` are the early returns. `circuits[t]` is the record of one process;
asking for its state makes a cooled circuit half-open (`Asked`), also when only
the health page asks. Transient or not, timed out or not is an outcome of the
handler: `Succeed`, `BackOff` or `Fail`. `vouched[c]` says that an entry of kind approval came to the memory of the
caller's task. `SaveApproval` writes it: `memory.save`, a tool every agent has for its own task. So "approved" in this module
means that the executor found such an entry, never that a human wrote one: the code does not ask who did. A human's decision
(`Decide`) writes no entry and releases nothing. What policies and permissions decide for a
pair of agent and tool does not change while the agent runs, so `Tools` are those they let
through and `Gated` those they send to a human. `late`, `streak`, `opened` and `seen` are history.

### RollbackLedger

A write is a number and a file holds the number of the write that touched it last,
which is all the properties need of contents. `Write` is a handler that is done;
`Record` comes later, after hooks and validators (or `Veto` instead). `RollBack` is the request for
one entry; `BeginTaskRollback`, `UndoNext`, `PassDone`, `StopAt` and `EndTaskRollback` are
`rollback_task`, open to others at each entry. Entries are known by their place in the ledger, so
"newest first" is `AtEntry`'s choice of the greatest place left.

### AgentLoop

`pc` follows `_run_loop`: `begin` (routing, first model call) → `answered` → `tools` → `ask` → `answered` …
while `_run_tool_rounds` lasts, then `guard` (and `turn`, `_finish_with_work`), `verify`, `repair` and back to
`answered`, `over`, and after `_post_run` `ended`. An answer is a provider's error, or a set of calls and a
text that is empty, shorter than the guard's 400 characters, or long enough. `Sigs` are calls by their
signature, so `executed` is `executed_signatures`. `error` keeps the cause only. What a call goes through is
`ToolCall`'s subject: here it succeeds, fails, or waits for a human. `asked`, `tracked`, `runs` and
`raised` are history: answers paid for, answers in `result.usage`, executions per call, the exception that left the loop.
`TurnCalls` ends the run, as the code does: `_finish_with_work` uses a name `result` it does not have.

### StageWork and Spawning

`StageWork` opens the one step that `WorkflowRun` takes for a stage: `BeginStage` (workspace, task), `StartTask` (RUNNING),
`AppointAgent` (WORKING), `AgentRuns`, `DeliverBuild` or `DeliverArtifact`, `RecordWork`, `MergeBack`, then three saves one after the
other: `SettleTask` (the task's outcome), `SettleAgent` (the agent's status), `AnnounceStage` (the event). `StageRaises` is an
exception at each of these places but `MergeBack`, which catches its own; after it the graph is told "failed", whatever was saved
before, a COMPLETED task included. `NextAttempt` is the graph's retry, with another task. Of a file it keeps whether it is a stub. `trouble` (history)
names the failures the code logs and passes over. `Spawning` has one call per delegated job: `BeginSpawn` counts it two awaits
after `WithinLimits` was read, `AfterChild`, `RetryStronger`, `Escalate` and `SpawnRaises` are the ways on, `Leave` the finally clause.

### Inbox, FactMemory, Spending, Performance, Checkpoints

Documents with several writers. A call is cut at each save: what it read stays in its copy
(`reader`, `answer`, `memCall`, `spender`, `tracker`, `ckptWriter`) until it saves it. `WritesRaise` is `aput_writes` over the tables of
`db/relational.py`, whose `put` cannot parse its key. Histories say what the documents should tell:
`said` and `forgotten`, `costs`, `told`, `ckptReturned`; and which calls overlapped (`overlapped`, `overlap`, `mingled`,
`ckptOverlap`), for the code keeps some promises only alone. `MemCrash` and `RestartProcess` fall between two saves.

### Worktrees

One repository, a workspace per stage. `CommitWork`, `CommitPart`, `NothingSeen`, `CheckoutBase`, `MergeBranch`, `MergeFails`, `AbortMerge` are
`integrate`, each git command a step, called by the engine, the API or the CLI, also while the run in the workspace goes on (`early`
remembers that). Every command may fail or not answer within its minute, since `_git` returns None for either; `gitBroken` remembers one that
did so for no reason of the model's. The abort of a merge may fail as well, unnoticed, and a merge that was given up goes on by
itself (`LateMerge`). `merging` is a merge that waits in the shared tree, which makes the commands of others fail. `SyncPlain` is the engine's copy of a
plain directory: it replaces files of others on the same lines (`overwritten`), all of them or those it comes to before it raises.
The late effects of other commands (a checkout or commit that is given up and still happens) are not modelled.
Nor is a repository on a detached HEAD, where no base branch is checked out.

### ModelRouting, ModelFailover, Authority, Planner, McpAccess, PolicyRules, FilePatch

`ModelRouting` follows `route` from the policy's tier over complexity, risk and record to a model with a
provider, with the real models and prices; a model the policy prefers (`Liked`; the shipped chart prefers none) comes before the tier's, and
one the caller forces (`Pins`) is taken without a look at tier, key or budget. `ModelFailover` is `_call_with_failover` for two calls that share the circuits.
`Authority` asks who may be delegated what, over the chart of 41 agents, and who may read and write memories; `Planner` turns any
topics or marker into a plan and lets each director drop stages of its branch. `McpAccess` has the two
ladders of permission checks side by side, each with the arguments its tool hands over: `mcp.select` none but the agent's id
(`Offered`), `mcp.call` the agent's permissions (`Authorized`); `PolicyRules` every pair of policies, `FilePatch` every file of three lines over two
letters and every diff of two hunks made for it, with what a diff means as the reference (`Meant`).

### McpGateway

The stored document has a version that registration raises; client and tools cached in memory carry the
version they were made from. An operation reads the document, waits for the server, and then writes to circuit and
caches. `CoolMcp` is the half-open delay. `mcpStreak` and `mcpRace` are history.

### Documents

`TakeBootLock`, `LookForTables`, `CreateTables`, `GiveBootLock` are `init`, `BeginMigration` … `CommitMigration` the copy
of the old store in `_migration_order` (`RoundOf` is computed from the references of `SCHEMA`). A transaction's rows wait in
`process[p].held`; whoever meets one waits. Which rows there are, and their references, are constants.

### Listener

`AskChannel` fetches what is not older than the time noted for the channel, `TakePost` and `DecideApproval` handle it,
`NoteTime` notes the time at the end. Posts come, are edited, and the clock goes on at any moment. `heard`, `overlooked`, `repeatable` and
`broken` are history: how often a post was handled, and the excuses for not once.

## 3. Runs

| Run | Instance | Shows |
|---|---|---|
| `worker` | 2 workers, 2 tasks, 3 enqueues, 1 crash, timely | no concurrent runs, outcomes recorded, no task run more often than it was enqueued (`RunsAreAsked`), enqueued tasks finish |
| `worker_orphan` | one crash | **violated**: a dead worker's task is never picked up |
| `run_patient` | 4 stages, 2 approvals, 2 retries, 3 approve calls, 1 restart, one call at a time | gates, stages done once, failure budget (`StagesAreKept`), project status, lifecycle refinement, the run settles, decisions take effect |
| `run_races` | the same with 1 retry, calls at any time, a CLI caller, exceptions | a NO-GO, of the executive or for a call that failed or evidence that is missing, never builds; a pause always rests on a request for its stage |
| `sched_again` | missions of any length | **violated**: an occurrence is claimed twice |
| `agent_stub` | 2 calls, 3 rounds, 3 reminders, 2 repairs | **violated**: the opening line of an answer is reported to the parent as the result |
| `coordination` | locks: 3 processes, 1 key, TTL 2, both backends; schedules: 2 workers, a schedule that is due at once, two runs allowed, 5 clock values, 1 human act, 1 crash, timely; board: 2 stages, a task that waits on both and is overdue, 2 runners, 1 deadline pass, both stores | the lock refines `Lease` and keys become free; occurrences once, counts, limit and no overlap (`ClaimsAreKept`), what is due is claimed (`DeadHoldersStallNobody`, with the lock's part); running and completed tasks left alone offline (`BoardKeepsWork`), dependents unblocked |
| `agent_tools` | the loop of `agent_stub`; 2 agents, a gated tool and one never retried, 3 calls, 1 stop, threshold 2, 1 retry | a gated tool's handler runs only with an approval entry and a stop lets only vetted calls on (`GatesAreKept`), the circuit tells the streak and shields (`CircuitIsSound`), answers bounded, calls made once, verified runs clean, only work passes the guard (`RunAddsUp`), no step goes back (`NothingGoesInCircles`), runs and calls end |
| `services` | nineteen parts, see below | one promise each |
| `patch_corrupts` | files of three lines, diffs of two hunks | **violated**: a diff is accepted and gives another file than it means |
| `posts_again` | one channel, two posts | **violated**: a post is handled again after a poll that failed |
| `inbox_unread` | one run, one worker | **violated**: a message is marked delivered and never shown |

The parts of `services`, with the property each has and its bounds:

| Part | Property | Bounds |
|---|---|---|
| ledger | `FilesAreAccounted`, `UndoneInOrder` | 2 tasks on one file, 3 writes, one undoer of tasks and any single rollbacks (the theorem covers all of them) |
| inbox | `MailIsHonest` | 2 peers, 1 run, 2 answers at once, 3 messages |
| memory | `TopicsAreKept` | 2 statements, 2 calls at once, 3 calls, 3 entries |
| worktrees | `WorkIsKept` | 2 workspaces on the same lines, 2 integrations, 1 git command that fails for a reason of its own (`MaxBroken`; the theorem covers any number) |
| stage | `StageTellsTruth` | 3 stages (research, build, testing), 2 attempts |
| spawning | `SpawnsAreAccounted`, `ServicesTypeOK` | 2 calls, 2 jobs, 1 slot |
| failover | `OneFlakyStallsNobody` | 2 calls, 2 failures, a circuit of 2, three sets of providers |
| spending | `BooksAreHonest` | 3 runs in 2 scopes, 2 days |
| mcp | `GatewayIsTrue` | 2 operations at once, 3 in all, 2 registrations, circuit of 2 |
| checkpoints, documents | `RecordsSurvive` | 2 invocations, 5 checkpoints, 2 restarts; 2 processes, 3 starts, 5 rows, 2 writes |
| authority | `ChartIsHonoured` | 3 askers, the whole staff, 2 archetypes |
| plan | `PlanIsFramed` | all sets of topics, 4 markers |
| routing, performance | `RoutedOnMerit` | all tiers and tolerances, 4 scores, 4 sets of keys, one model preferred or none, two forced (one unknown) or none; 2 records at once, 2 days |
| access, policy | `PermissionsAgree` | all combinations; lists of at most 2 policies |
| patch | `UnshiftedPatchesApply` | 3 lines over 2 letters, 2 hunks of 2 lines |
| listener | `PostsAreHeard` | 1 channel, 2 posts of any kind, 2 seconds, 1 restart |

**Bounds.** Two workers, two approvers, two runners or two calls are enough for every race
found here: each is between a reader and one writer. Three processes for the lock
allow holder, second winner and third winner at once, which is how a late release would
show. A TTL of 2 lets a lock be fresh, about to expire, and expired. The plan
has a gate, two approvals (so that one pause follows another) and a report stage
to skip to. Clock values 0 to 4 with an interval of 2 allow three
occurrences of a schedule limited to two. Names that begin with `Max` bound the environment, never the code.
Three calls with a threshold of two let a circuit open, cool, be probed and open again, or open and cool while
another caller's older call is still running. One broken git command is enough for each excuse of `WorkIsKept` to be
needed by itself; two at once only add to what is excused. Three writes of two tasks on one file let a write be
overwritten, undone, and written again before the first request is repeated. `AgentLoop` has the code's own
numbers but for `MAX_TOOL_ROUNDS`, 3 instead of 12: rounds of calls, of reminders and the last one, whose answer
is treated otherwise, all occur. Two days, both of one week, let the record of the day be outdated while
that of the week is not; the turn of a week is in the theorem (`RecordsStayFair`). Five rows let one
refer through another, two stand in one round and one have no readable key. One channel is enough for the listener's promise about one
channel's posts; that channels after a failing one wait is seen in `Abandon`.

**Deadlock** is checked in `worker`, `worker_orphan`, `agent_stub` and `agent_tools`. In the others something really stops: a run that
has ended with the bound on calls used up, a clock at its bound, a decision that was taken, a ledger with every request made.

**Hypotheses in properties.** `ClaimsAreKept` and `OccurrenceOnce` speak of schedules no
human has edited, `BoardKeepsWork` of the in-memory store, `EnqueuedFinishes` of behaviours
without a crash, `TopicsAreKept`, `BooksAreHonest`, `RecordsSurvive` and `RoutedOnMerit` say more of calls that did not overlap: without
those hypotheses the code breaks them, as the hazards say. `PostsAreHeard` names its excuses. Section 6 lists what the model shows beyond the runs.

**Fairness.** Workers, missions, coroutines, stages and tool calls that can go on do
(they await calls with timeouts, or work that ends); a dead container is
restarted (`restart: unless-stopped` in the compose override); time passes and
locks expire. Strong fairness only for the runners of `TaskBoard`: offline they
take turns on one event loop, which is fair. Nobody has to enqueue, approve,
edit, decide on a request, restart a healthy process, or let an agent fail. `RunsAndCallsEnd` assumes weak fairness of
the loop's steps together: model calls and tools have timeouts, and the loop is a coroutine.

## 4. Proofs

All theorems hold for every value of the constants that satisfies the named
assumptions of the modules (`OwnersAssumption`, `TTLAssumption`, `RunAssumption`, `BoardAssumption`, ...). They say
that bounds are natural numbers, sets are finite where they are counted, and that names which mean "nothing" name nothing.
Four say more, of closed data: `ChartAssumption`, `RegistryAssumption`, `OrderAssumption` and `SchemaAssumption` state facts
of the tables taken from the code (children and parents agree in the chart; `Cheapest` of a tier lists the models of that tier; every
failover order comes to the echo, which needs no key, and from a provider's second model never to a third of it; references point
to collections placed in earlier rounds). The prover does not unfold such tables; TLC evaluates these facts in every run of `services`.

A theorem may have hypotheses that say which part of the system's behaviours it is about. They are constants of the
modules, and the runs and section 6 show what happens without them:

| Hypothesis | Says | Without it |
|---|---|---|
| `DistinctOwners` | no two containers share a pid | two hold one lock (`SharedOwner`) |
| `Timely` | work ends before its lock expires or its schedule is due again | `sched_again` |
| `Patient` | an approve call begins while no other call is in flight | a stage is done twice (`OneInvocation`) |
| `Cli = {}` | nobody decides over the CLI, which carries no run on | a rejected stage is passed (`GatesHold`) |
| `~MayRaise` | no exception out of an invocation | the run's record stays behind its state |
| `ReportAfterBuild`, `ReportComesLast` | if the plan has a report, it is behind the build; it has one | NO-GO goes on to build (`AfterGate`) |

`Timely`, `Patient`, `Cli = {}` and `~MayRaise` hold in the instances of `coordination` and `run_patient`; `run_races` has none of the last three.

### Locks and workers (`WorkerLoop_proofs`)

* `LockTypeCorrect`: types. `GrantBacked` is the inductive strengthening of
  `OneGrant`: an unexpired grant is backed by the stored entry under the
  caller's own string with the same time left. `OneGrant` alone is not
  inductive: without the stored entry nothing says that the next acquire fails, or that
  a late release leaves the entry alone. The argument for a release needs
  `DistinctOwners`; that is the hypothesis of `GrantsAreBacked`, `MutualExclusion` and
  `LockManagerImplementsLease`, and what containers with equal pids violate.
* `LockManagerImplementsLease` proves the refinement: `Acquire` is `Lease`'s grant,
  `Release`, `Tick` and the crashes take grants away, everything else stutters.
* `WorkerUsesLocks`: each step of the worker loop is a step of the lock manager, so the
  lock's theorems carry over. `NoLockLeaks`: a worker holds exactly the lock of
  the task it works on. `TimelyRunsExclude`: with `DistinctOwners` and `Timely`, no two workers run a
  task at once: locks outlive runs (`LockOutlivesRun`, inductive), so both would hold an
  unexpired grant. `OutcomesAreRecorded` needs that the CLI's retry is not used
  (`"cli" \notin RetryChannels`): its touch can write RUNNING back over an outcome.
* `RunsStayAsked` has no hypothesis: not on the lock, the owners, the length of runs, nor on crashes. The status guard looks
  before the lock is taken, so it cannot say that a finished task is not run again; what remains is that a run costs an
  entry of the list. `AskedInv` is the inductive form: the copies of a task in the list, and the workers that hold one and have not
  begun the run, are together at most `asked`. The entry moves from the list to a worker and is used up by the run, or is lost with either.
  The lemmas count: places of a sequence after `Append` and `Tail`, workers after one of them lets go.

### Workflow runs (`WorkflowRun_proofs`)

* `Typed` is `TypeOK` with the places of calls: a call carries a state of the run exactly while it is inside the graph.
* `PausedRunsHaveRequests` needs no hypothesis. `RequestsOK` says of every state anywhere (the engine's record, each invocation's)
  what the property says of the record alone, for an invocation that ends makes its state the record.
* `NogoIsFinal`: every state with a NO-GO, of the executive or for a call that failed or evidence that is missing, is at the report or beyond (`NogoOK`), also the states that approve calls carry
  (`input`), which is how a run could go back.
* `StagesAreDoneOnce`, `ProjectsTellOutcome`: `PatientInv` says that one call at a time is in the graph or about to enter it
  (`OneAtATime`), and that the state it carries (at rest: the record) agrees with what was done and spent so far (`Carried`): each stage before
  the present one is finished at most once, none after it, and its failures are the run's. `StageDoneOnce` says nothing of a stage to come, so it
  is not inductive alone.
* `StagesKept`: `GateInv` follows a decision from the request to the stage that is passed: a call saves its word on a pending request only,
  the decision a state carries is the recorded one, and a request decided while the run rests is decided by a call that is about to carry the run on.
* `RunImplementsLifecycle` is the refinement of `RunLifecycle`, action by action; the mapped state is that of the one call in
  flight, which `OneAtATime` singles out.

### Scheduler and tasks (`Coordination_proofs`)

* `TimelyClaimsAreKept`, `OccurrencesAreTakenOnce`: `Claims` speaks of the copies workers hold: a claim about to be saved is of an occurrence not yet
  taken (`ClaimOK`, from the lock), a copy on a mission agrees with the schedule but for what the mission itself will write (`SlotOK`),
  and a schedule is in one batch at a time (`OneSlot`). `Timely` enters with the clock: a schedule whose copy is out is not due.
* `CoordinationStaysSound`: a behaviour of `MCCoordination` is one of each of its parts (`CoordinationRunsItsParts`), so the
  properties of schedules and board hold in what the run explores.
* `WorkStaysOnBoard` is an action property. `Offline` says that at most one process is within a call of the service, that two runners have two
  tasks, and what a process that is within a call has read is still so (`ProcOK`).

### Tools and the loop (`AgentTools_proofs`)

* Calls: `CallTypeCorrect` needs `TriesInv`, because the type bounds the
  attempts of a call: each place of `pc` bounds them (0 before the handler, fewer than the tries
  in a pause). `TriesInv` also says that the handlers started under a stop are among the attempts of
  one call, which a new call cannot begin while the stop lasts: `StopIsBounded`.
  `CircuitsInv` strengthens `CircuitTellsStreak`: until a circuit opens its count is the streak, and
  it is half-open only once cooled. Without the latter a caller could be let
  through while the circuit cools, so `OpenCircuitsShield` (`ShieldInv`: nobody has
  seen more openings than there were) rests on it. `ApprovalsHold` is inductive with types; it says that the executor found an approval entry, not who wrote it.
* Runs: `LoopInv` has five parts. `OutcomeInv`: an error leads out of the loop, and only what left
  `verify` is verified (`VerifiedRunsAreClean`, `WaitingRunsStop`). `GuardInv`: before a repair only work is past
  the guard (`StubsDoNotPass`). `ExecutedInv`: a call was executed at most once if it is remembered and no longer
  to be executed, else never; the guard's turn adds one and ends the run (`CallsAreMadeOnce`). `AnswersInv` bounds the
  answers at each place by the stretches behind it, which makes the product in `AnswersBounded` inductive (`RunsAreBounded`).

* Progress: `RunsGetOn` and `CallsOnlyGetOn` say that every step goes down in a well-founded order, so a run or a call is finite without any
  fairness; fairness is only needed for it not to stop halfway. `Ahead` is a run's rank, six numbers compared from the left: the loop and the
  report, repairs left, places of a stretch, rounds left, places of a round, calls of the answer still to be made. Each backward jump of the loop
  pays with a number further left: a reminder or a round of calls with a round, a repair with a repair. That the numbers stay natural is
  `LoopTypeCorrect`; the last is a cardinality, hence the hypothesis `IsFiniteSet(Sigs)` (the calls one model answer can name).
  For a call the rank is the tries left, then the place; steps of others leave it alone. `SixBelow` is the case analysis of the order.
  `NothingGoesBack` is both in the composite.
* `AgentToolsRunTheirParts`, `AgentToolsStaySound`: a behaviour of `MCAgentTools` is one of each part, so the run's invariants hold in it.

`GatesHoldTogether`, `CircuitsAreSound` and `RunsAddUp` put these together into the conjunctions the runs check.

### Services (`Records_proofs`, `Work_proofs`, `Services_proofs`)

`FilesStayAccounted` and `RollbackIsOrderly` rest on two invariants. `LedgerInv` is `Numbered` (each write number is in one
place: one pending call or one entry, and a file's number belongs to a call on that file),
`UndoneRight` (what is pending or active has never been undone, nothing was undone twice) and
`FilesAreAccounted`, which is not inductive alone: that a compensation removes the
file only of its own entry or of older ones needs the numbering. `NewestFirst` is inductive
once jobs are known to list entries that exist (`JobsInLedger`).

Each part has a specification of its own (`InboxSpec`, ...). `ServicesRunTheirParts` shows that a behaviour of `MCServices` is one of each part,
so what is proved of a part holds in the composite (`RecordsDoSurvive` and its like are stated there). One section per part:

| Theorem | Inductive invariant, and why it is needed |
|---|---|
| `SpawnsLeaveNothingBehind` | `SpawnInv`: slots in use are counted by the calls that will give them back, and each call's fields agree with its place (`CallOK`) |
| `StagesTellTheTruth` | `StageInv`: what an attempt's fields say of each other at each place (`AttemptAgrees`), what earlier stages have delivered (`Owed`); task, agent and event are saved one after the other and each may raise, so the story told to the graph is put together over several steps |
| `GatewayStaysTrue` | `McpInv`: failures counted are failures that were (`CircuitIsDue`), and what is cached, or was read by an operation under way, is of the registered version (`AllCurrent`, `OpsHaveRead`) unless a registration came in between |
| `RunsResumeWhereTheyStopped` | `CheckpointInv`: the pointer names what is stored (`PointerOK`); while invocations come one at a time, the one between its two saves writes an id beyond the pointer's (`OneWriter`) |
| `MailStaysHonest` | `InboxInv`: which copies readers and answers hold, and who owes the answer to which message; an action property follows, since a copy saved late must not be older in status |
| `BooksStayHonest` | `SpendingInv`: budgets (`BudgetOK`), what was seen by runs that warn (`SeenOK`) and what writers hold (`WriterOK`) are each covered by what was spent |
| `WorkOutlivesMerges` | `WorktreeInv`: past the commit, a workspace's work is on its branch or thrown away, as long as git does what it is told and the run was over (`CommitIsDone`), so that a merge finds it; a merge that goes on late was given up after its minute (`LateIsKnown`), so one that is left waiting is excused |
| `PostsStayHeard` | `ListenerInv`: an unheard post is still ahead of the time noted or in the batch at hand (`StillAhead`, `BatchOK`), a heard one is behind it (`StaysBehind`), but for the excuses |
| `RecordsStayFair` | `PerfInv`: counters per period against what was told (`WindowOK`), what a tracker holds (`HolderOK`), what its advice rests on (`AdviceIsDue`) |
| `DocumentsStayKept` | `RowsOK`: of every set of rows that refers to nothing outside itself (`Standing`), what a transaction is past is in the table or held by it (`CopyOK`, `HeldOK`), since referred rows come first (`ReferencesFirst`); `Grounded`, a recursive function, gives such a set (`GroundedStands`) |
| `FlakyStallsNobody` | `FailoverInv`: a model that can serve has failed on its provider's account only (`HealthyOK`), and while one provider fails a call is at its first model, at the second of the same provider, or beyond it (`UsedOK`), so three models are enough |
| `TopicsStayKept` | `MemInv`: none of the saves a call has still to make changes what an entry says or replaces, and a new version comes last (`QueueOK`); a call alone has one of four shapes of work left (`AloneSaves`), from each of which one active version remains; there is room for what is coming (`RoomOK`) |
| `PlansStayFramed` | `PlanInv`: the plan, whatever directors have yet to be asked, is what its goal asks for (`Framed`: the understanding first, a report, each stage once); what `Picked` keeps is in the order of the list it is picked from |
| `UnshiftedStayRight` | one step; the loop of the code and the meaning of the diff are at the same line with the same output before and after each hunk (`Agree`), because the old lines counted so far (`OldCount`) say where both read |
| `ChartStaysHonoured`, `OffersPassTheServer`, `OrderStaysImmaterial`, `RoutesStayInBounds` | one step from question to answer: the answer is the code's function of the question, and the lemmas are about that function; the order of policies for lists of any length |

`ServicesKeepTypes` is the type invariant of all parts at once. Some types are not part of the invariants above and have one of their own: the scopes a
run has yet to write to are the last of its list (`ScopesToGo`), the windows of a record likewise (`WindowsToGo`), restarts are counted from
the first (`ListenerCounts`), who makes the tables and who holds the boot lock is a process (`BootTyped`).

**Recursion.** The library's induction theorems cannot be instantiated here. `SetInduction` states induction for a set of numbers
instead of a predicate, and follows from the well-foundedness of `<`; with it `GroundExists` shows that the recursive function of `Documents` is
what its equation says. The same way go `Picked` (`Planner`), `MergedFrom` (`FactMemory`) and the five loops of `FilePatch`, which are instances of one
(`LoopExists`): a loop that gives each step's value from the one before exists, so its `LET` definition satisfies its equation.

### Only model-checked

Liveness under fairness (`DecisionTakesEffect`, `RunSettles`, `EnqueuedFinishes`, `DeadHoldersStallNobody`, `DependentsUnblocked`,
`RunsAndCallsEnd`) and ENABLED are outside what the prover handles. Every invariant and every action property of the passing runs is
stated by a theorem, under the hypotheses in the table above. So are the refinements of `Lease` and `RunLifecycle`.

What the violation runs show stays with TLC: a counterexample is found, not proved.

Type invariants that are proved are not checked by runs again, and neither are `OneGrant`, `LocksMatchPhase` and `WaitingStops`.

## 5. Plan

1. Progress that needs no fairness is stated and proved for runs and tool calls (`NothingGoesInCircles`). The same for the services: saves
   left of a memory call, models untried, entries left of a rollback, attempts at a stage.
2. `StageWork` as the inside of a step of `WorkflowRun`: the refinement between the two, which is so far only read off.
3. Abstract specifications for the ledger (a log that is undone in order) and the inbox (a message has one outcome), with proofs.
4. Not begun: the order in which subscribers see events, skill dependencies, the compaction of transcripts.

## 6. Divergences seen

With a run: `worker_orphan`, `sched_again`, `agent_stub`, `patch_corrupts`, `posts_again`, `inbox_unread` (see `findings` in `PROJECT.json`).

Five promises of docs and comments are stated as properties that the code breaks. No run of the project checks them like this; TLC finds a counterexample of
each in the instance named, with the property in the place of its own:

| Property | Promise | Instance | Counterexample |
|---|---|---|---|
| `FinishedNeverRunsAgain` (`WorkerLoop`) | `engine.py:818-820`: a task "already finished must never run again" | `worker.cfg` | a task is in the queue twice; the second worker reads its status before the first has begun it, takes the lock after the first has finished, and runs it. `RunsAreAsked` is what remains |
| `UnreachableSkipsBuild` (`WorkflowRun`) | `graph.py:48-51`: "if the model is unreachable [...] it stops before build"; README.md:132-135 of the repository | `run_races.cfg` | no model is routed to the executive, or its provider is not there: nobody is asked and the verdict stays GO (`Reply` "absent") |
| `NogoSkipsBuild` (`WorkflowRun`) | `graph.py:257`: "skip the build phase entirely" | `run_races.cfg` with `Plan <- FeaturePlan`, the stages of `workflows/build_feature.yaml`, and no approvals | the plan has no report stage, and NO-GO goes on to the build (`AfterGate`) |
| `OffersAreCallable` (`McpAccess`) | docs/MCP.md:65-68: "Agents are progressively exposed only to tools they may actually use"; `builtin.py:436-437` | `services.cfg` with `Parts = {"access"}` | `mcp.select` hands no permissions to `select_tools` (`builtin.py:443`), so a tool is offered that `mcp.call` refuses |
| `NeverStranded` (`Worktrees`) | docs/WORKSPACES.md:59-62: "when the stage finishes, `integrate()` merges the work back", so that a build "never strands its work" | `services.cfg` with `Parts = {"worktrees"}` | integrated over the API while its run goes on (`api/main.py:495`), a workspace is recorded as merged; the call at the end of the stage is refused (`manager.py:112`) and the work stays in the tree |

Seen in the model, without a run of their own:

* an exception after the outcome was saved (usage, event) has the except clause write FAILED over COMPLETED (`RecordUsage`, `Raise`,
  `RecordFailure`; `engine.py:737-742`, 835-840);
* a second approve resumes a run that the first one is carrying on (`OneInvocation` with `Patient = FALSE`);
* answers of the minimum-work guard, and the last one when rounds run out, are paid for and never recorded as usage
  (`EveryAnswerRecorded`; docs/MODELS.md:40-42 says every call is recorded);
* a call of the guard's turn may be one that was executed already (`TurnCalls`), and a long exception text of its
  model call counts as work (`TurnRaises`);
* a repaired result may be a stub or empty, for the guard is not asked again, and once a call has failed no repair
  can make the result verified (`Passes`), though the model is told to retry it;
* a run out of repairs is reported as done, unverified (`Verify`);
* a run longer than the lock's TTL is joined by a second worker (`Timely = FALSE`, `NoConcurrentRuns`);
* two containers with equal pids share an owner string (`SharedOwner`, `OneGrant`);
* a stage rejected over the CLI is passed by a later API call (`Cli # {}`, `GatesHold`);
* an approval between the announcement of a request and the end of the invocation is
  missed (`Patient = FALSE`, `DecisionTakesEffect`);
* the record a stage's context is read from does not change during an invocation (`entry`);
* missions of one schedule overlap across workers, and the limit is exceeded, when
  missions outlast the interval (`Timely = FALSE`, `NoOverlap`, `RunLimit`);
* a deletion or pause between a claim's read and its save is undone (`EditRead`, `SaveClaim`);
* a skipped launch is recorded as ok (`Skip`);
* with Postgres a deadline pass blocks a task that began to run since it was listed;
* a worker's completion unblocks nobody (`SaveOutcome`), and workers run tasks whose
  dependencies are open (`PickUp`).
* a run interrupted by a restart is not carried on by itself (`Restart`), where README.md:182-185
  of the repository speaks of resuming;
* a half-open circuit lets every caller probe, not one (`Admit`; the comment at
  `tools/executor.py:217-218` says "probe exactly once");
* a decision about a tool request is not what `_tool_approved` looks for, a request that waits hides the entry that is there, and
  the entry may be an agent's own (`Granted`, `Decide`, `SaveApproval`);
* the emergency stop is read once per call, so a vetted call still starts handlers (`late`);
* a file that was overwritten is removed by compensation, not restored, and a compensation
  that refuses counts as rolled back (`Compensate`);
* a write whose result a validator disowned stays and has no entry (`Veto`).

In the services, with the definition that shows it where there is one:

* a model call ends in an error with an available model left, once the next in the fixed order was used (`FailoverExhausts`;
  docs/MODELS.md:32, `agents/runtime.py:690`);
* the first failure after an MCP circuit has cooled does not open it anew, for `setdefault` keeps the old time
  (`AfterMcpFailure`; docstring at `registries/mcp_registry.py:16-19`, docs/MCP.md:55-59), and a discovery that failed is cached as an empty list;
* limits on parallel sub-agents are exceeded by calls that check at once (`WithinLimits`; `engine.py:618-619`);
* the global budget is checked under the project's scope when there is a project (`BeginCheck`; docs/CONFIGURATION.md:55-57, `models/router.py:235-238`);
* a budget's month is never rolled over (`RolledDay`), and a downgrade may name a model without a provider (`Budgeted`);
* a workspace whose git commands fail for reasons of their own is recorded as merged without its work (`MergedIsThere` without `gitBroken`);
* an abort that fails, or a merge that goes on after its minute, leaves a merge waiting in the project, and every later integration ends as
  FAILED until somebody ends it by hand, or one that was past its checkout aborts it (`NobodyLeavesAMerge` without `gitBroken`);
* the copy of a plain directory replaces what another stage put there (`SyncPlain`, `overwritten`);
* with the tables of `db/relational.py` every save of a checkpoint's writes raises (`WritesRaise`);
* a forced model, and a preferred one, is not checked against the tiers of the policy, the forced one not against the budget either (`Routed`, `Prefers`);
* duplicates of equal importance are never merged by consolidate (`MergeOne`; `memory/store.py:413`);
* a director, the parent of its agents, is denied `agent.delegate` like everybody but the executive (`DefaultDenied`;
  docs/SECURITY.md:36 says a child's parent may delegate);
* an exception in `execute_stage_work` leaves the task as it was saved last, RUNNING mostly, and COMPLETED where it comes from the save of
  the agent's status or from the event: then the graph is told "failed" and runs the stage again (`StageRaises`);
* a record of performance for "all" time starts anew each week (`BucketOn`; `performance.py:183-188`, docs/ARCHITECTURE.md:177);
* aggregates of skills cannot be saved, for their collection has no key fields (`db/store.py:41-68`, `performance.py:143`);
* a restriction of scope replaces the decision of a list and hides a request for approval that matches as well (`tools/executor.py:166-183`);
* a document that was deleted comes back with the next start, for its row in the old store stays (`DeletedStaysDeleted`;
  the docstring at `db/relational.py:220-221` calls re-runs harmless);
* the advisory lock is given back before the transaction commits, so a second start may look for the tables before the first
  has committed them, and fail (`BootsDoNotRace`; comment at `db/relational.py:197-201`);
* a post that arrives while its channel's posts are handled is not fetched again if the time noted is later (`overlooked`; `listener.py:59`);
* `@agent stop` is recorded and read by nobody (`is_paused`; docs/MATTERMOST.md:48).

## 7. Not modelled

I/O (HTTP clients, browser, Mattermost's socket, what git and shell commands do inside), prompt and persona
text, scoring of answers, SQL, configuration, the static admin page, the injection scan of MCP tools, ranking and search of
memories. What an agent writes is an outcome. Evaluation, skills' loading and search are sequential
code over text. The order of events at subscribers, and graceful shutdown of the worker loop,
are left out: nothing modelled depends on them.
