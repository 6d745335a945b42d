# TLA+ models of ai-gw

ai-gw is SimCorp's AI gateway: a set of Python services around a LiteLLM proxy,
with Postgres and Redis between them, two Next.js applications in front and
command-line agents at the edge. This directory holds models of the parts whose
correctness depends on the order in which several actors act, the TLC runs that
check them on small instances, and proofs, checked by TLAPS, that hold for every
instance. All source paths below are relative to `src/`.

- [1. Inventory](#1-inventory)
- [2. The modules](#2-the-modules)
- [3. The runs](#3-the-runs)
- [4. The proofs](#4-the-proofs)
- [5. Where the code and its documents disagree](#5-where-the-code-and-its-documents-disagree)
- [6. What is not modelled](#6-what-is-not-modelled)
- [7. The plan](#7-the-plan)

To repeat a run: `tlc -config WorkflowKeys.cfg MCWorkflowRun.tla` (the `.cfg`
and its module are paired in section 3). To repeat a proof:
`tlapm WorkflowOrder_proofs.tla`.

## 1. Inventory

| Component | State it keeps | Operations | Hard behaviour | What makes it correct |
|---|---|---|---|---|
| **Workflow worker** `services/workflow-worker/app/main.py`, `dag.py`, `events.py` | rows of `work_queue`, `run_nodes`, `workflow_runs` in Postgres; coroutines, a semaphore | claim, sweep, run a node, loop, advance the DAG, finish a run | several workers and coroutines; leases shorter than an agent's time limit; crash, SIGTERM; each statement commits on its own | nothing runs ahead of its predecessors, no row is worked on twice, an ended run stays ended, success means complete, every run ends, keys are revoked |
| **Workflow runs API** `services/admin/app/routers/workflows.py`, `api_keys.py` | the same tables, `api_keys`; the plaintext key in Redis | create version, submit, cancel, stream events, rate limit | a cancel races the worker; Redis is written before the commit; an event may precede its subscriber | a cancel is final, a key does not outlive its run, subscribers hear the outcome |
| **Agent runtimes** `services/workflow-worker/app/runtime/` | containers, ACA jobs, a run directory per run and node | run one agent with a time limit | two executions of a node share a directory; stale `outputs.json` | an agent's outcome is its own |
| **Agent relay** `services/agent-relay/app/main.py` | four dictionaries; a token per slug in Redis | register, connect (WebSocket), invoke | old sessions close after new ones opened; disconnects in flight; timeouts; restart | the newest laptop is routed, a call is delivered at most once and always answered, dead tokens are forgotten |
| **aigw-agent** `packages/aigw-agent` | one WebSocket | register, serve, heartbeat | | answers what it was handed |
| **Identity** `services/identity/app/main.py` | `agent_identities`; heartbeat keys in Redis | register, heartbeat, resolve, deregister, seed | check-then-set on the relay's token; TTLs | only live agents resolve |
| **Auth** `services/auth/app` | API keys in Postgres, identities in Redis, the JWKS in process and in Redis | validate a key or an identity token, limit the rate | two caches that outlive a revocation during outages; colliding transactions of the window | an ended key or a retired signing key is accepted for a bounded time only; a window passes no more than its limit |
| **Budgets** `auth/app/router.py`, `observability/app/workers/postgres.py`, `admin/app/routers/budget.py`, `cache/app/router.py` | limits and monthly counters in Redis, limits and spend in Postgres | check, increment, set a limit and re-seed | a re-seed races increments; limits expire; several names for one counter | a counter is the month's spend |
| **Gateway: cache and router** `services/cache/app` | exact and semantic cache, identity fallback, circuit breaker, guardrails in Redis | screen, look up, call the model, store | guardrails edited under a request; cached answers shared between requests | nothing is stored or served that has not been screened, nor served outside its team and project |
| **Signing keys** `services/admin/app/identity_signing.py` | a pair and its id in Redis | make, publish, sign | two makers at once; copies of the key set | a pair and its id belong together |
| **Observability** `services/observability/app` | cost records, session aggregates, counters, alerts | consume events, clean up, webhook, alerts | competing replicas, redelivery, read-modify-write of a session row | a row's score fits its counts; what is flagged as reported was reported |
| **Scanner** `services/scanner/app` | `scan_jobs`; a Redis list; a daily counter | submit, cancel, pop, report, complete | at-most-once queue next to a durable row; cancel against complete | a job ends, a cancelled job stays so, the quota holds |
| **Graphify** `services/graphify/app` | `graph_builds`, `graph_repos`; artefacts on a volume | register, queue, claim, finish, remove | claims without leases; removal under a build | ready means a build of this row succeeded |
| **Librarian** `services/librarian/app` | documents in Postgres, their vectors in Redis, research topics | ingest, research, delete, search | two stores, two steps; the loop and triggers share topics | a row that names a vector has it |
| **Memory** `services/memory/app/main.py` | drawers, graph, diary, tunnels | CRUD, breadth-first walk | an embedding computed outside the transaction; a walk of many queries | a vector belongs to its text; a walk finds each wing at its distance |
| **League** `services/league/app` | submissions, board, points ledger, purchases | submit, score, buy | read-then-insert without locks, minutes apart | the board is the best score; debits are purchases |
| **Champions** `admin/app/routers/champions.py` and its jobs | asks, bookings, upvotes, the league's ledger | claim, resolve, confirm, upvote | asker and nightly job confirm one ask; points posted after the commit | points are paid for work done |
| **Sessions and accounts** `admin/app/routers/unified_auth.py`, `dev_auth.py`, `scim.py`, `local_groups.py`, `admin/scripts` | users, sessions and markers in Redis, invitations, groups | login, logout, reset, suspend, register, provision, bind | sessions stored back by requests in flight; SELECT-then-INSERT on an address | a marker ends older sessions; who is told 201 has the account |
| **Organisation tree** `admin/app/routers/nodes.py` | nodes with stored paths, role assignments, roles in sessions | create, delete, budget, grant | a parent read in another statement; cascades; stale roles | paths are the ancestors; authority stays in its area |
| **MCP** `admin/app/routers/mcp.py`, and the SSE transport of three services | servers, tools, grants; streams of one process | register, ping, toggle; open, post, answer | a slow ping overlaps edits; a stream closes while a tool runs | a tool switched off stays off; answers reach who asked |
| **Start, settings, feeds** `admin/app/main.py` and its routers `settings.py`, `config_api.py`, `workflows.py` | seeds, provider keys, a config version, SSE streams | seed, save and push, notify, stream | two replicas start; a transaction around remote calls; pub/sub keeps nothing | serving means seeded; LiteLLM uses the stored key; a stream never shows the past |
| **Tool-calling agents** `admin/app/routers/devops_agent.py`, `workers/optimization_worker.py` | a round of tool calls on one session or pool | chat, analyse | parallel tools on one session; time limits | no tool outlives its round |
| **Classifier and badges** `admin/app/jobs/agentic_classifier.py` | session types, badges | classify, award | counters move under it; two passes | a badge has its reason |
| **Migrations** `admin/migrations` | the schema | upgrade, downgrade | upgrades from any release, rows written in between | every upgrade ends in one schema, which the services' statements fit |
| **Admin, the rest**, **LiteLLM, UIs, infra, charts, agents** | catalogues, reports, configuration, pages | CRUD | access requests decided twice | |

How they meet: the admin service and the workers share Postgres and Redis and
never call each other, except for `_fire_spawn`. A worker hands a `relay` agent
to the relay with one HTTP request. The relay and the identity service share the
Redis key `relay:agent:{slug}:token`. Auth, cache, observability and admin share
the budget keys in Redis, auth and admin the API keys and the key set, admin and
cache the guardrails. Champions post to the league's ledger. Admin and scanner
both update `scan_jobs`. Everything shares the schema that admin migrates.

`PROJECT.json` lists the hazards of each part at its line, with the properties
that cover them, or why none does yet.

## 2. The modules

| Module | What it is |
|---|---|
| `WorkflowDag` | an accepted workflow version and the pure functions of `dag.py` |
| `WorkQueue` | abstract: an at-least-once queue of leased rows |
| `WorkflowRun` | the engine: admin handlers, claim loop, sweeper, `_handle_job`, faults; implements `WorkQueue` |
| `MCWorkflowRun` | workflow versions and symmetry for TLC |
| `WorkflowRun_proofs`, `WorkflowOrder_proofs`, `WorkflowOutcome_proofs` | its proofs, each module built on the one before: types and the queue; the order of execution and complete success; what happens to a run that has ended, and to its nodes' rows |
| `RemoteCall` | abstract: an at-most-once call through a broker |
| `AgentRelay` | the relay, its laptops and its callers; implements `RemoteCall` |
| `AgentRelay_proofs` | its proofs |
| `KeyAuth`, `Spending`, `ChatCompletion`, `SigningKeys` | the path of a request through auth and gateway |
| `MCGateway` | those four for TLC, one per behaviour |
| 22 modules from `Sessions` to `Achievements` | the services and the parts of the admin service around that path |
| `MCPlatform` | those 22 for TLC, one per behaviour |
| `Gateway_proofs` | proofs about the four components of `MCGateway` |
| `Admin_proofs` | about `Sessions`, `Accounts`, `OrgTree`, `McpRegistry`, `Startup`, `ProviderKeys`, `EventFeeds`, `LocalGroups`, `AgentRegistry`, `Achievements` |
| `Services_proofs` | about `ScanJobs`, `GraphBuilds`, `Champions`, `Librarian`, `EventIngest`, `Alerts`, `ToolAgents`, `McpTransport` |
| `Platform_proofs` | about `League`, `Memory`, `Migrations`, `WorkflowAuthoring`, whose definitions recurse, and about `MCPlatform` as a whole |

### WorkflowRun

**Grain.** asyncio interleaves coroutines at awaits, and asyncpg commits every
statement outside a transaction at once. So one action is one await: a
statement, or a whole transaction. Between two actions every other coroutine,
process or admin request may act, and a process may die.

| In the model | In the code |
|---|---|
| `runs`, `nodes`, `queue`, `nextId`, `scopedKey` | `workflow_runs.status`, `run_nodes.status` by (run, node, iteration), `work_queue` with its sequence, the run's `api_keys` row |
| `redisKey`, `announced` | `workflow:scoped_key:{run}` in Redis (stored, expired or not there); the first `run.finished` published |
| `admin` | where `submit_run` or `cancel_run` is |
| `tasks` | the coroutines `_worker_for(job)` of each process: a program counter and the locals of `_handle_job` |
| `mode` | the process is up, draining after SIGTERM, or down |
| `succeeded` | history: which jobs some execution finalised as succeeded |
| `IssueKey`, `CommitRun` | `submit_run`: `setex` inside the transaction, then its commit |
| `KeyExpires` | the 3660 s of that `setex` end, which a run may outlast (`KeysMayExpire`) |
| `Cancel`, `CancelAnnounce`, `CancelPurge` | `cancel_run`: transaction, publish, delete |
| `Claim`, `Expire`, `Sweep` | `_main` with `_claim_one`; `claim_expires` passes; `_sweeper_loop` |
| `FetchContext` ... `Purge` | `_handle_job`, in its order: context, agent, key, `_mark_node_running` (two statements), the agent, `_finalize_node`, loop or advance, `_enqueue_successor` per edge, `_mark_run_finished` (two statements), publish, `_cleanup_run_key` |
| `JobError`, `Crash`, `Terminate`, `Drained`, `Restart` | a statement raises; the process dies; SIGTERM; the drain ends; `restart: unless-stopped` |

A row's lease is `held` until `Expire` makes it `expired`; time itself is not
modelled. A lease nobody works under may expire whenever it likes. One under a
live job may expire `MaxLate` times in all: that does happen in the code, since
the lease lasts 120 s (`WORKER_CLAIM_TTL_S`) and an agent may take 300 s.

The claim loop looks at `sem.locked()` before the coroutine it has just created
can acquire the semaphore. So a process may claim one job more than its
concurrency, and that job waits with its lease running: `Slot` has
`Concurrency + 1` members in `WorkflowLoop` and `WorkflowKeys`. `WorkflowLive`
has as many slots as its concurrency, so its liveness says nothing of that job.

An agent's outputs are what the worker reads of them: which edge conditions
they satisfy, and `_loop_continue`. An edge may lead to a node the version does
not declare, for `create_workflow_version` accepts that; the job then fails.

Left out: event payloads other than `run.finished`, logging, sanitising of
inputs (`ResolveAgent` and `RunAgent` may fail for any reason), and
`_fire_spawn`, whose request the admin service refuses.

### AgentRelay

One process, so one action is what happens between two awaits. `owner`,
`latest`, `conn` and `future` are `_registered_agents`, `_slug_to_token`,
`_connections` and `_pending`; `redis` is the token key of a slug. Tokens are
numbered in the order they are issued. `Register`/`PersistToken` are `register`,
`Connect`, `Disconnect`, `Reply`, `Unregister`, `Forget` are `connect` and its
`finally` block, `Invoke`, `Send`, `Return`, `GiveUp` are `invoke`, and
`Restart` empties the dictionaries and keeps Redis, where a command that was
under way may still arrive. A session that a restart cuts off runs no `finally`
block: its token stays until the slug is registered again or its hour is over,
which is what `OrphansAreReplaced`, a part of `TokensAreCurrent`, says.

Two constants say what is assumed of the surroundings. `TokenReuse = FALSE`: a
laptop connects once per registration, as `aigw-agent` does. With `TRUE`,
`LatestAgentReachable` is false: the first of two sockets with one token to
close takes the entry of the other. `RedisMayFail = FALSE`: with `TRUE`,
`TokensAreCurrent` is false until the key's TTL of an hour ends.

`CallerView` maps the handler's state to what the workflow worker sees, and
`Handed` to the calls some laptop has got; under this mapping the relay
implements `RemoteCall`.

### The request path

| Module | State | Actions and the code they are |
|---|---|---|
| `KeyAuth` | the rows of API keys, the Redis cache of auth, the process cache of the gateway, the calls | `FetchRow`, `CacheIdentity`, `EvictIdentity`, `ServeCached`, `Authorise` are `ApiKeyValidator`; `Conclude`, `FallBack`, `GatewayRestarts` are `_validate_token`; `AnswerNobody` is an answer whose caller has timed out |
| `Spending` | limits in Postgres and Redis, counters, the PUTs, the rate window | `Watch`, `RateLimit` ... the limiter's WATCH and EXEC; `CheckKey`, `CheckTeam`, `CheckOrg` auth's checks; `Record`, `Count` observability's writes, `Redeliver` an event that Service Bus delivers again; `MonthEnds`, `CounterLost`; `SetBudget`, `PublishLimit`, `SumSpend`, `SeedCounter` the PUT handlers, await by await, in any overlap |
| `ChatCompletion` | guardrails in Postgres and Redis, both caches, the circuit | `LoadRules`, `LookUpExact`, `LookUpSemantic`, `Forward` (whose scan of the answer may miss: `missed`), `FillExact`, `FillSemantic` are `chat_completions`; `EditRule`, `SelectRules`, `PublishRules` the admin's guardrail handlers |
| `SigningKeys` | the two Redis entries, tokens, the key set in process and in Redis | `ReadPem` ... `StoreKid` are `get_or_create_signing_key`; `FetchJwks`, `ServeStale`, `AcceptToken` are auth's `_get_identity_jwks` and its validator |

### The platform

| Module | State | Actions and the code they are |
|---|---|---|
| `Sessions` | one account, its sessions, marker and reset links | `SignIn`, `Logout`, `ReadSession`, `CheckMarker`, `Rewrite` (the handlers that store a session again), `ChangePassword`, `MarkReset`, `MarkSuspended`/`CommitSuspended`/`RollBackSuspended` (SCIM's PATCH) |
| `Accounts` | addresses, invitations, joiners | `register`, `accept_invitation`, the first single sign-on as SELECT then `Insert`; SCIM's `Provision` |
| `OrgTree` | nodes with their paths, of any depth, assignments, the roles in sessions | `LookUpParent`/`InsertNode`, `CheckBudget`/`WriteBudget`, `DeleteNode`, `AddPermission`, `RemovePermission`, `Login` |
| `LocalGroups` | groups, members, bindings, accounts | the admin handlers statement by statement; `Provisioning`, the shell script, as it commits |
| `ScanJobs` | rows, the Redis list, the quota, the worker's tasks | `Allow`, `CountQuota`, `GiveBack`, `InsertJob`, `PushJob`, `PopJob`, `Gather`, `ToolEnds`, `ToolFails`, `ToolTimesOut` (completed with partial results), `CancelJob`, `Restart`, `Midnight` |
| `GraphBuilds` | the repository's row, builds, workers, the volume | `CreateRepo`, `RebuildRepo`, `MarkBuilding`, `ClaimBuild`, `Clone`, `Extract`, `FinishBuild`, `DeleteRepo`, `RemoveTree`, `Die` |
| `League` | submissions, board, ledger, purchases | `DecideSubmission`/`StoreSubmission` around the test suite, `StoreCreativity`, `DecideOrder`/`CompleteOrder` |
| `Champions` | one ask, bookings, one contribution, the ledger | `ClaimAsk`, `ResolveAsk`, `ConfirmAsk`, `AutoConfirm` and the post after each commit (`Grant...`); `ReadUpvote`, `UpvoteOn`, `UpvoteOff` |
| `Librarian` | rows, vectors, topics, tasks | `StoreVector`, `InsertRow`, `StoreFails`, `DeleteRow`, `DeleteVector`, `Poll`, `Trigger`, `MarkResearched`, `LibrarianRestarts`; `LoseVector`, Redis's eviction or restart |
| `Memory` | drawers, graph, diary, tunnels, walks | `Embed` then `AddDrawer` or `UpdateDrawer`; `ReplaceVector`, a client's own embedding; `AddKgEdge`, `InvalidateKgNode`, `Purge`; `WalkStep`, one query of the walk |
| `McpRegistry` | servers, tools, grants, pings | `ReadServer`, `AskServer`, `RecordPing`; edits, `UpdateTool`, grants |
| `McpTransport` | streams of a process, posts | `OpenStream`, `CallTool`, `Relay` or `Broadcast`, `Deliver`, `CloseStream`, `ProcessDies`; the three services differ in whom they answer |
| `Migrations` | the revision, the schema as pairs (table, column or admitted value), the rows that matter to a later revision | `Upgrade`, `Downgrade`, one transaction each; `Write` between them; each revision is a function on schemas |
| `EventIngest` | the bus, consumers, cost records, session rows, counters | `Publish`, `Take`, `Record`, `ReadTrace`, `WriteSession`, `Finish` of a replica; `Receive`, `MarkSessions` (webhook), `FinalizeStale` (cleanup) |
| `Alerts` | rows, flags, checks of both loops | `Detect`, `TakeDay`, `CheckFlag`, `ReportAlert`, `FlagReported`; `LoadBudgets` ... `MarkSent` |
| `ToolAgents` | rounds, tool calls, sessions and pools | `RoundNext`, `ChatStatement`, `WorkerStatement`, `RecordInsight`, `Tune`, `FlushOne` |
| `Startup` | seeds in Postgres and Redis, how far each replica is | the lifespan, one transaction per action; administrators' edits; `Stop` anywhere; `LoseKey` and `RemakeKey`, for the signing key lives 90 days and nothing renews it |
| `AgentRegistry` | rows of agents, heartbeat keys | `VerifyToken`, `RegisterAgent`, `CheckRelayToken`/`Beat`, the three steps of a resolution, the seed |
| `EventFeeds` | a run and its streams; the configuration's version and its streams | `FetchRun`, `MarkNodeRunning` ... the job of a node, from the check for a cancel to the run's end; `ReadStatus`, `SendSnapshot`, `SubscribeRun`, `ForwardEvent`; `BumpVersion`, `ReadBlob`, `WriteBlob`, `PublishVersion` |
| `ProviderKeys` | rows with their lock, the process's environment, what LiteLLM uses | `UpsertKey`, `PatchDeployment` (of those in `litellm_model_names`: `Unlisted` are the others that read the key, as `dall-e-3`), `PatchTimesOut` with `ApplyLate`, `CommitSave`, `CrashReplica`, `RestartLiteLLM` |
| `WorkflowAuthoring` | images, versions, the run counter | `NumberVersion`/`WriteVersion`/`CommitVersion` or `RollbackVersion`, `CountRun`, `PinVersion`, `ReadDag` |
| `Achievements` | sessions, badges, passes | `Classify`, `SelectDeserving`, `CommitAwards`, `LosePass`, while `CountRequest` goes on |

A tick of `KeyAuth` waits for the validations under way: they take seconds and
the shortest lifetime is 45 s, so a validation starts and ends within a tick.

In all of them the grain is that of `WorkflowRun`: an action is what happens
between two awaits, or one transaction. Handlers that are one statement are one
action. Two replicas stand for what the deployment runs: one to two replicas of
a service, and two during a rollout (`infra`). Times are ticks of the lifetimes
they are compared with; a TTL that nothing is compared with ends at any time.

`Spending`, `EventIngest`, `Alerts`, `Champions` and `League` take each
statement as if it fitted the schema. At head some do not, which is the subject
of `Migrations` and of the run `FindRuntimeSchema`; the models say what the
services do on a schema their statements fit.

## 3. The runs

| Run | Instance | Shows |
|---|---|---|
| `WorkflowLoop` | a condition, a shortcut, a loop of two iterations, an undeclared node; 1 worker, concurrency 2, 3 slots; 1 late lease; 2.2M states | `TypeOK`, `PredecessorsFirst`, `ImplementsWorkQueue` |
| `WorkflowKeys` | two nodes in a chain, 2 runs, one of them cancellable; 2 workers, concurrency 1, 2 slots each; 1 fault up to `_finalize_node`; plaintext keys that may expire; 1.5M states | `LeaseExclusive`, `NoDoubleProcessing`, `AnnouncedIsFinal`, `FinishedRunKeyRevoked`, `PlaintextFollowsRun`, `NeverReopened` |
| `WorkflowLive` | a diamond; 1 worker, 2 slots; 1 fault up to `_finalize_node`; Redis commands fail; 130k states | `SuccessIsComplete`, `RunsNeverStrand`, `WorkDrains` |
| `Relay` (module `AgentRelay`) | 1 slug, 3 registrations, 2 sockets, 2 calls, 1 restart; 560k states | `TypeOK`, `LatestAgentReachable`, `TokensAreCurrent`, `ImplementsRemoteCall`, `EveryCallEnds` |
| `Gateway` (module `MCGateway`) | 1 key and 2 validations over 4 ticks; 2 requests, 2 PUTs and 1 redelivery; 2 chats of 2 projects and 1 edit; 2 key pairs over 3 ticks; 2.5M states | `TypeOK`, `RevocationBound`, `SpendingSound`, `AnswersSound`, `RetiredKeyBound` |
| `Platform` (module `MCPlatform`) | two of whatever races (replicas, workers, requests) in each component; 1.5M states | `TypeOK`, 14 invariants and 3 action properties, below |
| `FindCancelOverwritten`, `FindCrashStalls`, `FindPrematureSuccess`, `FindJoinRunsTwice`, `FindRelayDisconnect`, `FindRuntimeSchema` | small instances | the disagreements of section 5, each by a counterexample |

The `Workflow...` runs and the four findings about workflows use module
`MCWorkflowRun`; `Relay` and `FindRelayDisconnect` use `AgentRelay`,
`FindRuntimeSchema` uses `Migrations`.

**What `Gateway` and `Platform` show.** The components share no state in these
models, so a product of their behaviours would say nothing that the behaviours
one by one do not: `slice` picks the component of a behaviour, and the others
stand still. The properties:

| Property | What must not happen, whatever interleaves |
|---|---|
| `RevocationBound` | an ended key is admitted once the lifetimes of the two caches, added up, have passed, whichever outages combine |
| `RetiredKeyBound` | a token is accepted under a key that the admin service stopped serving longer ago than the lifetimes of its copies |
| `SpendingSound` | a counter differs from the month's rows by more than the increments under way, though none was lost and none came between sum and SET of the PUT that seeded it, after redeliveries, overlapping PUTs and a new month; an event is recorded more often than it was delivered; a window passes too many counted requests |
| `AnswersSound` | a text that a rule matches is stored or served though the scan did not miss it, or served to another team or project |
| `MarkerHolds` | while a marker lasts, a request honours a session older than it, though a request in flight stored that session again |
| `JoinedOwnsAccount` | two racing requests for an address are both told 201 |
| `TreeSound` | a stored path is not the chain of ancestors, after creations and cascading deletions overlapped; a role handed on by an area's owner reaches out of the area |
| `ScansSound` | submissions that overlap midnight, restarts and each other exceed the quota; a scan is completed, and not partially, with a tool at work |
| `ReadyWasBuilt` | a repository is ready by the late build of a removed namesake; two workers run one build |
| `LeagueSound` | the board is not the best score stored, in whatever order suites end; points are debited without a purchase |
| `ChampionsSound` | a champion whose claim no longer stands is paid; upvotes are counted that nobody gave |
| `KeyedItemHasVector` | a crash, a failure or a deletion between the two stores leaves a row whose vector was never stored or has been deleted (Redis itself may lose one) |
| `MemorySound` | a drawer has the vector of another text, though no client sent one of its own; a walk of many queries reports a wrong distance |
| `ToolStaysOff` | a slow ping switches a tool on that an administrator switched off |
| `AnswerReachesAsker` | a stream carries an answer of somebody else, one twice, or misses one that was accepted |
| `MigrationsConverge` | a database installed with an old release, with rows in it, upgrades to another schema than an empty one |
| `QualityIsCurrent` | two replicas, a redelivery or the cleanup loop leave a session's score at odds with its counts |
| `FlaggedIsReported` | a spike is held back as reported that was not |
| `NoToolOutlivesItsRound` | a tool cut off by its time limit writes after the answer |
| `SettingsHold` | a replica serves without its seeds; a deployment the provider's list covers ends up with another key than the one stored, though no push failed and LiteLLM did not restart |
| `NeverBackwards` | a stream shows an event older than its snapshot |

No behaviour of these two runs needs fairness, for all their properties are
safety. `EventFeeds` states it for `EveryStreamEnds` (`FeedsSpec`: the worker,
the cancellation and an open stream go on, for asyncio resumes what is
runnable), which is refuted; see section 5.

Their bounds: two of the actors that race and one of what they race for, so that
each read-then-write has an intruder; one crash, restart, midnight or outage,
at any point; two when the second matters (a counter of failures that opens a
circuit, two eras of a signing key). Where a component may start in several
ways, it does so in its own slice only. `Releases` is every revision there
is: a database may have been installed with any of the 36. `Budgets = {1}`, `Items = {i1}` and `MaxAlerts = 1` keep the run
small; the larger values belong to statements that are refuted (section 5).

**Why these bounds.** A late lease needs one row with two workers, which one
`MaxLate` gives; a second one repeats the situation on the row's next claim.
Races between workers need two of them, races between runs two runs, and the
order of two sessions of a slug three registrations, so that an old one, the
current one and one whose Redis command is still under way coexist. The diamond
is the smallest DAG with a fork and a join; the loop's DAG adds a join reached
by a condition and directly. Two iterations are the first loop that can be
exceeded by one. `QId` is large enough that no row is ever refused. What the
bounds cannot settle, any number of nodes, runs, workers, faults and late
leases, is what the proofs are for.

**What the passing runs leave out on purpose.** In `WorkflowKeys` and
`WorkflowLive` a fault strikes only up to the commit of `_finalize_node`
(`FaultPoints`): after it the properties are false, and `FindCrashStalls` shows
how. `NoDoubleProcessing` is checked without joins (see `FindJoinRunsTwice`) and
without late leases, under which it is false too, as a 120 s lease under a 300 s
agent suggests; the theorem about it has the same two hypotheses. `SuccessIsComplete` is checked on a DAG whose paths join, and
proved for all of those; `FindPrematureSuccess` is one that does not.
`WorkDrains` (`EveryRunEnds` and `QueueDrains`) and `RunsNeverStrand`, its safety
part, are checked on a version without conditions: with a condition that never
holds, a run may stop with nothing left to do. `AnnouncedIsFinal` and
`PlaintextFollowsRun` are checked with a Redis that answers. `PlaintextFollowsRun`
excepts the runs one of whose claims has run out (`Retried`), whose key the
sweeper deletes; that a key's 3660 s may end before its run does is in the model
and in the property, which speaks of deletions. The bus of `Spending` delivers an
event again only after the first handler has stopped; a lock lost under a handler
that still runs is left out.

**Fairness.** `FairSpec` assumes weak fairness of: every job coroutine and relay
handler (asyncio resumes what is runnable, and an agent or an invocation is cut
off after 300 s); the claim loop and the sweeper of a process that is up (both
are endless loops that catch their errors); the drain and restart of a process
(`restart: unless-stopped` in `infra/docker-compose.yml`); the lease of a row
nobody works on (time passes); a cancel that has committed. It does not assume
that anybody submits, cancels, registers, connects or answers, nor that a fault
strikes or a live job loses its lease. Faults are bounded, since a system whose
every attempt crashes never finishes.

Deadlock is not checked: a system in which all runs have ended, or nobody calls
any more, may stop.

## 4. The proofs

The theorems hold for every value of the constants: any DAG that
`create_workflow_version` accepts, any sets of runs, workers, slots, rows, keys,
calls, users, nodes, documents and so on, any bound. The modules' named
assumptions (`DagAssumption`, `RunAssumption`, `RelayAssumption`, `NamesAreFree`,
and one `...Assumption` per component) say only this: parameters have their
types; names that stand for nothing (`NoDoc`, `NoSlug`, `Nobody`, ...) name
nothing; lifetimes are positive, and the copy of the key set lives at least as
long as the cache it is copied from; sets whose members are counted or walked
are finite; sets from which the first step draws are not empty. TLC evaluates
each of them on the instance of its run. Beyond these a theorem has the
hypotheses stated with it and no others.

**The workflow engine**

| Theorem | States | Hypothesis | Argument |
|---|---|---|---|
| `TypeCorrect` | `Spec => []TypeOK` | | with `LoopsBounded`: a coroutine at `loop` has an iteration below the last |
| `LeaseIsExclusive` | `[]LeaseExclusive` | | `QueueInv`: a coroutine works under its row's present claim (`attempts` as a fencing number the code does not have), so a row that is free or expired has no coroutine while `late = 0` |
| `EngineImplementsWorkQueue` | `Spec => Q!Spec` | | rows at or above the sequence are unused, and a coroutine's row has been claimed, so each step on `queue` is one of the abstract queue's |
| `NothingRunsAhead` | `[]PredecessorsFirst` | | `Order`: a node recorded as succeeded did succeed (history only grows), so what `Advance` read remains a valid reason after it is stale |
| `JoinedSuccessIsComplete` | `[]SuccessIsComplete` | `AllPathsJoin`: every declared node lies on a path to every declared terminal node | `Grounded` walks back from the terminal node: a node has a row only if its predecessors have succeeded; the set of succeeded nodes is closed backwards, so it contains every declared node |
| `EndedRunsStayEnded` | `NeverReopened` | | `Known`: rows belong to committed runs, so only `CommitRun` of an absent run and the guarded `Started` could reopen one |
| `KeysAreRevoked` | `[]FinishedRunKeyRevoked` | no fault at `revoke` | the invariant is inductive with `Known` |
| `PlaintextIsPurged` | `[]PlaintextPurged` | `~RedisMayFail`; no fault at `revoke`, `announce`, `purge` | an ended run has its key in Redis only while a coroutine, or a cancellation, is between ending it and deleting the key |
| `PlaintextIsKept` | `[]PlaintextKept`: until its 3660 s end, nobody deletes the key of a run that goes on, stale claims aside | `~RedisMayFail` | `KeyCare`: whoever deletes a run's key has seen the run end, the sweeper aside; rows count their claims, so a row the sweeper found stale says so ever after |
| `PlaintextFollowsTheRun` | `[]PlaintextFollowsRun` | those of the two before | the two before |
| `NodesRunAlone` | `[]NoDoubleProcessing` | `MaxLate = 0`; no two edges into one node and none into the entry (`IsTree`), or no two out of one (`IsChain`) | in a tree `Handed`: once an edge has been followed, nothing of the node it leaves is in the table, and no coroutine will follow it again, so a node has one live row (`OneRow`); in a chain a run has one live row (`OneAtATime`) |
| `AnnouncementsAreFinal` | `[]AnnouncedIsFinal` | `IsChain`; `MaxLate = 0`; `~RedisMayFail`; no fault at `revoke`, `announce` | `Told`: with one live row per run, nothing is left of a run whose verdict is published but a coroutine about to delete its key |
| `VerdictsStand` | only a cancelled run's status is overwritten | `IsChain`; `MaxLate = 0` | `Ended`: when a worker ends a run, its own coroutine is the last of it (`OneAtATime`), and nothing of the run is in the table |
| `OutcomesAreFinal` | `OutcomeFinal` | `IsChain`; `MaxLate = 0`; `Cancellable = {}` | the same, and no run is cancelled |
| `NoRunIsStranded` | `[]RunsNeverStrand` | `MaxLate = 0`; `Unconditional`; `Acyclic`; no fault at `loop`, `advance`, `enqueue`, `finishRun` | `Tracked` and `ReadyFollowed`, below |

Every hypothesis in this table and the next is needed: without it TLC finds a
counterexample. `PredecessorsFirst` needs none: it survives every fault, late
lease, double execution and stale read.

`RunsNeverStrand` is the part of `EveryRunEnds` that fairness does not give: a run
that goes on always has a row in the queue or a coroutine that has not enqueued
yet what follows. It is far from inductive. `Tracked` says that what has started
is still represented: a coroutine without a result has its row, a node that is
pending or running has one, and a failed node a coroutine about to fail the run.
`ReadyFollowed` says that nothing is lost between two jobs: a node whose
predecessors have all succeeded, and which has no row, has somebody heading for
it, though each of the jobs before a join looks at the DAG without a lock. When
the last coroutine of a run then leaves (`OthersRemain`), take among the declared
nodes that have not succeeded one without such a predecessor, which `Acyclic`
provides; it is the entry, or tracked, or awaited, so the run has somebody else
or its terminal node is reached and the coroutine ends it. The five ways to
strand a run (a condition that is false, a cycle, an edge from an undeclared
node, a late lease, a fault after the commit) each refute it under TLC.

**The relay**

| Theorem | States | Hypothesis | Argument |
|---|---|---|---|
| `RelayTypeCorrect` | `[]TypeOK` | | inductive as it stands |
| `LatestLaptopIsRouted` | `[]LatestAgentReachable` | `~TokenReuse` | `Issued` and `Routes`: a slug's entry is its newest token or none, and one session per token, so the guarded removal in `finally` only ever removes its own |
| `EndedTokensAreForgotten` | `[]TokensAreCurrent` | `~RedisMayFail` | a token is written before its laptop hears of it, so never after its session has ended; one that a restart orphaned is overwritten by the write that each later registration of the slug awaits before it answers |
| `RelayImplementsRemoteCall` | `Spec => R!Spec` | | `HandedOnce`: a future is resolved only for a call that was handed to a laptop, and a call not yet sent was handed to nobody |

**The request path** (no hypotheses; each with the types of its component)

| Theorem | States | Argument |
|---|---|---|
| `RevocationIsBounded` | `RevocationBound` | `RevocationInv`: an entry expires at most its lifetime from the tick of what it was copied from, so what is left of an ended key is dated by the tick at which it ended; a validation rests on such an entry or on a row that was live |
| `RetiredKeysAreBounded` | `RetiredKeyBound` | `CopiesAreDated`: each copy of the key set is dated by the answer of the admin service it came from, the stale one included |
| `SpendingIsSound` | `SpendingSound` | `SeedsAreExact`: a PUT whose sum is still current will write exactly what the counter must be, whichever other PUTs write it meanwhile; `PassedAreCounted`: the counter of the window is at least what passed, for EXEC fails when anybody wrote since WATCH |
| `AnswersAreSound` | `AnswersSound` | `StoresAreScreened`: a stored answer went through the scan with the rules its request had loaded, and is foul only if none was on outputs or the scan missed; a request on its way to a cache carries such an answer |
| `GatewayTypeCorrect` | `TypeOK` of `MCGateway` | from those four |

**The admin service** (no hypotheses; each with the types of its component)

| Theorem | States | Argument |
|---|---|---|
| `SessionsTypeCorrect`, `MarkersHold` | types; `MarkerHolds` | `DatedAtLogin`: a copy of a session, wherever a request in flight carries it, keeps the date of the login it stems from; the marker is that of the latest era |
| `JoinedAccountsAreOwned` | `JoinedOwnsAccount` | `JoinedIsThere`: who is past its INSERT has the row, which the uniqueness of the address refuses everybody else |
| `TreeIsSound` | `TreeSound`, for trees of any depth | `PathsChain` speaks of rows that are gone too; `CreationsFit`: the path `create_node` read is still the parent's; `RolesContained`: a role that lasts in a session stays inside the area, whatever was withdrawn since |
| `MembersHaveGroups` | types of `LocalGroups`: a member has group and account | inductive as it stands: a deletion takes the memberships along in its transaction, and the script commits account, group and membership together |
| `McpTypeCorrect`, `ToolsStayOff` | types; `ToolStaysOff` | a ping only adds tools that are absent and switches none on |
| `ServingIsSeeded` | `ServingMeansSeeded` | `SeededWhole`: the seed of the guardrails is one transaction, so all of it is there, less what was deleted, once any of it is; a start makes or finds the signing key before it serves |
| `ServedKeysAreStored` | `ServedKeyIsStored` | `HoldsItsRow`: from its upsert to its commit a save holds the row's lock, so LiteLLM has the stored key wherever nobody holds it, and the holder's wherever the holder has pushed, in the deployments the list names (`Listed`) and while LiteLLM does not restart |
| `StreamsNeverGoBack` | `NeverBackwards` | `InOrder`: nothing in an inbox precedes what its stream has shown, and no start waits behind a finish |
| `AgentsAreListedOnce` | types of `AgentRegistry`: an answer has no agent twice | each ranking appends only what the answer does not list yet (`RankedListsOnce`) |
| `BadgesAreEarned` | types of `Achievements`: a badge has a session that earns it | `DueIsEarned`: sessions are never deleted or retyped, so what a pass selected remains earned when it commits |

**The services around** (no hypotheses; each with the types of its component)

| Theorem | States | Argument |
|---|---|---|
| `ScansAreSound` | `ScansSound` | `CountersHold`: a day's counter lies between the submissions it must still hold and all that ever counted themselves on it, and those admitted are within the limit; `JobsInOrder`: a job is pushed once and `garak` starts after its last tool; only a failure and a timeout are reported before it |
| `ReadyRepositoriesWereBuilt` | `ReadyWasBuilt` | `BuildsHaveRows` and `WorkersHaveBuilds`: a build belongs to a row that was registered and goes with it, row identifiers are never used again, and a worker at work holds a claimed build of the row it remembers |
| `ChampionsAreSound` | `ChampionsSound` | `AskBelongs`: once claimed an ask keeps its champion, and whoever still grants points for it grants them to him |
| `NamedVectorsExist` | `KeyedItemHasVector` | `InsertsOwn` and `ErasesDeleted`: an insert under way has a document of its own, whose vector was stored; a delete under way has one whose row is gone |
| `ScoresStayCurrent` | `QualityIsCurrent` | `RowsAreScored`: whoever writes counts writes their score in the same statement; the two formulas part only for a row of several turns without timing, which no writer leaves |
| `FlaggedSpikesWereReported` | `FlaggedIsReported` | `PostedIsWritten`: a check between its row and its flag has the row |
| `ToolsEndWithTheirRound` | `NoToolOutlivesItsRound` | `CallsOfTheRound` and `ConnectionsCounted`: a worker holds as many connections as it has calls running, and calls run in mid-round only |
| `AnswersReachTheirAskers` | `AnswerReachesAsker` | `StreamsCarryTheirs`: in the services that bind a session to its key, what waits in a stream was asked by the stream's key, each once |

**The platform**

| Theorem | States | Argument |
|---|---|---|
| `LeagueIsSound` | `LeagueSound` | the debits are a sum over a set of orders; the sum of a set with one element more is the sum plus that element's price, in whichever order the fold picks them (`LeagueInv`) |
| `MemoryIsSound` | `MemorySound` | the distance of a wing is a recursion over the depth; the walk has found after k queries exactly the wings within k, each at its distance (`WalksSound`), while nobody changes a tunnel |
| `SchemaIsWhole` | types of `Migrations`: a column has its table, a row only admitted values | every revision keeps this, so a run of them does |
| `UpgradesAlwaysConverge`, `ReleasesConverge` | `UpgradesConverge` of `Migrations`; `MigrationsConverge` | `Possible`: at each revision the schema is that of a fresh installation, or (1 to 9) that without `team_members.user_id`, or (26 to 28) that which stepping back over 0029 leaves; each revision up or down leads from a possible schema to one and is accepted, and 0010 and 0029 even the differences out |
| `HeadNeverServesTheCode` | at 0036 nothing of `Lacking` is in the schema | the only possible schema at head is the fresh one, and what a revision `Brings` decides which names it can hold |
| `VersionsAreReachable` | types of `WorkflowAuthoring`: a version's entry is its node and reaches all its nodes | `NumberedIsValid`: between number and commit the DAG is the one that was validated |
| `PlatformTypeCorrect`, `SettingsAreSound`, `PlatformIsSound` | `TypeOK`, `SettingsHold` of `MCPlatform`, and all the safety properties of the run `Platform` together | a behaviour of the platform is, in the variables of each component, a behaviour of it |

**Recursion.** Definitions that recurse over data (the sum of a fold, a distance,
a run of migrations, the nodes a DAG reaches) are recursive functions or folds.
No rule of induction is at hand for them, since one takes an operator as its
parameter. Instead a proof assumes a counterexample and takes the least one:
`LeastNumber` and `CountingUp` of `Platform_proofs` state this with a set in
place of the predicate, from the well-foundedness of `<` on the naturals, and
`Iterates` that a recursion over numbers defines a function. Elsewhere
reachability is stated with closed sets (`ClosedUnderEdges`,
`ClosedBackwards`), which needs no induction.

**Only model-checked.** The liveness properties `WorkDrains` and `EveryCallEnds`:
fairness and ENABLED are out of the prover's reach. Every invariant and action
property of the passing runs is stated by a theorem above.

## 5. Where the code and its documents disagree

1. **A cancelled run may end as succeeded or failed.** `_mark_run_finished`
   (`main.py:232`) has no guard on the status, and a job checks for a cancel
   only at its start. `FindCancelOverwritten`. In a chain no other status is ever
   overwritten (`VerdictsStand`), and without a cancel none (`OutcomesAreFinal`);
   in a fork two branches may overwrite each other's.
2. **A crash may stall a run for ever.** `_finalize_node` deletes the queue row
   before the successors are enqueued; no row is left to reclaim.
   `FindCrashStalls`. Between other steps a fault strands nobody
   (`NoRunIsStranded`).
3. **Success may be premature.** The `all_done` test looks only at nodes that
   already have a row. `FindPrematureSuccess`.
4. **A join may run twice at once.** Both of its predecessors may enqueue it;
   `work_queue` has no uniqueness. `FindJoinRunsTwice`.
5. **A disconnect is not reported.** Nothing fails the futures of a lost socket;
   the caller waits 300 s for a 504 where the documents promise 503.
   `FindRelayDisconnect`.

6. **The schema at head does not fit the services.** Statements still name
   `teams`, `developers` and columns that 0025 removed, and a CHECK admits role
   names that are no longer used. `FindRuntimeSchema`; `HeadNeverServesTheCode`
   says it of every database at head, whatever its history.

These have no run of their own. Add the property to `Gateway.cfg` or
`Platform.cfg` and TLC refutes it:

| Property | The document says | The code |
|---|---|---|
| `FallsBackOn5xx` (Gateway) | on a 5xx of auth the gateway uses its own cache | only an exception falls back; a 503 refuses and evicts |
| `RateLimitEnforced` (Gateway) | each request is counted | of two colliding transactions one fails and passes uncounted |
| `LimitStaysWarm` (Gateway) | limits stay in Redis while the admin service runs | 300 s after a PUT no limit is checked |
| `ScreenedBeforeServed` (Gateway) | `block` alone is fail-closed | an exception of the scan serves the text, and it reads 100000 characters |
| `RulesStayInForce` (Gateway) | guardrails are checked on every request | the key lives 300 s; only an edit or a start writes it |
| `PassthroughEnforces` (Gateway) | the passthrough applies the same controls | rules on outputs are not evaluated |
| `ResetEndsSessions` | a reset logs all sessions out | the marker ends before the sessions do |
| `LoggedOutStaysOut` | a logout invalidates the session | a request in flight stores it again |
| `DeprovisionSuspends`, `DeprovisionedStaysOut` | SCIM's PATCH deprovisions | the statement after the marker fails and rolls back; a second spelling is a second account |
| `BudgetsNest` (`Budgets = {1, 2}`) | a child's budget fits its parent's | lowering the parent compares nothing |
| `BindingsHaveGroup`, `NotSilentlyReactivated` | no binding outlives its group; no silent reactivation | the script commits between a handler's statements; it writes what it read |
| `CancelHolds` | the worker observes a cancel | it completes the scan |
| `AttemptsWithinLimit`, `HiddenWhileActive` | three attempts; scores hidden until the close | counted before a suite of minutes; a reopened challenge stays revealed |
| `BalanceNotNegative` (`Items = {i1, i2}`) | 402 without the points | two purchases read one balance |
| `AskPaidOnce` | 200 points on confirmation | asker and job both post them |
| `TurnsMatchTokens` | consumers compete safely | two replicas overwrite each other's turns |
| `AbandonedForGood` | definitively abandoned | the webhook claims the session again |
| `OneAlertPerDay` (`MaxAlerts = 2`) | one alert per node and day | two replicas look before either flags |
| `NoneInTheWay` | tools run in parallel | they share one session and refuse each other |
| `OneRoot` | the bootstrap is idempotent | two replicas make two roots |
| `EveryReaderIsPatched` | every model that reads the variable is patched | `dall-e-3` is not in the list |
| `EveryStreamEnds` (`SPECIFICATION FeedsSpec` of `EventFeeds`) | a stream ends with `run.finished` | a run that ends between snapshot and subscription leaves it open |
| `BlobIsCurrent` | safe to call concurrently | only the INCR is |
| `ConsistentIsConsecutive` | five consecutive days | five days within a longer span suffice |

`PROJECT.json` quotes each line under `findings`. Three more statements that the
models refute are no promises of a document: `RevokedLetsNobodyIn` (an
invitation revoked while it is being accepted), `ReadyIsItsOwnGraph` with
`BuildingHasBuild` (a build that outlives its repository leaves its graph under
the name; a dead worker leaves it building), and `ToolsOfAddress`.
`PairMatchesKid` of `SigningKeys` holds for one maker and not for two.

Met while modelling, without a run of their own: after a late lease two workers
execute one node; the sweeper deletes the plaintext key a retried job needs (the
exception `Retried` of `PlaintextKept`, and the only deletion); a run that takes
longer than 3660 s, in the queue or at work, goes on without its plaintext key; an
event that Service Bus delivers again is recorded and charged again; a
worker lost between the two statements of `_mark_run_finished` leaves a valid
key; a join may be enqueued while a predecessor still loops; the `run_nodes` of
a cancelled run stay pending; `aigw-agent` ignores the relay's messages, which
carry no `type`, and sends no `X-Relay-Secret`; the multi-instance routing over
Redis of `docs/SYSTEM_REFERENCE.md:1968` is not in the code.

## 6. What is not modelled

- **Data without a protocol**: what searches rank, reports, forecasts, adoption
  figures, skills, prompts, portraits and plugins, the scoring formula, model
  choice and embeddings, findings of scans, answers of graph queries. They are
  single statements or pass-through; a model would restate them.
- **Access requests**: two reviewers may both decide one request. It belongs to
  the plan.
- **Migrations of some values**: `developers.status`, which 0010 copies without a
  CHECK into `users.status` with one, and the UNIQUE constraints of 0010
  (146-151) and 0025 (143-147), which rows that no service writes could contradict.
- **Agents' run directories**: two executions of a node share one. To the engine
  an agent's outcome is chosen freely, so the model contains what this does to
  the run, but says nothing of the files.
- **Across components**: a plaintext key left in Redis when `submit_run` rolls
  back after `issue_scoped_key`; a scan job lost between its commit, push and
  pop; the identity heartbeat between reading the relay's token and writing its
  own key; the gateway's budget check under a key nobody writes. The steps are
  in the models; no property claims what the code does not promise.
- **League** seasons, proposals and equipment; **champions'** content and routing;
  the **weekly digest**, which reads a table no migration creates; **Entra**
  tokens, whose keys are a third party's; the older login router `auth.py`, whose
  table is migrated away.
- **LiteLLM, the user interfaces, infrastructure, charts, example agents**:
  configuration, pages and third-party code.

The components' notes in `PROJECT.json` say for each part what is left out.

## 7. The plan

Done: the workflow engine first, because it is the one place where several
processes share durable state and promise an outcome; then the relay, which the
engine calls; then the request path, and the components around it.

| Next | What |
|---|---|
| abstraction | a cache whose copies are dated by their source, of which `KeyAuth` and `SigningKeys` are two instances: each would be shown to implement it |
| conditional statements | what section 5 refutes, under the hypothesis that would make it true, as `OutcomesAreFinal` does for the first: `AskPaidOnce` with one confirming party, `OneRoot` with one replica, `BudgetsNest` without lowering a parent |
| access requests | two reviewers, a grant per decision |
| liveness | `EventFeeds` with a subscription before the snapshot would satisfy `EveryStreamEnds`; `ScanJobs` and `GraphBuilds` promise an end only without crashes |
