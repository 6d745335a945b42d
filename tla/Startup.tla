------------------------------ MODULE Startup ------------------------------
(***************************************************************************)
(* The lifespan of the admin service: what a replica writes into Postgres  *)
(* and Redis before it serves, while another replica may be starting or    *)
(* serving and an administrator edits what was seeded.  Each seeding is    *)
(* one transaction; a replica may stop before any step.                    *)
(***************************************************************************)
EXTENDS Integers, FiniteSets

CONSTANTS
    Instances,   \* replicas of the admin service
    SeedRules,   \* _GUARDRAIL_SEED
    SeedModels,  \* models_to_seed
    SeedServers, \* _mcp_seeds
    MaxStarts,   \* bound: starts of a replica
    MaxEdits     \* bound: what administrators change

ASSUME StartupAssumption == MaxStarts \in Nat /\ MaxEdits \in Nat

VARIABLES
    progress,   \* how far each replica has come
    starts,     \* how often each has started
    rules,      \* guardrails of the organisation that exist
    models,     \* model_registry: absent, enabled or disabled
    servers,    \* mcp_servers
    signingKey, \* the identity signing key of Redis: not made, stored, lost
    roots,      \* how many organisation nodes have no parent
    edits,
    removed     \* ghost: seeded rules an administrator has deleted since

startupVars == <<progress, starts, rules, models, servers, signingKey, roots, edits,
                 removed>>

Stages == {"down", "guardrails", "counted", "models", "key", "root", "rootless",
           "servers", "serving"}
Entries == {"absent", "enabled", "disabled"}

StartupTypeOK ==
    /\ progress \in [Instances -> Stages]
    /\ starts \in [Instances -> 0..MaxStarts]
    /\ rules \subseteq SeedRules
    /\ models \in [SeedModels -> Entries]
    /\ servers \in [SeedServers -> Entries]
    /\ signingKey \in {"none", "stored", "lost"}
    /\ roots \in Nat
    /\ edits \in 0..MaxEdits
    /\ removed \subseteq SeedRules

StartupInit ==
    /\ progress = [r \in Instances |-> "down"]
    /\ starts = [r \in Instances |-> 0]
    /\ rules = {}
    /\ models = [m \in SeedModels |-> "absent"]
    /\ servers = [s \in SeedServers |-> "absent"]
    /\ signingKey = "none"
    /\ roots = 0
    /\ edits = 0
    /\ removed = {}

To(r, s) == progress' = [progress EXCEPT ![r] = s]
\* ON CONFLICT DO NOTHING
Filled(table) == [x \in DOMAIN table |->
                    IF table[x] = "absent" THEN "enabled" ELSE table[x]]

Boot(r) ==
    /\ progress[r] = "down" /\ starts[r] < MaxStarts
    /\ starts' = [starts EXCEPT ![r] = @ + 1]
    /\ To(r, "guardrails")
    /\ UNCHANGED <<rules, models, servers, signingKey, roots, edits, removed>>

\* SELECT COUNT(*): the seed goes in only where there is no rule
CountRules(r) ==
    /\ progress[r] = "guardrails"
    /\ To(r, IF rules = {} THEN "counted" ELSE "models")
    /\ UNCHANGED <<starts, rules, models, servers, signingKey, roots, edits, removed>>

\* a SeedGuardrails that commits rule by rule
SeedGuardrailsOneByOne(r) ==
    /\ progress[r] = "counted"
    /\ \E g \in SeedRules \ rules :
         /\ rules' = rules \cup {g}
         /\ removed' = removed \ {g}
         /\ To(r, IF rules' = SeedRules THEN "models" ELSE "counted")
    /\ UNCHANGED <<starts, models, servers, signingKey, roots, edits>>

\* every rule of the seed, in one transaction; a name that exists is left alone
SeedGuardrails(r) ==
    /\ progress[r] = "counted"
    /\ rules' = SeedRules
    /\ removed' = {}
    /\ To(r, "models")
    /\ UNCHANGED <<starts, models, servers, signingKey, roots, edits>>

SeedRegistry(r) ==
    /\ progress[r] = "models"
    /\ models' = Filled(models)
    /\ To(r, "key")
    /\ UNCHANGED <<starts, rules, servers, signingKey, roots, edits, removed>>

\* get_or_create_signing_key; an error here ends the start
MakeKey(r) ==
    /\ progress[r] = "key"
    /\ signingKey' = "stored"
    /\ To(r, "root")
    /\ UNCHANGED <<starts, rules, models, servers, roots, edits, removed>>

\* ensure_root_node: SELECT ...
FindRoot(r) ==
    /\ progress[r] = "root"
    /\ To(r, IF roots = 0 THEN "rootless" ELSE "servers")
    /\ UNCHANGED <<starts, rules, models, servers, signingKey, roots, edits, removed>>

\* ... and INSERT; its errors are only logged
MakeRoot(r) ==
    /\ progress[r] = "rootless"
    /\ roots' \in {roots, roots + 1}
    /\ To(r, "servers")
    /\ UNCHANGED <<starts, rules, models, servers, signingKey, edits, removed>>

\* the gateway's own MCP servers, best effort; then the catalog's loop, the
\* optimisation worker and the scheduler are started
SeedMcpServers(r) ==
    /\ progress[r] = "servers"
    /\ servers' \in {servers, Filled(servers)}
    /\ To(r, "serving")
    /\ UNCHANGED <<starts, rules, models, signingKey, roots, edits, removed>>

\* a crash, a failed step or a new revision
Stop(r) ==
    /\ progress[r] # "down"
    /\ To(r, "down")
    /\ UNCHANGED <<starts, rules, models, servers, signingKey, roots, edits, removed>>

Served == \E r \in Instances : progress[r] = "serving"

\* the 90 days that setex gave it are over, or Redis evicts it; nothing renews it
LoseKey ==
    /\ signingKey = "stored"
    /\ signingKey' = "lost"
    /\ UNCHANGED <<progress, starts, rules, models, servers, roots, edits, removed>>

\* any request for it goes through get_or_create_signing_key again
RemakeKey ==
    /\ Served
    /\ signingKey = "lost"
    /\ signingKey' = "stored"
    /\ UNCHANGED <<progress, starts, rules, models, servers, roots, edits, removed>>

-----------------------------------------------------------------------------
(* An administrator, through any replica that serves.                        *)

Edit == Served /\ edits < MaxEdits /\ edits' = edits + 1

DeleteRule(g) ==
    /\ Edit
    /\ g \in rules
    /\ rules' = rules \ {g}
    /\ removed' = removed \cup {g}
    /\ UNCHANGED <<progress, starts, models, servers, signingKey, roots>>

\* PATCH, DELETE and POST of /models
ChangeModel(m) ==
    /\ Edit
    /\ \E to \in Entries : models[m] # to /\ models' = [models EXCEPT ![m] = to]
    /\ UNCHANGED <<progress, starts, rules, servers, signingKey, roots, removed>>

ChangeServer(s) ==
    /\ Edit
    /\ \E to \in Entries : servers[s] # to /\ servers' = [servers EXCEPT ![s] = to]
    /\ UNCHANGED <<progress, starts, rules, models, signingKey, roots, removed>>

-----------------------------------------------------------------------------
StartupNext ==
    \/ \E r \in Instances :
         \/ Boot(r) \/ CountRules(r) \/ SeedGuardrails(r) \/ SeedRegistry(r)
         \/ MakeKey(r) \/ FindRoot(r) \/ MakeRoot(r) \/ SeedMcpServers(r) \/ Stop(r)
    \/ LoseKey \/ RemakeKey
    \/ \E g \in SeedRules : DeleteRule(g)
    \/ \E m \in SeedModels : ChangeModel(m)
    \/ \E s \in SeedServers : ChangeServer(s)

StartupSpec == StartupInit /\ [][StartupNext]_startupVars

-----------------------------------------------------------------------------
(* A replica that serves has every default guardrail that no administrator   *)
(* has deleted since it was seeded: no crash in the middle of a start leaves *)
(* a part of the seed that later starts take for the whole.  A signing key   *)
(* has been made before it serves; if there is none, Redis has dropped it.   *)
ServingMeansSeeded ==
    Served => signingKey # "none" /\ rules = SeedRules \ removed

\* the root is created only if it is missing
OneRoot == roots <= 1
=============================================================================
